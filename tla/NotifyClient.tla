---------------------------- MODULE NotifyClient ---------------------------
(***************************************************************************)
(* notify.Client: Record reads closed under the mutex but enqueues after   *)
(* releasing it, and Close closes the channel after releasing it.          *)
(***************************************************************************)
EXTENDS BatchPipeline

CONSTANT Recorders  \* goroutines that call Record

VARIABLES recorder,  \* the item each Record holds after its check, or 0
          panicked   \* a goroutine sent on the closed channel

vars == <<closed, queue, queueClosed, batch, batches, dispatcher, worker, sent,
          dropped, recorded, closer, transport, recorder, panicked>>

\* Record up to the mutex's release.
RecordCheck(r) ==
  /\ recorder[r] = 0
  /\ recorded < MaxItems
  /\ recorded' = recorded + 1
  /\ IF closed
     THEN drop(<<recorded'>>, "client_closed") /\ UNCHANGED recorder
     ELSE recorder' = [recorder EXCEPT ![r] = recorded'] /\ UNCHANGED dropped
  /\ UNCHANGED <<closed, queue, queueClosed, batch, batches, dispatcher, worker,
                 sent, closer, transport, panicked>>

\* Record's select: a send on the closed channel panics.
RecordSend(r) ==
  /\ recorder[r] # 0
  /\ IF queueClosed
     THEN panicked' = TRUE /\ UNCHANGED <<queue, dropped, recorder>>
     ELSE /\ IF Len(queue) < BufferSize
             THEN queue' = Append(queue, recorder[r]) /\ UNCHANGED dropped
             ELSE drop(<<recorder[r]>>, "buffer_full") /\ UNCHANGED queue
          /\ recorder' = [recorder EXCEPT ![r] = 0]
          /\ UNCHANGED panicked
  /\ UNCHANGED <<closed, queueClosed, batch, batches, dispatcher, worker, sent,
                 recorded, closer, transport>>

\* Close's critical section; a later call goes straight to Transport.Close.
CloseStart(k) ==
  /\ closer[k] = "idle"
  /\ IF closed
     THEN /\ closer' = [closer EXCEPT ![k] = "returned"]
          /\ transport' = "closed"
          /\ UNCHANGED closed
     ELSE /\ closed' = TRUE
          /\ closer' = [closer EXCEPT ![k] = "closing"]
          /\ UNCHANGED transport
  /\ UNCHANGED <<pipeline, queueClosed, recorded, recorder, panicked>>

\* close(c.notifications)
CloseQueue(k) ==
  /\ closer[k] = "closing"
  /\ queueClosed' = TRUE
  /\ closer' = [closer EXCEPT ![k] = "waiting"]
  /\ UNCHANGED <<pipeline, closed, recorded, transport, recorder, panicked>>

\* Mutated: the transport is closed without waiting for the workers.
CloseWithoutWait(k) ==
  /\ closer[k] = "waiting"
  /\ closer' = [closer EXCEPT ![k] = "returned"]
  /\ transport' = "closed"
  /\ UNCHANGED <<pipeline, closed, queueClosed, recorded, recorder, panicked>>

CloseEnd(k) ==
  /\ closer[k] = "waiting"
  /\ Drained
  /\ closer' = [closer EXCEPT ![k] = "returned"]
  /\ transport' = "closed"
  /\ UNCHANGED <<pipeline, closed, queueClosed, recorded, recorder, panicked>>

Init ==
  /\ PipelineInit
  /\ recorder = [r \in Recorders |-> 0]
  /\ panicked = FALSE

\* A panic ends the process.
Next ==
  /\ ~panicked
  /\ \/ \E r \in Recorders : RecordCheck(r) \/ RecordSend(r)
     \/ \E k \in Closers : CloseStart(k) \/ CloseQueue(k) \/ CloseEnd(k)
     \/ PipelineStep /\ UNCHANGED <<recorder, panicked>>

Spec == Init /\ [][Next]_vars

-----------------------------------------------------------------------------
\* Type invariant: channels respect their capacities, and every Record and
\* Close is at one of its steps.
TypeOK ==
  /\ closed \in BOOLEAN /\ queueClosed \in BOOLEAN /\ panicked \in BOOLEAN
  /\ queue \in Seq(Items) /\ Len(queue) <= BufferSize
  /\ batch \in Seq(Items) /\ Len(batch) <= MaxBatch
  /\ batches \in Seq(Seq(Items)) /\ Len(batches) <= outCap
  /\ dispatcher \in {"running", "done"}
  /\ worker \in [Workers -> [pc : {"idle", "sending", "done"}, batch : Seq(Items)]]
  /\ sent \subseteq Items
  /\ dropped \subseteq Items \X Reasons
  /\ recorded \in 0..MaxItems
  /\ recorder \in [Recorders -> 0..MaxItems]
  /\ closer \in [Closers -> {"idle", "closing", "waiting", "returned"}]
  /\ transport \in {"open", "closed"}

\* Record, flush and workerLoop: every notification is held by its Record call,
\* is in exactly one place of the pipeline, was sent, or was handed to the
\* fallback with a reason.
Conserved ==
  \A i \in 1..recorded :
    Cardinality(Places(i)) + Cardinality({r \in Recorders : recorder[r] = i}) = 1

\* Close ("flushes queued notifications, stops workers, and closes the
\* transport"): when Close is called once, the transport is closed after
\* everything that was queued left the pipeline.  A second call does not wait.
TransportClosedLast ==
  transport = "closed" =>
    Drained /\ queue = <<>> /\ batch = <<>> /\ batches = <<>>

\* Record ("enqueues a notification copy and returns immediately"): no call of
\* Record panics, whenever Close runs.
NoPanic == ~panicked
=============================================================================
