---------------------------- MODULE AuditClient ----------------------------
(* audit.Client: Record and Close serialise on the client's mutex. *)
EXTENDS BatchPipeline

vars == <<closed, queue, queueClosed, batch, batches, dispatcher, worker, sent,
          dropped, recorded, closer, transport>>

\* Record with an event that PrepareEvent accepts, one critical section.
Record ==
  /\ recorded < MaxItems
  /\ recorded' = recorded + 1
  /\ IF closed
     THEN drop(<<recorded'>>, "client_closed") /\ UNCHANGED queue
     ELSE IF Len(queue) < BufferSize
          THEN queue' = Append(queue, recorded') /\ UNCHANGED dropped
          ELSE drop(<<recorded'>>, "buffer_full") /\ UNCHANGED queue
  /\ UNCHANGED <<closed, queueClosed, batch, batches, dispatcher, worker, sent,
                 closer, transport>>

\* Mutated: Close does not close the queue.
CloseStartKeepingQueue(k) ==
  /\ closer[k] = "idle"
  /\ IF closed
     THEN /\ closer' = [closer EXCEPT ![k] = "returned"]
          /\ transport' = "closed"
          /\ UNCHANGED closed
     ELSE /\ closed' = TRUE
          /\ closer' = [closer EXCEPT ![k] = "waiting"]
          /\ UNCHANGED transport
  /\ UNCHANGED <<pipeline, queueClosed, recorded>>

\* Close up to c.wg.Wait(); a later call goes straight to Transport.Close.
CloseStart(k) ==
  /\ closer[k] = "idle"
  /\ IF closed
     THEN /\ closer' = [closer EXCEPT ![k] = "returned"]
          /\ transport' = "closed"
          /\ UNCHANGED <<closed, queueClosed>>
     ELSE /\ closed' = TRUE
          /\ queueClosed' = TRUE
          /\ closer' = [closer EXCEPT ![k] = "waiting"]
          /\ UNCHANGED transport
  /\ UNCHANGED <<pipeline, recorded>>

\* Mutated: the transport is closed without waiting for the workers.
CloseWithoutWait(k) ==
  /\ closer[k] = "waiting"
  /\ closer' = [closer EXCEPT ![k] = "returned"]
  /\ transport' = "closed"
  /\ UNCHANGED <<pipeline, closed, queueClosed, recorded>>

CloseEnd(k) ==
  /\ closer[k] = "waiting"
  /\ Drained
  /\ closer' = [closer EXCEPT ![k] = "returned"]
  /\ transport' = "closed"
  /\ UNCHANGED <<pipeline, closed, queueClosed, recorded>>

Next ==
  \/ Record
  \/ \E k \in Closers : CloseStart(k) \/ CloseEnd(k)
  \/ PipelineStep

Spec == PipelineInit /\ [][Next]_vars

FairSpec ==
  /\ Spec
  /\ WF_vars(dispatchLoop /\ PipelineStep)
  /\ \A w \in Workers : WF_vars(workerLoop(w) /\ PipelineStep)
  /\ \A k \in Closers : WF_vars(CloseEnd(k))

-----------------------------------------------------------------------------
\* Type invariant: the channels respect their capacities and the dispatcher
\* and the workers are where their loops can be.
TypeOK ==
  /\ closed \in BOOLEAN /\ queueClosed \in BOOLEAN
  /\ queue \in Seq(Items) /\ Len(queue) <= BufferSize
  /\ batch \in Seq(Items) /\ Len(batch) <= MaxBatch
  /\ batches \in Seq(Seq(Items)) /\ Len(batches) <= outCap
  /\ dispatcher \in {"running", "done"}
  /\ worker \in [Workers -> [pc : {"idle", "sending", "done"}, batch : Seq(Items)]]
  /\ sent \subseteq Items
  /\ dropped \subseteq Items \X Reasons
  /\ recorded \in 0..MaxItems
  /\ closer \in [Closers -> {"idle", "waiting", "returned"}]
  /\ transport \in {"open", "closed"}

\* Record, flush and workerLoop: every recorded event is in exactly one place
\* of the pipeline, or was sent, or was handed to the fallback with a reason.
\* None vanishes and none is sent twice, whatever the interleaving with Close.
Conserved == \A i \in 1..recorded : Cardinality(Places(i)) = 1

\* The pipeline of Record, dispatcher and workers, within the type invariant.
PipelineSound == TypeOK /\ Conserved

\* Close ("flushes queued events, stops workers, and closes the transport"):
\* when Close is called once, the transport is closed only after the dispatcher
\* and every worker have stopped and nothing is left to send.  It holds for one
\* closer only: a second call finds "closed" set and closes the transport while
\* the first still waits for the pipeline.
TransportClosedLast ==
  transport = "closed" =>
    Drained /\ queue = <<>> /\ batch = <<>> /\ batches = <<>>

\* Close terminates: the dispatcher drains the closed queue and the workers
\* drain the closed channel of batches.
CloseReturns ==
  \A k \in Closers : closer[k] = "waiting" ~> closer[k] = "returned"

\* dispatchLoop's timer and the workers: every recorded event is sent or handed
\* to the fallback, without waiting for more events or for Close.
AllSettle == \A i \in Items : i <= recorded ~> Settled(i)
=============================================================================
