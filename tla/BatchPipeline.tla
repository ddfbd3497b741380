--------------------------- MODULE BatchPipeline ---------------------------
(***************************************************************************)
(* The batching pipeline behind audit.Client and notify.Client: a bounded  *)
(* queue, one dispatcher that groups its items, a bounded channel of       *)
(* batches, and workers that send them.  Both clients run this code; they  *)
(* differ in how Record and Close use the queue.  Items are numbered in    *)
(* the order in which Record is called.                                    *)
(***************************************************************************)
EXTENDS Integers, Sequences, FiniteSets, Functions

CONSTANTS Workers,     \* worker goroutines
          BufferSize,  \* capacity of the queue
          MaxBatch,    \* defaultClientMaxBatch
          Closers,     \* callers of Close
          MaxItems     \* bound: calls of Record

ASSUME PipelineConstants ==
  /\ BufferSize \in Nat \ {0}
  /\ MaxBatch \in Nat \ {0}
  /\ MaxItems \in Nat
  /\ IsFiniteSet(Workers) /\ Workers # {}

VARIABLES closed,       \* Client.closed
          queue,        \* buffered items of events / notifications
          queueClosed,  \* close(c.events) happened
          batch,        \* dispatchLoop's pending batch
          batches,      \* buffered batches
          dispatcher,   \* "running" or "done" (batches is closed)
          worker,       \* workerLoop's progress and batch in each worker
          sent,         \* items of a Send that succeeded
          dropped,      \* <<item, reason>>: items handed to the fallback, if it is on
          recorded,     \* number of items Record has taken
          closer,       \* progress of each call of Close
          transport     \* "open" or "closed"

pipeline == <<queue, batch, batches, dispatcher, worker, sent, dropped>>

Items == 1..MaxItems
Idle == [pc |-> "idle", batch |-> <<>>]
Done == [pc |-> "done", batch |-> <<>>]
Reasons == {"client_closed", "buffer_full", "batch_channel_full", "transport"}

outCap ==
  LET n == 4 * Cardinality(Workers) IN IF n < 4 THEN 4 ELSE n

\* logFallback and logFallbackErr for every item of a batch.
drop(b, why) == dropped' = dropped \cup (Range(b) \X {why})

-----------------------------------------------------------------------------
(* dispatchLoop *)

\* Mutated: the batch is not emptied when it is handed over.
flushTwice(b) ==
  /\ IF Len(batches) < outCap
     THEN batches' = Append(batches, b) /\ batch' = b /\ UNCHANGED dropped
     ELSE drop(b, "batch_channel_full") /\ batch' = <<>> /\ UNCHANGED batches

\* flush of the non-empty batch b: a full channel of batches loses it to the log.
flush(b) ==
  /\ batch' = <<>>
  /\ IF Len(batches) < outCap
     THEN batches' = Append(batches, b) /\ UNCHANGED dropped
     ELSE drop(b, "batch_channel_full") /\ UNCHANGED batches

\* An item arrives; a full batch is flushed at once.
Receive ==
  /\ dispatcher = "running"
  /\ queue # <<>>
  /\ queue' = Tail(queue)
  /\ LET b == Append(batch, Head(queue))
     IN  IF batch # <<>> /\ Len(b) >= MaxBatch
         THEN flush(b)
         ELSE batch' = b /\ UNCHANGED <<batches, dropped>>
  /\ UNCHANGED <<dispatcher, worker, sent>>

\* Mutated: the timer is not armed by the first item of a batch.
TimerFlushUnarmed ==
  /\ dispatcher = "running"
  /\ batch # <<>>
  /\ queueClosed
  /\ flush(batch)
  /\ UNCHANGED <<queue, dispatcher, worker, sent>>

\* The flush timer is armed exactly while the batch is not empty.
TimerFlush ==
  /\ dispatcher = "running"
  /\ batch # <<>>
  /\ flush(batch)
  /\ UNCHANGED <<queue, dispatcher, worker, sent>>

\* The queue is closed and drained: flush, close(batches), wg.Done.
DispatchExit ==
  /\ dispatcher = "running"
  /\ queueClosed
  /\ queue = <<>>
  /\ dispatcher' = "done"
  /\ IF batch = <<>> THEN UNCHANGED <<batch, batches, dropped>> ELSE flush(batch)
  /\ UNCHANGED <<queue, worker, sent>>

-----------------------------------------------------------------------------
(* workerLoop *)

Take(w) ==
  /\ worker[w] = Idle
  /\ batches # <<>>
  /\ worker' = [worker EXCEPT ![w] = [pc |-> "sending", batch |-> Head(batches)]]
  /\ batches' = Tail(batches)
  /\ UNCHANGED <<queue, batch, dispatcher, sent, dropped>>

\* Transport.Send returns within its deadline, with or without an error.
SendOK(w) ==
  /\ worker[w].pc = "sending"
  /\ sent' = sent \cup Range(worker[w].batch)
  /\ worker' = [worker EXCEPT ![w] = Idle]
  /\ UNCHANGED <<queue, batch, batches, dispatcher, dropped>>

SendFails(w) ==
  /\ worker[w].pc = "sending"
  /\ drop(worker[w].batch, "transport")
  /\ worker' = [worker EXCEPT ![w] = Idle]
  /\ UNCHANGED <<queue, batch, batches, dispatcher, sent>>

WorkerExit(w) ==
  /\ worker[w] = Idle
  /\ batches = <<>>
  /\ dispatcher = "done"
  /\ worker' = [worker EXCEPT ![w] = Done]
  /\ UNCHANGED <<queue, batch, batches, dispatcher, sent, dropped>>

-----------------------------------------------------------------------------
dispatchLoop == Receive \/ TimerFlush \/ DispatchExit

workerLoop(w) == Take(w) \/ SendOK(w) \/ SendFails(w) \/ WorkerExit(w)

PipelineStep ==
  /\ dispatchLoop \/ \E w \in Workers : workerLoop(w)
  /\ UNCHANGED <<closed, queueClosed, recorded, closer, transport>>

\* c.wg.Wait() returns.
Drained == dispatcher = "done" /\ \A w \in Workers : worker[w] = Done

PipelineInit ==
  /\ closed = FALSE
  /\ queue = <<>>
  /\ queueClosed = FALSE
  /\ batch = <<>>
  /\ batches = <<>>
  /\ dispatcher = "running"
  /\ worker = [w \in Workers |-> Idle]
  /\ sent = {}
  /\ dropped = {}
  /\ recorded = 0
  /\ closer = [k \in Closers |-> "idle"]
  /\ transport = "open"


-----------------------------------------------------------------------------
(* What both clients promise *)

\* The places an item can be in; a duplicate would be in two.
Places(i) ==
  UNION {
    {<<"queue", k>> : k \in {n \in DOMAIN queue : queue[n] = i}},
    {<<"batch", k>> : k \in {n \in DOMAIN batch : batch[n] = i}},
    {<<"batches", k>> : k \in {n \in DOMAIN batches : i \in Range(batches[n])}},
    {<<"worker", w>> : w \in {v \in Workers : i \in Range(worker[v].batch)}},
    {<<"sent", 0>> : k \in {i} \cap sent},
    {<<"dropped", r>> : r \in {q \in Reasons : <<i, q>> \in dropped}}}

Settled(i) == i \in sent \/ \E r \in Reasons : <<i, r>> \in dropped
=============================================================================
