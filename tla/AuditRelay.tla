----------------------------- MODULE AuditRelay -----------------------------
(***************************************************************************)
(* PGOutbox.StartRouterRelay: the worker it starts, the function it        *)
(* returns, which several goroutines of a service may call, and the        *)
(* database the service closes after it.                                   *)
(***************************************************************************)
EXTENDS Naturals, FiniteSets

CONSTANTS Stoppers

VARIABLES start,       \* "new", "failed" or "started"
          stop,        \* the function returned: "nil" or "func"
          once,        \* of sync.Once: "unused", "running" or "done"
          pc,          \* of each goroutine that stops the relay
          cancelled, worker, transport, registered, database,
          crashed      \* ghost: a nil function was called

vars == <<start, stop, once, pc, cancelled, worker, transport, registered, database, crashed>>

Init ==
  /\ start = "new" /\ stop = "nil" /\ once = "unused"
  /\ pc = [s \in Stoppers |-> "running"]
  /\ cancelled = FALSE /\ worker = "none" /\ transport = "none"
  /\ registered = FALSE /\ database = "open" /\ crashed = FALSE

\* No transport, or a collector that is registered already.
StartFails ==
  /\ start = "new" /\ start' = "failed"
  /\ transport' \in {"none", "closed"}
  /\ UNCHANGED <<stop, once, pc, cancelled, worker, registered, database, crashed>>

StartRouterRelay ==
  /\ start = "new" /\ start' = "started" /\ stop' = "func"
  /\ transport' = "open" /\ worker' = "idle"
  /\ registered' \in BOOLEAN   \* a nil registry
  /\ UNCHANGED <<once, pc, cancelled, database, crashed>>

\* Run: a delivery through the transport, or the end of it.
Deliver ==
  /\ worker = "idle" /\ ~cancelled
  /\ worker' = "sending"
  /\ UNCHANGED <<start, stop, once, pc, cancelled, transport, registered, database, crashed>>

Settle ==
  /\ worker = "sending"
  /\ worker' = "idle"
  /\ UNCHANGED <<start, stop, once, pc, cancelled, transport, registered, database, crashed>>

\* The worker ends with its context, the relay's or the service's.
WorkerEnds ==
  /\ worker = "idle"
  /\ worker' = "ended"
  /\ cancelled
  /\ UNCHANGED <<start, stop, once, pc, cancelled, transport, registered, database, crashed>>

ServiceContextEnds ==
  /\ start = "started" /\ ~cancelled
  /\ cancelled' = TRUE
  /\ UNCHANGED <<start, stop, once, pc, worker, transport, registered, database, crashed>>

\* A goroutine calls what StartRouterRelay returned: the first one runs it,
\* the others wait for it.
Stop(s) ==
  /\ pc[s] = "running" /\ start # "new"
  /\ IF stop = "nil" THEN crashed' = TRUE /\ pc' = [pc EXCEPT ![s] = "stopped"] /\ UNCHANGED <<once, cancelled>>
     ELSE /\ once' = IF once = "unused" THEN "running" ELSE once
          /\ cancelled' = TRUE
          /\ pc' = [pc EXCEPT ![s] = IF once = "unused" THEN "joining" ELSE "waiting"]
          /\ UNCHANGED crashed
  /\ UNCHANGED <<start, stop, worker, transport, registered, database>>

\* The first one waits for the worker, then closes and unregisters.
Join(s) ==
  /\ pc[s] = "joining" /\ worker = "ended"
  /\ transport' = "closed" /\ registered' = FALSE /\ once' = "done"
  /\ pc' = [pc EXCEPT ![s] = "stopped"]
  /\ UNCHANGED <<start, stop, cancelled, worker, database, crashed>>

Waited(s) ==
  /\ pc[s] = "waiting" /\ once = "done"
  /\ pc' = [pc EXCEPT ![s] = "stopped"]
  /\ UNCHANGED <<start, stop, once, cancelled, worker, transport, registered, database, crashed>>

\* The service closes its database when its stop has returned.
CloseDatabase ==
  /\ database = "open" /\ \E s \in Stoppers : pc[s] = "stopped"
  /\ database' = "closed"
  /\ UNCHANGED <<start, stop, once, pc, cancelled, worker, transport, registered, crashed>>

Next ==
  \/ StartFails \/ StartRouterRelay \/ Deliver \/ Settle \/ WorkerEnds
  \/ ServiceContextEnds \/ CloseDatabase
  \/ \E s \in Stoppers : Stop(s) \/ Join(s) \/ Waited(s)

Spec == Init /\ [][Next]_vars

\* Deliveries end with their timeouts; the worker sees its context.
FairSpec == Spec /\ WF_vars(Settle) /\ WF_vars(WorkerEnds)
                 /\ \A s \in Stoppers : WF_vars(Join(s)) /\ WF_vars(Waited(s))

-----------------------------------------------------------------------------
TypeOK ==
  /\ transport = "open" => start = "started"
  /\ start = "failed" => ~registered /\ worker = "none"
  /\ Cardinality({s \in Stoppers : pc[s] = "joining"}) <= 1

\* "stops/joins the worker before the producer closes its DB": the worker
\* never runs on a closed database or a closed transport, whichever of the
\* goroutines that stop the relay returns first.
WorkerHasAll == worker \in {"idle", "sending"} => database = "open" /\ transport = "open"

\* A stop that has returned leaves nothing behind.
StoppedClean ==
  \A s \in Stoppers : pc[s] = "stopped" /\ start = "started" => transport = "closed" /\ ~registered

\* Every stop returns.
StopReturns == \A s \in Stoppers : (pc[s] \in {"joining", "waiting"}) ~> (pc[s] = "stopped")
=============================================================================
