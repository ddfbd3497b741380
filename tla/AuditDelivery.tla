--------------------------- MODULE AuditDelivery ---------------------------
(***************************************************************************)
(* What the transactional audit outbox promises, without its mechanism:    *)
(* an event whose business transaction committed stays pending until the   *)
(* ingest service has accepted that very event, and is accepted            *)
(* eventually.  Nothing is said about leases, retries or clocks, and an    *)
(* event may be accepted more than once.                                   *)
(***************************************************************************)
CONSTANT Events,        \* the (identity, content) pairs a service can emit
         Undeliverable  \* events no ingest can ever accept

VARIABLES committed,  \* events of committed business transactions
          pending,    \* events the outbox still has to deliver
          accepted    \* events the ingest has accepted at least once

vars == <<committed, pending, accepted>>

Init ==
  /\ committed = {}
  /\ pending = {}
  /\ accepted = {}

\* A business transaction commits together with its event.
Commit(e) ==
  /\ committed' = committed \cup {e}
  /\ pending' = pending \cup {e}
  /\ UNCHANGED accepted

Accept(e) ==
  /\ e \in pending \ Undeliverable
  /\ accepted' = accepted \cup {e}
  /\ UNCHANGED <<committed, pending>>

\* Only an accepted event may leave the outbox.
Remove(e) ==
  /\ e \in pending \cap accepted
  /\ pending' = pending \ {e}
  /\ UNCHANGED <<committed, accepted>>

Next == \E e \in Events : Commit(e) \/ Accept(e) \/ Remove(e)

Fairness == \A e \in Events : WF_vars(Accept(e)) /\ WF_vars(Remove(e))

Spec == Init /\ [][Next]_vars
LiveSpec == Spec /\ Fairness
=============================================================================
