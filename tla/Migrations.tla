----------------------------- MODULE Migrations -----------------------------
(***************************************************************************)
(* pgutil.RunMigrations, started by several instances of a service at      *)
(* once.  An instance may die at any step, a statement may fail, and the   *)
(* acknowledgement of a commit may be lost.                                *)
(***************************************************************************)
EXTENDS Naturals, FiniteSets, TLC

CONSTANTS Instances,
          Last,       \* the migrations are 1..Last, in this order
          MaxFaults

VARIABLES pc, at,     \* of each instance: its step and its migration
          tx,         \* its transaction: what it has done and not committed
          table,      \* the tracking table exists
          recorded,   \* names in the table
          effects,    \* ghost: how often each migration has been committed
          faults

vars == <<pc, at, tx, table, recorded, effects, faults>>

InTx == {"up", "record", "commit"}

ASSUME MigrationConstants == Last \in Nat \ {0} /\ MaxFaults \in Nat

Init ==
  /\ pc = [p \in Instances |-> "create"]
  /\ at = [p \in Instances |-> 1]
  /\ tx = [p \in Instances |-> {}]
  /\ table = FALSE /\ recorded = {} /\ faults = 0
  /\ effects = [m \in 1..Last |-> 0]

Goto(p, next) == pc' = [pc EXCEPT ![p] = next]

CreateTable(p) ==
  /\ pc[p] = "create"
  /\ table' = TRUE
  /\ Goto(p, "check")
  /\ UNCHANGED <<at, tx, recorded, effects, faults>>

\* The next migration, or the end with nil.
Advance(p) ==
  IF at[p] = Last THEN Goto(p, "done") /\ UNCHANGED at
  ELSE Goto(p, "check") /\ at' = [at EXCEPT ![p] = @ + 1]

\* SELECT EXISTS, outside of any transaction.
Check(p) ==
  /\ pc[p] = "check" /\ table
  /\ IF at[p] \in recorded THEN Advance(p) ELSE Goto(p, "begin") /\ UNCHANGED at
  /\ UNCHANGED <<tx, table, recorded, effects, faults>>

Begin(p) ==
  /\ pc[p] = "begin"
  /\ tx' = [tx EXCEPT ![p] = {"begun"}]
  /\ Goto(p, "up")
  /\ UNCHANGED <<at, table, recorded, effects, faults>>

Up(p) ==
  /\ pc[p] = "up"
  /\ tx' = [tx EXCEPT ![p] = @ \cup {"up"}]
  /\ Goto(p, "record")
  /\ UNCHANGED <<at, table, recorded, effects, faults>>

\* Mutated: the error path leaves the transaction open.
LeaveOpen(p) == tx' = tx /\ Goto(p, "error")

Rollback(p) == tx' = [tx EXCEPT ![p] = {}] /\ Goto(p, "error")

\* Mutated: INSERT ... ON CONFLICT DO NOTHING.
RecordIfAbsent(p) ==
  /\ pc[p] = "record"
  /\ \A q \in Instances \ {p} : ~("name" \in tx[q] /\ at[q] = at[p])
  /\ tx' = [tx EXCEPT ![p] = @ \cup {"name"}] /\ Goto(p, "commit")
  /\ UNCHANGED <<at, table, recorded, effects, faults>>

\* INSERT of the name, a primary key: it waits for another transaction that
\* has inserted the same one, and fails if the name is there.
Record(p) ==
  /\ pc[p] = "record"
  /\ \A q \in Instances \ {p} : ~("name" \in tx[q] /\ at[q] = at[p])
  /\ IF at[p] \in recorded THEN Rollback(p)
     ELSE tx' = [tx EXCEPT ![p] = @ \cup {"name"}] /\ Goto(p, "commit")
  /\ UNCHANGED <<at, table, recorded, effects, faults>>

Committed(p) ==
  /\ recorded' = IF "name" \in tx[p] THEN recorded \cup {at[p]} ELSE recorded
  /\ effects' = IF "up" \in tx[p] THEN [effects EXCEPT ![at[p]] = @ + 1] ELSE effects
  /\ tx' = [tx EXCEPT ![p] = {}]

Commit(p) ==
  /\ pc[p] = "commit"
  /\ Committed(p)
  /\ Advance(p)
  /\ UNCHANGED <<table, faults>>

-----------------------------------------------------------------------------
Fault == faults < MaxFaults /\ faults' = faults + 1

\* A statement fails: the function returns, after a rollback if it is in a
\* transaction.  A failed COMMIT has rolled back.
StatementFails(p) ==
  /\ pc[p] \in {"create", "check", "begin"} \cup InTx
  /\ Fault /\ Rollback(p)
  /\ UNCHANGED <<at, table, recorded, effects>>

\* The database commits and the connection breaks before it says so.
AckLost(p) ==
  /\ pc[p] = "commit"
  /\ Fault /\ Committed(p) /\ Goto(p, "error")
  /\ UNCHANGED <<at, table>>

\* The process dies; the database rolls its transaction back.
Crash(p) ==
  /\ pc[p] # "error"
  /\ Fault /\ Rollback(p)
  /\ UNCHANGED <<at, table, recorded, effects>>

\* The service is started again after an error.
Restart(p) ==
  /\ pc[p] = "error"
  /\ Goto(p, "create") /\ at' = [at EXCEPT ![p] = 1]
  /\ UNCHANGED <<tx, table, recorded, effects, faults>>

Step(p) == CreateTable(p) \/ Check(p) \/ Begin(p) \/ Up(p) \/ Record(p) \/ Commit(p)

Next ==
  \E p \in Instances : Step(p) \/ StatementFails(p) \/ AckLost(p) \/ Crash(p) \/ Restart(p)

Spec == Init /\ [][Next]_vars

\* Statements end, and an instance that failed is started again.
FairSpec == Spec /\ \A p \in Instances : WF_vars(Step(p) \/ Restart(p))

-----------------------------------------------------------------------------
TypeOK ==
  /\ recorded \subseteq 1..Last /\ faults \in 0..MaxFaults
  /\ \A p \in Instances : /\ at[p] \in 1..Last
                          /\ tx[p] # {} <=> pc[p] \in InTx
                          /\ "name" \in tx[p] => "up" \in tx[p]

\* No migration takes effect twice, although every instance looks for its
\* name before it begins and none holds a lock in between; and it takes
\* effect exactly when it is recorded, through crashes and lost answers.
AppliedOnce == \A m \in 1..Last : effects[m] = IF m \in recorded THEN 1 ELSE 0

\* Migrations take effect in their order: at any time a prefix of them has.
InOrder == \A m \in recorded : 1..m \subseteq recorded

\* RunMigrations returns nil only when the schema is complete.
NilMeansComplete == \A p \in Instances : pc[p] = "done" => recorded = 1..Last

\* What a schema may never show, through races, crashes and lost answers.
MigrationsSafe == AppliedOnce /\ InOrder /\ NilMeansComplete

\* Once the faults are over every instance comes up: who loses the race for a
\* migration fails once and finds it recorded after its restart.
AllUp == \A p \in Instances : <>(pc[p] = "done")

Symmetry == Permutations(Instances)
=============================================================================
