----------------------------- MODULE LifeProofs -----------------------------
(***************************************************************************)
(* The life of a service: the migration runner for any number of           *)
(* instances, migrations and faults, the state word of the HTTP server for *)
(* any number of starters and of concurrent shutdowns, and the relay of    *)
(* the audit outbox for any number of goroutines that stop it.             *)
(***************************************************************************)
EXTENDS Migrations, HTTPServer, TLAPS

Steps == {"create", "check", "begin", "done", "error"} \cup InTx

Types ==
  /\ pc \in [Instances -> Steps] /\ at \in [Instances -> 1..Last]
  /\ tx \in [Instances -> SUBSET {"begun", "up", "name"}]
  /\ table \in BOOLEAN /\ recorded \in SUBSET (1..Last)
  /\ effects \in [1..Last -> Nat] /\ faults \in 0..MaxFaults

\* A transaction holds what its instance has done since Begin.
TxShape(p) ==
  /\ pc[p] \notin InTx => tx[p] = {}
  /\ pc[p] = "up" => tx[p] = {"begun"}
  /\ pc[p] = "record" => tx[p] = {"begun", "up"}
  /\ pc[p] = "commit" => tx[p] = {"begun", "up", "name"}

\* The primary key: who is about to commit is alone with its name, and the
\* name is not in the table.
Alone(p) ==
  pc[p] = "commit" =>
    /\ at[p] \notin recorded
    /\ \A q \in Instances \ {p} : pc[q] = "commit" => at[q] # at[p]

\* What an instance has left behind is recorded.
Behind(p) == pc[p] # "error" => \A m \in 1..Last : m < at[p] => m \in recorded

Started(p) == pc[p] = "create" => at[p] = 1

IInv ==
  /\ Types
  /\ \A p \in Instances : TxShape(p) /\ Alone(p) /\ Behind(p) /\ Started(p)
  /\ AppliedOnce /\ InOrder /\ NilMeansComplete

\* Nothing is recorded, locked or begun at the start.
LEMMA InitInv == Init => IInv
  <1> SUFFICES ASSUME Init PROVE IInv
    OBVIOUS
  <1> USE MigrationConstants DEF MigrationConstants
  <1>1. Types
    <2>1. 1 \in 1..Last /\ 0 \in 0..MaxFaults
      OBVIOUS
    <2>2. /\ pc \in [Instances -> Steps] /\ at \in [Instances -> 1..Last]
          /\ tx \in [Instances -> SUBSET {"begun", "up", "name"}]
      BY <2>1 DEF Init, Steps
    <2> QED
      BY <2>1, <2>2, Zenon DEF Init, Types
  <1>2. \A p \in Instances : TxShape(p) /\ Alone(p) /\ Behind(p) /\ Started(p)
    BY DEF Init, TxShape, Alone, Behind, Started, InTx
  <1>3. AppliedOnce /\ InOrder /\ NilMeansComplete
    BY DEF Init, AppliedOnce, InOrder, NilMeansComplete
  <1> QED
    BY <1>1, <1>2, <1>3 DEF IInv

\* A step of p that neither commits nor takes a name keeps the invariant if
\* it keeps it for p itself.
LEMMA QuietStep ==
  ASSUME IInv, Types', NEW p \in Instances,
         UNCHANGED <<recorded, effects>>,
         \A q \in Instances \ {p} : pc'[q] = pc[q] /\ at'[q] = at[q] /\ tx'[q] = tx[q],
         pc'[p] # "commit", TxShape(p)', Behind(p)', Started(p)',
         pc'[p] = "done" => recorded = 1..Last
  PROVE  IInv'
  <1> USE DEF IInv
  <1>1. ASSUME NEW q \in Instances PROVE TxShape(q)' /\ Behind(q)' /\ Started(q)'
    BY DEF TxShape, Behind, Started
  <1>2. ASSUME NEW q \in Instances PROVE Alone(q)'
    BY DEF Alone
  <1>3. AppliedOnce' /\ InOrder'
    BY DEF AppliedOnce, InOrder
  <1>4. NilMeansComplete'
    BY DEF NilMeansComplete
  <1> QED
    BY <1>1, <1>2, <1>3, <1>4

\* An instance at migration m, all before m recorded, that finds m recorded
\* too moves on: it is behind nothing, and at the end the schema is complete.
LEMMA AdvanceBehind ==
  ASSUME Types, NEW p \in Instances, Advance(p), NEW R \in SUBSET (1..Last),
         \A m \in 1..Last : m < at[p] => m \in R, at[p] \in R
  PROVE  /\ pc'[p] \in {"check", "done"} /\ pc' \in [Instances -> Steps]
         /\ at' \in [Instances -> 1..Last]
         /\ \A m \in 1..Last : m < at'[p] => m \in R
         /\ pc'[p] = "done" => R = 1..Last
         /\ \A q \in Instances \ {p} : pc'[q] = pc[q] /\ at'[q] = at[q]
  <1> USE DEF Types, Advance, Goto
  <1>1. CASE at[p] = Last
    <2>1. pc' = [pc EXCEPT ![p] = "done"] /\ at' = at
      BY <1>1
    <2>2. pc' \in [Instances -> Steps]
      BY <2>1 DEF Steps
    <2>3. R = 1..Last
      <3>1. \A m \in 1..Last : m < at[p] \/ m = at[p]
        BY <1>1, MigrationConstants
      <3> QED
        BY <3>1, Zenon
    <2> QED
      BY <2>1, <2>2, <2>3
  <1>2. CASE at[p] # Last
    <2>1. pc' = [pc EXCEPT ![p] = "check"] /\ at' = [at EXCEPT ![p] = at[p] + 1]
      BY <1>2
    <2>2. pc' \in [Instances -> Steps]
      BY <2>1 DEF Steps
    <2>3. at[p] + 1 \in 1..Last
      BY <1>2, MigrationConstants
    <2>4. at' \in [Instances -> 1..Last] /\ at'[p] = at[p] + 1
      BY <2>1, <2>3
    <2>5. \A m \in 1..Last : m < at'[p] => m \in R
      BY <2>4
    <2> QED
      BY <2>1, <2>2, <2>4, <2>5
  <1> QED
    BY <1>1, <1>2

\* Create, begin, up, and the steps that fail: nothing is committed.
LEMMA SmallSteps ==
  ASSUME IInv, NEW p \in Instances,
         \/ CreateTable(p) \/ Begin(p) \/ Up(p)
         \/ StatementFails(p) \/ Crash(p) \/ Restart(p)
  PROVE  IInv'
  <1> USE DEF IInv, Goto
  <1>1. CASE CreateTable(p)
    <2>1. Types'
      BY <1>1 DEF CreateTable, Types, Steps
    <2>2. TxShape(p)' /\ Behind(p)' /\ Started(p)'
      <3>1. pc'[p] = "check" /\ tx'[p] = {} /\ UNCHANGED <<at, recorded>>
        BY <1>1 DEF CreateTable, TxShape, Types, InTx
      <3> QED
        BY <1>1, <3>1 DEF CreateTable, TxShape, Behind, Started
    <2> QED
      BY <1>1, <2>1, <2>2, QuietStep DEF CreateTable, Types
  <1>2. CASE Begin(p)
    <2>1. Types'
      BY <1>2 DEF Begin, Types, Steps, InTx
    <2>2. TxShape(p)' /\ Behind(p)' /\ Started(p)'
      <3>1. pc'[p] = "up" /\ tx'[p] = {"begun"} /\ UNCHANGED <<at, recorded>>
        BY <1>2 DEF Begin, Types
      <3> QED
        BY <1>2, <3>1 DEF Begin, TxShape, Behind, Started, InTx
    <2> QED
      BY <1>2, <2>1, <2>2, QuietStep DEF Begin, Types
  <1>3. CASE Up(p)
    <2>1. Types'
      BY <1>3 DEF Up, Types, Steps, InTx
    <2>2. TxShape(p)' /\ Behind(p)' /\ Started(p)'
      <3>1. pc'[p] = "record" /\ tx'[p] = {"begun"} \cup {"up"} /\ UNCHANGED <<at, recorded>>
        BY <1>3 DEF Up, TxShape, Types
      <3>2. TxShape(p)'
        BY <3>1 DEF TxShape, InTx
      <3>3. Behind(p)' /\ Started(p)'
        BY SMTT(30), <1>3, <3>1 DEF Up, Behind, Started
      <3> QED
        BY <3>2, <3>3
    <2> QED
      BY <1>3, <2>1, <2>2, QuietStep DEF Up, Types
  <1>4. CASE StatementFails(p) \/ Crash(p)
    <2>1. Fault /\ Rollback(p) /\ UNCHANGED <<at, table, recorded, effects>>
      BY <1>4 DEF StatementFails, Crash
    <2>2. Types'
      BY <2>1, MigrationConstants DEF Fault, Rollback, Types, Steps
    <2>3. TxShape(p)' /\ Behind(p)' /\ Started(p)'
      BY <2>1 DEF Rollback, TxShape, Behind, Started, Types, InTx
    <2> QED
      BY SMTT(30), <2>1, <2>2, <2>3, QuietStep DEF Rollback, Types
  <1>5. CASE Restart(p)
    <2>1. 1 \in 1..Last
      BY MigrationConstants
    <2>2. Types'
      BY <1>5, <2>1 DEF Restart, Types, Steps
    <2>3. TxShape(p)' /\ Behind(p)' /\ Started(p)'
      <3>1. pc'[p] = "create" /\ at'[p] = 1 /\ tx'[p] = {}
        BY <1>5, Zenon DEF Restart, TxShape, Types, InTx
      <3> QED
        BY <3>1, <2>1 DEF TxShape, Behind, Started
    <2> QED
      BY <1>5, <2>2, <2>3, QuietStep DEF Restart, Types
  <1> QED
    BY <1>1, <1>2, <1>3, <1>4, <1>5

\* The look-up finds the migration recorded and moves on, or begins.
LEMMA CheckStep ==
  ASSUME IInv, NEW p \in Instances, Check(p)
  PROVE  IInv'
  <1> USE DEF IInv, Check
  <1>1. CASE at[p] \in recorded
    <2>1. Advance(p) /\ UNCHANGED <<tx, table, recorded, effects, faults>>
      BY <1>1
    <2>2. /\ pc'[p] \in {"check", "done"} /\ pc' \in [Instances -> Steps]
          /\ at' \in [Instances -> 1..Last]
          /\ \A m \in 1..Last : m < at'[p] => m \in recorded
          /\ pc'[p] = "done" => recorded = 1..Last
          /\ \A q \in Instances \ {p} : pc'[q] = pc[q] /\ at'[q] = at[q]
      BY <1>1, <2>1, AdvanceBehind, Zenon DEF Types, Behind
    <2>3. Types'
      BY <2>1, <2>2 DEF Types
    <2>4. TxShape(p)' /\ Behind(p)' /\ Started(p)'
      BY <2>1, <2>2 DEF TxShape, Behind, Started, InTx, Types
    <2> QED
      BY <2>1, <2>2, <2>3, <2>4, QuietStep
  <1>2. CASE at[p] \notin recorded
    <2>1. Types'
      BY <1>2, Zenon DEF Types, Goto, Steps
    <2> QED
      BY <1>2, <2>1, QuietStep, Zenon DEF Goto, TxShape, Behind, Started, InTx, Types
  <1> QED
    BY SMTT(30), <1>1, <1>2

\* The INSERT: it fails on a name in the table, waits for one in another
\* transaction, and otherwise makes this transaction the only one with it.
LEMMA RecordStep ==
  ASSUME IInv, NEW p \in Instances, Record(p)
  PROVE  IInv'
  <1> USE DEF IInv, Record
  <1>1. CASE at[p] \in recorded
    <2>1. Types'
      BY SMTT(30), <1>1 DEF Types, Rollback, Goto, Steps
    <2> QED
      BY <1>1, <2>1, QuietStep, Zenon DEF Rollback, Goto, TxShape, Behind, Started, InTx, Types
  <1>2. CASE at[p] \notin recorded
    <2>1. /\ tx' = [tx EXCEPT ![p] = @ \cup {"name"}] /\ Goto(p, "commit")
          /\ UNCHANGED <<at, table, recorded, effects, faults>>
      BY <1>2
    <2>2. Types'
      BY <2>1 DEF Types, Goto, Steps, InTx
    <2>3. \A q \in Instances \ {p} : pc[q] = "commit" => at[q] # at[p]
      BY DEF TxShape
    <2>4. ASSUME NEW q \in Instances PROVE TxShape(q)'
      BY <2>1 DEF Types, Goto, TxShape, InTx
    <2>5. ASSUME NEW q \in Instances PROVE Behind(q)' /\ Started(q)'
      BY <2>1 DEF Types, Goto, Behind, Started
    <2>6. ASSUME NEW q \in Instances PROVE Alone(q)'
      BY <1>2, <2>1, <2>3 DEF Types, Goto, Alone
    <2>7. AppliedOnce' /\ InOrder' /\ NilMeansComplete'
      BY <2>1 DEF Types, Goto, AppliedOnce, InOrder, NilMeansComplete
    <2> QED
      BY <2>2, <2>4, <2>5, <2>6, <2>7
  <1> QED
    BY <1>1, <1>2

\* What the database does at a commit keeps the invariant of all but the
\* position of the instance that commits.
LEMMA CommittedFacts ==
  ASSUME IInv, NEW p \in Instances, pc[p] = "commit", Committed(p)
  PROVE  /\ recorded' = recorded \cup {at[p]} /\ recorded' \in SUBSET (1..Last)
         /\ effects' \in [1..Last -> Nat]
         /\ tx' = [tx EXCEPT ![p] = {}]
         /\ AppliedOnce' /\ InOrder'
         /\ \A q \in Instances \ {p} : at[q] # at[p] \/ pc[q] # "commit"
  <1> USE DEF IInv
  <1>1. /\ recorded' = recorded \cup {at[p]} /\ tx' = [tx EXCEPT ![p] = {}]
        /\ effects' = [effects EXCEPT ![at[p]] = @ + 1]
        /\ at[p] \in 1..Last /\ at[p] \notin recorded
    BY DEF Committed, TxShape, Alone, Types
  <1>2. effects' \in [1..Last -> Nat] /\ recorded' \in SUBSET (1..Last)
    <2>1. effects \in [1..Last -> Nat] /\ recorded \in SUBSET (1..Last)
      BY DEF Types
    <2> HIDE DEF IInv
    <2>2. effects[at[p]] + 1 \in Nat
      BY <1>1, <2>1
    <2> QED
      BY <1>1, <2>1, <2>2
  <1>3. AppliedOnce'
    <2> SUFFICES ASSUME NEW m \in 1..Last
                 PROVE  effects'[m] = IF m \in recorded' THEN 1 ELSE 0
      BY DEF AppliedOnce
    <2>1. effects[m] = IF m \in recorded THEN 1 ELSE 0
      BY DEF AppliedOnce
    <2>2. CASE m = at[p]
      BY <1>1, <2>1, <2>2 DEF Types
    <2>3. CASE m # at[p]
      BY <1>1, <2>1, <2>3 DEF Types
    <2> QED
      BY <2>2, <2>3
  <1>4. InOrder'
    <2> SUFFICES ASSUME NEW m \in recorded', NEW k \in 1..m PROVE k \in recorded'
      BY DEF InOrder
    <2>1. CASE m \in recorded
      BY <1>1, <2>1 DEF InOrder
    <2>2. CASE m = at[p]
      <3>1. k \in 1..Last /\ (k < at[p] \/ k = at[p])
        BY <1>1, <2>2, MigrationConstants
      <3> QED
        BY <1>1, <3>1 DEF Behind
    <2> QED
      BY <1>1, <2>1, <2>2
  <1>5. \A q \in Instances \ {p} : at[q] # at[p] \/ pc[q] # "commit"
    BY DEF Alone
  <1> QED
    BY <1>1, <1>2, <1>3, <1>4, <1>5

\* A commit, acknowledged or not, of one transaction; the others stay alone.
LEMMA CommitStep ==
  ASSUME IInv, NEW p \in Instances, Commit(p) \/ AckLost(p)
  PROVE  IInv'
  <1>1. pc[p] = "commit" /\ Committed(p)
    BY DEF Commit, AckLost
  <1>2. /\ recorded' = recorded \cup {at[p]} /\ recorded' \in SUBSET (1..Last)
        /\ effects' \in [1..Last -> Nat]
        /\ tx' = [tx EXCEPT ![p] = {}]
        /\ AppliedOnce' /\ InOrder'
        /\ \A q \in Instances \ {p} : at[q] # at[p] \/ pc[q] # "commit"
    BY <1>1, CommittedFacts
  <1>3. /\ pc'[p] \in {"check", "done", "error"} /\ pc' \in [Instances -> Steps]
        /\ at' \in [Instances -> 1..Last]
        /\ pc'[p] # "error" => \A m \in 1..Last : m < at'[p] => m \in recorded'
        /\ pc'[p] = "done" => recorded' = 1..Last
        /\ \A q \in Instances \ {p} : pc'[q] = pc[q] /\ at'[q] = at[q]
    <2>1. CASE Commit(p)
      <3>1. Types /\ Advance(p) /\ at[p] \in recorded'
        BY <2>1, <1>2 DEF IInv, Commit
      <3>2. \A m \in 1..Last : m < at[p] => m \in recorded'
        BY <1>1, <1>2 DEF IInv, Behind
      <3> QED
        BY <1>2, <3>1, <3>2, AdvanceBehind, Zenon
    <2>2. CASE AckLost(p)
      BY <2>2 DEF AckLost, Goto, IInv, Types, Steps
    <2> QED
      BY <2>1, <2>2
  <1>4. Types'
    <2>1. table' = table /\ faults' \in 0..MaxFaults
      BY MigrationConstants DEF Commit, AckLost, Fault, IInv, Types
    <2> QED
      BY <1>2, <1>3, <2>1, Zenon DEF IInv, Types
  <1>5. ASSUME NEW q \in Instances PROVE TxShape(q)'
    BY SMTT(30), <1>2, <1>3 DEF IInv, Types, TxShape, InTx
  <1>6. ASSUME NEW q \in Instances PROVE Behind(q)' /\ Started(q)'
    <2>1. CASE q = p
      BY <1>3, <2>1 DEF Behind, Started
    <2>2. CASE q # p
      BY <1>2, <1>3, <2>2 DEF IInv, Behind, Started
    <2> QED
      BY <2>1, <2>2
  <1>7. ASSUME NEW q \in Instances PROVE Alone(q)'
    BY <1>2, <1>3, Zenon DEF IInv, Alone
  <1>8. NilMeansComplete'
    BY <1>2, <1>3, Zenon DEF IInv, NilMeansComplete
  <1> QED
    BY <1>2, <1>4, <1>5, <1>6, <1>7, <1>8 DEF IInv

\* Every step keeps the invariant.
LEMMA NextInv == IInv /\ [Next]_vars => IInv'
  <1> SUFFICES ASSUME IInv, [Next]_vars PROVE IInv'
    OBVIOUS
  <1>1. CASE UNCHANGED vars
    BY <1>1 DEF vars, IInv, Types, TxShape, Alone, Behind, Started,
                AppliedOnce, InOrder, NilMeansComplete
  <1>2. CASE Next
    <2> PICK p \in Instances :
          Step(p) \/ StatementFails(p) \/ AckLost(p) \/ Crash(p) \/ Restart(p)
      BY <1>2 DEF Next
    <2> QED
      BY SmallSteps, CheckStep, RecordStep, CommitStep DEF Step
  <1> QED
    BY <1>1, <1>2

\* The invariant holds in every reachable state.
LEMMA AlwaysIInv == Spec => []IInv
  BY InitInv, NextInv, PTL DEF Spec

\* RunMigrations applies every migration at most once, and exactly when it is
\* recorded, for any number of concurrent instances, migrations, crashes and
\* lost answers, although no lock is held between the look-up and the insert.
THEOREM MigrationsAppliedOnce == Spec => []AppliedOnce
  <1>1. IInv => AppliedOnce
    BY DEF IInv
  <1> QED
    BY <1>1, AlwaysIInv, PTL

\* What is recorded is at any time a prefix of the list of migrations.
THEOREM MigrationsInOrder == Spec => []InOrder
  <1>1. IInv => InOrder
    BY DEF IInv
  <1> QED
    BY <1>1, AlwaysIInv, PTL

\* An instance whose RunMigrations returned nil runs on a complete schema.
THEOREM MigrationsComplete == Spec => []NilMeansComplete
  <1>1. IInv => NilMeansComplete
    BY DEF IInv
  <1> QED
    BY <1>1, AlwaysIInv, PTL

\* RunMigrations keeps the schema safe: every migration takes effect once and
\* exactly when it is recorded, in order, and nil means that all have.
THEOREM MigrationsHold == Spec => []MigrationsSafe
  <1>1. AppliedOnce /\ InOrder /\ NilMeansComplete => MigrationsSafe
    BY DEF MigrationsSafe
  <1> QED
    BY <1>1, MigrationsAppliedOnce, MigrationsInOrder, MigrationsComplete, PTL

-----------------------------------------------------------------------------
(* httpserver.Server *)

Fresh == {"idle", "refused"}

\* The control state, where the words have the meaning that the tests of the
\* code give them: who is past the CompareAndSwap has taken the server out of
\* idle, and who has stored draining has taken it out of reach of Accept.
WordInv ==
  /\ state = "idle" => \A s \in Starters : start[s] \in Fresh
  /\ SingleUse
  /\ shut => state \in {"draining", "stopped"}

\* The listeners net/http knows are closed with the flag, under one mutex.
ListenerInv ==
  /\ \A t \in Stoppers \cup {RunStop} : stop[t] \in {"wait", "done"} => closing
  /\ closing => \A s \in Starters : start[s] \in {"accept", "waiting"} => listener[s] = "closed"
  /\ ~late

ServerTypes ==
  /\ start \in [Starters -> {"idle", "refused", "bind", "register", "accept", "waiting",
                             "exit", "closed", "failed"}]
  /\ listener \in [Starters -> {"none", "open", "closed"}]
  /\ stop \in [Stoppers \cup {RunStop} -> {"idle", "called", "close", "wait", "done"}]

ServerInv == ServerTypes /\ WordInv /\ ListenerInv

\* At the start nobody has claimed the server.
LEMMA ServerStarts == ServerInit => ServerInv
  <1> SUFFICES ASSUME ServerInit PROVE ServerInv
    OBVIOUS
  <1>1. ServerTypes
    BY Zenon DEF ServerInit, ServerTypes
  <1>2. WordInv
    BY DEF ServerInit, WordInv, SingleUse, Fresh
  <1>3. ListenerInv
    BY DEF ServerInit, ListenerInv
  <1> QED
    BY <1>1, <1>2, <1>3 DEF ServerInv

\* Every step keeps the types.
LEMMA ServerTypesNext == ASSUME ServerTypes, ServerNext PROVE ServerTypes'
  <1> USE DEF ServerTypes
  <1>1. ASSUME NEW s \in Starters, StarterStep(s) PROVE ServerTypes'
    <2>1. CASE Claim(s) \/ Bind(s) \/ BindFails(s) \/ Ready(s) \/ Exit(s)
      BY <2>1 DEF Claim, Bind, BindFails, Ready, Exit
    <2>2. CASE Register(s) \/ Accepted(s) \/ AcceptFails(s)
      BY <2>2 DEF Register, Accepted, AcceptFails
    <2> QED
      BY <1>1, <2>1, <2>2 DEF StarterStep
  <1>2. ASSUME NEW t \in Stoppers \cup {RunStop}, StopperStep(t) PROVE ServerTypes'
    BY <1>2 DEF StopperStep, Drain, CloseListeners, Stopped
  <1>3. CASE RunStep \/ Signal
    BY <1>3 DEF RunStep, RunStarts, RunFails, RunShutsDown, RunEnds, Signal
  <1> QED
    BY <1>1, <1>2, <1>3 DEF ServerNext

\* A starter that is not the first finds the word taken; no step of a starter
\* brings a server back that was told to drain.
LEMMA WordNext == ASSUME ServerTypes, WordInv, ServerNext PROVE WordInv'
  <1> USE DEF WordInv, Fresh
  <1>1. ASSUME NEW s \in Starters, StarterStep(s) PROVE WordInv'
    <2>1. CASE Claim(s)
      <3>1. CASE state = "idle"
        BY <2>1, <3>1 DEF Claim, SingleUse, ServerTypes
      <3>2. CASE state # "idle"
        BY <2>1, <3>2 DEF Claim, SingleUse, ServerTypes
      <3> QED
        BY <3>1, <3>2
    <2>2. CASE ~Claim(s)
      <3>1. /\ start[s] \notin Fresh /\ shut' = shut
            /\ \A r \in Starters \ {s} : start'[r] = start[r]
            /\ \/ state' = state \/ state' = "stopped"
               \/ state = "starting" /\ state' = "serving"
        BY <1>1, <2>2 DEF StarterStep, Bind, BindFails, Register, Ready, Accepted,
                          AcceptFails, Exit, ServerTypes
      <3>2. state # "idle" /\ state' # "idle"
        BY <3>1
      <3>3. SingleUse'
        BY <3>1 DEF SingleUse
      <3> QED
        BY <3>1, <3>2, <3>3
    <2> QED
      BY <2>1, <2>2
  <1>2. ASSUME NEW t \in Stoppers \cup {RunStop}, StopperStep(t) PROVE WordInv'
    BY <1>2 DEF StopperStep, Drain, CloseListeners, Stopped, SingleUse
  <1>3. CASE RunStep \/ Signal
    BY <1>3 DEF RunStep, RunStarts, RunFails, RunShutsDown, RunEnds, Signal, SingleUse
  <1> QED
    BY <1>1, <1>2, <1>3 DEF ServerNext

\* A listener is registered before the flag is up and closed with it, or
\* closed by the starter that finds the flag.
LEMMA ListenerNext == ASSUME ServerTypes, ListenerInv, ServerNext PROVE ListenerInv'
  <1> USE DEF ListenerInv
  <1>1. ASSUME NEW s \in Starters, StarterStep(s) PROVE ListenerInv'
    <2>1. UNCHANGED <<stop, closing>>
      BY <1>1 DEF StarterStep, Claim, Bind, BindFails, Register, Ready, Accepted, AcceptFails, Exit
    <2>2. \A r \in Starters \ {s} : start'[r] = start[r] /\ listener'[r] = listener[r]
      BY <1>1 DEF StarterStep, Claim, Bind, BindFails, Register, Ready, Accepted,
                  AcceptFails, Exit, ServerTypes
    <2>3. closing /\ start'[s] \in {"accept", "waiting"} => listener'[s] = "closed"
      BY <1>1, Zenon DEF StarterStep, Claim, Bind, BindFails, Register, Ready, Accepted,
                  AcceptFails, Exit, ServerTypes
    <2>4. ~late'
      <3>1. CASE Accepted(s)
        BY <3>1, Zenon DEF Accepted, ServerTypes
      <3>2. CASE ~Accepted(s)
        BY SMTT(30), <1>1, <3>2 DEF StarterStep, Claim, Bind, BindFails, Register, Ready, AcceptFails, Exit
      <3> QED
        BY <3>1, <3>2
    <2> QED
      BY <2>1, <2>2, <2>3, <2>4
  <1>2. ASSUME NEW t \in Stoppers \cup {RunStop}, StopperStep(t) PROVE ListenerInv'
    <2>1. CASE Drain(t)
      BY <2>1 DEF Drain, ServerTypes
    <2>2. CASE CloseListeners(t)
      BY <2>2 DEF CloseListeners, ServerTypes
    <2>3. CASE Stopped(t)
      BY <2>3 DEF Stopped, ServerTypes
    <2> QED
      BY <1>2, <2>1, <2>2, <2>3 DEF StopperStep
  <1>3. CASE RunStep \/ Signal
    BY <1>3 DEF RunStep, RunStarts, RunFails, RunShutsDown, RunEnds, Signal, ServerTypes
  <1> QED
    BY <1>1, <1>2, <1>3 DEF ServerNext

\* The three parts together are inductive.
LEMMA AlwaysServerInv == ServerSpec => []ServerInv
  <1>1. ServerInv /\ [ServerNext]_srvVars => ServerInv'
    <2>1. ServerInv /\ ServerNext => ServerInv'
      BY ServerTypesNext, WordNext, ListenerNext DEF ServerInv
    <2>2. ServerInv /\ UNCHANGED srvVars => ServerInv'
      BY DEF ServerInv, ServerTypes, WordInv, ListenerInv, SingleUse, srvVars
    <2> QED
      BY <2>1, <2>2
  <1> QED
    BY <1>1, ServerStarts, PTL DEF ServerSpec

\* From the moment Shutdown is entered IsServing is false, for any number of
\* starters and shutdowns racing with the first Accept.
THEOREM NeverReady == ServerSpec => []NeverReadyAgain
  <1>1. ServerInv => NeverReadyAgain
    BY DEF ServerInv, WordInv, NeverReadyAgain
  <1> QED
    BY <1>1, AlwaysServerInv, PTL

\* One starter at most gets past the CompareAndSwap of ListenAndServe and
\* Serve in the life of a Server.
THEOREM OneStarter == ServerSpec => []SingleUse
  <1>1. ServerInv => SingleUse
    BY DEF ServerInv, WordInv
  <1> QED
    BY <1>1, AlwaysServerInv, PTL

\* Nothing is accepted after a Shutdown has closed the listeners, also when
\* the starter had bound its own and not yet registered it.
THEOREM NothingLate == ServerSpec => []NoLateAccept
  <1>1. ServerInv => NoLateAccept
    BY DEF ServerInv, ListenerInv, NoLateAccept
  <1> QED
    BY <1>1, AlwaysServerInv, PTL

\* Server: no order of starts, failed binds and shutdowns makes it ready after a
\* Shutdown, lets a second starter in, or accepts a connection late.
THEOREM ServerHolds == ServerSpec => []ServerSafe
  <1>1. NeverReadyAgain /\ SingleUse /\ NoLateAccept => ServerSafe
    BY DEF ServerSafe
  <1> QED
    BY <1>1, NeverReady, OneStarter, NothingLate, PTL

-----------------------------------------------------------------------------
(* The listener behind the word *)

\* Who has entered Shutdown far enough has stored draining before.
StopInv ==
  /\ state \in States /\ shut \in BOOLEAN /\ closing \in BOOLEAN
  /\ \A s \in Starters : listener[s] = "open" => start[s] \in {"register", "accept", "waiting"}
  /\ \A t \in Stoppers \cup {RunStop} : stop[t] \in {"close", "wait", "done"} => shut
  /\ closing => shut
  /\ ServingListens

\* A server serves only while its starter is at the listener.
LEMMA StopNext == ASSUME ServerTypes, StopInv, ServerNext PROVE StopInv'
  <1> USE DEF StopInv, States
  <1>1. ASSUME NEW s \in Starters, StarterStep(s) PROVE StopInv'
    <2>1. UNCHANGED <<stop, closing, shut>>
      BY <1>1 DEF StarterStep, Claim, Bind, BindFails, Register, Ready, Accepted, AcceptFails, Exit
    <2>2. \A r \in Starters \ {s} : start'[r] = start[r] /\ listener'[r] = listener[r]
      BY <1>1 DEF StarterStep, Claim, Bind, BindFails, Register, Ready, Accepted,
                  AcceptFails, Exit, ServerTypes
    <2>3. state' \in States
      BY <1>1 DEF StarterStep, Claim, Bind, BindFails, Register, Ready, Accepted, AcceptFails, Exit
    <2>4. listener'[s] = "open" => start'[s] \in {"register", "accept", "waiting"}
      BY <1>1, Zenon DEF StarterStep, Claim, Bind, BindFails, Register, Ready, Accepted,
                  AcceptFails, Exit, ServerTypes
    <2>5. ServingListens'
      <3>1. CASE Ready(s)
        BY <3>1 DEF Ready, ServerTypes, ServingListens
      <3>2. CASE BindFails(s) \/ Exit(s)
        BY <3>2 DEF BindFails, Exit, ServingListens
      <3>3. CASE Claim(s) \/ Bind(s) \/ Register(s)
        <4>1. start[s] \notin {"waiting", "accept", "exit"} /\ (state' = "serving" => state = "serving")
          BY <3>3 DEF Claim, Bind, Register
        <4> QED
          BY <2>2, <4>1 DEF ServingListens
      <3>4. CASE Accepted(s) \/ AcceptFails(s)
        BY <3>4 DEF Accepted, AcceptFails, ServerTypes, ServingListens
      <3> QED
        BY <1>1, <3>1, <3>2, <3>3, <3>4 DEF StarterStep
    <2> QED
      BY <2>1, <2>2, <2>3, <2>4, <2>5
  <1>2. ASSUME NEW t \in Stoppers \cup {RunStop}, StopperStep(t) PROVE StopInv'
    <2>1. CASE Drain(t)
      BY <2>1 DEF Drain, ServerTypes, ServingListens
    <2>2. CASE CloseListeners(t)
      BY <2>2 DEF CloseListeners, ServerTypes, ServingListens
    <2>3. CASE Stopped(t)
      BY <2>3 DEF Stopped, ServerTypes, ServingListens
    <2> QED
      BY <1>2, <2>1, <2>2, <2>3 DEF StopperStep
  <1>3. CASE RunStep \/ Signal
    BY <1>3 DEF RunStep, RunStarts, RunFails, RunShutsDown, RunEnds, Signal, ServerTypes, ServingListens
  <1> QED
    BY <1>1, <1>2, <1>3 DEF ServerNext

\* A server that says it serves has a starter at its listener or about to store
\* another word; no listener is open that nobody will close, and the flag of
\* net/http is up only after the word was stored.
THEOREM ServingHolds == ServerSpec => [](ServerTypeOK /\ ServingListens)
  <1>1. ServerInit => StopInv
    BY Zenon DEF ServerInit, StopInv, States, ServingListens
  <1>2. ServerInv /\ StopInv /\ [ServerNext]_srvVars => StopInv'
    <2>1. ServerInv /\ StopInv /\ ServerNext => StopInv'
      BY StopNext DEF ServerInv
    <2>2. StopInv /\ UNCHANGED srvVars => StopInv'
      BY DEF StopInv, ServingListens, srvVars
    <2> QED
      BY <2>1, <2>2
  <1>3. StopInv => ServerTypeOK /\ ServingListens
    BY DEF StopInv, ServerTypeOK
  <1> QED
    BY <1>1, <1>2, <1>3, AlwaysServerInv, PTL DEF ServerSpec
-----------------------------------------------------------------------------
(* PGOutbox.StartRouterRelay *)

CONSTANT Quitters   \* goroutines that stop the relay
VARIABLES relStart, relStop, once, relPc, cancelled, worker, transport, registered,
          database, crashed

Rel == INSTANCE AuditRelay WITH
  start <- relStart, stop <- relStop, pc <- relPc, Stoppers <- Quitters

RelayTypes ==
  /\ relStart \in {"new", "failed", "started"} /\ relStop \in {"nil", "func"}
  /\ once \in {"unused", "running", "done"}
  /\ relPc \in [Quitters -> {"running", "joining", "waiting", "stopped"}]
  /\ worker \in {"none", "idle", "sending", "ended"}
  /\ database \in {"open", "closed"}

\* The function exists once the relay has started, its body runs once, and it
\* ends only after the worker has.
RelayInv ==
  /\ RelayTypes
  /\ relStart = "new" => \A s \in Quitters : relPc[s] = "running"
  /\ relStart = "started" <=> relStop = "func"
  /\ relStart = "started" <=> worker # "none"
  /\ \A s \in Quitters :
       /\ relPc[s] = "joining" => once = "running" /\ relStart = "started"
       /\ relPc[s] = "waiting" => once # "unused" /\ relStart = "started"
       /\ relPc[s] = "stopped" /\ relStart = "started" => once = "done"
  /\ \A s, t \in Quitters : relPc[s] = "joining" /\ relPc[t] = "joining" => s = t
  /\ relStart # "started" => once = "unused"
  /\ relStart = "started" /\ once # "done" => transport = "open"
  /\ once = "done" => worker = "ended" /\ transport = "closed" /\ ~registered
  /\ database = "closed" => relStart # "new" /\ (relStart = "started" => once = "done")

\* At the start nothing runs.
LEMMA RelayInit == Rel!Init => RelayInv
  BY DEF Rel!Init, RelayInv, RelayTypes

\* Only the first caller of the function gets to close the transport.
LEMMA RelayNext == ASSUME RelayInv, Rel!Next PROVE RelayInv'
  <1>1. CASE Rel!StartFails \/ Rel!StartRouterRelay
    BY <1>1 DEF Rel!StartFails, Rel!StartRouterRelay, RelayInv, RelayTypes
  <1>2. CASE Rel!Deliver \/ Rel!Settle \/ Rel!WorkerEnds \/ Rel!ServiceContextEnds
    BY <1>2 DEF Rel!Deliver, Rel!Settle, Rel!WorkerEnds, Rel!ServiceContextEnds, RelayInv, RelayTypes
  <1>3. CASE Rel!CloseDatabase
    BY <1>3 DEF Rel!CloseDatabase, RelayInv, RelayTypes
  <1>4. ASSUME NEW s \in Quitters, Rel!Stop(s) PROVE RelayInv'
    BY <1>4 DEF Rel!Stop, RelayInv, RelayTypes
  <1>5. ASSUME NEW s \in Quitters, Rel!Join(s) PROVE RelayInv'
    BY <1>5 DEF Rel!Join, RelayInv, RelayTypes
  <1>6. ASSUME NEW s \in Quitters, Rel!Waited(s) PROVE RelayInv'
    BY <1>6 DEF Rel!Waited, RelayInv, RelayTypes
  <1> QED
    BY <1>1, <1>2, <1>3, <1>4, <1>5, <1>6 DEF Rel!Next

\* StartRouterRelay: the worker never runs on a closed database or transport,
\* whichever of any number of goroutines that stop the relay returns first, and
\* a stop that has returned leaves nothing behind.
THEOREM RelayHolds == Rel!Spec => [](Rel!WorkerHasAll /\ Rel!StoppedClean)
  <1>1. RelayInv /\ [Rel!Next]_Rel!vars => RelayInv'
    <2>1. RelayInv /\ UNCHANGED Rel!vars => RelayInv'
      BY DEF RelayInv, RelayTypes, Rel!vars
    <2> QED
      BY <2>1, RelayNext
  <1>2. RelayInv => Rel!WorkerHasAll /\ Rel!StoppedClean
    BY DEF RelayInv, RelayTypes, Rel!WorkerHasAll, Rel!StoppedClean
  <1> QED
    BY <1>1, <1>2, RelayInit, PTL DEF Rel!Spec
=============================================================================
