------------------------- MODULE AuditOutboxProofs --------------------------
(***************************************************************************)
(* The safety of the outbox for any number of events, replicas, business   *)
(* transactions and faults, and for any durations with                     *)
(* Lease > 2 * DBTimeout + SendTimeout.                                    *)
(***************************************************************************)
EXTENDS AuditOutboxInvariant

-----------------------------------------------------------------------------
(* The finish statement and the clock *)

\* What a finish statement does to the table: it changes at most the row that
\* still carries its token, and that row loses the token.
LEMMA FinishRows ==
  ASSUME IInv, NEW s, s.id \in Ids, s.tok \in Tokens,
         s.att \in 0..SaturatedAttempts, Sound(s), finish(s),
         UNCHANGED <<tx, committed, accepted>>
  PROVE  /\ row' \in [Ids -> Row]
         /\ before' \in SUBSET (Ids \X Ids)
         /\ \A j \in Ids : \/ row'[j] = row[j]
                           \/ /\ j = s.id
                              /\ row[j].token = s.tok
                              /\ row'[j].token = None
         /\ TxInv' /\ RowInv' /\ NoLostEvent'
  <1> DEFINE i == s.id
  <1> USE OutboxConstants DEF finish, IInv
  <1>a. retryTicks(s.att) \in Nat
    BY RetryNat
  <1>b. \A j \in Ids \ {i} : row'[j] = row[j]
    BY DEF TypeOK, Delete, Release
  <1>c. \A p \in Producers : tx[p].id # i
    BY DEF Locked
  <1>1. CASE UNCHANGED <<row, before>>
    BY <1>1 DEF TypeOK, TxInv, RowInv, NoLostEvent, Pending
  <1>2. CASE Fenced(s) /\ Delete(s) /\ s.ok
    <2>1. row'[i] = NoRow
      BY <1>2 DEF Delete, TypeOK
    <2>2. row[i].token = s.tok /\ row[i].content = s.c /\ <<i, s.c>> \in accepted
      BY <1>2 DEF Fenced, Sound
    <2>3. row' \in [Ids -> Row] /\ before' \in SUBSET (Ids \X Ids)
      <3>1. NoRow \in Row
        BY DEF Row, NoRow, SaturatedAttempts
      <3> QED
        BY <1>2, <3>1, OrderType DEF Delete, TypeOK
    <2>4. TxInv'
      BY <1>b, <1>c DEF TxInv, NoTx
    <2>5. RowInv'
      BY <1>b, <2>1 DEF RowInv, NoRow
    <2>6. NoLostEvent'
      BY <1>b, <2>2 DEF NoLostEvent, Pending
    <2> QED
      BY <1>b, <2>1, <2>2, <2>3, <2>4, <2>5, <2>6 DEF NoRow
  <1>3. CASE Fenced(s) /\ Release(s)
    <2>1. /\ row'[i].st = row[i].st /\ row'[i].content = row[i].content
          /\ row'[i].token = None /\ row'[i].lease = 0
      BY <1>3 DEF Release, TypeOK, Row
    <2>2. row[i].token = s.tok /\ row[i].st = "live"
      BY <1>3 DEF Fenced, Sound
    <2>3. row' \in [Ids -> Row]
      <3> DEFINE d == retryTicks(s.att)
      <3>1. [row[i] EXCEPT !.delay = d, !.token = None, !.lease = 0] \in Row
        <4>1. row[i] \in Row /\ 0 \in 0..Lease /\ 0 \in 0..SaturatedAttempts
          BY DEF TypeOK, SaturatedAttempts
        <4> QED
          BY <1>a, <4>1, Leasing, Zenon
      <3> QED
        BY <1>3, <3>1, Zenon DEF Release, TypeOK
    <2>4. before' \in SUBSET (Ids \X Ids)
      BY <1>3, OrderType DEF Release, TypeOK
    <2>5. TxInv'
      BY <1>b, <1>c DEF TxInv, NoTx
    <2>6. RowInv'
      BY <1>b, <2>1, <2>2 DEF RowInv
    <2>7. NoLostEvent'
      BY <1>b, <2>1 DEF NoLostEvent, Pending
    <2> QED
      BY <1>b, <2>1, <2>2, <2>3, <2>4, <2>5, <2>6, <2>7
  <1> QED
    BY <1>1, <1>2, <1>3

\* A finish statement leaves every other claim sound and every lease under
\* another token alone.
LEMMA FinishOthers ==
  ASSUME IInv, NEW s, s.id \in Ids, s.tok \in Tokens,
         s.att \in 0..SaturatedAttempts, Sound(s), finish(s),
         UNCHANGED <<tx, committed, accepted>>
  PROVE  /\ \A u : u.id \in Ids /\ u.tok \in Tokens /\ Sound(u) => Sound(u)'
         /\ \A w \in Relays : Active(w) /\ relay[w].tok # s.tok /\ relay[w].prompt
              => row'[relay[w].id] = row[relay[w].id]
  <1>1. \A j \in Ids : row'[j] = row[j] \/ (row[j].token = s.tok /\ row'[j].token = None)
    BY FinishRows
  <1>2. ASSUME NEW u, u.id \in Ids, u.tok \in Tokens, Sound(u)
        PROVE  Sound(u)'
    BY <1>1, <1>2, OutboxConstants DEF Sound
  <1>3. ASSUME NEW w \in Relays, Active(w), relay[w].tok # s.tok, relay[w].prompt
        PROVE  row'[relay[w].id] = row[relay[w].id]
    BY <1>1, <1>3, PromptHolds, Held
  <1> QED
    BY <1>2, <1>3, Zenon

LEMMA FinishIInv ==
  ASSUME IInv, NEW w \in Relays, Finish(w)
  PROVE  IInv'
  <1> USE DEF IInv, Finish
  <1>a. Active(w) /\ Sound(relay[w])
    BY DEF Active, ClaimInv
  <1>b. /\ relay[w].id \in Ids /\ relay[w].tok \in Tokens
        /\ relay[w].att \in 0..SaturatedAttempts
    BY <1>a, Held DEF TypeOK, Relay
  <1>c. /\ row' \in [Ids -> Row]
        /\ before' \in SUBSET (Ids \X Ids)
        /\ TxInv' /\ RowInv' /\ NoLostEvent'
    BY <1>a, <1>b, FinishRows
  <1>d. relay'[w] = Idle /\ \A v \in Relays \ {w} : relay'[v] = relay[v]
    BY DEF TypeOK
  <1>e. ~Active(w)' /\ relay'[w].pc # "sending"
    BY <1>d DEF Active, Idle
  <1>1. TypeOK'
    <2>1. relay' \in [Relays -> Relay]
      BY OutboxConstants DEF TypeOK, Relay, Idle, SaturatedAttempts
    <2>2. \A v \in Relays : Active(v)' => /\ relay'[v].id \in Ids
                                          /\ relay'[v].c \in Contents
                                          /\ relay'[v].tok \in Tokens
      BY <1>d, <1>e DEF TypeOK, Active
    <2> QED
      BY <1>c, <2>1, <2>2 DEF TypeOK
  <1>2. ClaimInv'
    <2>1. \A u : u.id \in Ids /\ u.tok \in Tokens /\ Sound(u) => Sound(u)'
      BY <1>a, <1>b, FinishOthers
    <2>2. \A u \in late : u.id \in Ids /\ u.tok \in Tokens
      BY DEF TypeOK, Statement
    <2>3. \A u \in late' : Sound(u)'
      BY <2>1, <2>2 DEF ClaimInv
    <2>4. \A v \in Relays \ {w} : Active(v) => Sound(relay[v])'
      BY <1>d, <2>1, Held DEF ClaimInv, Active
    <2> QED
      BY <1>d, <1>e, <2>3, <2>4 DEF ClaimInv, Active
  <1>3. TokenInv'
    BY <1>d, <1>e DEF TokenInv, Active
  <1>4. LeaseInv'
    <2>1. ASSUME NEW v \in Relays \ {w}, Active(v), relay[v].prompt
          PROVE  row'[relay[v].id] = row[relay[v].id]
      <3>1. relay[v].tok # relay[w].tok
        BY <1>a, <2>1 DEF TokenInv
      <3> QED
        BY <1>a, <1>b, <2>1, <3>1, FinishOthers
    <2>2. ASSUME NEW v \in Relays, Active(v)', relay'[v].prompt
          PROVE  /\ row'[relay'[v].id].token = relay'[v].tok
                 /\ row'[relay'[v].id].lease
                      > relay'[v].timer + Rest(relay'[v].pc)
      <3>1. v # w
        BY <1>e, <2>2
      <3>2. relay'[v] = relay[v] /\ Active(v)
        BY <1>d, <2>2, <3>1 DEF Active
      <3> QED
        BY <2>1, <2>2, <3>1, <3>2, PromptHolds
    <2> QED
      BY <2>2, Zenon DEF LeaseInv
  <1>5. OnlyCommittedAccepted'
    BY DEF OnlyCommittedAccepted
  <1> QED
    BY <1>c, <1>1, <1>2, <1>3, <1>4, <1>5

LEMMA LateFinishIInv ==
  ASSUME IInv, NEW s \in late, LateFinish(s)
  PROVE  IInv'
  <1> USE DEF IInv, LateFinish
  <1>a. /\ s.id \in Ids /\ s.tok \in Tokens /\ s.att \in 0..SaturatedAttempts
        /\ Sound(s)
    BY DEF TypeOK, Statement, ClaimInv
  <1>b. /\ row' \in [Ids -> Row]
        /\ before' \in SUBSET (Ids \X Ids)
        /\ TxInv' /\ RowInv' /\ NoLostEvent'
    BY <1>a, FinishRows
  <1>1. TypeOK'
    BY <1>b DEF TypeOK, Active
  <1>2. ClaimInv'
    <2>1. \A u : u.id \in Ids /\ u.tok \in Tokens /\ Sound(u) => Sound(u)'
      BY <1>a, FinishOthers
    <2>2. \A u \in late : u.id \in Ids /\ u.tok \in Tokens
      BY DEF TypeOK, Statement
    <2>3. \A u \in late' : Sound(u)'
      BY <2>1, <2>2 DEF ClaimInv
    <2>4. \A v \in Relays : Active(v) => Sound(relay[v])'
      BY <2>1, Held DEF ClaimInv
    <2> QED
      BY <2>3, <2>4 DEF ClaimInv, Active
  <1>3. TokenInv'
    BY DEF TokenInv, Active
  <1>4. LeaseInv'
    <2>1. ASSUME NEW v \in Relays, Active(v), relay[v].prompt
          PROVE  row'[relay[v].id] = row[relay[v].id]
      BY <1>a, <2>1, FinishOthers DEF TokenInv
    <2> QED
      BY <2>1 DEF LeaseInv, Active
  <1>5. OnlyCommittedAccepted'
    BY DEF OnlyCommittedAccepted
  <1> QED
    BY <1>b, <1>1, <1>2, <1>3, <1>4, <1>5

LEMMA TickIInv ==
  ASSUME IInv, Tick
  PROVE  IInv'
  <1> USE OutboxConstants DEF IInv
  <1>u. UNCHANGED <<before, tx, late, committed, accepted, faults, txs>>
    BY Zenon DEF Tick
  <1>a. row' = [i \in Ids |-> [row[i] EXCEPT !.lease = Dec(row[i].lease),
                                             !.delay = Dec(row[i].delay)]]
    BY Zenon DEF Tick
  <1>r. relay' = [w \in Relays |-> [relay[w] EXCEPT !.timer = Dec(relay[w].timer)]]
    BY Zenon DEF Tick
  <1>b. ASSUME NEW i \in Ids
        PROVE  /\ row'[i].st = row[i].st /\ row'[i].content = row[i].content
               /\ row'[i].token = row[i].token
               /\ row'[i].lease = Dec(row[i].lease)
               /\ row'[i].delay = Dec(row[i].delay)
               /\ row'[i].attempts = row[i].attempts
    <2>1. row[i] \in Row
      BY DEF TypeOK
    <2>2. row'[i] = [row[i] EXCEPT !.lease = Dec(row[i].lease),
                                   !.delay = Dec(row[i].delay)]
      BY <1>a, Zenon
    <2> QED
      BY <2>1, <2>2 DEF Row
  <1>c. ASSUME NEW w \in Relays
        PROVE  /\ relay'[w].pc = relay[w].pc /\ relay'[w].id = relay[w].id
               /\ relay'[w].c = relay[w].c /\ relay'[w].tok = relay[w].tok
               /\ relay'[w].timer = Dec(relay[w].timer)
               /\ relay'[w].ok = relay[w].ok /\ relay'[w].prompt = relay[w].prompt
    <2>1. relay[w] \in Relay
      BY DEF TypeOK
    <2>2. relay'[w] = [relay[w] EXCEPT !.timer = Dec(relay[w].timer)]
      BY <1>r
    <2> QED
      BY <2>1, <2>2 DEF Relay
  <1>1. TypeOK'
    <2>1. ASSUME NEW i \in Ids PROVE row'[i] \in Row
      <3>1. row[i] \in Row /\ Dec(row[i].lease) \in 0..Lease /\ Dec(row[i].delay) \in Nat
        BY Counting DEF TypeOK, Row
      <3>2. row'[i] = [row[i] EXCEPT !.lease = Dec(row[i].lease),
                                     !.delay = Dec(row[i].delay)]
        BY <1>a, Zenon
      <3> QED
        BY <3>1, <3>2, Zenon DEF Row
    <2>2. ASSUME NEW w \in Relays PROVE relay'[w] \in Relay
      <3>1. relay[w] \in Relay /\ Dec(relay[w].timer) \in Nat
        BY Counting DEF TypeOK, Relay
      <3>2. relay'[w] = [relay[w] EXCEPT !.timer = Dec(relay[w].timer)]
        BY <1>r
      <3> QED
        BY <3>1, <3>2, Advancing, Zenon
    <2>3. row' \in [Ids -> Row] /\ relay' \in [Relays -> Relay]
      BY <1>a, <1>r, <2>1, <2>2, Zenon
    <2> QED
      BY <1>u, <1>c, <2>3 DEF TypeOK, Active
  <1>2. TxInv'
    BY SMTT(30), <1>u, <1>b DEF TxInv, NoTx
  <1>3. RowInv'
    <2>1. Dec(0) = 0
      BY DEF Dec
    <2> QED
      BY <1>u, <1>b, <2>1 DEF RowInv
  <1>4. ClaimInv'
    <2>1. ASSUME NEW s, s.id \in Ids, Sound(s) PROVE Sound(s)'
      BY <1>u, <1>b, <2>1 DEF Sound
    <2>2. \A s \in late : s.id \in Ids
      BY DEF TypeOK, Statement
    <2>3. ASSUME NEW w \in Relays, Active(w) PROVE Sound(relay[w])'
      <3>1. Sound(relay[w]) /\ relay[w].id \in Ids
        BY <2>3, Held DEF ClaimInv
      <3> QED
        BY <1>u, <1>b, <1>c, <3>1 DEF Sound
    <2> QED
      BY <1>u, <1>c, <2>1, <2>2, <2>3 DEF ClaimInv, Active
  <1>5. TokenInv'
    BY <1>u, <1>c DEF TokenInv, Active
  <1>6. LeaseInv'
    <2>1. ASSUME NEW w \in Relays, Active(w), relay[w].prompt
          PROVE  /\ row'[relay[w].id].token = relay[w].tok
                 /\ row'[relay[w].id].lease > Dec(relay[w].timer) + Rest(relay[w].pc)
      <3>1. /\ row[relay[w].id].token = relay[w].tok
            /\ row[relay[w].id].lease > relay[w].timer + Rest(relay[w].pc)
            /\ relay[w].id \in Ids
        BY <2>1, PromptHolds, Held
      <3>2. relay[w].timer > 0
        BY <2>1, Zenon DEF Tick
      <3>3. /\ relay[w].timer \in Nat /\ row[relay[w].id].lease \in Nat
            /\ Rest(relay[w].pc) \in Nat
        BY <3>1 DEF TypeOK, Relay, Row, Rest
      <3> QED
        BY <1>b, <3>1, <3>2, <3>3 DEF Dec
    <2> QED
      BY <1>c, <2>1, Zenon DEF LeaseInv, Active
  <1>7. NoLostEvent'
    BY <1>u, <1>b DEF NoLostEvent, Pending
  <1>8. OnlyCommittedAccepted'
    BY <1>u DEF OnlyCommittedAccepted
  <1> QED
    BY <1>1, <1>2, <1>3, <1>4, <1>5, <1>6, <1>7, <1>8

LEMMA NextIInv == IInv /\ [Next]_vars => IInv'
  <1> SUFFICES ASSUME IInv, [Next]_vars PROVE IInv'
    OBVIOUS
  <1>1. ASSUME NEW p \in Producers, TxStep(p) PROVE IInv'
    BY <1>1, EnqueueTxIInv, CommitTxIInv, RollbackTxIInv DEF TxStep
  <1>2. ASSUME NEW w \in Relays, RelayStep(w) PROVE IInv'
    BY <1>2, ClaimIInv, ClaimReplyIInv, IngestAcceptIInv, SendReturnsIInv,
       FinishIInv, FinishTimeoutIInv, CrashIInv, PauseIInv DEF RelayStep
  <1>3. ASSUME NEW s \in late, LateFinish(s) PROVE IInv'
    BY <1>3, LateFinishIInv
  <1>4. CASE Tick
    BY <1>4, TickIInv
  <1>5. CASE UNCHANGED vars
    <2> USE <1>5 DEF vars, IInv
    <2>1. TypeOK'
      BY SMTT(30) DEF TypeOK, Active
    <2>2. TxInv' /\ RowInv'
      BY SMTT(30) DEF TxInv, RowInv
    <2>3. ClaimInv'
      BY DEF ClaimInv, Sound, Active
    <2>4. TokenInv' /\ LeaseInv'
      BY DEF TokenInv, LeaseInv, Active
    <2>5. NoLostEvent' /\ OnlyCommittedAccepted'
      BY DEF NoLostEvent, OnlyCommittedAccepted, Pending
    <2> QED
      BY <2>1, <2>2, <2>3, <2>4, <2>5
  <1> QED
    BY <1>1, <1>2, <1>3, <1>4, <1>5 DEF Next

-----------------------------------------------------------------------------
(* The theorems *)

\* The strengthened invariant holds in every reachable state.
THEOREM Inductive == Spec => []IInv
  BY InitIInv, NextIInv, PTL DEF Spec

\* A finish statement clears the lease with the token, or leaves both alone.
LEMMA FinishTogether ==
  ASSUME IInv, LeaseHasToken, NEW s, s.id \in Ids, finish(s)
  PROVE  LeaseHasToken'
  <1>1. row \in [Ids -> Row]
    BY DEF IInv, TypeOK
  <1>2. CASE UNCHANGED row
    BY <1>2 DEF LeaseHasToken
  <1>3. CASE Delete(s) \/ Release(s)
    <2>1. row'[s.id].lease = 0 /\ \A j \in Ids \ {s.id} : row'[j] = row[j]
      BY <1>1, <1>3 DEF Delete, Release, NoRow, Row
    <2> QED
      BY <2>1 DEF LeaseHasToken
  <1> QED
    BY <1>2, <1>3 DEF finish

\* The columns of a lease are set and cleared together.
LEMMA LeaseHasTokenNext == IInv /\ LeaseHasToken /\ [Next]_vars => LeaseHasToken'
  <1> SUFFICES ASSUME IInv, LeaseHasToken, [Next]_vars PROVE LeaseHasToken'
    OBVIOUS
  <1>a. row \in [Ids -> Row]
    BY DEF IInv, TypeOK
  <1>1. ASSUME NEW p \in Producers, TxStep(p) PROVE LeaseHasToken'
    <2>1. CASE \E i \in Ids, c \in Contents : EnqueueTx(p, i, c)
      BY <1>a, <2>1 DEF EnqueueTx, LeaseHasToken, NewRow
    <2>2. CASE CommitTx(p)
      <3>1. \A j \in Ids : row'[j].lease = row[j].lease /\ row'[j].token = row[j].token
        BY <1>a, <2>2 DEF CommitTx, Row
      <3> QED
        BY <3>1 DEF LeaseHasToken
    <2>3. CASE RollbackTx(p)
      BY <1>a, <2>3 DEF RollbackTx, LeaseHasToken, NoRow
    <2> QED
      BY <1>1, <2>1, <2>2, <2>3 DEF TxStep
  <1>2. ASSUME NEW w \in Relays, Claim(w) PROVE LeaseHasToken'
    <2>1. PICK i \in Ids, t \in Tokens :
            row' = [row EXCEPT ![i].lease = Lease, ![i].token = t,
                               ![i].attempts = Bump(@)]
      BY <1>2 DEF Claim
    <2>2. row'[i].token = t /\ \A j \in Ids \ {i} : row'[j] = row[j]
      BY <1>a, <2>1 DEF Row
    <2> QED
      BY <2>2, OutboxConstants DEF LeaseHasToken
  <1>3. ASSUME NEW w \in Relays, Finish(w) PROVE LeaseHasToken'
    BY <1>3, Held, FinishTogether DEF Finish, Active
  <1>4. ASSUME NEW s \in late, LateFinish(s) PROVE LeaseHasToken'
    <2>1. s.id \in Ids
      BY DEF IInv, TypeOK, Statement
    <2> QED
      BY <1>4, <2>1, FinishTogether DEF LateFinish
  <1>5. CASE Tick
    <2>1. ASSUME NEW j \in Ids, row'[j].lease > 0 PROVE row'[j].token # None
      <3>1. row'[j] = [row[j] EXCEPT !.lease = Dec(row[j].lease),
                                     !.delay = Dec(row[j].delay)]
        BY <1>5, Zenon DEF Tick
      <3>2. row'[j].token = row[j].token /\ row[j].lease > 0
        BY <1>a, <2>1, <3>1 DEF Row, Dec
      <3> QED
        BY <3>2 DEF LeaseHasToken
    <2> QED
      BY <2>1 DEF LeaseHasToken
  <1>6. CASE UNCHANGED row
    BY <1>6 DEF LeaseHasToken
  <1>7. ASSUME NEW w \in Relays,
               \/ ClaimReply(w) \/ IngestAccept(w) \/ SendReturns(w)
               \/ FinishTimeout(w) \/ Crash(w) \/ Pause(w)
        PROVE  UNCHANGED row
    BY <1>7 DEF ClaimReply, IngestAccept, SendReturns, FinishTimeout, Crash, Pause
  <1> QED
    BY <1>1, <1>2, <1>3, <1>4, <1>5, <1>6, <1>7 DEF Next, RelayStep, vars

\* PGOutbox keeps its tables, claims and statements well formed, and no row is
\* ever under a lease without a token.
THEOREM TypeCorrect == Spec => []RowsWellFormed
  <1>1. Init => LeaseHasToken
    BY DEF Init, LeaseHasToken, NoRow
  <1>2. IInv /\ LeaseHasToken => RowsWellFormed
    BY DEF IInv, RowsWellFormed
  <1> QED
    BY <1>1, <1>2, Inductive, LeaseHasTokenNext, PTL DEF Spec

\* EnqueueTx and DeliverOne: for any number of events, replicas and faults, a
\* committed event is pending with its own content until it is accepted.
THEOREM NeverLost == Spec => []NoLostEvent
  <1>1. IInv => NoLostEvent
    BY DEF IInv
  <1> QED
    BY <1>1, Inductive, PTL

\* claim and DeliverOne: the ingest only ever sees events of committed
\* business transactions.
THEOREM NeverInvented == Spec => []OnlyCommittedAccepted
  <1>1. IInv => OnlyCommittedAccepted
    BY DEF IInv
  <1> QED
    BY <1>1, Inductive, PTL

\* Run: whenever Lease > 2 * DBTimeout + SendTimeout, a replica that keeps its
\* deadlines holds the live lease of its row from claim to finish.
THEOREM LeaseSuffices == Spec => []LeaseOutlivesDelivery
  <1>1. IInv => LeaseOutlivesDelivery
    <2> SUFFICES ASSUME IInv, NEW w \in Relays, Active(w), relay[w].prompt
                 PROVE  /\ row[relay[w].id].token = relay[w].tok
                        /\ row[relay[w].id].lease > 0
      BY Zenon DEF LeaseOutlivesDelivery
    <2> QED
      BY PromptHolds
  <1> QED
    BY <1>1, Inductive, PTL

-----------------------------------------------------------------------------
(* Fencing *)

\* DeliverOne: for any number of replicas, a live lease ends only by the finish
\* that carries its own token.
THEOREM Fencing == Spec => LeaseFenced
  <1> DEFINE Kept == \A i \in Ids : row[i].lease > 0 /\ row'[i].token # row[i].token
                                      => FinishedWith(row[i].token)
  <1>1. ASSUME IInv, Next PROVE Kept
    <2> USE <1>1
    <2> SUFFICES ASSUME NEW i \in Ids, row[i].lease > 0,
                        row'[i].token # row[i].token
                 PROVE  FinishedWith(row[i].token)
      OBVIOUS
    <2>a. row[i].st = "live" /\ row[i].lease # 0
      BY TokenLive
    <2>1. ASSUME NEW p \in Producers, TxStep(p) PROVE FALSE
      <3>1. CASE \E j \in Ids, c \in Contents : EnqueueTx(p, j, c)
        BY <2>a, <3>1 DEF EnqueueTx, IInv, TypeOK, NewRow
      <3>2. CASE CommitTx(p)
        BY SMTT(30), <3>2 DEF CommitTx, IInv, TypeOK, Row
      <3>3. CASE RollbackTx(p)
        BY <2>a, <3>3 DEF RollbackTx, IInv, TypeOK, TxInv
      <3> QED
        BY SMTT(30), <2>1, <3>1, <3>2, <3>3 DEF TxStep
    <2>2. ASSUME NEW w \in Relays, Claim(w) PROVE FALSE
      BY SMTT(30), <2>a, <2>2 DEF Claim, Claimable, IInv, TypeOK
    <2>3. ASSUME NEW w \in Relays, Finish(w) PROVE FinishedWith(row[i].token)
      <3>1. Active(w) /\ Sound(relay[w])
        BY SMTT(30), <2>3 DEF Finish, Active, IInv, ClaimInv
      <3>2. /\ relay[w].id \in Ids /\ relay[w].tok \in Tokens
            /\ relay[w].att \in 0..SaturatedAttempts
        BY SMTT(30), <3>1, Held DEF IInv, TypeOK, Relay
      <3>3. row[i].token = relay[w].tok
        BY SMTT(30), <2>3, <3>1, <3>2, FinishRows DEF Finish
      <3> QED
        BY <2>3, <3>3 DEF Finish, FinishedWith, IInv, TypeOK
    <2>4. ASSUME NEW s \in late, LateFinish(s) PROVE FinishedWith(row[i].token)
      <3>1. /\ s.id \in Ids /\ s.tok \in Tokens /\ Sound(s)
            /\ s.att \in 0..SaturatedAttempts
        BY DEF IInv, TypeOK, ClaimInv, Statement
      <3>2. row[i].token = s.tok
        BY <2>4, <3>1, FinishRows, Zenon DEF LateFinish
      <3> QED
        BY SMTT(30), <2>4, <3>2 DEF LateFinish, FinishedWith
    <2>5. ASSUME Tick PROVE FALSE
      <3>1. row'[i] = [row[i] EXCEPT !.lease = Dec(row[i].lease),
                                     !.delay = Dec(row[i].delay)]
        BY <2>5, Zenon DEF Tick
      <3>2. row[i] \in Row
        BY DEF IInv, TypeOK
      <3> QED
        BY <3>1, <3>2 DEF Row
    <2>6. ASSUME NEW w \in Relays,
                 \/ ClaimReply(w) \/ IngestAccept(w) \/ SendReturns(w)
                 \/ FinishTimeout(w) \/ Crash(w) \/ Pause(w)
          PROVE  FALSE
      BY <2>6 DEF ClaimReply, IngestAccept, SendReturns, FinishTimeout, Crash, Pause
    <2> QED
      BY <2>1, <2>2, <2>3, <2>4, <2>5, <2>6 DEF Next, RelayStep
  <1>2. IInv /\ [Next]_vars => [Kept]_vars
    BY <1>1
  <1> QED
    BY <1>2, Inductive, PTL DEF Spec, LeaseFenced

-----------------------------------------------------------------------------
(* The outbox implements the abstract contract AuditDelivery, for every    *)
(* value of the constants.                                                 *)

\* Rows that stay committed with their content keep the pending events.
LEMMA PendingKept ==
  ASSUME \A j \in Ids : /\ row'[j].st = "live" <=> row[j].st = "live"
                        /\ row[j].st = "live" => row'[j].content = row[j].content
  PROVE  Pending' = Pending
  BY DEF Pending

\* A business transaction's steps are the contract's Commit or no step.
LEMMA TxStepRefines ==
  ASSUME IInv, NEW p \in Producers, TxStep(p)
  PROVE  AD!Next \/ UNCHANGED <<committed, Pending, accepted>>
  <1> USE DEF IInv
  <1>1. CASE \E i \in Ids, c \in Contents : EnqueueTx(p, i, c)
    <2>1. PICK i \in Ids, c \in Contents : EnqueueTx(p, i, c)
      BY <1>1
    <2>2. ASSUME row[i].st = "none", row' = [row EXCEPT ![i] = NewRow(c)]
          PROVE  Pending' = Pending
      <3>1. row'[i].st # "live" /\ \A j \in Ids \ {i} : row'[j] = row[j]
        BY <2>2 DEF TypeOK, NewRow
      <3> QED
        BY <2>2, <3>1, PendingKept
    <2>3. ASSUME UNCHANGED row
          PROVE  Pending' = Pending
      BY <2>3 DEF Pending
    <2>4. Pending' = Pending
      BY <2>1, <2>2, <2>3 DEF EnqueueTx
    <2> QED
      BY <2>1, <2>4 DEF EnqueueTx
  <1>2. CASE CommitTx(p)
    <2> DEFINE i == tx[p].id
               c == tx[p].c
    <2>1. i \in Ids /\ c \in Contents /\ row[i].content = c
      BY <1>2 DEF CommitTx, TxInv, NoTx
    <2>2. /\ \A j \in Ids \ {i} : row'[j] = row[j]
          /\ row'[i].st = "live" /\ row'[i].content = c
      BY SMTT(30), <1>2, <2>1 DEF CommitTx, TypeOK, Row
    <2>3. Pending' = Pending \cup {<<i, c>>}
      BY <2>1, <2>2 DEF Pending
    <2>4. AD!Commit(<<i, c>>)
      BY <1>2, <2>3 DEF CommitTx, AD!Commit
    <2> QED
      BY <2>1, <2>4 DEF AD!Next
  <1>3. CASE RollbackTx(p)
    <2>1. Pending' = Pending
      BY <1>3, PendingKept DEF RollbackTx, TypeOK, TxInv, NoTx, NoRow
    <2> QED
      BY SMTT(30), <1>3, <2>1 DEF RollbackTx
  <1> QED
    BY <1>1, <1>2, <1>3 DEF TxStep

\* A finish statement is the contract's Remove or no step.
LEMMA FinishRefines ==
  ASSUME IInv, NEW s, s.id \in Ids, s.c \in Contents, s.tok \in Tokens, Sound(s),
         finish(s), UNCHANGED <<tx, committed, accepted>>
  PROVE  AD!Next \/ UNCHANGED <<committed, Pending, accepted>>
  <1> USE DEF IInv
  <1>1. CASE UNCHANGED row
    BY <1>1 DEF Pending
  <1>2. CASE Fenced(s) /\ s.ok /\ Delete(s)
    <2> DEFINE e == <<s.id, s.c>>
    <2>1. row[s.id].st = "live" /\ row[s.id].content = s.c /\ e \in accepted
      BY SMTT(30), <1>2 DEF Fenced, Sound
    <2>2. row'[s.id].st = "none" /\ \A j \in Ids \ {s.id} : row'[j] = row[j]
      BY SMTT(30), <1>2 DEF Delete, TypeOK, NoRow
    <2>3. Pending' = Pending \ {e} /\ e \in Pending
      BY <2>1, <2>2 DEF Pending
    <2>4. AD!Remove(e)
      BY <2>1, <2>3 DEF AD!Remove
    <2> QED
      BY <2>4 DEF AD!Next
  <1>3. CASE Release(s)
    <2>1. \A j \in Ids : row'[j].st = row[j].st /\ row'[j].content = row[j].content
      BY <1>3 DEF Release, TypeOK, Row
    <2> QED
      BY <2>1, PendingKept
  <1> QED
    BY <1>1, <1>2, <1>3 DEF finish

\* A replica's steps are the contract's Accept or Remove, or no step.
LEMMA RelayStepRefines ==
  ASSUME IInv, NEW w \in Relays, RelayStep(w)
  PROVE  AD!Next \/ UNCHANGED <<committed, Pending, accepted>>
  <1> USE DEF IInv
  <1>1. CASE Claim(w)
    <2>1. \A j \in Ids : row'[j].st = row[j].st /\ row'[j].content = row[j].content
      BY <1>1 DEF Claim, TypeOK, Row
    <2> QED
      BY <1>1, <2>1, PendingKept, Zenon DEF Claim
  <1>2. CASE IngestAccept(w)
    <2> DEFINE e == <<relay[w].id, relay[w].c>>
    <2>1. Active(w) /\ relay[w].c \notin Poison
      BY <1>2 DEF IngestAccept, Active, ClaimInv
    <2>2. e \in Ids \X Contents /\ e \notin Ids \X Poison
      BY SMTT(30), <2>1, Held
    <2>3. e \in Pending \/ e \in accepted
      BY <2>1 DEF ClaimInv, Sound, NoLostEvent
    <2>4. Pending' = Pending
      BY <1>2 DEF IngestAccept, Pending
    <2>5. CASE e \in accepted
      BY <1>2, <2>4, <2>5 DEF IngestAccept
    <2>6. CASE e \in Pending
      <3>1. AD!Accept(e)
        BY <1>2, <2>2, <2>4, <2>6 DEF IngestAccept, AD!Accept
      <3> QED
        BY <2>2, <3>1 DEF AD!Next
    <2> QED
      BY <2>3, <2>5, <2>6
  <1>3. CASE Finish(w)
    <2>1. Active(w) /\ Sound(relay[w])
      BY <1>3 DEF Finish, Active, ClaimInv
    <2> QED
      BY <1>3, <2>1, Held, FinishRefines DEF Finish
  <1>4. CASE \/ ClaimReply(w) \/ SendReturns(w) \/ FinishTimeout(w)
             \/ Crash(w) \/ Pause(w)
    BY <1>4 DEF ClaimReply, SendReturns, FinishTimeout, Crash, Pause, Pending
  <1> QED
    BY <1>1, <1>2, <1>3, <1>4 DEF RelayStep

\* EnqueueTx, claim, DeliverOne and finish implement the abstract contract:
\* commits make events pending, only pending events are accepted, and only
\* accepted events leave.
THEOREM ImplementsDelivery == Spec => Delivery
  <1>1. Init => AD!Init
    BY DEF Init, AD!Init, Pending, NoRow
  <1>2. IInv /\ [Next]_vars => [AD!Next]_<<committed, Pending, accepted>>
    <2> SUFFICES ASSUME IInv, [Next]_vars
                 PROVE  AD!Next \/ UNCHANGED <<committed, Pending, accepted>>
      OBVIOUS
    <2>1. ASSUME NEW s \in late, LateFinish(s)
          PROVE  AD!Next \/ UNCHANGED <<committed, Pending, accepted>>
      <3>1. s.id \in Ids /\ s.c \in Contents /\ s.tok \in Tokens /\ Sound(s)
        BY DEF IInv, TypeOK, ClaimInv, Statement
      <3> QED
        BY SMTT(30), <2>1, <3>1, FinishRefines DEF LateFinish
    <2>2. CASE Tick
      <3>1. ASSUME NEW j \in Ids
            PROVE  row'[j].st = row[j].st /\ row'[j].content = row[j].content
        <4>1. row'[j] = [row[j] EXCEPT !.lease = Dec(row[j].lease),
                                       !.delay = Dec(row[j].delay)]
          BY <2>2, Zenon DEF Tick
        <4>2. row[j] \in Row
          BY DEF IInv, TypeOK
        <4> QED
          BY <4>1, <4>2 DEF Row
      <3> QED
        BY <2>2, <3>1, PendingKept, Zenon DEF Tick
    <2>3. CASE UNCHANGED vars
      BY <2>3 DEF vars, Pending
    <2> QED
      BY <2>1, <2>2, <2>3, TxStepRefines, RelayStepRefines DEF Next
  <1> QED
    BY <1>1, <1>2, Inductive, PTL DEF Spec, Delivery, AD!Spec, AD!vars

-----------------------------------------------------------------------------
(* The drain proof *)

F == INSTANCE FiniteSetTheorems

\* The library's finite sets and their cardinality are those of the model.
LEMMA SameFinite ==
  ASSUME NEW S
  PROVE  /\ F!IsFiniteSet(S) <=> IsFiniteSet(S)
         /\ F!Cardinality(S) = Cardinality(S)
  BY DEF F!Cardinality, Cardinality, F!IsFiniteSet, IsFiniteSet

\* Backlog: a count of zero proves that every committed event was accepted.
THEOREM BacklogIsProof ==
  ASSUME IsFiniteSet(Ids)
  PROVE  Spec => []DrainedProof
  <1>1. IInv => DrainedProof
    <2> SUFFICES ASSUME IInv, Backlog = 0 PROVE committed \subseteq accepted
      BY DEF DrainedProof
    <2> DEFINE live == {i \in Ids : row[i].st = "live"}
    <2>1. IsFiniteSet(live)
      BY F!FS_Subset, SameFinite
    <2>2. live = {}
      BY <2>1, F!FS_EmptySet, SameFinite DEF Backlog
    <2>3. Pending = {}
      BY <2>2 DEF Pending
    <2> QED
      BY <2>3 DEF IInv, NoLostEvent
  <1> QED
    BY <1>1, Inductive, PTL
=============================================================================
