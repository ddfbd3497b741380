------------------------ MODULE AuditOutboxInvariant ------------------------
(***************************************************************************)
(* The inductive invariant behind the safety of the outbox, and its        *)
(* preservation by business transactions and by the replicas' steps up to  *)
(* the finish statement.                                                   *)
(***************************************************************************)
EXTENDS AuditOutbox, TLAPS

-----------------------------------------------------------------------------
(* The inductive invariant *)

\* An open transaction holds the lock of one row, which is as it left it.
TxInv ==
  /\ \A p \in Producers :
       \/ tx[p] = NoTx
       \/ /\ tx[p].id \in Ids
          /\ tx[p].c \in Contents
          /\ tx[p].kind \in {"insert", "keep", "conflict"}
  /\ \A p, q \in Producers : tx[p].id \in Ids /\ tx[p].id = tx[q].id => p = q
  /\ \A p \in Producers :
       /\ tx[p].kind = "insert" => /\ row[tx[p].id].st = "open"
                                   /\ row[tx[p].id].content = tx[p].c
       /\ tx[p].kind \in {"keep", "conflict"} => row[tx[p].id].st = "live"
       /\ tx[p].kind = "keep" => row[tx[p].id].content = tx[p].c

\* Only committed rows are ever leased.
RowInv ==
  \A i \in Ids :
    /\ row[i].st # "live" => row[i].token = None /\ row[i].lease = 0
    /\ row[i].st # "none" => row[i].content \in Contents
    /\ row[i].st = "live" => <<i, row[i].content>> \in committed

\* A claim or statement s that still holds its row's token speaks of the
\* content that is in the row; if it reports success, the ingest has it.
Sound(s) ==
  /\ <<s.id, s.c>> \in committed
  /\ row[s.id].token = s.tok => /\ row[s.id].st = "live"
                                /\ row[s.id].content = s.c
  /\ s.ok => <<s.id, s.c>> \in accepted

ClaimInv ==
  /\ \A w \in Relays : Active(w) => Sound(relay[w])
  /\ \A w \in Relays : relay[w].pc = "sending" => relay[w].c \notin Poison
  /\ \A s \in late : Sound(s)

\* Tokens identify claims.
TokenInv ==
  /\ \A v, w \in Relays :
       Active(v) /\ Active(w) /\ relay[v].tok = relay[w].tok => v = w
  /\ \A w \in Relays, s \in late : Active(w) => relay[w].tok # s.tok
  /\ \A s, t \in late : s.tok = t.tok => s = t

\* The time a replica may still need after its current deadline.
Rest(pc) == IF pc = "claimed" THEN SendTimeout + DBTimeout
            ELSE IF pc = "sending" THEN DBTimeout ELSE 0

\* The lease of a replica that keeps its deadlines outlives the rest of its
\* delivery.
LeaseInv ==
  \A w \in Relays :
    Active(w) /\ relay[w].prompt =>
      /\ row[relay[w].id].token = relay[w].tok
      /\ row[relay[w].id].lease > relay[w].timer + Rest(relay[w].pc)

IInv ==
  /\ TypeOK
  /\ TxInv
  /\ RowInv
  /\ ClaimInv
  /\ TokenInv
  /\ LeaseInv
  /\ NoLostEvent
  /\ OnlyCommittedAccepted

-----------------------------------------------------------------------------
(* Arithmetic of the clock and of the backoff *)

\* The backoff of finish is a whole number of ticks.
LEMMA RetryNat == \A a \in 0..SaturatedAttempts : retryTicks(a) \in Nat
  <1>1. ASSUME NEW a \in 0..SaturatedAttempts
        PROVE  retrySeconds(a) \in Nat /\ retrySeconds(a) >= 1
    BY DEF SaturatedAttempts, retrySeconds
  <1>2. \A n \in Nat : n >= 1 => (n + TickSeconds - 1) \div TickSeconds \in Nat
    BY OutboxConstants
  <1> QED
    BY <1>1, <1>2 DEF retryTicks

\* Clocks count down to zero and attempts saturate.
LEMMA Counting ==
  /\ \A n \in Nat : Dec(n) \in Nat /\ Dec(n) <= n
  /\ \A n \in Nat : n > 0 => Dec(n) = n - 1
  /\ \A a \in 0..SaturatedAttempts : Bump(a) \in 0..SaturatedAttempts
  BY DEF Dec, Bump, SaturatedAttempts

-----------------------------------------------------------------------------
(* The invariant holds initially and every step preserves it *)

LEMMA InitIInv == Init => IInv
  <1> SUFFICES ASSUME Init PROVE IInv
    OBVIOUS
  <1> USE OutboxConstants DEF Init
  <1>1. TypeOK
    BY DEF TypeOK, Row, NoRow, Tx, NoTx, Relay, Idle, Active, SaturatedAttempts
  <1>2. TxInv /\ RowInv
    BY DEF TxInv, RowInv, NoRow, NoTx
  <1>3. ClaimInv /\ TokenInv /\ LeaseInv
    BY DEF ClaimInv, TokenInv, LeaseInv, Active, Idle
  <1>4. NoLostEvent /\ OnlyCommittedAccepted
    BY DEF NoLostEvent, OnlyCommittedAccepted
  <1> QED
    BY <1>1, <1>2, <1>3, <1>4 DEF IInv

\* next_attempt order relates identities.
LEMMA OrderType ==
  ASSUME before \in SUBSET (Ids \X Ids), NEW i \in Ids, NEW d
  PROVE  /\ Reorder(i, d) \in SUBSET (Ids \X Ids)
         /\ Forget(i) \in SUBSET (Ids \X Ids)
  BY DEF Reorder, Forget

\* A replica between claim and finish has a complete claim.
LEMMA Held ==
  ASSUME IInv, NEW w \in Relays, Active(w)
  PROVE  /\ relay[w].id \in Ids /\ relay[w].c \in Contents
         /\ relay[w].tok \in Tokens /\ relay[w].tok # None
  <1>1. relay[w].id \in Ids /\ relay[w].c \in Contents /\ relay[w].tok \in Tokens
    BY DEF IInv, TypeOK
  <1> QED
    BY <1>1, OutboxConstants

\* Only committed rows carry a token or a lease.
LEMMA TokenLive ==
  ASSUME IInv, NEW i \in Ids, row[i].token # None \/ row[i].lease > 0
  PROVE  row[i].st = "live"
  <1>1. ~(row[i].token = None /\ row[i].lease = 0)
    OBVIOUS
  <1> QED
    BY <1>1, Zenon DEF IInv, RowInv

\* A replica that keeps its deadlines owns a live lease.
LEMMA PromptHolds ==
  ASSUME IInv, NEW w \in Relays, Active(w), relay[w].prompt
  PROVE  /\ row[relay[w].id].token = relay[w].tok
         /\ row[relay[w].id].st = "live"
         /\ row[relay[w].id].lease > relay[w].timer + Rest(relay[w].pc)
         /\ row[relay[w].id].lease > 0
  <1>1. /\ row[relay[w].id].token = relay[w].tok
        /\ row[relay[w].id].lease > relay[w].timer + Rest(relay[w].pc)
    BY Zenon DEF IInv, LeaseInv
  <1>2. row[relay[w].id].st = "live"
    BY <1>1, Held, TokenLive
  <1>3. relay[w].timer \in Nat /\ row[relay[w].id].lease \in Nat
    BY Held, OutboxConstants DEF IInv, TypeOK, Relay, Row
  <1>4. Rest(relay[w].pc) \in Nat
    BY OutboxConstants DEF Rest
  <1> QED
    BY <1>1, <1>2, <1>3, <1>4

LEMMA EnqueueTxIInv ==
  ASSUME IInv, NEW p \in Producers, NEW i \in Ids, NEW c \in Contents,
         EnqueueTx(p, i, c)
  PROVE  IInv'
  <1> USE OutboxConstants DEF EnqueueTx, IInv
  <1>1. TypeOK'
    <2>1. row' \in [Ids -> Row]
      BY DEF TypeOK, Row, NewRow, SaturatedAttempts
    <2>2. before' \in SUBSET (Ids \X Ids)
      BY OrderType DEF TypeOK
    <2>3. tx' \in [Producers -> Tx]
      BY SMTT(30) DEF TypeOK, Tx
    <2> QED
      BY <2>1, <2>2, <2>3 DEF TypeOK, Active
  <1>2. TxInv'
    <2>1. \A q \in Producers \ {p} : tx'[q] = tx[q]
      BY DEF TypeOK
    <2>2. /\ tx'[p].id = i /\ tx'[p].c = c
          /\ tx'[p].kind \in {"insert", "keep", "conflict"}
          /\ tx'[p].kind = "insert" => row'[i].st = "open" /\ row'[i].content = c
          /\ tx'[p].kind # "insert" => row'[i] = row[i] /\ row[i].st = "live"
          /\ tx'[p].kind = "keep" => row[i].content = c
      BY DEF TypeOK, Row, NewRow
    <2>3. \A q \in Producers : tx[q].id # i
      BY DEF Locked
    <2>4. \A j \in Ids \ {i} : row'[j] = row[j]
      BY DEF TypeOK
    <2> QED
      BY <2>1, <2>2, <2>3, <2>4 DEF TxInv, NoTx
  <1>3. RowInv'
    BY SMTT(30) DEF TypeOK, RowInv, NoRow, NewRow, Row
  <1>4. ClaimInv'
    BY DEF TypeOK, RowInv, ClaimInv, Sound, Active, NoRow, NewRow, Row, Statement
  <1>5. TokenInv'
    BY DEF TokenInv, Active
  <1>6. LeaseInv'
    <2>1. ASSUME NEW w \in Relays, Active(w), relay[w].prompt
          PROVE  row'[relay[w].id] = row[relay[w].id]
      BY <2>1, PromptHolds, Held DEF TypeOK
    <2> QED
      BY SMTT(30), <2>1 DEF LeaseInv, Active
  <1>7. NoLostEvent'
    BY DEF NoLostEvent, Pending, TypeOK, Row, NoRow
  <1>8. OnlyCommittedAccepted'
    BY DEF OnlyCommittedAccepted
  <1> QED
    BY <1>1, <1>2, <1>3, <1>4, <1>5, <1>6, <1>7, <1>8

LEMMA CommitTxIInv ==
  ASSUME IInv, NEW p \in Producers, CommitTx(p)
  PROVE  IInv'
  <1> DEFINE i == tx[p].id
             c == tx[p].c
  <1> USE OutboxConstants DEF CommitTx, IInv
  <1>a. /\ i \in Ids /\ c \in Contents
        /\ row[i].st \in {"open", "live"} /\ row[i].content = c
    BY DEF TxInv, NoTx
  <1>b. /\ \A j \in Ids \ {i} : row'[j] = row[j]
        /\ row'[i] = [row[i] EXCEPT !.st = "live"]
    BY <1>a DEF TypeOK
  <1>c. /\ row'[i].st = "live" /\ row'[i].content = c
        /\ row'[i].lease = row[i].lease /\ row'[i].token = row[i].token
    BY <1>a, <1>b DEF TypeOK, Row
  <1>1. TypeOK'
    <2>1. row' \in [Ids -> Row]
      BY <1>a DEF TypeOK, Row
    <2>2. tx' \in [Producers -> Tx]
      BY DEF TypeOK, Tx, NoTx
    <2>3. committed' \in SUBSET (Ids \X Contents)
      BY SMTT(30), <1>a DEF TypeOK
    <2> QED
      BY <2>1, <2>2, <2>3 DEF TypeOK, Active
  <1>2. TxInv'
    <2>1. tx'[p] = NoTx /\ \A q \in Producers \ {p} : tx'[q] = tx[q]
      BY DEF TypeOK
    <2>2. \A q \in Producers \ {p} : tx[q].id # i
      BY SMTT(30), <1>a DEF TxInv
    <2> QED
      BY <1>b, <2>1, <2>2 DEF TxInv, NoTx
  <1>3. RowInv'
    BY <1>a, <1>b, <1>c DEF RowInv
  <1>4. ClaimInv'
    <2>1. ASSUME NEW s, s.id \in Ids, Sound(s)
          PROVE  Sound(s)'
      BY <1>a, <1>b, <1>c, <2>1 DEF Sound
    <2> QED
      BY <2>1, Held DEF ClaimInv, Active, TypeOK, Statement
  <1>5. TokenInv'
    BY SMTT(30) DEF TokenInv, Active
  <1>6. LeaseInv'
    BY <1>b, <1>c, Held DEF LeaseInv, Active
  <1>7. NoLostEvent'
    BY <1>a, <1>b, <1>c DEF NoLostEvent, Pending
  <1>8. OnlyCommittedAccepted'
    BY DEF OnlyCommittedAccepted
  <1> QED
    BY <1>1, <1>2, <1>3, <1>4, <1>5, <1>6, <1>7, <1>8

LEMMA RollbackTxIInv ==
  ASSUME IInv, NEW p \in Producers, RollbackTx(p)
  PROVE  IInv'
  <1> DEFINE i == tx[p].id
  <1> USE OutboxConstants DEF RollbackTx, IInv
  <1>a. i \in Ids
    BY DEF TxInv, NoTx
  <1>b. \A j \in Ids \ {i} : row'[j] = row[j]
    BY DEF TypeOK
  <1>c. \/ row'[i] = row[i]
        \/ row[i].st = "open" /\ row'[i] = NoRow
    BY <1>a DEF TypeOK, TxInv
  <1>d. ASSUME NEW j \in Ids, row[j].token # None \/ row[j].st = "live"
        PROVE  row'[j] = row[j]
    BY <1>b, <1>c, <1>d, TokenLive
  <1>e. \A j \in Ids : row'[j] = row[j] \/ (row'[j] = NoRow /\ row[j].st = "open")
    BY <1>b, <1>c
  <1>1. TypeOK'
    <2>1. row' \in [Ids -> Row]
      BY DEF TypeOK, Row, NoRow, SaturatedAttempts
    <2>2. tx' \in [Producers -> Tx]
      BY DEF TypeOK, Tx, NoTx
    <2>3. before' \in SUBSET (Ids \X Ids)
      BY SMTT(30), <1>a, OrderType DEF TypeOK
    <2> QED
      BY <2>1, <2>2, <2>3 DEF TypeOK, Active
  <1>2. TxInv'
    <2>1. tx'[p] = NoTx /\ \A q \in Producers \ {p} : tx'[q] = tx[q]
      BY DEF TypeOK
    <2>2. \A q \in Producers \ {p} : tx[q].id # i
      BY <1>a DEF TxInv
    <2> QED
      BY <1>b, <2>1, <2>2 DEF TxInv, NoTx
  <1>3. RowInv'
    BY SMTT(30), <1>e DEF RowInv, NoRow
  <1>4. ClaimInv'
    <2>1. ASSUME NEW s, s.id \in Ids, s.tok # None, Sound(s)
          PROVE  Sound(s)'
      BY <1>e, <2>1 DEF Sound, NoRow
    <2>2. \A s \in late : s.id \in Ids /\ s.tok # None
      BY DEF TypeOK, Statement
    <2> QED
      BY <2>1, <2>2, Held DEF ClaimInv, Active
  <1>5. TokenInv'
    BY DEF TokenInv, Active
  <1>6. LeaseInv'
    <2>1. ASSUME NEW w \in Relays, Active(w), relay[w].prompt
          PROVE  row'[relay[w].id] = row[relay[w].id]
      BY <1>d, <2>1, PromptHolds, Held
    <2> QED
      BY <2>1 DEF LeaseInv, Active
  <1>7. NoLostEvent'
    BY <1>d DEF NoLostEvent, Pending
  <1>8. OnlyCommittedAccepted'
    BY DEF OnlyCommittedAccepted
  <1> QED
    BY <1>1, <1>2, <1>3, <1>4, <1>5, <1>6, <1>7, <1>8

\* The updates of claim and finish keep a row well formed.
LEMMA Leasing ==
  ASSUME NEW r \in Row, NEW t \in Tokens \cup {None}, NEW l \in 0..Lease,
         NEW a \in 0..SaturatedAttempts, NEW d \in Nat
  PROVE  /\ [r EXCEPT !.lease = l, !.token = t, !.attempts = a] \in Row
         /\ [r EXCEPT !.delay = d, !.token = t, !.lease = l] \in Row
  BY Zenon DEF Row

LEMMA ClaimIInv ==
  ASSUME IInv, NEW w \in Relays, Claim(w)
  PROVE  IInv'
  <1> USE OutboxConstants DEF IInv
  <1>a. PICK i \in Ids, t \in Tokens :
          /\ Claimable(i)
          /\ FreshToken(t)
          /\ row' = [row EXCEPT ![i].lease = Lease, ![i].token = t,
                                ![i].attempts = Bump(@)]
          /\ relay' = [relay EXCEPT ![w] =
                         Claimed(i, row[i].content, t, Bump(row[i].attempts))]
    BY Zenon DEF Claim
  <1>b. UNCHANGED <<before, tx, late, committed, accepted, faults, txs>>
    BY DEF Claim
  <1>c. /\ \A j \in Ids \ {i} : row'[j] = row[j]
        /\ row'[i].st = "live" /\ row[i].st = "live"
        /\ row'[i].content = row[i].content
        /\ row'[i].token = t /\ row'[i].lease = Lease /\ row[i].lease = 0
    BY <1>a DEF TypeOK, Row, Claimable
  <1>d. /\ \A v \in Relays \ {w} : relay'[v] = relay[v]
        /\ relay'[w] = Claimed(i, row[i].content, t, Bump(row[i].attempts))
    BY <1>a DEF TypeOK
  <1>e. /\ relay'[w].pc = "claimed" /\ relay'[w].id = i
        /\ relay'[w].c = row[i].content /\ relay'[w].tok = t
        /\ relay'[w].timer = DBTimeout /\ relay'[w].ok = FALSE
    BY <1>d DEF Claimed
  <1>f. row[i].content \in Contents /\ <<i, row[i].content>> \in committed
    BY <1>c DEF RowInv
  <1>1. TypeOK'
    <2>1. Bump(row[i].attempts) \in 0..SaturatedAttempts
      BY Counting DEF TypeOK, Row
    <2>2. row' \in [Ids -> Row]
      <3> DEFINE a == Bump(row[i].attempts)
      <3>1. [row[i] EXCEPT !.lease = Lease, !.token = t, !.attempts = a] \in Row
        <4>1. row[i] \in Row /\ Lease \in 0..Lease /\ t \in Tokens \cup {None}
          BY DEF TypeOK
        <4> HIDE DEF a
        <4> QED
          BY <2>1, <4>1, Leasing, Zenon DEF a
      <3>2. row' = [row EXCEPT ![i] =
                      [row[i] EXCEPT !.lease = Lease, !.token = t, !.attempts = a]]
        BY <1>a, Zenon
      <3> QED
        BY <3>1, <3>2 DEF TypeOK
    <2>3. relay' \in [Relays -> Relay]
      BY <1>a, <1>f, <2>1 DEF TypeOK, Relay, Claimed
    <2>4. \A v \in Relays : Active(v)' => /\ relay'[v].id \in Ids
                                          /\ relay'[v].c \in Contents
                                          /\ relay'[v].tok \in Tokens
      BY SMTT(30), <1>a, <1>d, <1>e, <1>f DEF TypeOK, Active
    <2> QED
      BY <1>b, <2>2, <2>3, <2>4 DEF TypeOK
  <1>2. TxInv'
    <2>1. \A p \in Producers : tx[p].id # i
      BY <1>a DEF Claimable, Locked
    <2> QED
      BY <1>b, <1>c, <2>1 DEF TxInv, NoTx
  <1>3. RowInv'
    BY SMTT(30), <1>b, <1>c, <1>f DEF RowInv
  <1>4. ClaimInv'
    <2>1. ASSUME NEW s, s.id \in Ids, s.tok # t, Sound(s)
          PROVE  Sound(s)'
      BY <1>b, <1>c, <2>1 DEF Sound
    <2>2. \A s \in late : s.id \in Ids /\ s.tok # t
      BY <1>a DEF TypeOK, Statement, FreshToken
    <2>3. \A v \in Relays : relay[v].tok # t
      BY <1>a DEF FreshToken
    <2>4. Sound(relay[w])'
      BY SMTT(30), <1>b, <1>c, <1>e, <1>f DEF Sound
    <2> QED
      BY <1>b, <1>d, <1>e, <2>1, <2>2, <2>3, <2>4, Held DEF ClaimInv, Active
  <1>5. TokenInv'
    BY <1>a, <1>b, <1>d, <1>e DEF TokenInv, Active, FreshToken
  <1>6. LeaseInv'
    <2>1. ASSUME NEW v \in Relays \ {w}, Active(v), relay[v].prompt
          PROVE  row'[relay[v].id] = row[relay[v].id]
      BY <1>c, <2>1, PromptHolds, Held
    <2>2. Lease > DBTimeout + Rest("claimed")
      BY LeaseCoversDelivery DEF Rest
    <2>3. ASSUME NEW v \in Relays \ {w}, Active(v), relay[v].prompt
          PROVE  /\ row'[relay[v].id].token = relay[v].tok
                 /\ row'[relay[v].id].lease > relay[v].timer + Rest(relay[v].pc)
      BY <2>1, <2>3, PromptHolds
    <2>4. /\ row'[relay'[w].id].token = relay'[w].tok
          /\ row'[relay'[w].id].lease > relay'[w].timer + Rest(relay'[w].pc)
      BY <1>c, <1>e, <2>2
    <2> QED
      BY <1>d, <2>3, <2>4, Zenon DEF LeaseInv, Active
  <1>7. NoLostEvent'
    BY <1>b, <1>c DEF NoLostEvent, Pending
  <1>8. OnlyCommittedAccepted'
    BY SMTT(30), <1>b DEF OnlyCommittedAccepted
  <1> QED
    BY <1>1, <1>2, <1>3, <1>4, <1>5, <1>6, <1>7, <1>8

\* A replica advances with the claim it has, without touching the database.
LEMMA AdvanceIInv ==
  ASSUME IInv, NEW w \in Relays, Active(w), Active(w)',
         UNCHANGED <<row, before, tx, late, committed, txs>>,
         faults' \in Nat,
         relay' \in [Relays -> Relay],
         \A v \in Relays \ {w} : relay'[v] = relay[v],
         relay'[w].id = relay[w].id, relay'[w].c = relay[w].c,
         relay'[w].tok = relay[w].tok,
         relay'[w].pc = "sending" => relay[w].c \notin Poison,
         relay'[w].ok => <<relay[w].id, relay[w].c>> \in accepted',
         relay'[w].prompt => relay[w].prompt,
         relay'[w].timer + Rest(relay'[w].pc)
           <= relay[w].timer + Rest(relay[w].pc),
         \/ UNCHANGED accepted
         \/ accepted' = accepted \cup {<<relay[w].id, relay[w].c>>}
  PROVE  IInv'
  <1> USE DEF IInv
  <1>a. Sound(relay[w])
    BY SMTT(30) DEF ClaimInv
  <1>b. accepted \subseteq accepted' /\ accepted' \subseteq committed
    BY SMTT(30), <1>a DEF Sound, OnlyCommittedAccepted
  <1>1. TypeOK'
    <2>1. accepted' \in SUBSET (Ids \X Contents)
      BY SMTT(30), <1>b DEF TypeOK
    <2>2. \A v \in Relays : Active(v)' => /\ relay'[v].id \in Ids
                                          /\ relay'[v].c \in Contents
                                          /\ relay'[v].tok \in Tokens
      BY SMTT(30), Held DEF TypeOK, Active
    <2> QED
      BY SMTT(30), <2>1, <2>2 DEF TypeOK
  <1>2. TxInv' /\ RowInv'
    BY DEF TxInv, RowInv
  <1>3. ClaimInv'
    <2>1. ASSUME NEW s, Sound(s) PROVE Sound(s)'
      BY SMTT(30), <1>b, <2>1 DEF Sound
    <2>2. Sound(relay[w])'
      BY <1>a, <2>1 DEF Sound
    <2>3. \A v \in Relays : Active(v)' => Sound(relay[v])'
      <3>1. ASSUME NEW v \in Relays \ {w}, Active(v)' PROVE Sound(relay[v])'
        <4>1. relay'[v] = relay[v] /\ Sound(relay[v])
          BY <3>1 DEF ClaimInv, Active
        <4> QED
          BY <2>1, <4>1 DEF Sound
      <3> QED
        BY <2>2, <3>1, Zenon
    <2>4. \A v \in Relays : relay'[v].pc = "sending" => relay'[v].c \notin Poison
      BY SMTT(30) DEF ClaimInv
    <2>5. \A s \in late' : Sound(s)'
      BY SMTT(30), <2>1 DEF ClaimInv
    <2> QED
      BY <2>3, <2>4, <2>5, Zenon DEF ClaimInv
  <1>4. TokenInv'
    BY DEF TokenInv, Active
  <1>5. LeaseInv'
    <2>1. ASSUME NEW v \in Relays, Active(v)', relay'[v].prompt
          PROVE  /\ row'[relay'[v].id].token = relay'[v].tok
                 /\ row'[relay'[v].id].lease
                      > relay'[v].timer + Rest(relay'[v].pc)
      <3>1. CASE v # w
        BY SMTT(30), <2>1, <3>1, PromptHolds DEF Active
      <3>2. CASE v = w
        <4>1. /\ row[relay[w].id].token = relay[w].tok
              /\ row[relay[w].id].lease > relay[w].timer + Rest(relay[w].pc)
          BY SMTT(30), <2>1, <3>2, PromptHolds
        <4>2. /\ relay[w].timer + Rest(relay[w].pc) \in Nat
              /\ relay'[w].timer + Rest(relay'[w].pc) \in Nat
              /\ row[relay[w].id].lease \in Nat
          <5>1. relay[w] \in Relay /\ relay'[w] \in Relay /\ row[relay[w].id] \in Row
            BY Held DEF TypeOK
          <5>2. Rest(relay[w].pc) \in Nat /\ Rest(relay'[w].pc) \in Nat
            BY SMTT(30), OutboxConstants DEF Rest
          <5>3. relay[w].timer \in Nat /\ relay'[w].timer \in Nat
            BY SMTT(30), <5>1 DEF Relay
          <5>4. row[relay[w].id].lease \in Nat
            BY <5>1, OutboxConstants DEF Row
          <5> QED
            BY SMTT(30), <5>2, <5>3, <5>4
        <4> QED
          BY SMTT(30), <3>2, <4>1, <4>2
      <3> QED
        BY SMTT(30), <3>1, <3>2
    <2> QED
      BY <2>1, Zenon DEF LeaseInv
  <1>6. NoLostEvent' /\ OnlyCommittedAccepted'
    BY <1>b, Zenon DEF NoLostEvent, OnlyCommittedAccepted, Pending
  <1> QED
    BY SMTT(30), <1>1, <1>2, <1>3, <1>4, <1>5, <1>6

\* The updates of a replica's progress keep it well formed.
LEMMA Advancing ==
  ASSUME NEW r \in Relay, NEW pc \in {"idle", "claimed", "sending", "finishing"},
         NEW n \in Nat
  PROVE  /\ [r EXCEPT !.pc = pc, !.timer = n] \in Relay
         /\ [r EXCEPT !.ok = TRUE] \in Relay
         /\ [r EXCEPT !.prompt = FALSE] \in Relay
         /\ [r EXCEPT !.timer = n] \in Relay
  BY Zenon DEF Relay

LEMMA ClaimReplyIInv ==
  ASSUME IInv, NEW w \in Relays, ClaimReply(w)
  PROVE  IInv'
  <1> USE OutboxConstants DEF ClaimReply
  <1>1. Active(w) /\ Active(w)'
    BY DEF Active, IInv, TypeOK, Relay
  <1>2. relay' \in [Relays -> Relay]
    <2>1. relay[w] \in Relay
      BY DEF IInv, TypeOK
    <2>2. [relay[w] EXCEPT
            !.pc = IF relay[w].c \in Poison THEN "finishing" ELSE "sending",
            !.timer = IF relay[w].c \in Poison THEN DBTimeout ELSE SendTimeout]
            \in Relay
      BY <2>1, Advancing, Zenon
    <2> QED
      BY <2>2, Zenon DEF IInv, TypeOK
  <1>3. /\ relay'[w].id = relay[w].id /\ relay'[w].c = relay[w].c
        /\ relay'[w].tok = relay[w].tok /\ relay'[w].ok = relay[w].ok
        /\ relay'[w].prompt = relay[w].prompt
        /\ relay'[w].pc = "sending" => relay[w].c \notin Poison
    BY DEF IInv, TypeOK, Relay
  <1>4. relay'[w].timer + Rest(relay'[w].pc) <= relay[w].timer + Rest(relay[w].pc)
    BY DEF IInv, TypeOK, Relay, Rest
  <1>5. \A v \in Relays \ {w} : relay'[v] = relay[v]
    BY DEF IInv, TypeOK
  <1>6. relay[w].ok => <<relay[w].id, relay[w].c>> \in accepted
    BY <1>1 DEF IInv, ClaimInv, Sound
  <1> QED
    BY <1>1, <1>2, <1>3, <1>4, <1>5, <1>6, AdvanceIInv, Zenon DEF IInv, TypeOK

LEMMA IngestAcceptIInv ==
  ASSUME IInv, NEW w \in Relays, IngestAccept(w)
  PROVE  IInv'
  <1> USE OutboxConstants DEF IngestAccept
  <1>1. Active(w) /\ Active(w)'
    BY DEF Active, IInv, TypeOK, Relay
  <1>2. relay' \in [Relays -> Relay]
    <2>1. relay[w] \in Relay
      BY DEF IInv, TypeOK
    <2>2. [relay[w] EXCEPT !.ok = TRUE] \in Relay
      BY <2>1, Advancing, Zenon
    <2> QED
      BY <2>2, Zenon DEF IInv, TypeOK
  <1>3. /\ relay'[w].id = relay[w].id /\ relay'[w].c = relay[w].c
        /\ relay'[w].tok = relay[w].tok /\ relay'[w].prompt = relay[w].prompt
        /\ relay'[w].pc = relay[w].pc /\ relay'[w].timer = relay[w].timer
        /\ relay[w].c \notin Poison
    BY DEF IInv, TypeOK, Relay, ClaimInv
  <1>4. relay'[w].timer + Rest(relay'[w].pc) <= relay[w].timer + Rest(relay[w].pc)
    BY <1>3 DEF IInv, TypeOK, Relay, Rest
  <1>5. \A v \in Relays \ {w} : relay'[v] = relay[v]
    BY DEF IInv, TypeOK
  <1> QED
    BY <1>1, <1>2, <1>3, <1>4, <1>5, AdvanceIInv, Zenon DEF IInv, TypeOK

LEMMA SendReturnsIInv ==
  ASSUME IInv, NEW w \in Relays, SendReturns(w)
  PROVE  IInv'
  <1> USE OutboxConstants DEF SendReturns
  <1>1. Active(w) /\ Active(w)'
    BY DEF Active, IInv, TypeOK, Relay
  <1>2. relay' \in [Relays -> Relay]
    BY DEF IInv, TypeOK, Relay
  <1>3. /\ relay'[w].id = relay[w].id /\ relay'[w].c = relay[w].c
        /\ relay'[w].tok = relay[w].tok /\ relay'[w].prompt = relay[w].prompt
        /\ relay'[w].ok => relay[w].ok
        /\ relay'[w].pc = "finishing" /\ relay'[w].timer = DBTimeout
    BY DEF IInv, TypeOK, Relay
  <1>4. relay'[w].timer + Rest(relay'[w].pc) <= relay[w].timer + Rest(relay[w].pc)
    BY <1>3 DEF IInv, TypeOK, Relay, Rest
  <1>5. \A v \in Relays \ {w} : relay'[v] = relay[v]
    BY DEF IInv, TypeOK
  <1>6. relay[w].ok => <<relay[w].id, relay[w].c>> \in accepted
    BY <1>1 DEF IInv, ClaimInv, Sound
  <1>7. faults' \in Nat
    BY DEF IInv, TypeOK
  <1> QED
    BY <1>1, <1>2, <1>3, <1>4, <1>5, <1>6, <1>7, AdvanceIInv

LEMMA PauseIInv ==
  ASSUME IInv, NEW w \in Relays, Pause(w)
  PROVE  IInv'
  <1> USE DEF Pause
  <1>1. Active(w) /\ Active(w)'
    BY DEF Active, IInv, TypeOK, Relay
  <1>2. relay' \in [Relays -> Relay]
    <2>1. relay[w] \in Relay
      BY DEF IInv, TypeOK
    <2>2. [relay[w] EXCEPT !.prompt = FALSE] \in Relay
      BY <2>1, Advancing, Zenon
    <2> QED
      BY <2>2, Zenon DEF IInv, TypeOK
  <1>3. /\ relay'[w].id = relay[w].id /\ relay'[w].c = relay[w].c
        /\ relay'[w].tok = relay[w].tok /\ relay'[w].ok = relay[w].ok
        /\ relay'[w].pc = relay[w].pc /\ relay'[w].timer = relay[w].timer
        /\ relay[w].prompt
    BY DEF IInv, TypeOK, Relay
  <1>4. relay'[w].timer + Rest(relay'[w].pc) <= relay[w].timer + Rest(relay[w].pc)
    BY <1>3, OutboxConstants DEF IInv, TypeOK, Relay, Rest
  <1>5. \A v \in Relays \ {w} : relay'[v] = relay[v]
    BY DEF IInv, TypeOK
  <1>6. /\ relay[w].ok => <<relay[w].id, relay[w].c>> \in accepted
        /\ relay[w].pc = "sending" => relay[w].c \notin Poison
    BY <1>1 DEF IInv, ClaimInv, Sound
  <1>7. faults' \in Nat
    BY DEF IInv, TypeOK
  <1> QED
    BY <1>1, <1>2, <1>3, <1>4, <1>5, <1>6, <1>7, AdvanceIInv, Zenon

\* A replica gives its claim up; the claim's finish statement may be left
\* behind at the server.
LEMMA DropIInv ==
  ASSUME IInv, NEW w \in Relays, Active(w),
         UNCHANGED <<row, before, tx, committed, accepted, txs>>,
         faults' \in Nat,
         relay' = [relay EXCEPT ![w] = Idle],
         \/ UNCHANGED late
         \/ late' = late \cup {[id |-> relay[w].id, c |-> relay[w].c,
                                tok |-> relay[w].tok, att |-> relay[w].att,
                                ok |-> relay[w].ok]}
  PROVE  IInv'
  <1> DEFINE new == [id |-> relay[w].id, c |-> relay[w].c, tok |-> relay[w].tok,
                     att |-> relay[w].att, ok |-> relay[w].ok]
  <1> USE DEF IInv
  <1>a. relay'[w] = Idle /\ \A v \in Relays \ {w} : relay'[v] = relay[v]
    BY DEF TypeOK
  <1>b. ~Active(w)' /\ relay'[w].pc # "sending"
    BY SMTT(30), <1>a DEF Active, Idle
  <1>1. TypeOK'
    <2>1. relay' \in [Relays -> Relay]
      BY SMTT(30), OutboxConstants DEF TypeOK, Relay, Idle, SaturatedAttempts
    <2>2. new \in Statement
      BY SMTT(30), Held DEF TypeOK, Relay, Statement
    <2>3. late' \in SUBSET Statement
      BY SMTT(30), <2>2 DEF TypeOK
    <2>4. \A v \in Relays : Active(v)' => /\ relay'[v].id \in Ids
                                          /\ relay'[v].c \in Contents
                                          /\ relay'[v].tok \in Tokens
      BY SMTT(30), <1>a, <1>b DEF TypeOK, Active
    <2> QED
      BY SMTT(30), <2>1, <2>3, <2>4 DEF TypeOK
  <1>2. TxInv' /\ RowInv'
    BY SMTT(30) DEF TxInv, RowInv
  <1>3. ClaimInv'
    <2>1. ASSUME NEW s, Sound(s) PROVE Sound(s)'
      BY <2>1 DEF Sound
    <2>2. Sound(new)
      BY Zenon DEF ClaimInv, Sound
    <2>3. \A s \in late' : Sound(s)'
      BY SMTT(30), <2>1, <2>2 DEF ClaimInv
    <2>4. \A v \in Relays : Active(v)' => Sound(relay[v])'
      BY SMTT(30), <1>a, <1>b, <2>1 DEF ClaimInv, Active
    <2> QED
      BY SMTT(30), <1>a, <1>b, <2>3, <2>4 DEF ClaimInv
  <1>4. TokenInv'
    BY <1>a, <1>b DEF TokenInv, Active
  <1>5. LeaseInv'
    <2>1. ASSUME NEW v \in Relays, Active(v)'
          PROVE  relay'[v] = relay[v] /\ Active(v)
      BY <1>a, <1>b, <2>1 DEF Active
    <2> QED
      BY <2>1, Zenon DEF LeaseInv
  <1>6. NoLostEvent' /\ OnlyCommittedAccepted'
    BY Zenon DEF NoLostEvent, OnlyCommittedAccepted, Pending
  <1> QED
    BY SMTT(30), <1>1, <1>2, <1>3, <1>4, <1>5, <1>6

LEMMA FinishTimeoutIInv ==
  ASSUME IInv, NEW w \in Relays, FinishTimeout(w)
  PROVE  IInv'
  <1>1. Active(w)
    BY DEF FinishTimeout, Active
  <1>2. faults' \in Nat
    <2>1. faults' = faults \/ faults' = faults + 1
      BY Zenon DEF FinishTimeout
    <2> QED
      BY <2>1 DEF IInv, TypeOK
  <1> QED
    BY <1>1, <1>2, DropIInv, Zenon DEF FinishTimeout

LEMMA CrashIInv ==
  ASSUME IInv, NEW w \in Relays, Crash(w)
  PROVE  IInv'
  <1>1. faults' \in Nat
    BY DEF Crash, IInv, TypeOK
  <1> QED
    BY <1>1, DropIInv, Zenon DEF Crash
=============================================================================
