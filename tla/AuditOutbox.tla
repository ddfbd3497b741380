---------------------------- MODULE AuditOutbox ----------------------------
(***************************************************************************)
(* The PostgreSQL audit outbox: business transactions enqueue events, and  *)
(* relay replicas claim, send and finish them under fenced leases.         *)
(*                                                                         *)
(* Database times are kept as the number of clock ticks left, so that the  *)
(* state space is finite without a cap on time: lease_until is the field   *)
(* lease (0 = no lease or an expired one), next_attempt is the field delay *)
(* (0 = due).  The order of next_attempt values, which claim sorts by, is  *)
(* kept in the relation before.                                            *)
(***************************************************************************)
EXTENDS Integers, FiniteSets

CONSTANTS Ids,          \* event identities (Event.ID, the primary key)
          Contents,     \* the service and payload columns
          Poison,       \* contents that json.Unmarshal rejects
          Producers,    \* connections that run business transactions
          Relays,       \* replicas that execute Run
          Tokens,       \* lease tokens (uuid.NewString)
          None,
          TickSeconds,  \* the length of a clock tick
          Lease,        \* outboxLease, in ticks
          DBTimeout,    \* outboxDBTimeout
          SendTimeout,  \* outboxSendTimeout
          MaxFaults,    \* bound: crashes, pauses, failed sends, lost statements
          MaxTx         \* bound: business transactions

ASSUME OutboxConstants ==
  /\ Poison \subseteq Contents
  /\ None \notin Ids \cup Contents \cup Tokens
  /\ TickSeconds \in Nat \ {0}
  /\ Lease \in Nat /\ DBTimeout \in Nat /\ SendTimeout \in Nat
  /\ MaxFaults \in Nat /\ MaxTx \in Nat

\* What Run's comment asks of the three durations.  The claim's own round
\* trip counts too: the lease starts when the server executes the claim.
ASSUME LeaseCoversDelivery == Lease > DBTimeout + SendTimeout + DBTimeout

VARIABLES row,        \* table csar_audit_outbox, by identity
          before,     \* <<i, j>>: row i sorts before row j in next_attempt order
          tx,         \* the open business transaction of each producer
          relay,      \* DeliverOne's progress in each replica
          late,       \* finish statements whose client gave up waiting
          committed,  \* ghost: events of committed business transactions
          accepted,   \* the ingest service: events it has accepted
          faults, txs

vars == <<row, before, tx, relay, late, committed, accepted, faults, txs>>

-----------------------------------------------------------------------------
(* Values *)

SaturatedAttempts == 6  \* retrySeconds is constant from here on

Row == [st : {"none", "open", "live"},  \* open: inserted, not yet committed
        content : Contents \cup {None},
        lease : 0..Lease, token : Tokens \cup {None},
        delay : Nat, attempts : 0..SaturatedAttempts]

NoRow == [st |-> "none", content |-> None, lease |-> 0, token |-> None,
          delay |-> 0, attempts |-> 0]

NewRow(c) == [st |-> "open", content |-> c, lease |-> 0, token |-> None,
              delay |-> 0, attempts |-> 0]

Tx == [id : Ids \cup {None}, c : Contents \cup {None},
       kind : {"none", "insert", "keep", "conflict"}]

NoTx == [id |-> None, c |-> None, kind |-> "none"]

Relay == [pc : {"idle", "claimed", "sending", "finishing"},
          id : Ids \cup {None}, c : Contents \cup {None},
          tok : Tokens \cup {None}, att : 0..SaturatedAttempts,
          timer : Nat,      \* ticks left of the current context deadline
          ok : BOOLEAN,     \* the ingest accepted this send
          prompt : BOOLEAN] \* the process runs its timers on time

Idle == [pc |-> "idle", id |-> None, c |-> None, tok |-> None, att |-> 0,
         timer |-> 0, ok |-> FALSE, prompt |-> TRUE]

Claimed(i, content, t, attempts) ==
  [pc |-> "claimed", id |-> i, c |-> content, tok |-> t, att |-> attempts,
   timer |-> DBTimeout, ok |-> FALSE, prompt |-> TRUE]

Statement == [id : Ids, c : Contents, tok : Tokens,
              att : 0..SaturatedAttempts, ok : BOOLEAN]

Active(w) == relay[w].pc # "idle"
Locked(i) == \E p \in Producers : tx[p].id = i
FreshToken(t) ==
  /\ \A i \in Ids : row[i].token # t
  /\ \A w \in Relays : relay[w].tok # t
  /\ \A s \in late : s.tok # t

Dec(n) == IF n > 0 THEN n - 1 ELSE 0
Bump(n) == IF n < SaturatedAttempts THEN n + 1 ELSE n

Pending == {<<i, row[i].content>> : i \in {j \in Ids : row[j].st = "live"}}

\* Mutated: leased rows and rows that wait for their next attempt are left out.
BacklogDue == Cardinality({i \in Ids : row[i].st = "live" /\ row[i].lease = 0
                                        /\ row[i].delay = 0})

\* Backlog: every committed row of the service, leased and delayed included.
Backlog == Cardinality({i \in Ids : row[i].st = "live"})

\* 1 << (attempts-1) between 1 and 5, constant outside.
retrySeconds(a) ==
  IF a > 5 THEN 30 ELSE IF a < 1 THEN 1 ELSE <<1, 2, 4, 8, 16>>[a]

\* The retry delay in whole ticks, rounded up.
retryTicks(a) == (retrySeconds(a) + TickSeconds - 1) \div TickSeconds

\* Row i gets a next_attempt d ticks from now.
Reorder(i, d) ==
  LET others == {j \in Ids \ {i} : row[j].st # "none"}
  IN  {b \in before : b[1] # i /\ b[2] # i}
        \cup {<<j, i>> : j \in {k \in others : row[k].delay <= d}}
        \cup {<<i, j>> : j \in {k \in others : row[k].delay > d}}

Forget(i) == {b \in before : b[1] # i /\ b[2] # i}

-----------------------------------------------------------------------------
(* Business transactions *)

\* EnqueueTx with a prepared, valid event.  A new identity inserts a row that
\* only this transaction sees; a pending row of the same service and payload
\* is locked and kept; a pending row with other content is locked too, but the
\* call fails with an identity conflict.  The INSERT waits for an identity that
\* another open transaction wrote.
EnqueueTx(p, i, c) ==
  /\ tx[p] = NoTx
  /\ txs < MaxTx
  /\ ~Locked(i)
  /\ \/ /\ row[i].st = "none"
        /\ row' = [row EXCEPT ![i] = NewRow(c)]
        /\ before' = Reorder(i, 0)
        /\ tx' = [tx EXCEPT ![p] = [id |-> i, c |-> c, kind |-> "insert"]]
     \/ /\ row[i].st = "live"
        /\ tx' = [tx EXCEPT ![p] =
                    [id |-> i, c |-> c,
                     kind |-> IF row[i].content = c THEN "keep" ELSE "conflict"]]
        /\ UNCHANGED <<row, before>>
  /\ txs' = txs + 1
  /\ UNCHANGED <<relay, late, committed, accepted, faults>>

\* Mutated: an identity conflict does not fail the transaction.
CommitTxDespiteConflict(p) ==
  /\ tx[p] # NoTx
  /\ row' = [row EXCEPT ![tx[p].id].st = "live"]
  /\ committed' = committed \cup {<<tx[p].id, tx[p].c>>}
  /\ tx' = [tx EXCEPT ![p] = NoTx]
  /\ UNCHANGED <<before, relay, late, accepted, faults, txs>>

\* A caller whose EnqueueTx failed must roll back.
CommitTx(p) ==
  /\ tx[p].kind \in {"insert", "keep"}
  /\ row' = [row EXCEPT ![tx[p].id].st = "live"]
  /\ committed' = committed \cup {<<tx[p].id, tx[p].c>>}
  /\ tx' = [tx EXCEPT ![p] = NoTx]
  /\ UNCHANGED <<before, relay, late, accepted, faults, txs>>

\* EnqueueTx or the business write failed, or the process died.
RollbackTx(p) ==
  /\ tx[p] # NoTx
  /\ IF tx[p].kind = "insert"
     THEN /\ row' = [row EXCEPT ![tx[p].id] = NoRow]
          /\ before' = Forget(tx[p].id)
     ELSE UNCHANGED <<row, before>>
  /\ tx' = [tx EXCEPT ![p] = NoTx]
  /\ UNCHANGED <<relay, late, committed, accepted, faults, txs>>

-----------------------------------------------------------------------------
(* Relay replicas: the steps of DeliverOne, which Run repeats *)

\* Mutated: rows of open transactions are visible to a claim.
ClaimableDirty(i) ==
  row[i].st # "none" /\ row[i].delay = 0 /\ row[i].lease = 0

\* Mutated: a claim does not look at the lease.
ClaimableLeased(i) == row[i].st = "live" /\ row[i].delay = 0 /\ ~Locked(i)

\* Mutated: a row is claimed once, also when its lease expired.
ClaimableNeverLeased(i) ==
  /\ row[i].st = "live"
  /\ row[i].delay = 0
  /\ row[i].token = None
  /\ ~Locked(i)

Claimable(i) ==
  /\ row[i].st = "live"
  /\ row[i].delay = 0
  /\ row[i].lease = 0
  /\ ~Locked(i)  \* SKIP LOCKED

\* The claim statement, executed by the server: the first due row.
Claim(w) ==
  /\ relay[w] = Idle
  /\ \E i \in Ids, t \in Tokens :
       /\ Claimable(i)
       /\ \A j \in Ids : Claimable(j) => <<j, i>> \notin before
       /\ FreshToken(t)
       /\ row' = [row EXCEPT ![i].lease = Lease, ![i].token = t,
                             ![i].attempts = Bump(@)]
       /\ relay' = [relay EXCEPT ![w] =
                      Claimed(i, row[i].content, t, Bump(row[i].attempts))]
  /\ UNCHANGED <<before, tx, late, committed, accepted, faults, txs>>

\* The claimed row reaches the replica; a payload that does not unmarshal is
\* a failed delivery without a send.
ClaimReply(w) ==
  /\ relay[w].pc = "claimed"
  /\ relay' = [relay EXCEPT
       ![w].pc = IF relay[w].c \in Poison THEN "finishing" ELSE "sending",
       ![w].timer = IF relay[w].c \in Poison THEN DBTimeout ELSE SendTimeout]
  /\ UNCHANGED <<row, before, tx, late, committed, accepted, faults, txs>>

\* External: the ingest service accepts the request.
IngestAccept(w) ==
  /\ relay[w].pc = "sending"
  /\ ~relay[w].ok
  /\ accepted' = accepted \cup {<<relay[w].id, relay[w].c>>}
  /\ relay' = [relay EXCEPT ![w].ok = TRUE]
  /\ UNCHANGED <<row, before, tx, late, committed, faults, txs>>

\* transport.Send returns nil only after an acceptance.  It fails when the
\* ingest is down, the deadline passes or the receipt of an accepted event is
\* lost.
SendReturns(w) ==
  /\ relay[w].pc = "sending"
  /\ \/ /\ relay[w].ok
        /\ relay' = [relay EXCEPT ![w].pc = "finishing", ![w].timer = DBTimeout]
        /\ UNCHANGED faults
     \/ /\ faults < MaxFaults
        /\ faults' = faults + 1
        /\ relay' = [relay EXCEPT ![w].pc = "finishing", ![w].timer = DBTimeout,
                                  ![w].ok = FALSE]
  /\ UNCHANGED <<row, before, tx, late, committed, accepted, txs>>

\* Mutated: the lease of a rescheduled row is left to run out.
ReleaseLeased(s) ==
  /\ row' = [row EXCEPT ![s.id].delay = retryTicks(s.att), ![s.id].token = None]
  /\ before' = Reorder(s.id, retryTicks(s.att))

Release(s) ==
  /\ row' = [row EXCEPT ![s.id].delay = retryTicks(s.att),
                        ![s.id].token = None, ![s.id].lease = 0]
  /\ before' = Reorder(s.id, retryTicks(s.att))

Delete(s) ==
  /\ row' = [row EXCEPT ![s.id] = NoRow]
  /\ before' = Forget(s.id)

Fenced(s) == row[s.id].token = s.tok /\ row[s.id].lease > 0

\* Mutated: the row is deleted whatever became of the send.
finishUncertain(s) ==
  /\ ~Locked(s.id)
  /\ IF Fenced(s) THEN Delete(s) ELSE UNCHANGED <<row, before>>

\* Mutated: the statement does not compare the token.
finishUnfenced(s) ==
  /\ ~Locked(s.id)
  /\ IF row[s.id].lease > 0
     THEN (s.ok /\ Delete(s)) \/ (~s.ok /\ Release(s))
     ELSE UNCHANGED <<row, before>>

\* The finish statement, executed by the server for statement or claim s:
\* DELETE or reschedule, if the row still carries s's token and a live lease.
finish(s) ==
  /\ ~Locked(s.id)
  /\ IF Fenced(s)
     THEN (s.ok /\ Delete(s)) \/ (~s.ok /\ Release(s))
     ELSE UNCHANGED <<row, before>>  \* ErrOutboxLeaseLost

\* The replica's next round starts whether or not the reply reaches it.
Finish(w) ==
  /\ relay[w].pc = "finishing"
  /\ finish(relay[w])
  /\ relay' = [relay EXCEPT ![w] = Idle]
  /\ UNCHANGED <<tx, late, committed, accepted, faults, txs>>

\* The finish deadline passes first: the row is locked by a business
\* transaction, or the connection is slow.  The server may still run the
\* statement later, or never.
FinishTimeout(w) ==
  /\ relay[w].pc = "finishing"
  /\ relay[w].timer = 0
  /\ \/ Locked(relay[w].id) /\ UNCHANGED faults
     \/ faults < MaxFaults /\ faults' = faults + 1
  /\ late' = late \cup {[id |-> relay[w].id, c |-> relay[w].c,
                         tok |-> relay[w].tok, att |-> relay[w].att,
                         ok |-> relay[w].ok]}
  /\ relay' = [relay EXCEPT ![w] = Idle]
  /\ UNCHANGED <<row, before, tx, committed, accepted, txs>>

LateFinish(s) ==
  /\ finish(s)
  /\ late' = late \ {s}
  /\ UNCHANGED <<tx, relay, committed, accepted, faults, txs>>

\* The replica crashes or is stopped (its context is cancelled), or its claim
\* reply is lost: the lease stays behind, without an owner.
Crash(w) ==
  /\ Active(w)
  /\ faults < MaxFaults
  /\ faults' = faults + 1
  /\ relay' = [relay EXCEPT ![w] = Idle]
  /\ UNCHANGED <<row, before, tx, late, committed, accepted, txs>>

\* The replica is descheduled: its deadlines no longer fire on time.
Pause(w) ==
  /\ Active(w)
  /\ relay[w].prompt
  /\ faults < MaxFaults
  /\ faults' = faults + 1
  /\ relay' = [relay EXCEPT ![w].prompt = FALSE]
  /\ UNCHANGED <<row, before, tx, late, committed, accepted, txs>>

\* One tick of clock_timestamp(): no running replica outlives its deadline.
Tick ==
  /\ \A w \in Relays : Active(w) /\ relay[w].prompt => relay[w].timer > 0
  /\ row' = [i \in Ids |-> [row[i] EXCEPT !.lease = Dec(row[i].lease),
                                          !.delay = Dec(row[i].delay)]]
  /\ relay' = [w \in Relays |->
                 [relay[w] EXCEPT !.timer = Dec(relay[w].timer)]]
  /\ UNCHANGED <<before, tx, late, committed, accepted, faults, txs>>

-----------------------------------------------------------------------------
Init ==
  /\ row = [i \in Ids |-> NoRow]
  /\ before = {}
  /\ tx = [p \in Producers |-> NoTx]
  /\ relay = [w \in Relays |-> Idle]
  /\ late = {}
  /\ committed = {}
  /\ accepted = {}
  /\ faults = 0
  /\ txs = 0

TxStep(p) ==
  \/ \E i \in Ids, c \in Contents : EnqueueTx(p, i, c)
  \/ CommitTx(p)
  \/ RollbackTx(p)

RelayStep(w) ==
  \/ Claim(w)
  \/ ClaimReply(w)
  \/ IngestAccept(w)
  \/ SendReturns(w)
  \/ Finish(w)
  \/ FinishTimeout(w)
  \/ Crash(w)
  \/ Pause(w)

Next ==
  \/ \E p \in Producers : TxStep(p)
  \/ \E w \in Relays : RelayStep(w)
  \/ \E s \in late : LateFinish(s)
  \/ Tick

Spec == Init /\ [][Next]_vars

\* Replicas run until they are stopped, business transactions end, and the
\* database clock advances.  Failures need no fairness: MaxFaults of them may
\* strike anywhere, after which sends and statements succeed.
Fairness ==
  /\ WF_vars(Tick)
  /\ \A p \in Producers : WF_vars(CommitTx(p) \/ RollbackTx(p))
  /\ \A w \in Relays : WF_vars(\/ Claim(w)
                               \/ ClaimReply(w)
                               \/ IngestAccept(w)
                               \/ SendReturns(w)
                               \/ Finish(w))

FairSpec == Spec /\ Fairness

-----------------------------------------------------------------------------
(* Properties *)

\* Type invariant: rows, transactions, replicas and statements are well
\* formed, and a replica between claim and finish holds a complete claim.
TypeOK ==
  /\ row \in [Ids -> Row]
  /\ before \in SUBSET (Ids \X Ids)
  /\ tx \in [Producers -> Tx]
  /\ relay \in [Relays -> Relay]
  /\ \A w \in Relays : Active(w) => /\ relay[w].id \in Ids
                                    /\ relay[w].c \in Contents
                                    /\ relay[w].tok \in Tokens
  /\ late \in SUBSET Statement
  /\ committed \in SUBSET (Ids \X Contents)
  /\ accepted \in SUBSET (Ids \X Contents)
  /\ faults \in Nat
  /\ txs \in Nat

\* The table's CHECK ((lease_token IS NULL) = (lease_until IS NULL)): claim and
\* finish set and clear both columns together, so no row is under a lease that
\* carries no token and that no finish could ever end.
LeaseHasToken == \A i \in Ids : row[i].lease > 0 => row[i].token # None

\* Rows as Migrate declares them, within the type invariant.
RowsWellFormed == TypeOK /\ LeaseHasToken

\* EnqueueTx and DeliverOne ("retains the row on uncertainty"): an event whose
\* business transaction committed is pending with exactly its content until
\* the ingest has accepted exactly that content, whatever crashes, pauses,
\* lost receipts and late statements happen in between.
NoLostEvent == committed \subseteq Pending \cup accepted

\* claim reads committed rows only: the ingest never sees an event whose
\* business transaction rolled back or is still open.
OnlyCommittedAccepted == accepted \subseteq committed

\* Run ("Send plus DB finish fit inside the 60s lease"): while a replica whose
\* deadlines fire on time is between claim and finish, the row is under its
\* own token and its lease has not expired, so no other replica can send it.
LeaseOutlivesDelivery ==
  \A w \in Relays :
    Active(w) /\ relay[w].prompt =>
      /\ row[relay[w].id].token = relay[w].tok
      /\ row[relay[w].id].lease > 0

\* This step executed a finish statement that carries token t.
FinishedWith(t) ==
  \/ \E w \in Relays : /\ relay[w].pc = "finishing"
                       /\ relay[w].tok = t
                       /\ relay'[w] = Idle
  \/ \E s \in late \ late' : s.tok = t

\* DeliverOne ("A crashed/expired worker cannot finish a new lease"): a row
\* under a live lease is deleted, released or re-leased only by the finish
\* that carries the token of that very lease.
LeaseFenced ==
  [][\A i \in Ids : row[i].lease > 0 /\ row'[i].token # row[i].token
                      => FinishedWith(row[i].token)]_vars

\* Backlog ("count zero is the only drained proof"): an empty backlog means
\* that every committed event has been accepted.
DrainedProof == Backlog = 0 => committed \subseteq accepted

AD == INSTANCE AuditDelivery
        WITH Events <- Ids \X Contents,
             Undeliverable <- Ids \X Poison,
             pending <- Pending

\* EnqueueTx, claim and finish implement AuditDelivery's steps: events become
\* pending when their transaction commits, are accepted while pending, and
\* leave the outbox only after the ingest accepted that very content.
Delivery == AD!Spec

\* Run and DeliverOne implement AuditDelivery's progress too: every pending
\* event is accepted, and every accepted one leaves the outbox.
LiveDelivery == AD!LiveSpec

\* Run retries: every committed event that can be unmarshalled is accepted
\* eventually, even behind a row that never unmarshals and after crashes that
\* left leases without an owner.
AcceptedEventually ==
  \A e \in Ids \X (Contents \ Poison) : e \in committed ~> e \in accepted
=============================================================================
