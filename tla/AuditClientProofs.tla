------------------------- MODULE AuditClientProofs --------------------------
(***************************************************************************)
(* The pipeline of audit.Client for any number of events and workers and   *)
(* any capacities.                                                         *)
(***************************************************************************)
EXTENDS AuditClient, TLAPS

\* Where an event can be.
Queued(i) == i \in Range(queue)
Batched(i) == i \in Range(batch)
Waits(i) == \E k \in DOMAIN batches : i \in Range(batches[k])
Sending(i) == \E w \in Workers : i \in Range(worker[w].batch)
Logged(i) == \E r \in Reasons : <<i, r>> \in dropped

\* No event is twice in one of these places.
Once(s) == \A k, l \in 1..Len(s) : s[k] = s[l] => k = l
OnceWaits == \A i \in Items : \A k, l \in DOMAIN batches :
               i \in Range(batches[k]) /\ i \in Range(batches[l]) => k = l
OnceSending == \A i \in Items : \A v, w \in Workers :
                 i \in Range(worker[v].batch) /\ i \in Range(worker[w].batch) => v = w
OnceLogged == \A i \in Items : \A q, r \in Reasons :
                <<i, q>> \in dropped /\ <<i, r>> \in dropped => q = r

\* Nor in two of them, and an event that was not recorded is in none.
Apart(i) ==
  /\ Queued(i) => ~Batched(i) /\ ~Waits(i) /\ ~Sending(i) /\ i \notin sent /\ ~Logged(i)
  /\ Batched(i) => ~Waits(i) /\ ~Sending(i) /\ i \notin sent /\ ~Logged(i)
  /\ Waits(i) => ~Sending(i) /\ i \notin sent /\ ~Logged(i)
  /\ Sending(i) => i \notin sent /\ ~Logged(i)
  /\ i \in sent => ~Logged(i)
Somewhere(i) == Queued(i) \/ Batched(i) \/ Waits(i) \/ Sending(i) \/ i \in sent \/ Logged(i)

Held == /\ Once(queue) /\ Once(batch) /\ OnceWaits /\ OnceSending /\ OnceLogged
        /\ \A i \in Items : Apart(i) /\ (Somewhere(i) <=> i <= recorded)

\* The order in which the goroutines stop.
Stops ==
  /\ queueClosed <=> closed
  /\ dispatcher = "done" => queueClosed /\ queue = <<>> /\ batch = <<>>
  /\ \A w \in Workers : worker[w].pc = "done" =>
       worker[w] = Done /\ dispatcher = "done" /\ batches = <<>>

\* With one call of Close, the transport is closed by the call that waited.
ClosedOnce ==
  /\ closed <=> \E k \in Closers : closer[k] # "idle"
  /\ transport = "closed" => Drained

IInv == TypeOK /\ Held /\ Stops

-----------------------------------------------------------------------------
(* Sequences *)

\* What a sequence holds.
LEMMA Elements ==
  ASSUME NEW S, NEW s \in Seq(S)
  PROVE  Range(s) \subseteq S /\ \A i : i \in Range(s) <=> \E k \in 1..Len(s) : s[k] = i
  BY DEF Range

\* A longer sequence holds one element more.
LEMMA Longer ==
  ASSUME NEW S, NEW s \in Seq(S), NEW e \in S
  PROVE  /\ Append(s, e) \in Seq(S) /\ Len(Append(s, e)) = Len(s) + 1
         /\ Append(s, e) # <<>>
         /\ \A i : i \in Range(Append(s, e)) <=> i \in Range(s) \/ i = e
         /\ Once(s) /\ e \notin Range(s) => Once(Append(s, e))
  <1>1. /\ Append(s, e) \in Seq(S) /\ Len(Append(s, e)) = Len(s) + 1 /\ Len(s) \in Nat
        /\ \A k \in 1..Len(s) : Append(s, e)[k] = s[k]
        /\ Append(s, e)[Len(s) + 1] = e
    OBVIOUS
  <1> DEFINE t == Append(s, e)
  <1> HIDE DEF t
  <1>2. \A k \in 1..Len(t) : k \in 1..Len(s) \/ k = Len(s) + 1
    BY <1>1 DEF t
  <1>3. \A k \in 1..Len(s) : k \in 1..Len(t) /\ t[k] = s[k]
    BY <1>1 DEF t
  <1>4. Len(s) + 1 \in 1..Len(t) /\ t[Len(s) + 1] = e
    BY <1>1 DEF t
  <1>e. \A i : /\ i \in Range(s) <=> \E k \in 1..Len(s) : s[k] = i
               /\ i \in Range(t) <=> \E k \in 1..Len(t) : t[k] = i
    BY <1>1, Elements, Zenon DEF t
  <1>5. \A i : i \in Range(t) <=> i \in Range(s) \/ i = e
    BY <1>2, <1>3, <1>4, <1>e, Zenon
  <1>6. ASSUME Once(s), e \notin Range(s) PROVE Once(t)
    BY <1>2, <1>3, <1>4, <1>6, <1>e DEF Once
  <1>7. t # <<>>
    BY <1>1 DEF t
  <1> QED
    BY <1>1, <1>5, <1>6, <1>7 DEF t

\* The rest of a sequence without repetitions holds all but its first element.
LEMMA Shorter ==
  ASSUME NEW S, NEW s \in Seq(S), s # <<>>
  PROVE  /\ Tail(s) \in Seq(S) /\ Len(Tail(s)) = Len(s) - 1 /\ Head(s) \in S
         /\ Head(s) = s[1] /\ Head(s) \in Range(s)
         /\ \A k \in 1..Len(Tail(s)) : k + 1 \in 1..Len(s) /\ Tail(s)[k] = s[k + 1]
         /\ \A i : i \in Range(s) <=> i \in Range(Tail(s)) \/ i = Head(s)
         /\ Once(s) => Once(Tail(s)) /\ Head(s) \notin Range(Tail(s))
  <1>1. /\ Tail(s) \in Seq(S) /\ Len(Tail(s)) = Len(s) - 1 /\ Len(s) \in Nat \ {0}
        /\ \A k \in 1..Len(Tail(s)) : Tail(s)[k] = s[k + 1]
        /\ Head(s) = s[1] /\ s[1] \in S
    OBVIOUS
  <1> DEFINE t == Tail(s)
  <1> HIDE DEF t
  <1>2. \A k \in 1..Len(t) : k + 1 \in 1..Len(s)
    BY <1>1 DEF t
  <1>3. \A k \in 1..Len(s) : k = 1 \/ (k - 1 \in 1..Len(t) /\ t[k - 1] = s[k])
    BY <1>1 DEF t
  <1>e. \A i : /\ i \in Range(s) <=> \E k \in 1..Len(s) : s[k] = i
               /\ i \in Range(t) <=> \E k \in 1..Len(t) : t[k] = i
    <2>1. t \in Seq(S)
      BY <1>1 DEF t
    <2> QED
      BY <2>1, Elements, Zenon
  <1>0. 1 \in 1..Len(s)
    BY <1>1
  <1>4. 1 \in 1..Len(s) /\ Head(s) \in Range(s)
    BY <1>0, <1>1, <1>e, Zenon
  <1>5. ASSUME Once(s) PROVE Once(t) /\ Head(s) \notin Range(t)
    BY <1>1, <1>2, <1>4, <1>5, <1>e DEF Once, t
  <1>6. \A i : i \in Range(s) <=> i \in Range(t) \/ i = Head(s)
    BY <1>1, <1>2, <1>3, <1>4, <1>e, Zenon DEF t
  <1> QED
    BY <1>1, <1>2, <1>4, <1>5, <1>6 DEF t

LEMMA Nothing == Once(<<>>) /\ (\A i : i \notin Range(<<>>))
  BY DEF Once, Range

-----------------------------------------------------------------------------
(* The channel of batches and the fallback *)

\* A batch that is nowhere in the channel joins it.
LEMMA BatchJoins ==
  ASSUME NEW b \in Seq(Items), batches \in Seq(Seq(Items)), OnceWaits,
         \A i \in Items : i \in Range(b) => ~Waits(i),
         batches' = Append(batches, b)
  PROVE  /\ batches' \in Seq(Seq(Items)) /\ Len(batches') = Len(batches) + 1
         /\ OnceWaits' /\ \A i \in Items : Waits(i)' <=> Waits(i) \/ i \in Range(b)
  <1>1. /\ batches' \in Seq(Seq(Items)) /\ Len(batches') = Len(batches) + 1 /\ Len(batches) \in Nat
        /\ \A k \in 1..Len(batches) : batches'[k] = batches[k]
        /\ batches'[Len(batches) + 1] = b
    OBVIOUS
  <1>2. /\ DOMAIN batches = 1..Len(batches) /\ DOMAIN batches' = 1..Len(batches')
        /\ \A k \in 1..Len(batches') : k \in 1..Len(batches) \/ k = Len(batches) + 1
        /\ \A k \in 1..Len(batches) : k \in 1..Len(batches')
        /\ Len(batches) + 1 \in 1..Len(batches')
    BY <1>1
  <1>3. \A i \in Items : Waits(i)' <=> Waits(i) \/ i \in Range(b)
    BY <1>1, <1>2, Zenon DEF Waits
  <1>4. OnceWaits'
    BY <1>1, <1>2 DEF OnceWaits, Waits
  <1> QED
    BY <1>1, <1>3, <1>4

\* The first batch leaves the channel.
LEMMA BatchLeaves ==
  ASSUME batches \in Seq(Seq(Items)), batches # <<>>, OnceWaits,
         batches' = Tail(batches)
  PROVE  /\ batches' \in Seq(Seq(Items)) /\ Len(batches') = Len(batches) - 1
         /\ Head(batches) \in Seq(Items) /\ OnceWaits'
         /\ \A i \in Items : /\ Waits(i) <=> Waits(i)' \/ i \in Range(Head(batches))
                             /\ ~(Waits(i)' /\ i \in Range(Head(batches)))
  <1>1. /\ batches' \in Seq(Seq(Items)) /\ Len(batches') = Len(batches) - 1
        /\ Head(batches) \in Seq(Items) /\ Head(batches) = batches[1]
        /\ \A k \in 1..Len(batches') : k + 1 \in 1..Len(batches) /\ batches'[k] = batches[k + 1]
        /\ Len(batches) \in Nat \ {0}
    BY Shorter
  <1>2. /\ DOMAIN batches = 1..Len(batches) /\ DOMAIN batches' = 1..Len(batches')
        /\ \A k \in 1..Len(batches) : k = 1 \/ (k - 1 \in 1..Len(batches') /\ batches'[k - 1] = batches[k])
        /\ 1 \in 1..Len(batches)
        /\ \A k \in 1..Len(batches') : k + 1 # 1
        /\ \A k, l \in 1..Len(batches') : k + 1 = l + 1 => k = l
    BY <1>1
  <1>3. ASSUME NEW i \in Items
        PROVE  /\ Waits(i) <=> Waits(i)' \/ i \in Range(Head(batches))
               /\ ~(Waits(i)' /\ i \in Range(Head(batches)))
    <2>1. ASSUME NEW k \in 1..Len(batches'), i \in Range(batches'[k])
          PROVE  Waits(i) /\ i \notin Range(Head(batches))
      BY <1>1, <1>2, <2>1, <1>3, Zenon DEF Waits, OnceWaits
    <2>2. ASSUME NEW k \in 1..Len(batches), i \in Range(batches[k]), k # 1
          PROVE  Waits(i)'
      BY <1>1, <1>2, <2>2, Zenon DEF Waits
    <2>3. i \in Range(Head(batches)) <=> i \in Range(batches[1])
      BY <1>1
    <2>4. Waits(i)' => Waits(i) /\ i \notin Range(Head(batches))
      BY <1>2, <2>1, Zenon DEF Waits
    <2>5. Waits(i) => Waits(i)' \/ i \in Range(batches[1])
      BY <1>2, <2>2, Zenon DEF Waits
    <2>6. i \in Range(batches[1]) => Waits(i)
      BY <1>2, Zenon DEF Waits
    <2> QED
      BY <2>3, <2>4, <2>5, <2>6, Zenon
  <1>4. OnceWaits'
    <2> SUFFICES ASSUME NEW i \in Items, NEW k \in 1..Len(batches'), NEW l \in 1..Len(batches'),
                        i \in Range(batches'[k]), i \in Range(batches'[l])
                 PROVE  k = l
      BY <1>2, Zenon DEF OnceWaits
    <2>1. k + 1 = l + 1
      BY <1>1, <1>2, Zenon DEF OnceWaits
    <2> QED
      BY <2>1
  <1> QED
    BY <1>1, <1>3, <1>4

\* What goes to the fallback was not there before, and goes for one reason.
LEMMA Drops ==
  ASSUME NEW b \in Seq(Items), NEW why \in Reasons, dropped \subseteq Items \X Reasons,
         OnceLogged, \A i \in Items : i \in Range(b) => ~Logged(i), drop(b, why)
  PROVE  /\ dropped' \subseteq Items \X Reasons /\ OnceLogged'
         /\ \A i \in Items : Logged(i)' <=> Logged(i) \/ i \in Range(b)
  <1>1. Range(b) \subseteq Items
    BY Elements
  <1>2. \A i \in Items, r \in Reasons :
          <<i, r>> \in dropped' <=> <<i, r>> \in dropped \/ (i \in Range(b) /\ r = why)
    BY <1>1 DEF drop
  <1>3. dropped' \subseteq Items \X Reasons
    BY <1>1 DEF drop
  <1>4. OnceLogged' /\ \A i \in Items : Logged(i)' <=> Logged(i) \/ i \in Range(b)
    BY <1>2, Zenon DEF OnceLogged, Logged
  <1> QED
    BY <1>3, <1>4

\* flush: the batch goes to the workers as a whole or to the fallback as a whole.
LEMMA Flushes ==
  ASSUME TypeOK, outCap \in Nat, OnceWaits, OnceLogged, NEW b \in Seq(Items),
         \A i \in Items : i \in Range(b) => ~Waits(i) /\ ~Logged(i), flush(b)
  PROVE  /\ batch' = <<>>
         /\ batches' \in Seq(Seq(Items)) /\ Len(batches') <= outCap /\ OnceWaits'
         /\ dropped' \subseteq Items \X Reasons /\ OnceLogged'
         /\ \/ \A i \in Items : /\ Waits(i)' <=> Waits(i) \/ i \in Range(b)
                                /\ Logged(i)' <=> Logged(i)
            \/ \A i \in Items : /\ Waits(i)' <=> Waits(i)
                                /\ Logged(i)' <=> Logged(i) \/ i \in Range(b)
  <1>1. CASE Len(batches) < outCap
    <2>1. batch' = <<>> /\ batches' = Append(batches, b) /\ dropped' = dropped
      BY <1>1 DEF flush
    <2>2. OnceLogged' /\ \A i \in Items : Logged(i)' <=> Logged(i)
      BY <2>1 DEF OnceLogged, Logged
    <2>3. /\ batches' \in Seq(Seq(Items)) /\ Len(batches') = Len(batches) + 1
          /\ OnceWaits' /\ \A i \in Items : Waits(i)' <=> Waits(i) \/ i \in Range(b)
      BY <2>1, BatchJoins DEF TypeOK
    <2>4. Len(batches) \in Nat
      BY DEF TypeOK
    <2>5. Len(batches') <= outCap
      BY <1>1, <2>3, <2>4
    <2> QED
      BY <2>1, <2>2, <2>3, <2>5 DEF TypeOK
  <1>2. CASE ~(Len(batches) < outCap)
    <2>1. batch' = <<>> /\ batches' = batches /\ drop(b, "batch_channel_full")
      BY <1>2 DEF flush
    <2>2. OnceWaits' /\ \A i \in Items : Waits(i)' <=> Waits(i)
      BY <2>1 DEF OnceWaits, Waits
    <2>3. "batch_channel_full" \in Reasons
      BY DEF Reasons
    <2>4. /\ dropped' \subseteq Items \X Reasons /\ OnceLogged'
          /\ \A i \in Items : Logged(i)' <=> Logged(i) \/ i \in Range(b)
      BY <2>1, <2>3, Drops DEF TypeOK
    <2> QED
      BY <2>1, <2>2, <2>4 DEF TypeOK
  <1> QED
    BY <1>1, <1>2

\* A worker's batch is replaced.
LEMMA WorkerBatch ==
  ASSUME TypeOK, OnceSending, NEW w \in Workers,
         NEW v \in [pc : {"idle", "sending", "done"}, batch : Seq(Items)],
         worker' = [worker EXCEPT ![w] = v], ~\E i \in Items : i \in Range(worker[w].batch),
         \A i \in Items : i \in Range(v.batch) => ~Sending(i)
  PROVE  OnceSending' /\ \A i \in Items : Sending(i)' <=> Sending(i) \/ i \in Range(v.batch)
  BY Zenon DEF TypeOK, OnceSending, Sending

LEMMA WorkerEmptied ==
  ASSUME TypeOK, OnceSending, NEW w \in Workers,
         NEW v \in [pc : {"idle", "sending", "done"}, batch : Seq(Items)],
         worker' = [worker EXCEPT ![w] = v], v.batch = <<>>
  PROVE  /\ OnceSending'
         /\ \A i \in Items : /\ Sending(i) <=> Sending(i)' \/ i \in Range(worker[w].batch)
                             /\ ~(Sending(i)' /\ i \in Range(worker[w].batch))
  BY Nothing, Zenon DEF TypeOK, OnceSending, Sending

-----------------------------------------------------------------------------
(* The steps *)

\* One predicate for all that a step must keep of the places of an event.
Kept(i) == Apart(i)' /\ (Somewhere(i)' <=> i <= recorded')

\* Record: the new event was nowhere.
LEMMA RecordHeld ==
  ASSUME IInv, Record
  PROVE  IInv'
  <1> USE PipelineConstants DEF PipelineConstants
  <1> DEFINE n == recorded + 1
  <1>1. /\ n \in Items /\ recorded' = n /\ ~Somewhere(n) /\ recorded \in Nat
        /\ <<n>> \in Seq(Items) /\ (\A i : i \in Range(<<n>>) <=> i = n)
    <2>1. n \in Items /\ recorded' = n /\ recorded \in Nat
      BY DEF IInv, TypeOK, Record, Items
    <2>2. ~Somewhere(n)
      BY <2>1 DEF IInv, Held
    <2> HIDE DEF n
    <2> QED
      BY <2>1, <2>2 DEF Range
  <1>2. UNCHANGED <<closed, queueClosed, batch, batches, dispatcher, worker, sent, closer, transport>>
    BY DEF Record
  <1>3. /\ \A i \in Items : /\ Batched(i)' <=> Batched(i)
                            /\ Waits(i)' <=> Waits(i)
                            /\ Sending(i)' <=> Sending(i)
        /\ Once(batch)' /\ OnceWaits' /\ OnceSending'
    BY <1>2 DEF IInv, Held, Batched, Waits, Sending, OnceWaits, OnceSending
  <1>4. \A i \in Items : i <= recorded' <=> i <= recorded \/ i = n
    BY <1>1 DEF Items
  <1>5. CASE ~closed /\ Len(queue) < BufferSize
    <2>1. queue' = Append(queue, n) /\ dropped' = dropped
      BY <1>1, <1>5 DEF Record
    <2> HIDE DEF n
    <2>2. /\ queue' \in Seq(Items) /\ Len(queue') <= BufferSize
          /\ \A i \in Items : Queued(i)' <=> Queued(i) \/ i = n
          /\ Once(queue)'
      BY <1>1, <1>5, <2>1, Longer DEF IInv, TypeOK, Held, Queued, Somewhere
    <2>3. OnceLogged' /\ \A i \in Items : Logged(i)' <=> Logged(i)
      BY <2>1 DEF IInv, Held, OnceLogged, Logged
    <2>4. TypeOK'
      BY <1>1, <1>2, <2>1, <2>2 DEF IInv, TypeOK, Items
    <2>5. Stops'
      BY <1>2, <1>5 DEF IInv, Stops
    <2>6. ASSUME NEW i \in Items PROVE Kept(i)
      <3>1. Apart(i) /\ (Somewhere(i) <=> i <= recorded) /\ (i = n => ~Somewhere(i))
        BY <1>1 DEF IInv, Held
      <3> QED
        BY <1>2, <1>3, <1>4, <2>2, <2>3, <3>1, Zenon DEF Apart, Somewhere, Kept
    <2> QED
      BY <1>3, <2>2, <2>3, <2>4, <2>5, <2>6, Zenon DEF IInv, Held, Kept
  <1>6. CASE queue' = queue /\ \E why \in Reasons : drop(<<n>>, why)
    <2> HIDE DEF n
    <2>1. /\ dropped' \subseteq Items \X Reasons /\ OnceLogged'
          /\ \A i \in Items : Logged(i)' <=> Logged(i) \/ i = n
      BY <1>1, <1>6, Drops, Zenon DEF IInv, TypeOK, Held, Somewhere
    <2>2. Once(queue)' /\ \A i \in Items : Queued(i)' <=> Queued(i)
      BY <1>6 DEF IInv, Held, Queued
    <2>3. TypeOK'
      BY <1>1, <1>2, <1>6, <2>1 DEF IInv, TypeOK, Items
    <2>4. Stops'
      BY <1>2, <1>6 DEF IInv, Stops
    <2>5. ASSUME NEW i \in Items PROVE Kept(i)
      <3>1. Apart(i) /\ (Somewhere(i) <=> i <= recorded) /\ (i = n => ~Somewhere(i))
        BY <1>1 DEF IInv, Held
      <3> QED
        BY <1>2, <1>3, <1>4, <2>1, <2>2, <3>1, SMT DEF Apart, Somewhere, Kept
    <2> QED
      BY <1>3, <2>1, <2>2, <2>3, <2>4, <2>5, Zenon DEF IInv, Held, Kept
  <1>7. {"client_closed", "buffer_full"} \subseteq Reasons
    BY DEF Reasons
  <1> QED
    BY <1>1, <1>5, <1>6, <1>7 DEF Record

\* The dispatcher hands its batch over, at the timer or at the end.
LEMMA FlushHeld ==
  ASSUME IInv, outCap \in Nat, flush(batch), UNCHANGED <<queue, worker, sent, recorded>>
  PROVE  /\ Held' /\ batch' = <<>> /\ dropped' \subseteq Items \X Reasons
         /\ batches' \in Seq(Seq(Items)) /\ Len(batches') <= outCap
  <1>1. /\ batch' = <<>>
        /\ batches' \in Seq(Seq(Items)) /\ Len(batches') <= outCap /\ OnceWaits'
        /\ dropped' \subseteq Items \X Reasons /\ OnceLogged'
        /\ \/ \A i \in Items : /\ Waits(i)' <=> Waits(i) \/ i \in Range(batch)
                               /\ Logged(i)' <=> Logged(i)
           \/ \A i \in Items : /\ Waits(i)' <=> Waits(i)
                               /\ Logged(i)' <=> Logged(i) \/ i \in Range(batch)
    <2>1. batch \in Seq(Items) /\ TypeOK /\ OnceWaits /\ OnceLogged
      BY DEF IInv, TypeOK, Held
    <2>2. \A i \in Items : i \in Range(batch) => ~Waits(i) /\ ~Logged(i)
      BY Zenon DEF IInv, Held, Apart, Batched
    <2> QED
      BY <2>1, <2>2, Flushes
  <1>2. /\ \A i \in Items : /\ Queued(i)' <=> Queued(i)
                            /\ Sending(i)' <=> Sending(i)
        /\ Once(queue)' /\ OnceSending'
    BY DEF IInv, Held, Queued, Sending, OnceSending
  <1>3. Once(batch)' /\ \A i : ~Batched(i)'
    BY <1>1, Nothing DEF Batched
  <1>4. ASSUME NEW i \in Items PROVE Kept(i)
    <2>1. Apart(i) /\ (Somewhere(i) <=> i <= recorded)
      BY DEF IInv, Held
    <2> QED
      BY <1>1, <1>2, <1>3, <2>1 DEF Apart, Somewhere, Kept, Batched
  <1> QED
    BY <1>1, <1>2, <1>3, <1>4, Zenon DEF Held, Kept

LEMMA TimerHeld ==
  ASSUME IInv, outCap \in Nat, TimerFlush,
         UNCHANGED <<closed, queueClosed, recorded, closer, transport>>
  PROVE  IInv'
  <1>1. /\ Held' /\ batch' = <<>> /\ dropped' \subseteq Items \X Reasons
        /\ batches' \in Seq(Seq(Items)) /\ Len(batches') <= outCap
    BY FlushHeld DEF TimerFlush
  <1>2. UNCHANGED <<queue, dispatcher, worker, sent>> /\ dispatcher = "running"
    BY DEF TimerFlush
  <1>3. TypeOK'
    BY <1>1, <1>2, PipelineConstants DEF IInv, TypeOK, PipelineConstants
  <1>4. Stops'
    BY <1>2 DEF IInv, Stops
  <1> QED
    BY <1>1, <1>3, <1>4 DEF IInv

LEMMA ExitHeld ==
  ASSUME IInv, outCap \in Nat, DispatchExit,
         UNCHANGED <<closed, queueClosed, recorded, closer, transport>>
  PROVE  IInv'
  <1>1. UNCHANGED <<queue, worker, sent>> /\ dispatcher = "running" /\ dispatcher' = "done"
        /\ queueClosed /\ queue = <<>>
    BY DEF DispatchExit
  <1>2. /\ Held' /\ batch' = <<>> /\ dropped' \subseteq Items \X Reasons
        /\ batches' \in Seq(Seq(Items)) /\ Len(batches') <= outCap
    <2>1. CASE batch = <<>>
      <3>1. UNCHANGED <<batch, batches, dropped>>
        BY <2>1 DEF DispatchExit
      <3>2. Held'
        BY <1>1, <3>1, Zenon DEF IInv, Held, OnceWaits, OnceSending, OnceLogged, Apart, Somewhere,
                          Queued, Batched, Waits, Sending, Logged
      <3> QED
        BY <2>1, <3>1, <3>2 DEF IInv, TypeOK
    <2>2. CASE batch # <<>>
      BY <1>1, <2>2, FlushHeld DEF DispatchExit
    <2> QED
      BY <2>1, <2>2
  <1>3. TypeOK'
    BY <1>1, <1>2, PipelineConstants DEF IInv, TypeOK, PipelineConstants
  <1>4. Stops'
    BY <1>1, <1>2 DEF IInv, Stops
  <1> QED
    BY <1>2, <1>3, <1>4 DEF IInv

\* The first event of the queue joins the batch, and leaves with it if it is full.
LEMMA ReceiveHeld ==
  ASSUME IInv, outCap \in Nat, Receive,
         UNCHANGED <<closed, queueClosed, recorded, closer, transport>>
  PROVE  IInv'
  <1> DEFINE h == Head(queue)
             b == Append(batch, h)
  <1>1. UNCHANGED <<dispatcher, worker, sent>> /\ dispatcher = "running"
        /\ queue' = Tail(queue) /\ queue # <<>>
    BY DEF Receive
  <1>2. /\ queue' \in Seq(Items) /\ Len(queue') <= BufferSize /\ h \in Items /\ Queued(h)
        /\ \A i \in Items : /\ Queued(i) <=> Queued(i)' \/ i = h
                            /\ ~(Queued(i)' /\ i = h)
        /\ Once(queue)'
    <2>1. queue \in Seq(Items) /\ Len(queue) <= BufferSize /\ Once(queue) /\ Len(queue) \in Nat
      BY DEF IInv, TypeOK, Held
    <2>2. /\ Tail(queue) \in Seq(Items) /\ Len(Tail(queue)) = Len(queue) - 1 /\ h \in Items
          /\ h \in Range(queue)
          /\ \A i : i \in Range(queue) <=> i \in Range(Tail(queue)) \/ i = h
          /\ Once(Tail(queue)) /\ h \notin Range(Tail(queue))
      BY <1>1, <2>1, Shorter
    <2> HIDE DEF h
    <2>3. Len(queue') <= BufferSize
      BY <1>1, <2>1, <2>2, PipelineConstants DEF PipelineConstants
    <2> QED
      BY <1>1, <2>2, <2>3, Zenon DEF Queued
  <1> HIDE DEF h
  <1>3. Apart(h) /\ batch \in Seq(Items) /\ Once(batch) /\ Len(batch) \in Nat /\ Len(batch) <= MaxBatch
    BY <1>2 DEF IInv, Held, TypeOK
  <1>4. /\ b \in Seq(Items) /\ Len(b) = Len(batch) + 1
        /\ \A i : i \in Range(b) <=> Batched(i) \/ i = h
        /\ Once(b)
    BY <1>2, <1>3, Longer DEF Batched, Apart
  <1>5. IF batch # <<>> /\ Len(b) >= MaxBatch
        THEN flush(b)
        ELSE batch' = b /\ UNCHANGED <<batches, dropped>>
    BY DEF Receive, h
  <1> HIDE DEF b
  <1>6. OnceSending' /\ \A i \in Items : Sending(i)' <=> Sending(i)
    BY <1>1 DEF IInv, Held, Sending, OnceSending
  <1>7. Stops'
    BY <1>1 DEF IInv, Stops
  <1>8. ASSUME NEW i \in Items
        PROVE  /\ Apart(i) /\ (Somewhere(i) <=> i <= recorded)
               /\ i = h => Queued(i)
    BY <1>2 DEF IInv, Held
  <1>9. CASE flush(b)
    <2>1. TypeOK /\ OnceWaits /\ OnceLogged
      BY DEF IInv, Held
    <2>2. \A i \in Items : i \in Range(b) => ~Waits(i) /\ ~Logged(i)
      BY <1>4, <1>8, Zenon DEF Apart
    <2>3. /\ batch' = <<>>
          /\ batches' \in Seq(Seq(Items)) /\ Len(batches') <= outCap /\ OnceWaits'
          /\ dropped' \subseteq Items \X Reasons /\ OnceLogged'
          /\ \/ \A i \in Items : /\ Waits(i)' <=> Waits(i) \/ i \in Range(b)
                                 /\ Logged(i)' <=> Logged(i)
             \/ \A i \in Items : /\ Waits(i)' <=> Waits(i)
                                 /\ Logged(i)' <=> Logged(i) \/ i \in Range(b)
      BY <1>4, <1>9, <2>1, <2>2, Flushes
    <2>4. Once(batch)' /\ \A i : ~Batched(i)'
      BY <2>3, Nothing DEF Batched
    <2>5. ASSUME NEW i \in Items PROVE Kept(i)
      BY <1>1, <1>2, <1>4, <1>6, <1>8, <2>3, <2>4 DEF Apart, Somewhere, Kept
    <2>6. TypeOK'
      BY <1>1, <1>2, <2>3, PipelineConstants DEF IInv, TypeOK, PipelineConstants
    <2> QED
      BY <1>2, <1>6, <1>7, <2>3, <2>4, <2>5, <2>6, Zenon DEF IInv, Held, Kept
  <1>10. CASE batch' = b /\ UNCHANGED <<batches, dropped>> /\ ~(batch # <<>> /\ Len(b) >= MaxBatch)
    <2>1. Once(batch)' /\ \A i \in Items : Batched(i)' <=> Batched(i) \/ i = h
      BY <1>4, <1>10 DEF Batched
    <2>2. OnceWaits' /\ OnceLogged' /\ \A i \in Items : (Waits(i)' <=> Waits(i)) /\ (Logged(i)' <=> Logged(i))
      BY <1>10 DEF IInv, Held, OnceWaits, OnceLogged, Waits, Logged
    <2>3. ASSUME NEW i \in Items PROVE Kept(i)
      BY <1>1, <1>2, <1>6, <1>8, <2>1, <2>2 DEF Apart, Somewhere, Kept
    <2>4. Len(b) <= MaxBatch
      <3>1. batch = <<>> => Len(b) = 1
        BY SMTT(30), <1>4
      <3> QED
        BY <1>3, <1>4, <1>10, <3>1, PipelineConstants DEF PipelineConstants
    <2>5. TypeOK'
      BY SMTT(30), <1>1, <1>2, <1>4, <1>10, <2>4 DEF IInv, TypeOK
    <2> QED
      BY <1>2, <1>6, <1>7, <2>1, <2>2, <2>3, <2>5, Zenon DEF IInv, Held, Kept
  <1> QED
    BY <1>5, <1>9, <1>10

\* The worker takes over the first batch.
LEMMA TakeHeld ==
  ASSUME IInv, outCap \in Nat, NEW w \in Workers, Take(w),
         UNCHANGED <<closed, queueClosed, recorded, closer, transport>>
  PROVE  IInv'
  <1> DEFINE h == Head(batches)
             v == [pc |-> "sending", batch |-> h]
  <1>1. UNCHANGED <<queue, batch, dispatcher, sent, dropped>> /\ batches # <<>>
        /\ batches' = Tail(batches) /\ worker' = [worker EXCEPT ![w] = v] /\ worker[w] = Idle
    BY DEF Take
  <1>2. /\ batches' \in Seq(Seq(Items)) /\ Len(batches') = Len(batches) - 1
        /\ h \in Seq(Items) /\ OnceWaits'
        /\ \A i \in Items : /\ Waits(i) <=> Waits(i)' \/ i \in Range(h)
                            /\ ~(Waits(i)' /\ i \in Range(h))
    BY <1>1, BatchLeaves, Zenon DEF IInv, TypeOK, Held
  <1> HIDE DEF h
  <1>3. /\ v \in [pc : {"idle", "sending", "done"}, batch : Seq(Items)] /\ v.batch = h
        /\ v.pc = "sending" /\ worker[w].batch = <<>> /\ Idle.pc = "idle"
    <2>1. h \in Seq(Items)
      BY <1>2
    <2> QED
      BY <1>1, <2>1 DEF Idle
  <1> HIDE DEF v
  <1>4. ASSUME NEW i \in Items
        PROVE  /\ Apart(i) /\ (Somewhere(i) <=> i <= recorded)
               /\ i \in Range(h) => Waits(i)
    BY <1>2 DEF IInv, Held
  <1>5. OnceSending' /\ \A i \in Items : Sending(i)' <=> Sending(i) \/ i \in Range(h)
    <2>1. TypeOK /\ OnceSending /\ ~\E i \in Items : i \in Range(worker[w].batch)
      BY <1>3, Nothing DEF IInv, Held
    <2>2. \A i \in Items : i \in Range(v.batch) => ~Sending(i)
      BY <1>3, <1>4, Zenon DEF Apart
    <2> QED
      BY <1>1, <1>3, <2>1, <2>2, WorkerBatch, Zenon
  <1>6. /\ Once(queue)' /\ Once(batch)' /\ OnceLogged'
        /\ \A i \in Items : /\ Queued(i)' <=> Queued(i)
                            /\ Batched(i)' <=> Batched(i)
                            /\ Logged(i)' <=> Logged(i)
    BY <1>1 DEF IInv, Held, Queued, Batched, Logged, OnceLogged
  <1>7. ASSUME NEW i \in Items PROVE Kept(i)
    BY SMTT(30), <1>1, <1>2, <1>4, <1>5, <1>6 DEF Apart, Somewhere, Kept
  <1>8. TypeOK'
    <2>1. Len(batches) \in Nat /\ Len(batches) <= outCap
      BY DEF IInv, TypeOK
    <2>2. Len(batches') <= outCap
      BY <1>2, <2>1
    <2> QED
      BY <1>1, <1>2, <1>3, <2>2 DEF IInv, TypeOK
  <1>9. Stops'
    BY <1>1, <1>3 DEF IInv, Stops, TypeOK
  <1> QED
    BY <1>2, <1>5, <1>6, <1>7, <1>8, <1>9, Zenon DEF IInv, Held, Kept

\* A send ends: its batch was delivered, or goes to the fallback.
LEMMA SentHeld ==
  ASSUME IInv, NEW w \in Workers, SendOK(w) \/ SendFails(w),
         UNCHANGED <<closed, queueClosed, recorded, closer, transport>>
  PROVE  IInv'
  <1> DEFINE b == worker[w].batch
  <1>1. UNCHANGED <<queue, batch, batches, dispatcher>> /\ worker[w].pc = "sending"
        /\ worker' = [worker EXCEPT ![w] = Idle]
    BY DEF SendOK, SendFails
  <1>2. b \in Seq(Items) /\ Range(b) \subseteq Items
    BY Elements DEF IInv, TypeOK
  <1>3. Idle \in [pc : {"idle", "sending", "done"}, batch : Seq(Items)] /\ Idle.batch = <<>>
        /\ Idle.pc = "idle"
    BY DEF Idle
  <1>4. /\ OnceSending'
        /\ \A i \in Items : /\ Sending(i) <=> Sending(i)' \/ i \in Range(b)
                            /\ ~(Sending(i)' /\ i \in Range(b))
    BY <1>1, <1>3, WorkerEmptied, Zenon DEF IInv, Held
  <1> HIDE DEF b
  <1>5. ASSUME NEW i \in Items
        PROVE  /\ Apart(i) /\ (Somewhere(i) <=> i <= recorded)
               /\ i \in Range(b) => Sending(i)
    BY <1>4 DEF IInv, Held
  <1>6. /\ Once(queue)' /\ Once(batch)' /\ OnceWaits'
        /\ \A i \in Items : /\ Queued(i)' <=> Queued(i)
                            /\ Batched(i)' <=> Batched(i)
                            /\ Waits(i)' <=> Waits(i)
    BY <1>1 DEF IInv, Held, Queued, Batched, Waits, OnceWaits
  <1>7. Stops'
    BY <1>1, <1>3 DEF IInv, Stops, TypeOK
  <1>8. /\ OnceLogged' /\ sent' \subseteq Items /\ dropped' \subseteq Items \X Reasons
        /\ \/ \A i \in Items : /\ i \in sent' <=> i \in sent \/ i \in Range(b)
                               /\ Logged(i)' <=> Logged(i)
           \/ \A i \in Items : /\ i \in sent' <=> i \in sent
                               /\ Logged(i)' <=> Logged(i) \/ i \in Range(b)
    <2>1. CASE SendOK(w)
      <3>1. sent' = sent \cup Range(b) /\ dropped' = dropped
        BY <2>1 DEF SendOK, b
      <3> QED
        BY <1>2, <3>1 DEF IInv, Held, TypeOK, Logged, OnceLogged
    <2>2. CASE SendFails(w)
      <3>1. sent' = sent /\ drop(b, "transport") /\ "transport" \in Reasons
        BY <2>2 DEF SendFails, b, Reasons
      <3>2. \A i \in Items : i \in Range(b) => ~Logged(i)
        BY <1>5, Zenon DEF Apart
      <3>3. /\ dropped' \subseteq Items \X Reasons /\ OnceLogged'
            /\ \A i \in Items : Logged(i)' <=> Logged(i) \/ i \in Range(b)
        BY <1>2, <3>1, <3>2, Drops, Zenon DEF IInv, Held, TypeOK
      <3> QED
        BY <3>1, <3>3 DEF IInv, TypeOK
    <2> QED
      BY <2>1, <2>2
  <1>9. ASSUME NEW i \in Items PROVE Kept(i)
    BY <1>4, <1>5, <1>6, <1>8 DEF Apart, Somewhere, Kept
  <1>10. TypeOK'
    BY <1>1, <1>3, <1>8 DEF IInv, TypeOK
  <1> QED
    BY <1>4, <1>6, <1>7, <1>8, <1>9, <1>10, Zenon DEF IInv, Held, Kept

\* The places of the events, for the steps that move none.
LEMMA HeldSame ==
  ASSUME Held, UNCHANGED <<queue, batch, batches, sent, dropped, recorded>>,
         \A w \in Workers : worker'[w].batch = worker[w].batch
  PROVE  Held'
  <1>1. /\ Once(queue)' /\ Once(batch)' /\ OnceWaits' /\ OnceSending' /\ OnceLogged'
        /\ \A i \in Items : /\ Queued(i)' <=> Queued(i)
                            /\ Batched(i)' <=> Batched(i)
                            /\ Waits(i)' <=> Waits(i)
                            /\ Sending(i)' <=> Sending(i)
                            /\ Logged(i)' <=> Logged(i)
    BY SMTT(30) DEF Held, Queued, Batched, Waits, Sending, Logged, OnceWaits, OnceSending, OnceLogged
  <1>2. ASSUME NEW i \in Items PROVE Kept(i)
    <2>1. Apart(i) /\ (Somewhere(i) <=> i <= recorded)
      BY DEF Held
    <2> QED
      BY <1>1, <2>1 DEF Apart, Somewhere, Kept
  <1> QED
    BY <1>1, <1>2, Zenon DEF Held, Kept

\* A worker stops when the channel of batches is closed and empty.
LEMMA WorkerExitHeld ==
  ASSUME IInv, NEW w \in Workers, WorkerExit(w),
         UNCHANGED <<closed, queueClosed, recorded, closer, transport>>
  PROVE  IInv'
  <1>1. UNCHANGED <<queue, batch, batches, dispatcher, sent, dropped>>
        /\ worker[w] = Idle /\ worker' = [worker EXCEPT ![w] = Done]
        /\ batches = <<>> /\ dispatcher = "done"
    BY DEF WorkerExit
  <1>2. /\ worker \in [Workers -> [pc : {"idle", "sending", "done"}, batch : Seq(Items)]]
        /\ Done \in [pc : {"idle", "sending", "done"}, batch : Seq(Items)]
        /\ Done.batch = Idle.batch
    BY DEF IInv, TypeOK, Done, Idle
  <1>3. Held'
    BY <1>1, <1>2, HeldSame DEF IInv
  <1>4. TypeOK'
    BY <1>1, <1>2 DEF IInv, TypeOK
  <1>5. Stops'
    BY <1>1, <1>2 DEF IInv, Stops
  <1> QED
    BY <1>3, <1>4, <1>5 DEF IInv

\* Close closes the queue once; neither of its halves touches an event.
LEMMA CloseHeld ==
  ASSUME IInv, NEW k \in Closers, CloseStart(k) \/ CloseEnd(k)
  PROVE  IInv'
  <1>1. UNCHANGED <<queue, batch, batches, dispatcher, worker, sent, dropped, recorded>>
    BY DEF CloseStart, CloseEnd, pipeline
  <1>2. Held'
    BY <1>1, HeldSame DEF IInv
  <1>3. TypeOK'
    BY <1>1, Zenon DEF IInv, TypeOK, CloseStart, CloseEnd
  <1>4. Stops'
    BY <1>1 DEF IInv, Stops, TypeOK, CloseStart, CloseEnd
  <1> QED
    BY <1>2, <1>3, <1>4 DEF IInv

\* A new client: empty channels, and nothing recorded.
LEMMA InitHeld == ASSUME outCap \in Nat, PipelineInit PROVE IInv
  <1> USE PipelineConstants DEF PipelineConstants, PipelineInit
  <1>1. TypeOK
    <2>1. Idle \in [pc : {"idle", "sending", "done"}, batch : Seq(Items)]
      BY DEF Idle
    <2>2. <<>> \in Seq(Items) /\ <<>> \in Seq(Seq(Items)) /\ Len(<<>>) = 0
      OBVIOUS
    <2>3. /\ queue \in Seq(Items) /\ Len(queue) <= BufferSize
          /\ batch \in Seq(Items) /\ Len(batch) <= MaxBatch
          /\ batches \in Seq(Seq(Items)) /\ Len(batches) <= outCap
      BY <2>2
    <2>4. /\ worker \in [Workers -> [pc : {"idle", "sending", "done"}, batch : Seq(Items)]]
          /\ closer \in [Closers -> {"idle", "waiting", "returned"}]
      BY <2>1
    <2>5. /\ sent \subseteq Items /\ dropped \subseteq Items \X Reasons /\ recorded \in 0..MaxItems
      OBVIOUS
    <2> QED
      BY <2>3, <2>4, <2>5, Zenon DEF TypeOK
  <1>2. Stops
    BY DEF Stops, Idle
  <1>3. \A i \in Items : ~Somewhere(i)
    BY Nothing DEF Somewhere, Queued, Batched, Waits, Sending, Logged, Idle
  <1>4. Once(queue) /\ Once(batch) /\ OnceWaits /\ OnceSending /\ OnceLogged
    BY Nothing DEF OnceWaits, OnceSending, OnceLogged, Idle
  <1>5. \A i \in Items : ~(i <= recorded)
    BY DEF Items
  <1> QED
    BY <1>1, <1>2, <1>3, <1>4, <1>5, Zenon DEF IInv, Held, Apart, Somewhere

LEMMA NextHeld == ASSUME outCap \in Nat, IInv, [Next]_vars PROVE IInv'
  <1>1. CASE UNCHANGED vars
    <2>1. Held'
      BY <1>1, HeldSame DEF IInv, vars
    <2> QED
      BY <1>1, <2>1 DEF IInv, TypeOK, Stops, vars
  <1>2. CASE Record
    BY <1>2, RecordHeld
  <1>3. ASSUME NEW k \in Closers, CloseStart(k) \/ CloseEnd(k) PROVE IInv'
    BY <1>3, CloseHeld
  <1>4. CASE PipelineStep
    <2>1. UNCHANGED <<closed, queueClosed, recorded, closer, transport>>
      BY <1>4 DEF PipelineStep
    <2>2. CASE dispatchLoop
      BY <2>1, <2>2, ReceiveHeld, TimerHeld, ExitHeld DEF dispatchLoop
    <2>3. ASSUME NEW w \in Workers, workerLoop(w) PROVE IInv'
      BY <2>1, <2>3, TakeHeld, SentHeld, WorkerExitHeld DEF workerLoop
    <2> QED
      BY <1>4, <2>2, <2>3 DEF PipelineStep
  <1> QED
    BY <1>1, <1>2, <1>3, <1>4 DEF Next

-----------------------------------------------------------------------------
(* What the places say of the events *)

AtQueue(i, p) == \E k \in DOMAIN queue : queue[k] = i /\ p = <<"queue", k>>
AtBatch(i, p) == \E k \in DOMAIN batch : batch[k] = i /\ p = <<"batch", k>>
AtBatches(i, p) == \E k \in DOMAIN batches : i \in Range(batches[k]) /\ p = <<"batches", k>>
AtWorker(i, p) == \E w \in Workers : i \in Range(worker[w].batch) /\ p = <<"worker", w>>
AtSent(i, p) == i \in sent /\ p = <<"sent", 0>>
AtLog(i, p) == \E r \in Reasons : <<i, r>> \in dropped /\ p = <<"dropped", r>>

\* The places of an event, one kind after the other.
LEMMA PlaceKinds ==
  ASSUME NEW i, NEW p
  PROVE  p \in Places(i) <=>
           \/ AtQueue(i, p) \/ AtBatch(i, p) \/ AtBatches(i, p)
           \/ AtWorker(i, p) \/ AtSent(i, p) \/ AtLog(i, p)
  BY Zenon DEF Places, AtQueue, AtBatch, AtBatches, AtWorker, AtSent, AtLog

\* A recorded event has one place.
LEMMA OnePlace ==
  ASSUME IInv, NEW i \in 1..recorded
  PROVE  \E p : Places(i) = {p}
  <1>1. i \in Items /\ Apart(i) /\ Somewhere(i)
    <2>1. i \in Items /\ i <= recorded
      BY PipelineConstants DEF IInv, TypeOK, Items, PipelineConstants
    <2> QED
      BY <2>1 DEF IInv, Held
  <1>2. /\ queue \in Seq(Items) /\ DOMAIN queue = 1..Len(queue) /\ Once(queue)
        /\ batch \in Seq(Items) /\ DOMAIN batch = 1..Len(batch) /\ Once(batch)
        /\ OnceWaits /\ OnceSending /\ OnceLogged
    BY DEF IInv, TypeOK, Held
  <1>3. /\ Queued(i) <=> \E k \in DOMAIN queue : queue[k] = i
        /\ Batched(i) <=> \E k \in DOMAIN batch : batch[k] = i
    BY <1>2, Elements DEF Queued, Batched
  <1>4. \A p : /\ AtQueue(i, p) => Queued(i)
               /\ AtBatch(i, p) => Batched(i)
               /\ AtBatches(i, p) => Waits(i)
               /\ AtWorker(i, p) => Sending(i)
               /\ AtSent(i, p) => i \in sent
               /\ AtLog(i, p) => Logged(i)
    BY <1>3, Zenon DEF AtQueue, AtBatch, AtBatches, AtWorker, AtSent, AtLog, Waits, Sending, Logged
  <1>5. ASSUME NEW p, NEW q
        PROVE  /\ AtQueue(i, p) /\ AtQueue(i, q) => p = q
               /\ AtBatch(i, p) /\ AtBatch(i, q) => p = q
               /\ AtBatches(i, p) /\ AtBatches(i, q) => p = q
               /\ AtWorker(i, p) /\ AtWorker(i, q) => p = q
               /\ AtSent(i, p) /\ AtSent(i, q) => p = q
               /\ AtLog(i, p) /\ AtLog(i, q) => p = q
    <2>1. AtQueue(i, p) /\ AtQueue(i, q) => p = q
      BY <1>2 DEF AtQueue, Once
    <2>2. AtBatch(i, p) /\ AtBatch(i, q) => p = q
      BY <1>2 DEF AtBatch, Once
    <2>3. AtBatches(i, p) /\ AtBatches(i, q) => p = q
      BY <1>1, <1>2 DEF AtBatches, OnceWaits
    <2>4. AtWorker(i, p) /\ AtWorker(i, q) => p = q
      BY <1>1, <1>2 DEF AtWorker, OnceSending
    <2>5. AtLog(i, p) /\ AtLog(i, q) => p = q
      BY <1>1, <1>2 DEF AtLog, OnceLogged
    <2> QED
      BY <2>1, <2>2, <2>3, <2>4, <2>5 DEF AtSent
  <1>6. ASSUME NEW p, p \in Places(i), NEW q, q \in Places(i) PROVE p = q
    BY <1>1, <1>4, <1>5, <1>6, PlaceKinds DEF Apart
  <1>7. \E p : p \in Places(i)
    <2>1. \E p : \/ AtQueue(i, p) \/ AtBatch(i, p) \/ AtBatches(i, p)
                 \/ AtWorker(i, p) \/ AtSent(i, p) \/ AtLog(i, p)
      BY <1>1, <1>3, Zenon
      DEF Somewhere, Waits, Sending, Logged, AtQueue, AtBatch, AtBatches, AtWorker, AtSent, AtLog
    <2> QED
      BY <2>1, PlaceKinds, Zenon
  <1> QED
    BY <1>6, <1>7

-----------------------------------------------------------------------------
(* Close *)

\* One call of Close waits for the goroutines, and then closes the transport.
LEMMA CloseNext ==
  ASSUME \A k, l \in Closers : k = l, IInv, ClosedOnce, [Next]_vars
  PROVE  ClosedOnce'
  <1>t. closer \in [Closers -> {"idle", "waiting", "returned"}]
    BY DEF IInv, TypeOK
  <1>1. CASE UNCHANGED vars
    BY <1>1 DEF ClosedOnce, Drained, vars
  <1>2. CASE Record
    BY <1>2 DEF Record, ClosedOnce, Drained
  <1>3. ASSUME NEW k \in Closers, CloseStart(k) PROVE ClosedOnce'
    <2>1. ~closed /\ closed' /\ closer' = [closer EXCEPT ![k] = "waiting"] /\ transport' = transport
          /\ dispatcher' = dispatcher /\ worker' = worker
      BY <1>3 DEF CloseStart, ClosedOnce, pipeline
    <2> QED
      BY <1>t, <2>1 DEF ClosedOnce, Drained
  <1>4. ASSUME NEW k \in Closers, CloseEnd(k) PROVE ClosedOnce'
    <2>1. Drained /\ closer[k] = "waiting" /\ closer' = [closer EXCEPT ![k] = "returned"]
          /\ closed' = closed /\ dispatcher' = dispatcher /\ worker' = worker
      BY <1>4 DEF CloseEnd, pipeline
    <2> QED
      BY <1>t, <2>1 DEF ClosedOnce, Drained
  <1>5. CASE PipelineStep
    <2>1. UNCHANGED <<closed, closer, transport>>
      BY <1>5 DEF PipelineStep
    <2>2. ASSUME Drained PROVE FALSE
      <3>1. dispatcher = "done" /\ batches = <<>> /\ \A w \in Workers : worker[w] = Done
        <4>1. PICK w \in Workers : worker[w].pc = "done"
          BY <2>2, PipelineConstants DEF Drained, Done, PipelineConstants
        <4> QED
          BY <2>2, <4>1 DEF Drained, IInv, Stops
      <3>2. Done.pc = "done" /\ Done # Idle
        BY DEF Done, Idle
      <3> QED
        BY <1>5, <3>1, <3>2
        DEF PipelineStep, dispatchLoop, workerLoop, Receive, TimerFlush, DispatchExit,
            Take, SendOK, SendFails, WorkerExit
    <2> QED
      BY <2>1, <2>2 DEF ClosedOnce
  <1> QED
    BY <1>1, <1>2, <1>3, <1>4, <1>5 DEF Next

-----------------------------------------------------------------------------
(* The theorems *)

F == INSTANCE FiniteSetTheorems

\* The library's finite sets and their cardinality are those of the model.
LEMMA SameFinite ==
  ASSUME NEW S
  PROVE  /\ F!IsFiniteSet(S) <=> IsFiniteSet(S)
         /\ F!Cardinality(S) = Cardinality(S)
  BY DEF F!Cardinality, Cardinality, F!IsFiniteSet, IsFiniteSet

\* The channel of batches has a capacity, since the workers are finitely many.
LEMMA Capacity == outCap \in Nat
  <1>1. Cardinality(Workers) \in Nat
    <2>1. F!IsFiniteSet(Workers)
      BY SameFinite, PipelineConstants DEF PipelineConstants
    <2>2. F!Cardinality(Workers) \in Nat
      BY <2>1, F!FS_CardinalityType
    <2> QED
      BY <2>2, SameFinite
  <1> QED
    BY <1>1 DEF outCap

LEMMA AlwaysHeld == Spec => []IInv
  <1>1. PipelineInit => IInv
    BY InitHeld, Capacity
  <1>2. IInv /\ [Next]_vars => IInv'
    BY NextHeld, Capacity
  <1> QED
    BY <1>1, <1>2, PTL DEF Spec

\* Record, flush and workerLoop: for any number of events and workers and any
\* capacities, every recorded event is in exactly one place of the pipeline, or
\* was sent, or was handed to the fallback for one reason, however many calls of
\* Close there are.
THEOREM EventsConserved == Spec => []PipelineSound
  <1>1. IInv => PipelineSound
    <2> SUFFICES ASSUME IInv PROVE PipelineSound
      OBVIOUS
    <2>1. ASSUME NEW i \in 1..recorded PROVE Cardinality(Places(i)) = 1
      <3>1. PICK p : Places(i) = {p}
        BY OnePlace
      <3>2. F!Cardinality({p}) = 1
        BY F!FS_Singleton
      <3> QED
        BY <3>1, <3>2, SameFinite
    <2> QED
      BY <2>1 DEF PipelineSound, Conserved, IInv
  <1> QED
    BY <1>1, AlwaysHeld, PTL

\* Close: when it is called once, it closes the transport only after the
\* dispatcher and every worker have stopped and nothing is left to send.
THEOREM TransportLast ==
  ASSUME \A k, l \in Closers : k = l
  PROVE  Spec => []TransportClosedLast
  <1>1. PipelineInit => ClosedOnce
    BY DEF PipelineInit, ClosedOnce
  <1>2. IInv /\ ClosedOnce /\ [Next]_vars => ClosedOnce'
    BY CloseNext
  <1>3. IInv /\ ClosedOnce => TransportClosedLast
    <2> SUFFICES ASSUME IInv, Drained PROVE queue = <<>> /\ batch = <<>> /\ batches = <<>>
      BY DEF ClosedOnce, TransportClosedLast
    <2>1. PICK w \in Workers : worker[w].pc = "done"
      BY PipelineConstants DEF Drained, Done, PipelineConstants
    <2> QED
      BY <2>1 DEF Drained, IInv, Stops
  <1> QED
    BY <1>1, <1>2, <1>3, AlwaysHeld, PTL DEF Spec
=============================================================================
