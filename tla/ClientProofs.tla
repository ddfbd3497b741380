---------------------------- MODULE ClientProofs ----------------------------
(***************************************************************************)
(* What clients may tell their callers.  stsclient for any number of       *)
(* callers: the shared retry budget for any cap and refill interval, the   *)
(* requests for any number of retries, and the cached token for any        *)
(* lifetimes and refresh buffer.  amqpconfirm for any number of messages.  *)
(***************************************************************************)
EXTENDS RouterClient, Sequences, TLAPS

\* The quotient of a and d as a multiple of d next to a.
LEMMA Quotient ==
  ASSUME NEW a \in Nat, NEW d \in Nat \ {0}
  PROVE  /\ a \div d \in Nat
         /\ d * (a \div d) <= a /\ a < d * (a \div d) + d
  BY SMTT(30)

\* Below the quotient is what fits.
LEMMA Fits ==
  ASSUME NEW a \in Nat, NEW d \in Nat \ {0}, NEW x \in Nat, d * x <= a
  PROVE  x <= a \div d
  <1> DEFINE q == a \div d
  <1>1. q \in Nat /\ a < d * q + d
    BY Quotient
  <1> HIDE DEF q
  <1>2. SUFFICES ASSUME x >= q + 1 PROVE FALSE
    BY <1>1 DEF q
  <1>3. PICK y \in Nat : x = q + 1 + y
    BY <1>1, <1>2
  <1>4. d * x = d * q + d + d * y /\ d * y >= 0
    BY <1>1, <1>3
  <1> QED
    BY <1>1, <1>4

\* Intervals that pass one after the other fit into the time they take
\* together: forgetting a fraction of a refill never grants more.
LEMMA QuotientSum ==
  ASSUME NEW a \in Nat, NEW b \in Nat, NEW d \in Nat \ {0}
  PROVE  a \div d + b \div d <= (a + b) \div d
  <1> DEFINE x == a \div d
             y == b \div d
  <1>1. x \in Nat /\ y \in Nat /\ d * x <= a /\ d * y <= b
    BY Quotient
  <1> HIDE DEF x, y
  <1>2. d * (x + y) <= a + b
    BY <1>1
  <1>3. x + y <= (a + b) \div d
    BY <1>1, <1>2, Fits
  <1> QED
    BY <1>3 DEF x, y

\* A longer time holds no fewer intervals.
LEMMA QuotientMonotone ==
  ASSUME NEW a \in Nat, NEW b \in Nat, NEW d \in Nat \ {0}, a <= b
  PROVE  a \div d <= b \div d
  <1>1. b - a \in Nat /\ b = a + (b - a)
    OBVIOUS
  <1>2. a \div d + (b - a) \div d <= b \div d
    BY <1>1, QuotientSum
  <1> QED
    BY <1>1, <1>2, Quotient

-----------------------------------------------------------------------------
\* What has been granted and what is left, against the refills up to the last
\* one: between two refills the budget only moves tokens to spent.
BudgetInv ==
  /\ now \in Nat /\ last \in Nat /\ last <= now
  /\ tokens \in Nat /\ spent \in Nat
  /\ spent + tokens <= BudgetCap + last \div Refill

\* A new budget is full.
LEMMA BudgetInit == Init => BudgetInv
  BY RouterConstants, Quotient DEF Init, BudgetInv, RouterConstants

\* One take: a refill adds at most the intervals since the last one.
LEMMA TakeBudget ==
  ASSUME BudgetInv, take, now' = now
  PROVE  BudgetInv'
  <1> USE RouterConstants DEF RouterConstants
  <1> DEFINE k == (now - last) \div Refill
             full == last \div Refill
             done == now \div Refill
  <1>1. k \in Nat /\ full \in Nat /\ done \in Nat /\ full + k <= done
    <2>1. now - last \in Nat /\ last + (now - last) = now
      BY DEF BudgetInv
    <2> QED
      BY <2>1, Quotient, QuotientSum, Zenon DEF BudgetInv
  <1>2. CASE now - last >= Refill
    <2>1. last' = now /\ last' \div Refill = done
      BY <1>2 DEF take
    <2>2. Refilled \in Nat /\ Refilled <= tokens + k
      BY <1>1, <1>2 DEF Refilled, BudgetInv
    <2>3. spent + tokens <= BudgetCap + full
      BY DEF BudgetInv
    <2>4. /\ tokens' \in Nat /\ spent' \in Nat
          /\ spent' + tokens' = spent + Refilled
      BY <2>2 DEF take, BudgetInv
    <2>5. spent' + tokens' <= BudgetCap + done
      <3>1. BudgetCap \in Nat /\ spent \in Nat /\ tokens \in Nat
        BY DEF BudgetInv
      <3> HIDE RouterConstants DEF k, full, done, RouterConstants
      <3>2. full + k <= done /\ k \in Nat /\ full \in Nat /\ done \in Nat
        BY <1>1
      <3> DEFINE r == Refilled
                 left == spent' + tokens'
      <3>3. r \in Nat /\ r <= tokens + k /\ left = spent + r
        BY <2>2, <2>4
      <3> HIDE DEF r, left
      <3>4. left <= BudgetCap + done
        BY <2>3, <3>1, <3>2, <3>3
      <3> QED
        BY <3>4 DEF left
    <2> QED
      BY <2>1, <2>4, <2>5 DEF BudgetInv
  <1>3. CASE ~(now - last >= Refill)
    <2>1. last' = last /\ Refilled = tokens
      BY <1>3 DEF take, Refilled
    <2>2. /\ tokens' \in Nat /\ spent' \in Nat
          /\ spent' + tokens' = spent + tokens
      BY <2>1 DEF take, BudgetInv
    <2> QED
      BY <2>1, <2>2, Zenon DEF BudgetInv
  <1> QED
    BY <1>2, <1>3

\* Only an attempt that may be retried touches the budget.
LEMMA BudgetNext == BudgetInv /\ [Next]_vars => BudgetInv'
  <1> SUFFICES ASSUME BudgetInv, [Next]_vars PROVE BudgetInv'
    OBVIOUS
  <1>1. CASE UNCHANGED <<now, tokens, last, spent>>
    BY <1>1 DEF BudgetInv
  <1>2. CASE Tick
    BY <1>2 DEF Tick, BudgetInv
  <1>3. CASE take /\ UNCHANGED now
    BY <1>3, TakeBudget
  <1>4. ASSUME NEW c \in Callers, Begin(c) \/ Lock(c) \/ Step(c)
        PROVE  UNCHANGED <<now, tokens, last, spent>> \/ (take /\ UNCHANGED now)
    <2>1. CASE Begin(c) \/ Lock(c)
      BY <2>1, Zenon DEF Begin, Lock
    <2>2. CASE Issue(c) \/ Exchanged(c) \/ ExchangeFails(c)
      BY <2>2 DEF Issue, Exchanged, ExchangeFails
    <2>3. CASE Attempt(c)
      BY <2>3 DEF Attempt
    <2>4. CASE Retry(c) \/ GiveUp(c)
      BY <2>4 DEF Retry, GiveUp
    <2> QED
      BY <1>4, <2>1, <2>2, <2>3, <2>4 DEF Step
  <1> QED
    BY <1>1, <1>2, <1>3, <1>4 DEF Next, vars

\* All requests of a client together never retry more often than the cap of
\* retryBudget plus one for each refill interval since the start, whatever
\* the callers, the outcomes and the moments at which take forgets a fraction.
THEOREM RetriesBounded == Spec => []SpentBounded
  <1>1. BudgetInv => SpentBounded
    <2> SUFFICES ASSUME BudgetInv PROVE SpentBounded
      OBVIOUS
    <2> USE RouterConstants DEF RouterConstants
    <2> DEFINE full == last \div Refill
               done == now \div Refill
    <2>1. full \in Nat /\ done \in Nat /\ full <= done
      BY Quotient, QuotientMonotone DEF BudgetInv
    <2>2. spent + tokens <= BudgetCap + full
      BY DEF BudgetInv
    <2>3. SpentBounded <=> spent <= BudgetCap + done
      BY DEF SpentBounded
    <2> HIDE DEF full, done
    <2> QED
      BY <2>1, <2>2, <2>3 DEF BudgetInv
  <1> QED
    BY <1>1, BudgetInit, BudgetNext, PTL DEF Spec

-----------------------------------------------------------------------------
(* The requests and the cached token *)

Token == [here : BOOLEAN, ttl : Int, dies : Int, late : Int]
Request ==
  [pc : {"idle", "lock", "ask", "answer", "send", "sleep"}, kind : Kinds,
   tok : Token, start : Nat, attempt : 0..MaxRetries]

\* A request: only one that may be sent again sleeps or has been retried, a
\* sleeping one has a retry left, and the mutex is held during an exchange.
ReqOK(c) ==
  /\ req[c].kind = "unsafe" => req[c].attempt = 0 /\ req[c].pc # "sleep"
  /\ req[c].pc = "sleep" => req[c].attempt < MaxRetries
  /\ holder = c <=> req[c].pc \in {"ask", "answer"}

\* The expiry that is kept beside a token counts from the arrival of its
\* answer, which is late after its issue.
RouterInv ==
  /\ now \in 0..MaxTime /\ tokens \in 0..BudgetCap /\ last \in 0..now
  /\ holder \in Callers \cup {Nobody}
  /\ req \in [Callers -> Request]
  /\ cache \in [tok : Token, expiry : Int]
  /\ cache.tok.here => cache.expiry = ExpiryFrom(cache.tok.dies - cache.tok.ttl + cache.tok.late, cache.tok)
  /\ \A c \in Callers : ReqOK(c)

\* The part of a lifetime that is used.
LEMMA WindowType ==
  ASSUME NEW ttl \in Int
  PROVE  /\ refreshWindowForExpiresIn(ttl) \in Int
         /\ ttl > 0 => /\ Slack(ttl) \in Int /\ Slack(ttl) < ttl
                       /\ refreshWindowForExpiresIn(ttl) + Slack(ttl) <= ttl
  <1> USE RouterConstants DEF RouterConstants
  <1>1. CASE ttl > Buffer
    BY <1>1 DEF refreshWindowForExpiresIn, Slack
  <1>2. CASE ~(ttl > Buffer) /\ ttl > 0
    <2> DEFINE h == ttl \div 2
    <2>1. h \in Nat /\ 2 * h <= ttl
      BY <1>2, Quotient
    <2>2. refreshWindowForExpiresIn(ttl) = h /\ Slack(ttl) = h
      BY <1>2 DEF refreshWindowForExpiresIn, Slack
    <2> HIDE DEF h
    <2> QED
      BY <1>2, <2>1, <2>2
  <1>3. CASE ~(ttl > Buffer) /\ ~(ttl > 0)
    BY <1>3 DEF refreshWindowForExpiresIn
  <1> QED
    BY <1>1, <1>2, <1>3

\* A new client has a full budget and no request.
LEMMA RouterInit == Init => RouterInv
  BY RouterConstants
  DEF Init, RouterInv, RouterConstants, ReqOK, Idle, NoCache, NoToken, Request, Token, Kinds

\* A step of one caller replaces its own request and leaves the others, and
\* only a caller that takes or gives back the mutex changes the holder.
LEMMA RequestKept ==
  ASSUME RouterInv, NEW c \in Callers, NEW r \in Request,
         req' = [req EXCEPT ![c] = r],
         r.kind = "unsafe" => r.attempt = 0 /\ r.pc # "sleep",
         r.pc = "sleep" => r.attempt < MaxRetries,
         \/ holder' = holder /\ (r.pc \in {"ask", "answer"} <=> req[c].pc \in {"ask", "answer"})
         \/ holder = Nobody /\ holder' = c /\ r.pc \in {"ask", "answer"}
         \/ holder = c /\ holder' = Nobody /\ r.pc \notin {"ask", "answer"}
  PROVE  /\ req' \in [Callers -> Request]
         /\ holder' \in Callers \cup {Nobody}
         /\ (\A d \in Callers : ReqOK(d))'
  BY RouterConstants DEF RouterInv, ReqOK, RouterConstants

\* A refill never passes the cap.
LEMMA TakeType ==
  ASSUME RouterInv, take, now' = now
  PROVE  tokens' \in 0..BudgetCap /\ last' \in 0..now'
  <1> USE RouterConstants DEF RouterConstants
  <1>1. Refilled \in 0..BudgetCap
    <2>1. CASE now - last >= Refill
      <3>1. (now - last) \div Refill \in Nat
        BY <2>1, Quotient DEF RouterInv
      <3> QED
        BY <2>1, <3>1 DEF RouterInv, Refilled
    <2>2. CASE ~(now - last >= Refill)
      BY <2>2 DEF RouterInv, Refilled
    <2> QED
      BY <2>1, <2>2
  <1> QED
    BY <1>1 DEF take, RouterInv

\* What all steps of a caller leave alone but an attempt that may be retried.
BudgetKept == UNCHANGED <<now, tokens, last>>

\* The requests of the callers, one action after the other.
LEMMA RouterNext == RouterInv /\ [Next]_vars => RouterInv'
  <1> SUFFICES ASSUME RouterInv, [Next]_vars PROVE RouterInv'
    OBVIOUS
  <1> USE RouterConstants DEF RouterConstants
  <1> DEFINE Kept == /\ req' \in [Callers -> Request]
                     /\ holder' \in Callers \cup {Nobody}
                     /\ (\A d \in Callers : ReqOK(d))'
  <1>1. CASE UNCHANGED vars
    BY <1>1 DEF vars, RouterInv, ReqOK
  <1>2. CASE Tick
    BY <1>2 DEF Tick, RouterInv, ReqOK
  <1>a. ASSUME Kept, BudgetKept, cache' = cache PROVE RouterInv'
    BY <1>a DEF BudgetKept, RouterInv
  <1>b. Idle \in Request /\ Idle.pc = "idle" /\ Idle.attempt = 0
    BY DEF Idle, Request, Token, NoToken, Kinds
  <1>3. ASSUME NEW c \in Callers, Begin(c) \/ Lock(c) \/ Step(c) PROVE RouterInv'
    <2>r. /\ req \in [Callers -> Request] /\ req[c] \in Request /\ ReqOK(c)
          /\ now \in Nat /\ holder \in Callers \cup {Nobody}
      BY DEF RouterInv
    <2> DEFINE s == [Idle EXCEPT !.pc = "send", !.kind = req[c].kind]
    <2>s. s \in Request /\ s.pc = "send" /\ s.attempt = 0 /\ s.kind = req[c].kind
      BY Zenon, <1>b, <2>r DEF Request
    <2>1. CASE Begin(c)
      <3>1. PICK k \in Kinds : req' = [req EXCEPT ![c] = [Idle EXCEPT !.pc = "lock", !.kind = k]]
        BY Zenon, <2>1 DEF Begin
      <3> DEFINE r == [Idle EXCEPT !.pc = "lock", !.kind = k]
      <3>2. r \in Request /\ r.pc = "lock" /\ r.attempt = 0
        BY Zenon, <1>b DEF Request
      <3> HIDE DEF r
      <3>3. Kept
        BY Zenon, <2>1, <2>r, <3>1, <3>2, RequestKept DEF Begin, r
      <3> QED
        BY <1>a, <2>1, <3>3 DEF Begin, BudgetKept
    <2>2. CASE Lock(c) /\ CacheServes
      <3>1. Kept
        BY Zenon, <2>2, <2>r, <2>s, RequestKept DEF Lock, Send, ReqOK
      <3> QED
        BY <1>a, <2>2, <3>1 DEF Lock, BudgetKept
    <2>3. CASE Lock(c) /\ ~CacheServes
      <3>1. Kept
        BY <2>3, <2>r, RequestKept DEF Lock, ReqOK, Request
      <3> QED
        BY <1>a, <2>3, <3>1 DEF Lock, BudgetKept
    <2>4. CASE Issue(c)
      <3>1. PICK ttl \in Lifetimes :
              req' = [req EXCEPT ![c].pc = "answer",
                         ![c].tok = [here |-> TRUE, ttl |-> ttl, dies |-> now + ttl, late |-> 0]]
        BY Zenon, <2>4 DEF Issue
      <3> DEFINE t == [here |-> TRUE, ttl |-> ttl, dies |-> now + ttl, late |-> 0]
                 r == [req[c] EXCEPT !.pc = "answer", !.tok = t]
      <3>2. t \in Token
        BY <2>r DEF Token
      <3>3. req' = [req EXCEPT ![c] = r]
        BY Zenon, <2>r, <3>1
      <3> HIDE DEF t
      <3>4. r \in Request /\ r.pc = "answer" /\ r.attempt = req[c].attempt /\ r.kind = req[c].kind
        BY Zenon, <2>r, <3>2 DEF Request
      <3> HIDE DEF r
      <3>5. Kept
        BY Zenon, <2>4, <2>r, <3>3, <3>4, RequestKept DEF Issue, ReqOK
      <3> QED
        BY <1>a, <2>4, <3>5 DEF Issue, BudgetKept
    <2>5. CASE Exchanged(c)
      <3> DEFINE sent == req[c].tok
                 tok == [sent EXCEPT !.late = now - (sent.dies - sent.ttl)]
      <3>1. sent \in Token /\ tok \in Token /\ tok.ttl = sent.ttl /\ tok.dies = sent.dies
            /\ tok.late = now - (sent.dies - sent.ttl)
        BY <2>r DEF Request, Token
      <3>2. cache' = [tok |-> tok, expiry |-> ExpiryFrom(now, tok)]
        BY <2>5 DEF Exchanged
      <3> HIDE DEF tok
      <3>3. ExpiryFrom(now, tok) \in Int
        BY <2>r, <3>1, WindowType DEF ExpiryFrom, Token
      <3>4. now = tok.dies - tok.ttl + tok.late
        BY <2>r, <3>1 DEF Token
      <3>5. Kept
        BY Zenon, <2>5, <2>r, <2>s, RequestKept DEF Exchanged, Send, ReqOK
      <3> QED
        BY <2>5, <3>1, <3>2, <3>3, <3>4, <3>5 DEF Exchanged, RouterInv
    <2>6. CASE ExchangeFails(c)
      <3>1. Kept
        BY Zenon, <1>b, <2>6, <2>r, RequestKept DEF ExchangeFails, ReqOK
      <3> QED
        BY <1>a, <2>6, <3>1 DEF ExchangeFails, BudgetKept
    <2>7. CASE Attempt(c)
      <3>1. PICK o \in Outcomes :
              IF /\ isRetryableRequest(req[c].kind) /\ shouldRetryResponse(o)
                 /\ req[c].attempt < MaxRetries
              THEN /\ take
                   /\ req' = [req EXCEPT ![c] = IF Refilled > 0 THEN [@ EXCEPT !.pc = "sleep"] ELSE Idle]
              ELSE req' = [req EXCEPT ![c] = Idle] /\ UNCHANGED <<tokens, last, spent>>
        BY <2>7 DEF Attempt
      <3>2. tokens' \in 0..BudgetCap /\ last' \in 0..now'
        BY <2>7, <3>1, TakeType DEF Attempt, RouterInv
      <3>3. CASE req' = [req EXCEPT ![c] = Idle]
        <4>1. Kept
          BY Zenon, <1>b, <2>7, <2>r, <3>3, RequestKept DEF Attempt
        <4> QED
          BY <2>7, <3>2, <4>1 DEF Attempt, RouterInv
      <3>4. CASE /\ isRetryableRequest(req[c].kind) /\ req[c].attempt < MaxRetries
                 /\ req' = [req EXCEPT ![c] = [req[c] EXCEPT !.pc = "sleep"]]
        <4>1. Kept
          BY Zenon, <2>7, <2>r, <3>4, RequestKept DEF Attempt, Request, isRetryableRequest
        <4> QED
          BY <2>7, <3>2, <4>1 DEF Attempt, RouterInv
      <3> QED
        BY <3>1, <3>3, <3>4
    <2>8. CASE Retry(c)
      <3>1. Kept
        BY <2>8, <2>r, RequestKept DEF Retry, ReqOK, Request
      <3> QED
        BY <1>a, <2>8, <3>1 DEF Retry, BudgetKept
    <2>9. CASE GiveUp(c)
      <3>1. Kept
        BY Zenon, <1>b, <2>9, <2>r, RequestKept DEF GiveUp
      <3> QED
        BY <1>a, <2>9, <3>1 DEF GiveUp, BudgetKept
    <2> QED
      BY <1>3, <2>1, <2>2, <2>3, <2>4, <2>5, <2>6, <2>7, <2>8, <2>9 DEF Step
  <1> QED
    BY <1>1, <1>2, <1>3 DEF Next

LEMMA AlwaysRouterInv == Spec => []RouterInv
  BY RouterInit, RouterNext, PTL DEF Spec

\* The clock, the budget and the mutex of the token source stay in their
\* ranges: one caller at most exchanges a token, and it is the holder.
THEOREM RouterTypes == Spec => []TypeOK
  <1>1. RouterInv => TypeOK
    BY DEF RouterInv, TypeOK, ReqOK, Request
  <1> QED
    BY <1>1, AlwaysRouterInv, PTL

\* RoundTrip of retryTransport: a method with side effects and without an
\* idempotency key is sent once, for any number of retries and any budget.
THEOREM UnsafeOnce == Spec => []UnsafeSentOnce
  <1>1. RouterInv => UnsafeSentOnce
    BY DEF RouterInv, UnsafeSentOnce, ReqOK
  <1> QED
    BY <1>1, AlwaysRouterInv, PTL

\* Token: the token of a request lives when it is handed out, for any refresh
\* buffer and any lifetime, if its answer took no longer than the part of the
\* lifetime that the window leaves out.
THEOREM TokenLives == Spec => TokenAlive
  <1> DEFINE Given(c) == /\ req[c].pc \in {"lock", "answer"} /\ req'[c].pc = "send"
                         /\ cache'.tok.ttl > 0 /\ cache'.tok.late <= Slack(cache'.tok.ttl)
             Alive == \A c \in Callers : Given(c) => now < cache'.tok.dies
  <1>1. ASSUME RouterInv, Next PROVE Alive
    <2> USE <1>1
    <2> SUFFICES ASSUME NEW c \in Callers, Given(c) PROVE now < cache'.tok.dies
      OBVIOUS
    <2>t. now \in Nat /\ req \in [Callers -> Request] /\ req[c] \in Request
      BY RouterConstants DEF RouterInv, RouterConstants
    <2>1. CASE Lock(c) /\ CacheServes
      <3> DEFINE t == cache.tok
      <3>1. /\ t \in Token /\ t.ttl > 0 /\ t.late <= Slack(t.ttl)
            /\ now < ExpiryFrom(t.dies - t.ttl + t.late, t)
        BY <2>1 DEF Lock, CacheServes, RouterInv
      <3> HIDE DEF t
      <3>2. /\ refreshWindowForExpiresIn(t.ttl) + Slack(t.ttl) <= t.ttl
            /\ refreshWindowForExpiresIn(t.ttl) \in Int /\ Slack(t.ttl) \in Int
        BY <3>1, WindowType DEF Token
      <3>3. now < t.dies
        BY <2>t, <3>1, <3>2 DEF ExpiryFrom, Token
      <3> QED
        BY <2>1, <3>3 DEF Lock, t
    <2>2. CASE Exchanged(c)
      <3> DEFINE sent == req[c].tok
                 tok == [sent EXCEPT !.late = now - (sent.dies - sent.ttl)]
      <3>1. sent \in Token /\ tok \in Token /\ tok.late = now - (tok.dies - tok.ttl)
        BY <2>t DEF Request, Token
      <3>2. cache'.tok = tok
        BY <2>2 DEF Exchanged
      <3> HIDE DEF tok
      <3>3. Slack(tok.ttl) < tok.ttl /\ Slack(tok.ttl) \in Int
        BY <3>1, <3>2, WindowType DEF Token
      <3> QED
        BY <2>t, <3>1, <3>2, <3>3 DEF Token
    <2>3. ~Tick
      BY DEF Tick
    <2>4. ASSUME NEW d \in Callers, d # c, Begin(d) \/ Lock(d) \/ Step(d) PROVE FALSE
      <3>1. req'[c] = req[c]
        BY Zenon, <2>t, <2>4 DEF Begin, Lock, Send, Step, Issue, Exchanged, ExchangeFails, Attempt, Retry, GiveUp
      <3> QED
        BY <3>1
    <2>5. ~Begin(c)
      BY Zenon DEF Begin
    <2>6. ~(Lock(c) /\ ~CacheServes)
      BY <2>t DEF Lock, Request
    <2>7. ~Issue(c)
      BY <2>t DEF Issue, Request
    <2>8. ~(ExchangeFails(c) \/ Attempt(c) \/ Retry(c) \/ GiveUp(c))
      BY <2>t DEF ExchangeFails, Attempt, Retry, GiveUp, Idle
    <2> QED
      BY <2>1, <2>2, <2>3, <2>4, <2>5, <2>6, <2>7, <2>8 DEF Next, Step
  <1>2. RouterInv /\ [Next]_vars => [Alive]_vars
    BY <1>1, Zenon
  <1>3. Spec => [][Alive]_vars
    BY <1>2, AlwaysRouterInv, PTL DEF Spec
  <1> QED
    BY <1>3 DEF TokenAlive

-----------------------------------------------------------------------------
(* amqpconfirm.Await *)

CONSTANT MaxMessages
VARIABLES pubPc, n, fate, wire, returns, confirms, open, listening, verdict

Pub == INSTANCE PublishConfirm WITH pc <- pubPc

Both == {"returns", "confirms"}
Empty == wire = <<>> /\ returns = <<>> /\ confirms = <<>>

\* Where the frames of an answer of one confirmation can be.
OnItsWay(c) ==
  /\ returns = <<>>
  /\ \/ wire = <<c>> /\ confirms = <<>>
     \/ wire = <<>> /\ confirms \in {<<>>, <<c>>}

\* Where those of a returned message can be: the return goes first.
OnItsWayBack ==
  \/ wire = <<"return", "ack">> /\ returns = <<>> /\ confirms = <<>>
  \/ wire = <<"ack">> /\ returns \in {<<>>, <<"return">>} /\ confirms = <<>>
  \/ wire = <<>> /\ returns \in {<<>>, <<"return">>} /\ confirms \in {<<>>, <<"ack">>}

\* The return that Await has not seen yet, and will see.
Due == returns = <<"return">> /\ listening

PubTypes ==
  /\ n \in Nat /\ fate \in Seq({"unknown", "queued", "returned", "refused"}) /\ Len(fate) = n
  /\ pubPc \in {"idle", "await", "drain"} /\ listening \in BOOLEAN
  /\ open \in {{}, {"confirms"}, Both}
  /\ verdict \in {Pub!NoVerdict, "nil", "nacked", "returned", "closed", "cancelled"}

Answer ==
  /\ fate[n] = "unknown" => Empty
  /\ fate[n] = "queued" => OnItsWay("ack")
  /\ fate[n] = "refused" => OnItsWay("nack")
  /\ fate[n] = "returned" => OnItsWayBack

Said ==
  /\ verdict = "nil" => fate[n] = "queued" /\ Empty
  /\ verdict = "nacked" => fate[n] = "refused" /\ Empty
  /\ verdict = "returned" => fate[n] = "returned"

PubInv ==
  /\ PubTypes
  /\ n = 0 => Empty /\ verdict = Pub!NoVerdict
  /\ n > 0 => Answer /\ Said
  /\ pubPc # "idle" => n > 0 /\ verdict = Pub!NoVerdict
  /\ pubPc = "idle" /\ verdict = Pub!NoVerdict => n = 0
  /\ ~listening => "returns" \notin open
  /\ pubPc = "await" /\ fate[n] = "returned" =>
       /\ confirms # <<>> => Due
       /\ wire = <<"ack">> => Due
  /\ pubPc = "drain" => wire = <<>> /\ confirms = <<>>
       /\ (fate[n] = "queued" \/ (fate[n] = "returned" /\ Due))

\* The frames at hand.
LEMMA Frames ==
  /\ \A a : Head(<<a>>) = a /\ Tail(<<a>>) = <<>> /\ <<a>> # <<>> /\ Append(<<>>, a) = <<a>> /\ <<>> \o <<a>> = <<a>>
  /\ Len(<<>>) = 0 /\ \A a : Len(<<a>>) = 1
  /\ \A a, b : Head(<<a, b>>) = a /\ Tail(<<a, b>>) = <<b>> /\ <<a, b>> # <<>> /\ <<>> \o <<a, b>> = <<a, b>>
  /\ \A a, b : <<a>> = <<b>> => a = b
  /\ \A a, b, c : <<a, b>> # <<c>>
  <1>1. \A a : Head(<<a>>) = a /\ Tail(<<a>>) = <<>> /\ <<a>> # <<>> /\ Append(<<>>, a) = <<a>>
    OBVIOUS
  <1>2. \A a : <<>> \o <<a>> = <<a>>
    OBVIOUS
  <1>3. \A a, b : Head(<<a, b>>) = a /\ Tail(<<a, b>>) = <<b>> /\ <<a, b>> # <<>>
    OBVIOUS
  <1>4. \A a, b : <<>> \o <<a, b>> = <<a, b>>
    OBVIOUS
  <1>5. \A a, b : <<a>> = <<b>> => a = b
    OBVIOUS
  <1>6. \A a, b, c : <<a, b>> # <<c>>
    OBVIOUS
  <1>7. Len(<<>>) = 0 /\ \A a : Len(<<a>>) = 1
    OBVIOUS
  <1> QED
    BY <1>1, <1>2, <1>3, <1>4, <1>5, <1>6, <1>7

\* Nothing is published at the start.
LEMMA PubInit == Pub!Init => PubInv
  BY DEF Pub!Init, PubInv, PubTypes, Empty, Both

\* A message goes out on a channel with nothing outstanding.
LEMMA PublishKeeps == ASSUME PubInv, Pub!Publish PROVE PubInv'
  <1>1. fate' = Append(fate, "unknown") /\ n' = n + 1
    BY DEF Pub!Publish
  <1>2. Len(fate') = n' /\ n' \in Nat /\ n' > 0 /\ fate'[n'] = "unknown"
        /\ fate' \in Seq({"unknown", "queued", "returned", "refused"})
    BY <1>1 DEF PubInv, PubTypes
  <1>3. Empty' /\ open' = Both
    <2>1. CASE verdict \in {Pub!NoVerdict, "nil", "nacked"} /\ open = Both
      <3>1. UNCHANGED <<wire, returns, confirms, open>>
        BY <2>1 DEF Pub!Publish, Pub!Channel, Both
      <3>2. Empty
        BY <2>1 DEF Pub!Publish, PubInv, PubTypes, Said
      <3> QED
        BY <2>1, <3>1, <3>2 DEF Empty
    <2>2. CASE ~(verdict \in {Pub!NoVerdict, "nil", "nacked"} /\ open = Both)
      BY <2>2 DEF Pub!Publish, Both, Empty
    <2> QED
      BY <2>1, <2>2
  <1>4. pubPc' = "await" /\ listening' = TRUE /\ verdict' = Pub!NoVerdict
    BY DEF Pub!Publish
  <1> QED
    BY <1>2, <1>3, <1>4 DEF PubInv, PubTypes, Answer, Said, Empty, Pub!NoVerdict, Both

\* The broker, the library and the connection keep where frames can be.
LEMMA BrokerKeeps == ASSUME PubInv, Pub!BrokerAnswers PROVE PubInv'
  <1>1. /\ n > 0 /\ n \in Nat /\ n' = n /\ fate[n] = "unknown" /\ Empty /\ open # {}
        /\ UNCHANGED <<pubPc, returns, confirms, open, listening, verdict>>
    BY DEF Pub!BrokerAnswers, PubInv, PubTypes, Answer
  <1>2. PICK f \in {"queued", "returned", "refused"} :
             /\ fate' = [fate EXCEPT ![n] = f]
             /\ wire' = wire \o (CASE f = "queued" -> <<"ack">>
                                   [] f = "returned" -> <<"return", "ack">>
                                   [] f = "refused" -> <<"nack">>)
    BY Zenon DEF Pub!BrokerAnswers
  <1>3. /\ fate'[n] = f /\ Len(fate') = n
        /\ fate' \in Seq({"unknown", "queued", "returned", "refused"})
    BY <1>1, <1>2 DEF PubInv, PubTypes
  <1>4. /\ f = "queued" => wire' = <<"ack">>
        /\ f = "returned" => wire' = <<"return", "ack">>
        /\ f = "refused" => wire' = <<"nack">>
    BY <1>1, <1>2, Frames DEF Empty
  <1>5. Answer'
    BY <1>1, <1>3, <1>4 DEF Answer, OnItsWay, OnItsWayBack, Empty
  <1>6. Said' /\ pubPc # "drain" /\ <<"return", "ack">> # <<"ack">>
    BY <1>1, Frames DEF PubInv, Said
  <1> QED
    BY <1>1, <1>3, <1>4, <1>5, <1>6 DEF PubInv, PubTypes, Empty

\* The library hands over the return before the acknowledgement.
LEMMA DispatchKeeps == ASSUME PubInv, Pub!Dispatch PROVE PubInv'
  <1>1. /\ wire # <<>> /\ n > 0 /\ open = Both /\ listening
        /\ UNCHANGED <<pubPc, n, fate, open, listening, verdict>>
        /\ wire' = Tail(wire)
        /\ Head(wire) = "return" => returns' = Append(returns, "return") /\ confirms' = confirms
        /\ Head(wire) # "return" => confirms' = Append(confirms, Head(wire)) /\ returns' = returns
    BY DEF Pub!Dispatch, PubInv, PubTypes, Empty, Both
  <1>2. Answer /\ Said
    BY <1>1 DEF PubInv
  <1>3. /\ verdict \notin {"nil", "nacked"} /\ pubPc # "drain" /\ fate[n] # "unknown"
        /\ fate[n] \in {"unknown", "queued", "returned", "refused"}
    BY <1>1, <1>2 DEF Said, Answer, Empty, PubInv, PubTypes
  <1>4. ASSUME NEW c \in {"ack", "nack"}, OnItsWay(c)
        PROVE  wire' = <<>> /\ returns' = <<>> /\ confirms' = <<c>>
    BY <1>1, <1>4, Frames DEF OnItsWay
  <1>5. CASE fate[n] \in {"queued", "refused"}
    <2>1. Answer'
      BY <1>1, <1>2, <1>4, <1>5 DEF Answer, OnItsWay
    <2> QED
      BY <1>1, <1>2, <1>3, <1>5, <2>1 DEF PubInv, PubTypes, Said
  <1>6. CASE fate[n] = "returned"
    <2>1. CASE wire = <<"return", "ack">>
      <3>1. wire' = <<"ack">> /\ returns' = <<"return">> /\ confirms' = <<>>
        BY <1>1, <1>2, <1>6, <2>1, Frames DEF Answer, OnItsWayBack
      <3>2. Answer' /\ Said' /\ Due'
        BY Zenon, <1>1, <1>2, <1>3, <1>6, <3>1 DEF Said, Answer, OnItsWayBack, Due
      <3> QED
        BY <1>1, <1>3, <1>6, <3>2 DEF PubInv, PubTypes
    <2>2. CASE wire = <<"ack">>
      <3>1. wire' = <<>> /\ returns' = returns /\ confirms' = <<"ack">> /\ returns \in {<<>>, <<"return">>}
        BY <1>1, <1>2, <1>6, <2>2, Frames DEF Answer, OnItsWayBack
      <3>2. pubPc = "await" => Due
        BY <1>6, <2>2 DEF PubInv
      <3>3. Answer'
        BY <1>1, <1>6, <3>1 DEF Answer, OnItsWayBack
      <3>4. wire' # <<"ack">>
        BY <3>1, Frames
      <3> QED
        BY <1>1, <1>2, <1>3, <1>6, <3>1, <3>2, <3>3, <3>4 DEF PubInv, PubTypes, Said, Due
    <2> QED
      BY <1>1, <1>2, <1>6, <2>1, <2>2 DEF Answer, OnItsWayBack
  <1> QED
    BY <1>3, <1>5, <1>6

\* A connection that breaks loses what is on the wire.
LEMMA CloseKeeps == ASSUME PubInv, Pub!Close PROVE PubInv'
  <1>1. /\ n > 0 /\ wire' = <<>> /\ "returns" \notin open'
        /\ UNCHANGED <<pubPc, n, fate, returns, confirms, listening, verdict>>
        /\ open' \in {{}, {"confirms"}}
    BY DEF Pub!Close, PubInv, PubTypes, Both
  <1>2. Answer' /\ Said'
    BY <1>1 DEF PubInv, Answer, Said, OnItsWay, OnItsWayBack, Empty
  <1>3. wire' # <<"ack">>
    BY <1>1, Frames
  <1> QED
    BY <1>1, <1>2, <1>3 DEF PubInv, PubTypes, Due

-----------------------------------------------------------------------------
(* Await takes what is there *)

\* A step of Await leaves the message, the wire and the channel alone.
Takes == UNCHANGED <<n, fate, wire, open>>

\* The end of Await.
LEMMA ConcludeKeeps ==
  ASSUME PubInv, Takes, UNCHANGED listening, pubPc # "idle", pubPc' = "idle", Answer',
         verdict' \in {"nil", "nacked", "returned", "closed", "cancelled"}, Said'
  PROVE  PubInv'
  BY DEF PubInv, PubTypes, Takes, Pub!NoVerdict

\* Await concludes from a frame of its own message, or without one.
LEMMA AwaitKeeps == ASSUME PubInv, Pub!Await \/ Pub!ContextDone PROVE PubInv'
  <1> USE DEF Pub!Conclude
  <1>0. /\ pubPc \in {"await", "drain"} /\ n > 0 /\ verdict = Pub!NoVerdict /\ Answer
        /\ fate[n] \in {"unknown", "queued", "returned", "refused"}
    BY DEF Pub!Await, Pub!TakeReturn, Pub!ReturnsClosed, Pub!TakeConfirm, Pub!Drain,
           Pub!ConfirmsClosed, Pub!ContextDone, PubInv, PubTypes
  <1>1. CASE Pub!TakeReturn
    <2>1. /\ returns # <<>> /\ returns' = Tail(returns) /\ confirms' = confirms
          /\ pubPc' = "idle" /\ verdict' = "returned" /\ Takes /\ listening' = listening
      BY <1>1 DEF Pub!TakeReturn, Takes
    <2>2. fate[n] = "returned" /\ returns = <<"return">> /\ returns' = <<>>
      BY <1>0, <2>1, Frames DEF Answer, OnItsWay, OnItsWayBack, Empty
    <2>3. Answer'
      BY <1>0, <2>1, <2>2, Frames DEF Answer, OnItsWayBack, Takes
    <2>4. Said'
      BY <2>1, <2>2 DEF Said, Takes
    <2> QED
      BY <1>0, <2>1, <2>3, <2>4, ConcludeKeeps
  <1>2. CASE Pub!ReturnsClosed
    <2>1. /\ returns = <<>> /\ "returns" \notin open /\ listening' = FALSE
          /\ UNCHANGED <<pubPc, n, fate, wire, returns, confirms, open, verdict>>
          /\ pubPc = "await"
      BY <1>2 DEF Pub!ReturnsClosed
    <2>2. fate[n] = "returned" => confirms = <<>> /\ wire # <<"ack">>
      BY <2>1, Frames DEF PubInv, Due
    <2>3. Answer' /\ Said'
      BY <1>0, <2>1 DEF Answer, Said, OnItsWay, OnItsWayBack, Empty, PubInv
    <2>4. PubTypes'
      BY Zenon, <2>1 DEF PubInv, PubTypes
    <2> QED
      BY <1>0, <2>1, <2>2, <2>3, <2>4 DEF PubInv, PubTypes
  <1>3. CASE Pub!TakeConfirm
    <2>1. /\ confirms # <<>> /\ confirms' = Tail(confirms) /\ returns' = returns
          /\ Takes /\ listening' = listening /\ pubPc = "await"
          /\ IF Head(confirms) = "nack" THEN pubPc' = "idle" /\ verdict' = "nacked"
             ELSE pubPc' = "drain" /\ verdict' = verdict
      BY <1>3 DEF Pub!TakeConfirm, Takes
    <2>2. CASE fate[n] = "queued"
      <3>1. confirms = <<"ack">> /\ wire = <<>> /\ returns = <<>> /\ confirms' = <<>> /\ Head(confirms) = "ack"
        BY <1>0, <2>1, <2>2, Frames DEF Answer, OnItsWay
      <3>2. Answer'
        BY <1>0, <2>1, <2>2, <3>1 DEF Answer, OnItsWay, Takes
      <3> QED
        BY <1>0, <2>1, <2>2, <3>1, <3>2 DEF PubInv, PubTypes, Said, Takes, Pub!NoVerdict
    <2>3. CASE fate[n] = "refused"
      <3>1. confirms = <<"nack">> /\ wire = <<>> /\ returns = <<>> /\ confirms' = <<>> /\ Head(confirms) = "nack"
        BY Zenon, <1>0, <2>1, <2>3, Frames DEF Answer, OnItsWay
      <3>2. Answer' /\ Said'
        BY <1>0, <2>1, <2>3, <3>1 DEF Answer, OnItsWay, Takes, Said, Empty
      <3> QED
        BY <1>0, <2>1, <3>1, <3>2, ConcludeKeeps
    <2>4. CASE fate[n] = "returned"
      <3>1. confirms = <<"ack">> /\ wire = <<>> /\ Due /\ confirms' = <<>> /\ Head(confirms) = "ack"
        BY SMTT(30), <1>0, <2>1, <2>4, Frames DEF Answer, OnItsWayBack, PubInv
      <3>2. Answer'
        BY <1>0, <2>1, <2>4, <3>1 DEF Answer, OnItsWayBack, Takes, Due
      <3> QED
        BY <1>0, <2>1, <2>4, <3>1, <3>2 DEF PubInv, PubTypes, Said, Takes, Due
    <2> QED
      BY <1>0, <2>1, <2>2, <2>3, <2>4 DEF Answer, Empty
  <1>4. CASE Pub!Drain
    <2>1. /\ wire = <<>> /\ confirms = <<>> /\ confirms' = confirms /\ Takes /\ listening' = listening
          /\ pubPc' = "idle"
          /\ IF listening /\ returns # <<>> THEN returns' = Tail(returns) /\ verdict' = "returned"
             ELSE returns' = returns /\ verdict' = "nil"
      BY <1>4 DEF Pub!Drain, Takes, PubInv
    <2>2. CASE fate[n] = "queued"
      <3>1. returns = <<>>
        BY <1>0, <2>2 DEF Answer, OnItsWay
      <3>2. Answer' /\ Said' /\ verdict' = "nil"
        BY <1>0, <2>1, <2>2, <3>1 DEF Answer, OnItsWay, Takes, Said, Empty
      <3> QED
        BY <1>0, <2>1, <3>2, ConcludeKeeps
    <2>3. CASE fate[n] = "returned" /\ Due
      <3>1. returns # <<>> /\ listening /\ Tail(returns) = <<>>
        BY <2>3, Frames DEF Due
      <3>2. Answer' /\ Said' /\ verdict' = "returned"
        BY <1>0, <2>1, <2>3, <3>1 DEF Answer, OnItsWayBack, Takes, Said
      <3> QED
        BY <1>0, <2>1, <3>2, ConcludeKeeps
    <2> QED
      BY <1>4, <2>2, <2>3 DEF Pub!Drain, PubInv
  <1>5. CASE Pub!ConfirmsClosed \/ Pub!ContextDone
    <2>1. /\ pubPc' = "idle" /\ verdict' \in {"closed", "cancelled"} /\ Takes
          /\ UNCHANGED <<returns, confirms, listening>>
      BY <1>5 DEF Pub!ConfirmsClosed, Pub!ContextDone, Takes, Pub!Channel
    <2>2. Answer' /\ Said'
      BY <1>0, <2>1 DEF Answer, Said, OnItsWay, OnItsWayBack, Empty, Takes
    <2> QED
      BY <1>0, <2>1, <2>2, ConcludeKeeps
  <1> QED
    BY <1>1, <1>2, <1>3, <1>4, <1>5 DEF Pub!Await

\* Await: nil is said only of a message the broker has queued, and a return or
\* a nack of the message the broker said it of, for any number of messages,
\* whichever case of its selects runs and whenever the connection breaks; the
\* listeners' buffers of one never overflow.
THEOREM VerdictsTrue ==
  Pub!Spec => [](Pub!TypeOK /\ Pub!SuccessIsDelivery /\ Pub!BlameIsDue)
  <1>1. PubInv /\ [Pub!Next]_Pub!vars => PubInv'
    <2>1. PubInv /\ UNCHANGED Pub!vars => PubInv'
      BY DEF PubInv, PubTypes, Pub!vars, Answer, Said, OnItsWay, OnItsWayBack, Empty, Due
    <2> QED
      BY <2>1, PublishKeeps, BrokerKeeps, DispatchKeeps, CloseKeeps, AwaitKeeps DEF Pub!Next
  <1>2. PubInv => Pub!SuccessIsDelivery /\ Pub!BlameIsDue
    <2>1. PubInv /\ n > 0 => Pub!SuccessIsDelivery /\ Pub!BlameIsDue
      BY DEF PubInv, Said, Pub!SuccessIsDelivery, Pub!BlameIsDue
    <2>2. PubInv /\ n = 0 => Pub!SuccessIsDelivery /\ Pub!BlameIsDue
      BY DEF PubInv, Pub!SuccessIsDelivery, Pub!BlameIsDue, Pub!NoVerdict
    <2> QED
      BY <2>1, <2>2 DEF PubInv, PubTypes
  <1>3. PubInv => Pub!TypeOK
    <2> SUFFICES ASSUME PubInv PROVE Pub!TypeOK
      OBVIOUS
    <2>1. returns \in {<<>>, <<"return">>} /\ confirms \in {<<>>, <<"ack">>, <<"nack">>}
      BY DEF PubInv, PubTypes, Answer, OnItsWay, OnItsWayBack, Empty
    <2>2. Len(returns) <= 1 /\ Len(confirms) <= 1
      <3>1. \A s : s = <<>> \/ (\E a : s = <<a>>) => Len(s) \in {0, 1}
        BY Frames
      <3>2. Len(returns) \in {0, 1} /\ Len(confirms) \in {0, 1}
        BY <2>1, <3>1
      <3>3. \A k \in {0, 1} : k <= 1
        OBVIOUS
      <3> QED
        BY <3>2, <3>3, Zenon
    <2>3. verdict \in {"nil", "nacked"} => returns = <<>> /\ confirms = <<>>
      BY DEF PubInv, PubTypes, Said, Empty, Pub!NoVerdict
    <2> QED
      BY <2>2, <2>3 DEF Pub!TypeOK, PubInv, PubTypes
  <1> QED
    BY <1>1, <1>2, <1>3, PubInit, PTL DEF Pub!Spec
=============================================================================
