---------------------------- MODULE RouterClient ----------------------------
(***************************************************************************)
(* stsclient: requests to the router.  Each takes a bearer token from the  *)
(* TokenSource, whose mutex is held for the whole exchange, and then goes  *)
(* through retryTransport with its shared budget.                          *)
(***************************************************************************)
EXTENDS Integers, FiniteSets, TLC

CONSTANTS Callers,
          Lifetimes,   \* values of expires_in
          Buffer,      \* tokenRefreshBuffer
          StsTimeout,  \* stsInternalTimeout
          MaxRetries,  \* routerRetryMaxRetries
          BudgetCap, Refill, MaxTime

VARIABLES now,
          cache,    \* TokenSource.token and expiry
          holder,   \* of TokenSource.mu
          req,      \* one request of each caller
          tokens, last,   \* retryBudget
          spent     \* ghost: retries that the budget has granted

vars == <<now, cache, holder, req, tokens, last, spent>>

Nobody == "nobody"

ASSUME RouterConstants ==
  /\ {MaxRetries, BudgetCap, MaxTime} \subseteq Nat
  /\ {Buffer, StsTimeout, Refill} \subseteq Nat \ {0}
  /\ Lifetimes \subseteq Int
  /\ Nobody \notin Callers

\* An access token: its lifetime, when it dies, and how long after its issue
\* the answer arrived.  The last two are known to nobody but the model.
NoToken == [here |-> FALSE, ttl |-> 0, dies |-> 0, late |-> 0]
NoCache == [tok |-> NoToken, expiry |-> 0]

\* GET and its like; a method with side effects, with and without a key.
Kinds == {"safe", "keyed", "unsafe"}
Idle == [pc |-> "idle", kind |-> "safe", tok |-> NoToken, start |-> 0, attempt |-> 0]

refreshWindowForExpiresIn(ttl) ==
  IF ttl > Buffer THEN ttl - Buffer ELSE IF ttl > 0 THEN ttl \div 2 ELSE 0

Init ==
  /\ now = 0 /\ cache = NoCache /\ holder = Nobody
  /\ req = [c \in Callers |-> Idle]
  /\ tokens = BudgetCap /\ last = 0 /\ spent = 0

Begin(c) ==
  /\ req[c].pc = "idle"
  /\ \E k \in Kinds : req' = [req EXCEPT ![c] = [Idle EXCEPT !.pc = "lock", !.kind = k]]
  /\ UNCHANGED <<now, cache, holder, tokens, last, spent>>

\* bearerTransport sets the header once; the retries keep it.
Send(c) == req' = [req EXCEPT ![c] = [Idle EXCEPT !.pc = "send", !.kind = req[c].kind]]

CacheServes == cache.tok.here /\ now < cache.expiry

\* Token: the mutex, then the cached token or the start of an exchange.
Lock(c) ==
  /\ req[c].pc = "lock" /\ holder = Nobody
  /\ IF CacheServes
     THEN Send(c) /\ holder' = holder
     ELSE /\ req' = [req EXCEPT ![c].pc = "ask", ![c].start = now]
          /\ holder' = c
  /\ UNCHANGED <<now, cache, tokens, last, spent>>

\* The STS issues a token; its answer is still to arrive.
Issue(c) ==
  /\ req[c].pc = "ask"
  /\ \E ttl \in Lifetimes :
       req' = [req EXCEPT ![c].pc = "answer",
                          ![c].tok = [here |-> TRUE, ttl |-> ttl, dies |-> now + ttl, late |-> 0]]
  /\ UNCHANGED <<now, cache, holder, tokens, last, spent>>

ExpiryFrom(t, tok) == t + refreshWindowForExpiresIn(tok.ttl)

\* The answer is stored with the time of its arrival.
Exchanged(c) ==
  LET sent == req[c].tok
      tok == [sent EXCEPT !.late = now - (sent.dies - sent.ttl)]
  IN  /\ req[c].pc = "answer"
      /\ cache' = [tok |-> tok, expiry |-> ExpiryFrom(now, tok)]
      /\ holder' = Nobody
      /\ Send(c)
      /\ UNCHANGED <<now, tokens, last, spent>>

\* Any error of the exchange fails the request and keeps what was cached.
ExchangeFails(c) ==
  /\ req[c].pc \in {"ask", "answer"}
  /\ req' = [req EXCEPT ![c] = Idle]
  /\ holder' = Nobody
  /\ UNCHANGED <<now, cache, tokens, last, spent>>

\* Mutated: every method is retried.
RetryAll(kind) == TRUE

isRetryableRequest(kind) == kind \in {"safe", "keyed"}

Refilled == IF now - last >= Refill
            THEN LET n == tokens + (now - last) \div Refill IN IF n > BudgetCap THEN BudgetCap ELSE n
            ELSE tokens

\* Mutated: a refill does not move the time it counts from.
takeKeepingLast ==
  /\ last' = last
  /\ IF Refilled > 0 THEN tokens' = Refilled - 1 /\ spent' = spent + 1
     ELSE tokens' = Refilled /\ spent' = spent

\* retryBudget.take.  The fraction of a refill that has passed is forgotten.
take ==
  /\ last' = IF now - last >= Refill THEN now ELSE last
  /\ IF Refilled > 0 THEN tokens' = Refilled - 1 /\ spent' = spent + 1
     ELSE tokens' = Refilled /\ spent' = spent

\* An answer or an error that stands; 502, 503 or 504; a timeout or a broken
\* connection.
Outcomes == {"answer", "error", "unavailable", "broken"}
shouldRetryResponse(o) == o \in {"unavailable", "broken"}

\* The budget is asked last, and only if everything else allows a retry.
Attempt(c) ==
  /\ req[c].pc = "send"
  /\ \E o \in Outcomes :
       IF /\ isRetryableRequest(req[c].kind) /\ shouldRetryResponse(o)
          /\ req[c].attempt < MaxRetries
       THEN /\ take
            /\ req' = [req EXCEPT ![c] = IF Refilled > 0 THEN [@ EXCEPT !.pc = "sleep"] ELSE Idle]
       ELSE req' = [req EXCEPT ![c] = Idle] /\ UNCHANGED <<tokens, last, spent>>
  /\ UNCHANGED <<now, cache, holder>>

\* A delay of any length ends and the request is cloned with the token that it has.
Retry(c) ==
  /\ req[c].pc = "sleep"
  /\ req' = [req EXCEPT ![c].pc = "send", ![c].attempt = @ + 1]
  /\ UNCHANGED <<now, cache, holder, tokens, last, spent>>

\* The context ends the wait, or the body cannot be had again.
GiveUp(c) ==
  /\ req[c].pc = "sleep"
  /\ req' = [req EXCEPT ![c] = Idle]
  /\ UNCHANGED <<now, cache, holder, tokens, last, spent>>

Tick ==
  /\ now < MaxTime
  /\ \A c \in Callers : /\ req[c].pc \in {"ask", "answer"} => now - req[c].start < StsTimeout
                        /\ req[c].pc = "lock" => holder # Nobody
  /\ now' = now + 1
  /\ UNCHANGED <<cache, holder, req, tokens, last, spent>>

Step(c) ==
  \/ Issue(c) \/ Exchanged(c) \/ ExchangeFails(c)
  \/ Attempt(c) \/ Retry(c) \/ GiveUp(c)

Next == Tick \/ \E c \in Callers : Begin(c) \/ Lock(c) \/ Step(c)

Spec == Init /\ [][Next]_vars

\* Every exchange, attempt and wait ends (timeouts and timers), and a mutex
\* that is free again and again is given to each of its waiters (Go's mutex
\* hands over to a waiter that has starved).
FairSpec == Spec /\ \A c \in Callers : WF_vars(Step(c)) /\ SF_vars(Lock(c))

-----------------------------------------------------------------------------
TypeOK ==
  /\ now \in 0..MaxTime /\ tokens \in 0..BudgetCap /\ last \in 0..now
  /\ holder \in Callers \cup {Nobody}
  /\ \A c \in Callers : /\ req[c].attempt \in 0..MaxRetries
                        /\ holder = c <=> req[c].pc \in {"ask", "answer"}

\* What a cached token may lose before it arrives: the refresh buffer, or
\* half of a short lifetime.
Slack(ttl) == IF ttl > Buffer THEN Buffer ELSE ttl \div 2

\* Token hands out a token that still lives, also when it is cached, if its
\* answer took no longer than the part of its lifetime that is not used.
TokenAlive ==
  [][\A c \in Callers :
       /\ req[c].pc \in {"lock", "answer"} /\ req'[c].pc = "send"
       /\ cache'.tok.ttl > 0 /\ cache'.tok.late <= Slack(cache'.tok.ttl)
       => now < cache'.tok.dies]_vars

\* All requests together never retry more often than the budget's cap and one
\* for each refill interval since the start.
SpentBounded == spent <= BudgetCap + now \div Refill

\* A method with side effects and without a key is sent once, whatever
\* happens to it.
UnsafeSentOnce == \A c \in Callers : req[c].kind = "unsafe" => req[c].attempt = 0 /\ req[c].pc # "sleep"

\* Every request ends, although all wait on one mutex during an exchange.
Answered == \A c \in Callers : req[c].pc # "idle" ~> req[c].pc = "idle"

Symmetry == Permutations(Callers)
=============================================================================
