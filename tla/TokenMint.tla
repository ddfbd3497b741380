----------------------------- MODULE TokenMint -----------------------------
(***************************************************************************)
(* tokenmint.Minter: one single-flight per credential pair, the cached     *)
(* token with its two boundaries, the gates before a request, the request  *)
(* itself with the lock released, and Sweep.                               *)
(***************************************************************************)
EXTENDS GrantClient, FiniteSetsExt

CONSTANTS Keys,          \* credential pairs of one profile
          Answers,       \* what the token endpoint may do
          MaxTime,       \* bound on the clock
          HaircutNum, HaircutDen, RefreshMargin, MinRefreshInterval,
          ErrorBackoffBase, ErrorBackoffMax, AuthErrorBackoff,
          IdleTTL, Timeout, Burst

VARIABLES now,
          state,    \* Minter.state; Absent when the map has no entry
          flight,   \* the single-flight call of a pair, led by one caller
          tokens,   \* of the profile's rate.Limiter
          ret,      \* what the last step returned to every caller of a flight
          last      \* ghost: the last request of a pair

vars == <<now, state, flight, tokens, ret, last>>

Absent == [here |-> FALSE]
Never == -1

\* mintState.  dies is a ghost: when the endpoint stops accepting the token.
\* failCount only scales the backoff, which no longer grows at FailCap.
FailCap == ErrorBackoffMax
NewState == [here |-> TRUE, hasResult |-> FALSE, refreshAfter |-> 0, hardExpiry |-> 0,
             dies |-> 0, lastMintAt |-> Never, failCount |-> 0, nextAttemptAt |-> 0]

Idle == [pc |-> "idle", start |-> 0, own |-> Absent, fallback |-> FALSE, cached |-> NewState]
NoReturn == [ok |-> FALSE, dies |-> 0, hardExpiry |-> 0, fallback |-> FALSE]
NoRequest == [at |-> Never, quiet |-> 0, kept |-> TRUE]

MintConstants ==
  /\ {MaxTime, HaircutNum, HaircutDen, RefreshMargin, MinRefreshInterval, ErrorBackoffBase,
      ErrorBackoffMax, AuthErrorBackoff, IdleTTL, Timeout, Burst} \subseteq Nat \ {0}
  \* as in the defaults of profile.go; Validate does not ask for it
  /\ IdleTTL >= Max({MinRefreshInterval, ErrorBackoffMax, AuthErrorBackoff})

\* At time t no refresh is due; the token can still be served.
Fresh(st, t) == st.hasResult /\ t < st.refreshAfter
Usable(st, t) == st.hasResult /\ t < st.hardExpiry

lifetime(expiresIn) ==
  LET cut == (expiresIn * HaircutNum) \div HaircutDen IN IF cut <= 0 THEN expiresIn ELSE cut

resultFrom(st, t, g) ==
  LET life == lifetime(g.expiresIn)
      margin == IF RefreshMargin >= life THEN life \div 2 ELSE RefreshMargin
  IN  [st EXCEPT !.hasResult = TRUE, !.hardExpiry = t + life,
                 !.refreshAfter = t + life - margin, !.dies = t + g.expiresIn]

clampDuration(d, lo, hi) == IF d < lo THEN lo ELSE IF hi > 0 /\ d > hi THEN hi ELSE d

\* The delays that backoffFor may choose; several only for the jitter.
backoffFor(g, failCount) ==
  IF g.err = "invalid_client" THEN {AuthErrorBackoff}
  ELSE IF g.retryAfter > 0 THEN {clampDuration(g.retryAfter, ErrorBackoffBase, ErrorBackoffMax)}
  ELSE LET d == clampDuration(ErrorBackoffBase * 2^(failCount - 1), ErrorBackoffBase, ErrorBackoffMax)
       IN  (d \div 2)..(2 * (d \div 2))

Init ==
  /\ now = 0
  /\ state = [k \in Keys |-> Absent]
  /\ flight = [k \in Keys |-> Idle]
  /\ tokens = Burst
  /\ ret = NoReturn
  /\ last = [k \in Keys |-> NoRequest]

\* Mint starts a flight: clock and stateFor of mintOne.  A call that finds a
\* flight joins it and gets its result.
Mint(k) ==
  /\ flight[k].pc = "idle"
  /\ state' = [state EXCEPT ![k] = IF @ = Absent THEN NewState ELSE @]
  /\ flight' = [flight EXCEPT ![k] = [Idle EXCEPT !.pc = "gate", !.start = now]]
  /\ ret' = NoReturn
  /\ UNCHANGED <<now, tokens, last>>

\* The entry of the flight: in the map, or held by the flight alone once
\* Sweep has taken it out.
Entry(k) == IF flight[k].own # Absent THEN flight[k].own ELSE state[k]

ServeResult(k, st, ok) ==
  ret' = [ok |-> ok, dies |-> st.dies, hardExpiry |-> st.hardExpiry,
          fallback |-> flight[k].fallback \/ Usable(Entry(k), flight[k].start)]

GatesOpen(st, t) ==
  /\ t >= st.nextAttemptAt
  /\ st.lastMintAt = Never \/ t - st.lastMintAt >= MinRefreshInterval

\* The locked section of mintOne and the limiter: return, or send a request.
Gate(k) ==
  LET st == Entry(k)
      t == flight[k].start
      send == ~Fresh(st, t) /\ GatesOpen(st, t) /\ tokens > 0
  IN  /\ flight[k].pc = "gate"
      /\ IF send
         THEN /\ flight' = [flight EXCEPT ![k] = [@ EXCEPT !.pc = "grant", !.cached = st,
                                                           !.fallback = Usable(st, t)]]
              /\ tokens' = tokens - 1
              /\ ret' = NoReturn
              /\ last' = [last EXCEPT ![k] = [at |-> t, quiet |-> 0, kept |-> flight[k].own = Absent]]
         ELSE /\ flight' = [flight EXCEPT ![k] = Idle]
              /\ ServeResult(k, st, Usable(st, t))
              /\ UNCHANGED <<tokens, last>>
      /\ UNCHANGED <<now, state>>

\* What the endpoint's answer asks for before the next request, told from the
\* answer itself: half of the base is the least that jitter leaves.
QuietFor(a) ==
  IF a.status \in {401, 403} \/ (a.status = 400 /\ a.code = "invalid_client") THEN AuthErrorBackoff
  ELSE IF a.status = 200 /\ a.token # "" THEN 0
  ELSE IF a.status \in {429, 503} /\ a.retry.n > 0
       THEN IF a.retry.n > ErrorBackoffMax THEN ErrorBackoffMax ELSE a.retry.n
  ELSE ErrorBackoffBase \div 2

\* doGrant returns and mintOne takes the lock again.  start is the time that
\* was read before the request.
AfterGrant(k, a, st) ==
  LET g == doGrant(a)
      t == flight[k].start
  IN  IF g.err = "none"
      THEN {[resultFrom(st, t, g) EXCEPT !.lastMintAt = t, !.failCount = 0, !.nextAttemptAt = 0]}
      ELSE LET n == Min({st.failCount + 1, FailCap})
           IN  {[st EXCEPT !.lastMintAt = t, !.failCount = n, !.nextAttemptAt = t + d] :
                  d \in backoffFor(g, n)}

\* Mutated: a failed request is never covered by the cached token.
FallbackNever(k) == FALSE
\* Mutated: the cached token is a fallback at any age.
FallbackAnyAge(k) == flight[k].cached.hasResult

\* A failed request is answered with the token that was usable before it.
Fallback(k) == flight[k].fallback

Finish(k, a) ==
  /\ flight[k].pc = "grant"
  /\ \E st \in AfterGrant(k, a, Entry(k)) :
       /\ state' = [state EXCEPT ![k] = IF flight[k].own = Absent THEN st ELSE @]
       /\ IF doGrant(a).err = "none" THEN ServeResult(k, st, TRUE)
          ELSE ServeResult(k, flight[k].cached, Fallback(k))
  /\ flight' = [flight EXCEPT ![k] = Idle]
  /\ last' = [last EXCEPT ![k].quiet = QuietFor(a)]
  /\ UNCHANGED <<now, tokens>>

Idling(st) == /\ st.lastMintAt # Never /\ now - st.lastMintAt >= IdleTTL
              /\ ~Usable(st, now)

\* One locked pass over the map.  A flight keeps the entry that it holds.
Sweep ==
  LET gone == {k \in Keys : state[k] # Absent /\ Idling(state[k])}
  IN  /\ gone # {}
      /\ state' = [k \in Keys |-> IF k \in gone THEN Absent ELSE state[k]]
      /\ flight' = [k \in Keys |-> IF k \in gone /\ flight[k].pc # "idle"
                                   THEN [flight[k] EXCEPT !.own = state[k]] ELSE flight[k]]
      /\ last' = [k \in Keys |-> IF k \in gone /\ flight[k].pc = "grant"
                                 THEN [last[k] EXCEPT !.kept = FALSE] ELSE last[k]]
      /\ ret' = NoReturn
      /\ UNCHANGED <<now, tokens>>

\* http.Client.Timeout ends a request; the locked sections take no time.
Tick ==
  /\ now < MaxTime
  /\ \A k \in Keys : \/ flight[k].pc = "idle"
                     \/ flight[k].pc = "grant" /\ now - flight[k].start < Timeout
  /\ now' = now + 1
  /\ tokens' = Min({tokens + 1, Burst})
  /\ ret' = NoReturn
  /\ UNCHANGED <<state, flight, last>>

\* Requests of the profile's other pairs, which share only the limiter.
OtherPairs ==
  /\ tokens > 0 /\ tokens' = tokens - 1
  /\ ret' = NoReturn
  /\ UNCHANGED <<now, state, flight, last>>

Next ==
  \/ \E k \in Keys : Mint(k) \/ Gate(k) \/ \E a \in Answers : Finish(k, a)
  \/ OtherPairs
  \/ Sweep
  \/ Tick

Spec == Init /\ [][Next]_vars

TypeOK ==
  /\ now \in 0..MaxTime /\ tokens \in 0..Burst
  /\ \A k \in Keys :
       /\ flight[k].pc \in {"idle", "gate", "grant"}
       /\ flight[k].pc # "idle" => state[k] # Absent \/ flight[k].own # Absent
       /\ state[k] # Absent => state[k].failCount \in 0..FailCap

\* Two requests for a pair are at least MinRefreshInterval apart, and a failed
\* one is followed by silence for as long as its answer asks: AuthErrorBackoff
\* after bad credentials, the server's hint up to ErrorBackoffMax.  The one
\* exception is a pair whose entry Sweep took from under the earlier request.
FloorKept ==
  \A k \in Keys :
    /\ flight[k].pc = "gate" /\ flight'[k].pc = "grant"
    /\ last[k].at # Never /\ last[k].kept
    => now - last[k].at >= Max({MinRefreshInterval, last[k].quiet})

\* The same without the exception, as profile.go documents the interval.
HardFloor ==
  \A k \in Keys :
    flight[k].pc = "gate" /\ flight'[k].pc = "grant" /\ last[k].at # Never
    => now - last[k].at >= MinRefreshInterval

\* While a pair has a usable token no call fails: an outage of the endpoint,
\* the limiter and both gates are invisible.
OutageInvisible == ret.fallback => ret.ok

\* A token that Mint returns is still accepted by its endpoint, although the
\* fallback is chosen with the time read before the request: the haircut
\* leaves at least Timeout.
ServedAlive == ret.ok => now < ret.dies
=============================================================================
