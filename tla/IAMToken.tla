------------------------------ MODULE IAMToken ------------------------------
(***************************************************************************)
(* ycloud.IAMTokenResolver: concurrent ResolveToken calls over one cached  *)
(* token, refreshed by a single flight that holds no lock.                 *)
(***************************************************************************)
EXTENDS Integers, FiniteSets, TLC

CONSTANTS Callers, Configs,
          Life,         \* lifetime of a token that the service issues
          Margin,       \* the 30 s before expiry in which a token is not reused
          DefaultLife,  \* assumed when the answer names no expiry
          Timeout,      \* of the HTTP client
          MaxTime

VARIABLES now,
          mode,    \* IAMTokenResolver.authMode
          token,   \* authToken and expiry
          flight,  \* the call of singleflight.Group
          call,    \* ResolveToken of each caller
          out      \* what the last step returned, and to how many

vars == <<now, mode, token, flight, call, out>>

\* AuthConfig: the mode and the credentials that are not empty.
LoadSAKey(cfg) == cfg.keyfile = "parses"

NewIAMTokenResolver(cfg) ==
  \/ cfg.mode = "iam_token" /\ "iam" \in cfg.has
  \/ cfg.mode = "oauth_token" /\ "oauth" \in cfg.has
  \/ cfg.mode = "metadata"
  \/ cfg.mode = "service_account" /\ "keyfile" \in cfg.has /\ LoadSAKey(cfg)

\* dies is known to the service only; text is FALSE for an empty string.
NoToken == [here |-> FALSE, text |-> FALSE, expiry |-> 0, dies |-> 0]
Static == [here |-> TRUE, text |-> TRUE, expiry |-> 0, dies |-> MaxTime + 1]
NoFlight == [pc |-> "none", start |-> 0, answer |-> NoToken]
NoOut == [got |-> "nothing", tok |-> NoToken, to |-> 0]

IAMConstants ==
  /\ {Life, Margin, DefaultLife, Timeout, MaxTime} \subseteq Nat \ {0}
  /\ Timeout <= Margin /\ Timeout < Life   \* 10 s, 30 s and hours
  /\ DefaultLife < Life                    \* 11 of 12 hours

Init ==
  /\ now = 0
  /\ \E cfg \in {c \in Configs : NewIAMTokenResolver(c)} :
       /\ mode = cfg.mode
       /\ token = IF cfg.mode = "iam_token" THEN Static ELSE NoToken
  /\ flight = NoFlight
  /\ call = [c \in Callers |-> "idle"]
  /\ out = NoOut

Fresh == token.text /\ now + Margin < token.expiry

Return(got, tok, callers) ==
  /\ out' = [got |-> got, tok |-> tok, to |-> Cardinality(callers)]
  /\ call' = [c \in Callers |-> IF c \in callers THEN "idle" ELSE call[c]]

Resolve(c) ==
  /\ call[c] = "idle"
  /\ IF mode = "iam_token" \/ Fresh THEN Return("token", token, {c})
     ELSE call' = [call EXCEPT ![c] = "quick"] /\ out' = NoOut
  /\ UNCHANGED <<now, mode, token, flight>>

\* refreshToken looks again, then joins the flight or starts one.
Quick(c) ==
  /\ call[c] = "quick"
  /\ IF Fresh THEN Return("token", token, {c})
     ELSE call' = [call EXCEPT ![c] = "join"] /\ out' = NoOut
  /\ UNCHANGED <<now, mode, token, flight>>

Join(c) ==
  /\ call[c] = "join"
  /\ flight' = IF flight.pc = "none" THEN [NoFlight EXCEPT !.pc = "check"] ELSE flight
  /\ call' = [call EXCEPT ![c] = "wait"]
  /\ out' = NoOut
  /\ UNCHANGED <<now, mode, token>>

Waiting == {c \in Callers : call[c] = "wait"}

\* The flight looks a third time before it sends its request.
Check ==
  /\ flight.pc = "check"
  /\ IF Fresh THEN Return("token", token, Waiting) /\ flight' = NoFlight
     ELSE /\ flight' = [flight EXCEPT !.pc = "ask", !.start = now]
          /\ out' = NoOut /\ UNCHANGED call
  /\ UNCHANGED <<now, mode, token>>

\* The service issues a token, with or without its expiry.
Issue ==
  /\ flight.pc = "ask"
  /\ \E text, dated \in BOOLEAN :
       flight' = [flight EXCEPT !.pc = "answer",
                    !.answer = [here |-> TRUE, text |-> text, dies |-> now + Life,
                                expiry |-> IF dated THEN now + Life ELSE 0]]
  /\ out' = NoOut
  /\ UNCHANGED <<now, mode, token, call>>

\* exchangeOAuthToken and exchangeSAToken take the service's expiry;
\* fetchMetadataToken counts the lifetime from the arrival.
exchangeOAuthToken(a) == IF a.expiry = 0 THEN now + DefaultLife ELSE a.expiry
exchangeSAToken(a) == IF a.expiry = 0 THEN now + DefaultLife ELSE a.expiry
fetchMetadataToken(a) == now + Life

\* The answer arrives, is stored under the lock and given to all who wait.
Refreshed ==
  /\ flight.pc = "answer"
  /\ token' = [flight.answer EXCEPT !.expiry =
                 CASE mode = "oauth_token" -> exchangeOAuthToken(flight.answer)
                   [] mode = "metadata" -> fetchMetadataToken(flight.answer)
                   [] mode = "service_account" -> exchangeSAToken(flight.answer)]
  /\ flight' = NoFlight
  /\ Return("token", token', Waiting)
  /\ UNCHANGED <<now, mode>>

\* An error of the request, of its status or of its body, or the end of the
\* context of the caller that started the flight: all who wait get it.
RefreshFails ==
  /\ flight.pc \in {"ask", "answer"}
  /\ flight' = NoFlight
  /\ Return("error", NoToken, Waiting)
  /\ UNCHANGED <<now, mode, token>>

Tick ==
  /\ now < MaxTime
  /\ \A c \in Callers : call[c] \in {"idle", "wait"}
  /\ \/ flight.pc = "none"
     \/ flight.pc \in {"ask", "answer"} /\ now - flight.start < Timeout
  /\ now' = now + 1
  /\ out' = NoOut
  /\ UNCHANGED <<mode, token, flight, call>>

Next ==
  \/ \E c \in Callers : Resolve(c) \/ Quick(c) \/ Join(c)
  \/ Check \/ Issue \/ Refreshed \/ RefreshFails \/ Tick

Spec == Init /\ [][Next]_vars

\* No step of a caller or of the flight waits for anything but the answer,
\* which the client's timeout turns into an error.
FairSpec == /\ Spec /\ WF_vars(Check) /\ WF_vars(RefreshFails \/ Refreshed)
            /\ \A c \in Callers : WF_vars(Quick(c)) /\ WF_vars(Join(c))

-----------------------------------------------------------------------------
TypeOK ==
  /\ now \in 0..MaxTime
  /\ Waiting # {} <=> flight.pc # "none"
  /\ out.got # "nothing" => out.to > 0

\* A token that is handed out is still accepted by the service, whether it
\* comes from the cache or late from a flight, in every mode: the margin
\* covers the time that an answer may take.
TokenAlive == out.got = "token" => now < out.tok.dies

\* No request is sent for a token that could be had from the cache, although
\* every caller decides on a cache that others are about to change.
NoNeedlessRequest ==
  flight.pc = "check" /\ flight'.pc = "ask" => ~(token.text /\ now + Margin < token.expiry)

\* Every call ends: who joins a flight is not forgotten when it ends.
Resolved == \A c \in Callers : call[c] # "idle" ~> call[c] = "idle"

Symmetry == Permutations(Callers)
=============================================================================
