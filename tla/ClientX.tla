------------------------------ MODULE ClientX -------------------------------
(***************************************************************************)
(* httpx/clientx: one call of DoJSON or DoJSONEmpty, against a server that *)
(* may refuse, stall, break off or send more than the limit.  A body is    *)
(* its length; the caller's context and the call's timeout end it.         *)
(***************************************************************************)
EXTENDS Naturals

CONSTANTS MaxResponse,     \* MaxResponseBytes
          LogCap,          \* logBodyCap
          MaxBody          \* the longest body a server sends

VARIABLES setup, pc, sent, \* bytes the server has sent
          got,             \* bytes read into memory
          expired,         \* the request's context is over
          out

vars == <<setup, pc, sent, got, expired, out>>

NoOut == [result |-> "none", status |-> 0, body |-> 0, origin |-> "none"]

\* A request: which entry, whether a deadline is in force (set by the caller
\* on the request or by Timeout), and what the server answers.
Setups ==
  {s \in [json : BOOLEAN,
          reqDeadline : BOOLEAN, timeout : BOOLEAN,
          status : {200, 204, 500}, allow : {{}, {200}},
          length : 0..MaxBody, decodes : BOOLEAN,
          marked : {"no", "header", "envelope"}] :  \* X-CSAR-Status, error envelope
     /\ s.status = 204 => s.length = 0
     /\ s.length = 0 => ~s.decodes /\ s.marked # "envelope"}

HasDeadline == setup.reqDeadline \/ setup.timeout

Init ==
  /\ setup \in Setups
  /\ pc = "do" /\ sent = 0 /\ got = 0 /\ expired = FALSE /\ out = NoOut

\* The context of the request ends.
Expires ==
  /\ HasDeadline /\ ~expired /\ pc # "returned"
  /\ expired' = TRUE
  /\ UNCHANGED <<setup, pc, sent, got, out>>

Outcome(result, status, body, origin) ==
  out' = [result |-> result, status |-> status, body |-> body, origin |-> origin]

\* What the text of the error makes of it.
TransportOrigins ==
  {"csar_authn_sts", "tls_transport", "network_transport", "timeout", "http_client"}

\* client.Do fails: refused, broken, or out of time.
DoFails ==
  /\ pc = "do"
  /\ \E origin \in TransportOrigins : Outcome("transport", 0, 0, origin)
  /\ pc' = "returned"
  /\ UNCHANGED <<setup, sent, got, expired>>

Responds ==
  /\ pc = "do" /\ ~expired
  /\ pc' = "read"
  /\ UNCHANGED <<setup, sent, got, expired, out>>

ServerSends ==
  /\ pc \in {"read", "drain"} /\ sent < setup.length
  /\ sent' = sent + 1
  /\ UNCHANGED <<setup, pc, got, expired, out>>

\* The header, or a captured body that holds the whole envelope.
classifyResponseOrigin(body) ==
  IF \/ setup.marked = "header"
     \/ setup.marked = "envelope" /\ body > 0 /\ body = setup.length
  THEN "csar" ELSE "upstream_or_gateway"

\* ReadAll fails: the connection breaks or the context ends.
ReadFails ==
  /\ pc = "read" /\ got < setup.length
  /\ Outcome("read", setup.status, 0, classifyResponseOrigin(0))
  /\ pc' = "drain"
  /\ UNCHANGED <<setup, sent, got, expired>>

\* At most one byte beyond the limit.
Read ==
  /\ pc = "read" /\ got < sent /\ got < MaxResponse + 1
  /\ got' = got + 1
  /\ UNCHANGED <<setup, pc, sent, expired, out>>

isSuccess == IF setup.allow = {} THEN setup.status \in 200..299
             ELSE setup.status \in setup.allow

capBody(n) == IF n <= LogCap THEN n ELSE LogCap

\* A body that exec returned: DoJSON decodes it, DoJSONEmpty ignores it.
DoJSON(body) ==
  IF setup.json /\ ~setup.decodes
  THEN Outcome("decode", setup.status, capBody(body), "client_decode")
  ELSE Outcome("ok", setup.status, body, "none")

\* The whole body, or one byte too many, has been read: the size is judged
\* first, then the status.
Judge ==
  /\ pc = "read"
  /\ got = setup.length \/ got = MaxResponse + 1
  /\ IF got > MaxResponse THEN Outcome("too_large", setup.status, 0, classifyResponseOrigin(0))
     ELSE IF ~isSuccess
     THEN Outcome("status", setup.status, capBody(got), classifyResponseOrigin(capBody(got)))
     ELSE DoJSON(got)
  /\ pc' = "drain"
  /\ UNCHANGED <<setup, sent, got, expired>>

\* The deferred copy discards what is left, until the body ends or breaks.
Drained ==
  /\ pc = "drain"
  /\ pc' = "returned"
  /\ UNCHANGED <<setup, sent, got, expired, out>>

ReadExpired == expired /\ ReadFails

BodyOver == (sent = setup.length \/ expired \/ out.result = "read") /\ Drained

Next == Expires \/ DoFails \/ Responds \/ ServerSends \/ ReadFails \/ Read \/ Judge \/ Drained

Spec == Init /\ [][Next]_vars

\* The client reads what is there and a deadline ends; servers may stall.
FairSpec == /\ Spec
            /\ WF_vars(Expires) /\ WF_vars(Read) /\ WF_vars(Judge) /\ WF_vars(BodyOver)
            /\ WF_vars(expired /\ DoFails) /\ WF_vars(ReadExpired)

-----------------------------------------------------------------------------
TypeOK == /\ got <= sent /\ sent <= setup.length
          /\ got <= MaxResponse + 1
          /\ pc = "returned" => out # NoOut

\* A success is an allowed status with the whole body: never a body cut at
\* the limit or by a broken connection.
SuccessIsWhole ==
  out.result = "ok" => /\ out.body = setup.length /\ out.body <= MaxResponse
                       /\ isSuccess

\* "Body holds up to 4 KiB of the captured response body and is always nil
\* when Err is ErrResponseTooLarge", whatever the status.
ErrorBody == /\ out.result \notin {"none", "ok"} => out.body <= LogCap
             /\ pc = "returned" /\ setup.length > MaxResponse => out.result # "ok" /\ out.body = 0

\* With a deadline on the request or in the options the call returns, also
\* when the server stalls in the middle of a body that is being discarded.
Returns == (setup.reqDeadline \/ setup.timeout) ~> (pc = "returned")
=============================================================================
