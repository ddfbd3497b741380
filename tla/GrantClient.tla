---------------------------- MODULE GrantClient ----------------------------
(***************************************************************************)
(* tokenmint/client.go: one client_credentials request, from the address   *)
(* that is dialled to the classification of the answer.                    *)
(***************************************************************************)
EXTENDS Integers, Sequences

CONSTANTS DefaultExpiresIn  \* Profile.DefaultExpiresIn, in ticks

\* What the world does with one request.  A fault is an error of the
\* transport (connection, redirect, cancelled context) or of the body.
\* "expires" is the field of the body: its JSON type and its value in whole
\* seconds, with or without a fraction.
Expires(kind, n, fraction) == [kind |-> kind, n |-> n, fraction |-> fraction]
NoExpires == Expires("absent", 0, FALSE)

Answer(fault, status, code, retry, over, token, type, expires) ==
  [fault |-> fault, status |-> status, code |-> code, retry |-> retry,
   over |-> over, token |-> token, type |-> type, expires |-> expires]

Grant(expires) == Answer("none", 200, "", [kind |-> "none", n |-> 0], FALSE, "t", "bearer", expires)
Refusal(status, code, retry) ==
  Answer("none", status, code, retry, FALSE, "", "", NoExpires)
Broken(fault) == [Refusal(0, "", [kind |-> "none", n |-> 0]) EXCEPT !.fault = fault]

isCredentialErrorCode(code) ==
  code \in {"invalid_client", "unauthorized_client", "invalid_grant", "access_denied"}

\* Seconds or an HTTP date; n of a date is what is left until it.
parseRetryAfter(v) == IF v.kind \in {"seconds", "date"} /\ v.n > 0 THEN v.n ELSE 0

Failed(err, retryAfter) == [err |-> err, retryAfter |-> retryAfter, expiresIn |-> 0]

\* Mutated: the error code of a 400 is not read.
classifyFailureByStatus(a) ==
  Failed(IF a.status \in {401, 403} THEN "invalid_client" ELSE "upstream", parseRetryAfter(a.retry))

classifyFailure(a) ==
  IF a.status \in {401, 403} \/ (a.status = 400 /\ isCredentialErrorCode(a.code))
  THEN Failed("invalid_client", 0)
  ELSE Failed("upstream", parseRetryAfter(a.retry))

\* A number, or a string that holds one.
lookupNumber(v) == v.kind \in {"number", "numeric"}

Positive(v) == v.n > 0 \/ (v.n = 0 /\ v.fraction)

\* time.Duration cuts the fraction off, to 0 below one second.
parseGrantResponse(a) ==
  IF \/ a.token = ""
     \/ a.type \notin {"", "bearer"}
     \/ lookupNumber(a.expires) /\ ~Positive(a.expires)
  THEN Failed("malformed", 0)
  ELSE [err |-> "none", retryAfter |-> 0,
        expiresIn |-> IF lookupNumber(a.expires) THEN a.expires.n ELSE DefaultExpiresIn]

doGrant(a) ==
  IF a.fault # "none" THEN Failed("upstream", 0)
  ELSE IF a.over THEN Failed("malformed", 0)
  ELSE IF a.status \notin 200..299 THEN classifyFailure(a)
  ELSE parseGrantResponse(a)
=============================================================================
