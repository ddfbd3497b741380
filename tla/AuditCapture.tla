---------------------------- MODULE AuditCapture ----------------------------
(***************************************************************************)
(* audit.CaptureHTTPResponse and EncodeHTTPMetadata: what of a response    *)
(* reaches the audit event, and what is given up to keep the event's       *)
(* metadata within its limit.                                              *)
(***************************************************************************)
EXTENDS JSONRedact

CONSTANTS Inputs,      \* HTTPResponseInput; "long": the body exceeds its limit
          MaxDepth,    \* nesting of error objects that is followed
          Sizes,       \* of a metadata field in the event: 0 is an absent one, and
                       \* one above the limit also one that does not marshal
          MaxMetadata  \* MaxMetadataBytes, in the unit of Sizes

VARIABLES in,    \* the input
          resp,  \* what CaptureHTTPResponse returned
          meta,  \* what EncodeHTTPMetadata was called with: part -> size
          raw    \* what it returned

vars == <<in, resp, meta, raw>>

None == "none"
Invalid == [kind |-> "invalid"]   \* text that is no JSON
Empty == [kind |-> "empty"]

\* The allowlist, with one key for all that are treated alike.
Diagnostic == {"code", "message", "error", "status"}

NoFields == [x \in {} |-> None]

\* The caller's fields and the two parts of the response.
Parts == {"http_status", "query", "route", "core", "body"}

Omitted(reason) == [state |-> "omitted", reason |-> reason, body |-> NoFields,
                    code |-> "", message |-> "", fieldsOmitted |-> FALSE]

Init ==
  /\ in \in Inputs
  /\ resp = [Omitted("") EXCEPT !.state = "pending"]
  /\ meta = [p \in Parts |-> 0]
  /\ raw = [done |-> FALSE, parts |-> {}, size |-> 0]

-----------------------------------------------------------------------------
\* RedactText: a text that holds a credential is left without it.
RedactText(v) == IF v = "credential" THEN "clean" ELSE v

OmittedAny(nested, keep, f) == nested.omitted \/ keep # DOMAIN f

\* What json.Unmarshal stores in a string, which a null leaves empty.
IsString(v) == v.kind \in {"text", "null"}
Decoded(v) == IF v.kind = "null" THEN "" ELSE v.val

\* The fields that are kept, and whether any was left out at some depth.
RECURSIVE safeErrorFields(_, _)
safeErrorFields(f, depth) ==
  IF depth > MaxDepth THEN [fields |-> NoFields, omitted |-> TRUE]
  ELSE
    LET nested == IF "error" \in DOMAIN f /\ f["error"].kind = "obj"
                    THEN safeErrorFields(f["error"].fields, depth + 1)
                    ELSE [fields |-> NoFields, omitted |-> FALSE]
        keep == {k \in Diagnostic \cap DOMAIN f :
                   \/ IsString(f[k])
                   \/ k = "error" /\ f[k].kind = "obj" /\ nested.fields # NoFields
                   \/ k = "status" /\ f[k].kind = "num"}
    IN  [fields |-> [k \in keep |-> CASE IsString(f[k]) -> Text(RedactText(Decoded(f[k])))
                                      [] f[k].kind = "obj" -> Obj(nested.fields)
                                      [] OTHER -> f[k]],
         omitted |-> OmittedAny(nested, keep, f)]

diagnosticString(f, k) == IF k \in DOMAIN f /\ f[k].kind = "text" THEN f[k].val ELSE ""

OrElse(s, t) == IF s # "" THEN s ELSE t

\* Mutated: the keys of the route are left out.
RedactBuiltin(d, c) == ParseAndRedactJSON(d, [paths |-> c.paths, keys |-> {}])

\* The built-in keys always apply; the route's come on top.
RedactBoth(d, c) ==
  LET first == ParseAndRedactJSON(d, [paths |-> c.paths, keys |-> {}])
  IN  IF c.keys = {} THEN first ELSE ParseAndRedactJSON(first, c)

NothingSafe(f) == f = NoFields

\* The body of a truncated response is the beginning of the text of the fields.
Envelope(d) ==
  LET safe == safeErrorFields(d.fields, 0)
      f == safe.fields
      nested == IF "error" \in DOMAIN f /\ f["error"].kind = "obj"
                  THEN f["error"].fields ELSE NoFields
  IN  IF NothingSafe(f) THEN [Omitted("no_error_fields") EXCEPT !.fieldsOmitted = safe.omitted]
      ELSE [state |-> IF in.long THEN "truncated" ELSE "captured", reason |-> "", body |-> f,
            code |-> OrElse(OrElse(diagnosticString(f, "code"), diagnosticString(f, "error")),
                            diagnosticString(nested, "code")),
            message |-> OrElse(diagnosticString(f, "message"),
                               diagnosticString(nested, "message")),
            fieldsOmitted |-> safe.omitted]

CaptureHTTPResponse ==
  /\ resp.state = "pending"
  /\ resp' = IF ~in.complete THEN Omitted("inspection_limit")
             ELSE IF in.encoded THEN Omitted("content_encoding")
             ELSE IF in.body = Empty THEN [Omitted("") EXCEPT !.state = "empty"]
             ELSE IF ~in.json THEN Omitted("content_type")
             ELSE IF in.body.kind # "obj" THEN Omitted("invalid_json_envelope")
             ELSE Envelope(RedactBoth(in.body, in.redact))
  /\ UNCHANGED <<in, meta, raw>>

-----------------------------------------------------------------------------
RECURSIVE Total(_)
Total(ps) == IF ps = {} THEN 0
             ELSE LET p == CHOOSE q \in ps : TRUE IN meta'[p] + Total(ps \ {p})

\* What is tried, in order.  From the third on query_omitted is added.
Attempts == <<Parts, Parts \ {"body"}, Parts \ {"body", "query"}, {"http_status", "core"}>>

Size(n) == Total(Attempts[n]) + IF n > 2 THEN 1 ELSE 0

Fits(n) == Size(n) <= MaxMetadata

EncodeHTTPMetadata ==
  /\ resp.state # "pending" /\ ~raw.done
  /\ \E s \in [Parts -> Sizes] :
       /\ resp.body = NoFields => s["body"] = 0
       /\ meta' = s
  /\ LET fits == {n \in DOMAIN Attempts : Fits(n)}
     IN  raw' = IF fits = {} THEN [done |-> TRUE, parts |-> {}, size |-> 0]
                ELSE LET n == CHOOSE m \in fits : \A k \in fits : m <= k
                     IN  [done |-> TRUE, parts |-> Attempts[n], size |-> Size(n)]
  /\ UNCHANGED <<in, resp>>

Next == CaptureHTTPResponse \/ EncodeHTTPMetadata

Spec == Init /\ [][Next]_vars

-----------------------------------------------------------------------------
TypeOK ==
  /\ in \in Inputs
  /\ resp.state \in {"pending", "omitted", "empty", "captured", "truncated"}
  /\ (resp.state \in {"captured", "truncated"}) <=> (resp.body # NoFields)
  /\ raw.parts \subseteq Parts /\ raw.size \in 0..MaxMetadata

Done == resp.state \in {"captured", "truncated"}
Kept == Places(Obj(resp.body))
Plain(p) == Sub(Obj(resp.body), p).kind = "text" /\ Sub(Obj(resp.body), p).val \notin {"mask", "clean", ""}

\* CaptureHTTPResponse ("Arbitrary business payload fields are excluded"; "Always
\* apply built-in sensitive keys"): a text that reaches the event unmasked was
\* reached through diagnostic keys only, is hidden neither by the built-in keys
\* nor by the route's paths and keys, and holds no credential.
NoLeak ==
  Done =>
    /\ \A p \in Kept : Plain(p) =>
         /\ \A n \in DOMAIN p : p[n].key \in Diagnostic
         /\ ~Covered([paths |-> in.redact.paths, keys |-> {}], p)
         /\ in.redact.keys # {} => ~Covered(in.redact, p)
         /\ Sub(in.body, p) = Sub(Obj(resp.body), p)
         /\ Sub(in.body, p).val # "credential"
    /\ {resp.code, resp.message} \subseteq
         {""} \cup {Sub(Obj(resp.body), p).val : p \in {q \in Kept : Sub(Obj(resp.body), q).kind = "text"}}

\* safeErrorFields (TestHTTPResponseNestedOmissions: "nested private fields must
\* be omitted and declared"): fieldsOmitted says whether some field of the body,
\* at any depth that was not masked, is missing from what is kept.
Declared ==
  Done => (resp.fieldsOmitted <=>
             \E p \in Places(RedactBoth(in.body, in.redact)) : p \notin Kept)

\* EncodeHTTPMetadata ("keeps optional diagnostics from invalidating the existing
\* 16 KiB ingest contract"): the status and the response without its body survive
\* whenever they fit by themselves.
BasicSurvives ==
  raw.done /\ meta["http_status"] + meta["core"] < MaxMetadata =>
    {"http_status", "core"} \subseteq raw.parts

\* EncodeHTTPMetadata: the response's body is given up before any of the caller's
\* fields, and nothing is given up that would have fitted.
DropsInOrder ==
  raw.done /\ raw.parts # {} =>
    /\ "query" \notin raw.parts => "body" \notin raw.parts
    /\ "route" \notin raw.parts => "query" \notin raw.parts
    /\ meta["http_status"] + meta["query"] + meta["route"] + meta["core"] <= MaxMetadata =>
         {"query", "route"} \subseteq raw.parts
=============================================================================
