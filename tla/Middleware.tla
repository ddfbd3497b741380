----------------------------- MODULE Middleware -----------------------------
(***************************************************************************)
(* httpmiddleware: one request through any Chain of RequestID, AccessLog,  *)
(* Recover and Timeout around a handler that writes, panics or hangs.      *)
(* http.TimeoutHandler runs what is below it in a goroutine of its own.    *)
(* The handler may send 103 before its final status.                       *)
(***************************************************************************)
EXTENDS Naturals, Sequences

CONSTANT MaxOps  \* bound: calls of the handler before it returns or panics

VARIABLES chain,    \* the middlewares, outermost first
          at,       \* goroutine -> where it is in the chain
          reqId,    \* X-Request-ID of the request
          rec,      \* responseRecorder of AccessLog
          out,      \* sink -> response: the connection and the timeoutWriter
          logged,   \* access log entries
          ops,      \* calls the handler has made
          seen,     \* the request ID the handler found
          panicked, \* "no", or what had been answered when it panicked
          misled    \* ghost: the recorder missed the header that a Flush sent,
                    \* or took a 103 for the final one

vars == <<chain, at, reqId, rec, out, logged, ops, seen, panicked, misled>>

None == "none"
Layers == {"id", "log", "recover", "timeout"}
Chains == {c \in UNION {[1..n -> Layers] : n \in 0..4} :
             \A i, j \in DOMAIN c : c[i] = c[j] => i = j}

Has(l) == \E i \in DOMAIN chain : chain[i] = l
Pos(l) == IF Has(l) THEN CHOOSE i \in DOMAIN chain : chain[i] = l ELSE 0

Fresh == [code |-> 0, body |-> <<>>, id |-> None, shut |-> FALSE]
wrapRecorder == [status |-> 200, written |-> FALSE]

Init ==
  /\ chain \in Chains
  /\ at = [srv |-> [pc |-> "call", i |-> 1], tmo |-> [pc |-> "off", i |-> 0]]
  /\ reqId \in {None, "inbound"}
  /\ rec = wrapRecorder
  /\ out = [conn |-> Fresh, buf |-> Fresh]
  /\ logged = <<>> /\ ops = 0 /\ seen = None /\ panicked = "no" /\ misled = FALSE

-----------------------------------------------------------------------------
\* The ResponseWriter that code at level i writes to: the calls pass the
\* recorder when it lies between i and the sink.

Sink(i) == IF Pos("timeout") \in 1..(i - 1) THEN "buf" ELSE "conn"

Recorded(i) == /\ Pos("log") \in 1..(i - 1)
               /\ Pos("timeout") \notin (Pos("log") + 1)..(i - 1)

RecordHeader(r, c) == IF r.written THEN r ELSE [status |-> c, written |-> TRUE]

\* Only the first header counts, except that a 1xx on the connection is not the
\* last; a writer that timed out refuses everything.
SendHeader(s, o, c) ==
  IF o.shut \/ o.code # 0 \/ (s = "conn" /\ c < 200) THEN o ELSE [o EXCEPT !.code = c]

Send(s, o, chunks) ==
  IF o.shut THEN o ELSE [SendHeader(s, o, 200) EXCEPT !.body = @ \o chunks]

WriteHeader(i, c) ==
  /\ rec' = IF Recorded(i) THEN RecordHeader(rec, c) ELSE rec
  /\ out' = [out EXCEPT ![Sink(i)] = SendHeader(Sink(i), @, c)]
  /\ misled' = (misled \/ (c < 200 /\ out[Sink(i)].code = 0 /\ ~out[Sink(i)].shut))

\* Write and ReadFrom: the status stays the one that is recorded.
Write(i, chunks) ==
  /\ rec' = IF Recorded(i) THEN [rec EXCEPT !.written = TRUE] ELSE rec
  /\ out' = [out EXCEPT ![Sink(i)] = Send(Sink(i), @, chunks)]
  /\ UNCHANGED misled

\* A timeoutWriter is no Flusher; the connection sends its header.
Flush(i) ==
  /\ out' = IF Sink(i) = "conn" THEN [out EXCEPT !.conn = SendHeader("conn", @, 200)] ELSE out
  /\ misled' = (misled \/ (Sink(i) = "conn" /\ out["conn"].code = 0))
  /\ UNCHANGED rec

\* WriteHeader(c) and then Write(chunks), as http.Error does.
Respond(i, c, chunks) ==
  /\ rec' = IF Recorded(i) THEN RecordHeader(rec, c) ELSE rec
  /\ out' = [out EXCEPT ![Sink(i)] = Send(Sink(i), SendHeader(Sink(i), @, c), chunks)]

-----------------------------------------------------------------------------
\* A goroutine goes down the chain, runs the handler and comes back up,
\* returning or unwinding.

Go(g, p, i) == at' = [at EXCEPT ![g] = [pc |-> p, i |-> i]]

At(g, p, l) == at[g].pc = p /\ at[g].i \in DOMAIN chain /\ chain[at[g].i] = l

RequestID(g) ==
  /\ At(g, "call", "id")
  /\ reqId' = IF reqId = None THEN "generated" ELSE reqId
  /\ out' = [out EXCEPT ![Sink(at[g].i)].id = reqId']
  /\ Go(g, "call", at[g].i + 1)
  /\ UNCHANGED <<chain, rec, logged, ops, seen, panicked, misled>>

\* AccessLog and Recover do their work on the way back.
Enter(g) ==
  /\ At(g, "call", "log") \/ At(g, "call", "recover")
  /\ Go(g, "call", at[g].i + 1)
  /\ UNCHANGED <<chain, reqId, rec, out, logged, ops, seen, panicked, misled>>

StartTimeout ==
  /\ At("srv", "call", "timeout")
  /\ at' = [srv |-> [pc |-> "wait", i |-> at["srv"].i],
            tmo |-> [pc |-> "call", i |-> at["srv"].i + 1]]
  /\ UNCHANGED <<chain, reqId, rec, out, logged, ops, seen, panicked, misled>>

CallHandler(g) ==
  /\ at[g].pc = "call" /\ at[g].i = Len(chain) + 1
  /\ Go(g, "handler", at[g].i)
  /\ seen' = reqId
  /\ UNCHANGED <<chain, reqId, rec, out, logged, ops, panicked, misled>>

HandlerWrites(g) ==
  /\ at[g].pc = "handler" /\ ops < MaxOps
  /\ ops' = ops + 1
  /\ \/ \E c \in {103, 201} : WriteHeader(at[g].i, c)
     \/ Write(at[g].i, <<"data">>)
     \/ Flush(at[g].i)
  /\ UNCHANGED <<chain, at, reqId, logged, seen, panicked>>

HandlerEnds(g) ==
  /\ at[g].pc = "handler"
  /\ \/ Go(g, "return", at[g].i - 1) /\ UNCHANGED panicked
     \/ /\ Go(g, "panic", at[g].i - 1)
        /\ panicked' = IF out[Sink(at[g].i)].code # 0 THEN "answered"
                       ELSE IF out["buf"].shut THEN "late" ELSE "first"
  /\ UNCHANGED <<chain, reqId, rec, out, logged, ops, seen, misled>>

AccessLog(g) ==
  /\ At(g, "return", "log")
  /\ logged' = Append(logged, [status |-> rec.status, id |-> reqId])
  /\ Go(g, "return", at[g].i - 1)
  /\ UNCHANGED <<chain, reqId, rec, out, ops, seen, panicked, misled>>

Recover(g) ==
  /\ At(g, "panic", "recover")
  /\ Respond(at[g].i, 500, <<"error">>)
  /\ Go(g, "return", at[g].i - 1)
  /\ UNCHANGED <<chain, reqId, logged, ops, seen, panicked, misled>>

Pass(g) ==
  /\ \/ At(g, "return", "id") \/ At(g, "return", "recover")
     \/ At(g, "panic", "id") \/ At(g, "panic", "log")
  /\ Go(g, at[g].pc, at[g].i - 1)
  /\ UNCHANGED <<chain, reqId, rec, out, logged, ops, seen, panicked, misled>>

\* net/http sends what was never sent, or drops the connection of a panic.
Finish ==
  /\ at["srv"].pc \in {"return", "panic"} /\ at["srv"].i = 0
  /\ Go("srv", IF at["srv"].pc = "return" THEN "done" ELSE "aborted", 0)
  /\ out' = IF at["srv"].pc = "return" THEN [out EXCEPT !.conn = SendHeader("conn", @, 200)] ELSE out
  /\ UNCHANGED <<chain, reqId, rec, logged, ops, seen, panicked, misled>>

-----------------------------------------------------------------------------
\* http.TimeoutHandler while it waits for its goroutine.

Waiting == at["srv"].pc = "wait"
Below == at["tmo"].i = at["srv"].i   \* the goroutine has left the handler

\* The buffered response is copied into the writer above.
Complete ==
  /\ Waiting /\ Below /\ at["tmo"].pc = "return"
  /\ LET t == at["srv"].i
         b == out["buf"]
         c == IF b.code = 0 THEN 200 ELSE b.code
     IN  /\ rec' = IF Recorded(t) THEN RecordHeader(rec, c) ELSE rec
         /\ out' = [out EXCEPT !.conn = Send("conn", SendHeader("conn", [@ EXCEPT
                      !.id = IF b.id = None THEN @ ELSE b.id], c), b.body)]
         /\ Go("srv", "return", t - 1)
  /\ UNCHANGED <<chain, reqId, logged, ops, seen, panicked, misled>>

Rethrow ==
  /\ Waiting /\ Below /\ at["tmo"].pc = "panic"
  /\ Go("srv", "panic", at["srv"].i - 1)
  /\ UNCHANGED <<chain, reqId, rec, out, logged, ops, seen, panicked, misled>>

\* Mutated: the deadline answers, and the handler is still waited for.
DeadlineKeepsWaiting ==
  /\ Waiting /\ ~out["buf"].shut
  /\ LET t == at["srv"].i
     IN  /\ rec' = IF Recorded(t) THEN RecordHeader(rec, 503) ELSE rec
         /\ out' = [out EXCEPT !.conn = Send("conn", SendHeader("conn", @, 503), <<"timeout">>),
                               !.buf.shut = TRUE]
  /\ UNCHANGED <<chain, at, reqId, logged, ops, seen, panicked, misled>>

Timeout ==
  /\ Waiting
  /\ LET t == at["srv"].i
     IN  /\ rec' = IF Recorded(t) THEN RecordHeader(rec, 503) ELSE rec
         /\ out' = [out EXCEPT !.conn = Send("conn", SendHeader("conn", @, 503), <<"timeout">>),
                               !.buf.shut = TRUE]
         /\ Go("srv", "return", t - 1)
  /\ UNCHANGED <<chain, reqId, logged, ops, seen, panicked, misled>>

Walk(g) == \/ RequestID(g) \/ Enter(g) \/ CallHandler(g)
           \/ AccessLog(g) \/ Recover(g) \/ Pass(g)

Server == Walk("srv") \/ StartTimeout \/ Finish \/ Complete \/ Rethrow \/ Timeout

Next == \/ Server \/ Walk("tmo")
        \/ \E g \in {"srv", "tmo"} : HandlerWrites(g) \/ HandlerEnds(g)

Spec == Init /\ [][Next]_vars

\* Nothing is assumed of the handler: it may never return.
FairSpec == Spec /\ WF_vars(Server)

-----------------------------------------------------------------------------
Response == [code : {0, 103, 200, 201, 500, 503}, body : Seq({"data", "error", "timeout"}),
             id : {None, "inbound", "generated"}, shut : BOOLEAN]

TypeOK ==
  /\ chain \in Chains
  /\ at \in [{"srv", "tmo"} -> [pc : {"off", "call", "wait", "handler", "return",
                                      "panic", "done", "aborted"}, i : 0..5]]
  /\ reqId \in {None, "inbound", "generated"}
  /\ rec \in [status : {103, 200, 201, 500, 503}, written : BOOLEAN]
  /\ out \in [{"conn", "buf"} -> Response]
  /\ ops \in 0..MaxOps /\ seen \in {None, "inbound", "generated"}
  /\ panicked \in {"no", "first", "answered", "late"}

Answered == at["srv"].pc = "done"

\* The layer works in the server's goroutine, above any Timeout.
Above(l) == Has(l) /\ (Has("timeout") => Pos(l) < Pos("timeout"))

\* AccessLog ("logs each request at Info level with method, path, status"):
\* above a Timeout it writes one entry for an answered request, with the status
\* that the client received, whatever panics below it are recovered.  Two calls
\* of the handler mislead the recorder and are excepted: a Flush sends the header
\* without its notice, and it takes an informational 103 for the final status.
LogTruth ==
  Answered /\ Above("log") /\ ~misled /\ (panicked = "no" \/ Pos("recover") > Pos("log")) =>
    Len(logged) = 1 /\ logged[1].status = out["conn"].code

\* RequestID ("ensures every request has an X-Request-ID header"; "also set on
\* the response headers"): above a Timeout, the response, the handler and the
\* access log agree on it, and an inbound one survives.
IdAgrees ==
  Answered /\ Above("id") =>
    /\ out["conn"].id = reqId /\ reqId # None
    /\ seen \in {None, reqId}
    /\ \A k \in DOMAIN logged : logged[k].id = reqId

\* Recover ("catches panics"): with it anywhere in the chain no panic drops the
\* connection, and a handler that panics before it answered gives 500, or 503
\* when the deadline came first.
PanicsAnswered ==
  Has("recover") =>
    /\ at["srv"].pc # "aborted"
    /\ Answered /\ panicked = "first" => out["conn"].code \in {500, 503}

\* Timeout ("body is buffered until the handler finishes or the deadline
\* fires"): a client that is told 503 gets nothing of the handler's output,
\* however late it comes.
Unmixed ==
  \A k \in DOMAIN out["conn"].body :
    out["conn"].body[k] = "timeout" => out["conn"].code = 503 /\ Len(out["conn"].body) = 1

\* Timeout ("enforces a hard per-request deadline"): the request ends even if the
\* handler never returns.
HardDeadline == Has("timeout") ~> at["srv"].pc \in {"done", "aborted"}
=============================================================================
