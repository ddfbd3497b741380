---------------------------- MODULE HealthCheck ----------------------------
(***************************************************************************)
(* health.ReadinessChecker: each Check call runs a snapshot of the         *)
(* registered functions, two goroutines for each, with a timeout.          *)
(***************************************************************************)
EXTENDS Naturals, FiniteSets

CONSTANTS Names, Calls

VARIABLES registered,  \* keys of rc.checks
          call,        \* Check: idle, collect or done
          snapshot,
          fn,          \* the goroutine that calls the CheckFunc
          buf,         \* its channel of capacity one
          res,         \* what runCheck returned
          verdict      \* aggregate status and HTTP code

vars == <<registered, call, snapshot, fn, buf, res, verdict>>

None == "none"
Statuses == {"ok", "degraded", "fail"}
ByName(v) == [n \in Names |-> v]
NoVerdict == [status |-> None, code |-> 0]

Init ==
  /\ registered = {}
  /\ call = [k \in Calls |-> "idle"]
  /\ snapshot = [k \in Calls |-> {}]
  /\ fn = [k \in Calls |-> ByName(None)]
  /\ buf = [k \in Calls |-> ByName(None)]
  /\ res = [k \in Calls |-> ByName(None)]
  /\ verdict = [k \in Calls |-> NoVerdict]

Register(n) ==
  /\ n \notin registered
  /\ registered' = registered \cup {n}
  /\ UNCHANGED <<call, snapshot, fn, buf, res, verdict>>

\* The copy of the map is taken under the read lock; then all start.
Start(k) ==
  /\ call[k] = "idle"
  /\ call' = [call EXCEPT ![k] = "collect"]
  /\ snapshot' = [snapshot EXCEPT ![k] = registered]
  /\ fn' = [fn EXCEPT ![k] = [n \in Names |-> IF n \in registered THEN "running" ELSE None]]
  /\ UNCHANGED <<registered, buf, res, verdict>>

\* A function returns its status or panics; it may also never return.
Returns(k, n) ==
  /\ fn[k][n] = "running"
  /\ \E o \in Statuses \cup {"panic"} : fn' = [fn EXCEPT ![k][n] = o]
  /\ UNCHANGED <<registered, call, snapshot, buf, res, verdict>>

Finished == Statuses \cup {"panic"}

\* The result goes into the channel, whether or not anyone still waits.
Sends(k, n) ==
  /\ fn[k][n] \in Finished /\ buf[k][n] = None
  /\ buf' = [buf EXCEPT ![k][n] = IF fn[k][n] = "panic" THEN "fail" ELSE fn[k][n]]
  /\ fn' = [fn EXCEPT ![k][n] = "gone"]
  /\ UNCHANGED <<registered, call, snapshot, res, verdict>>

\* runCheck takes the result, or its timer fires first.
Takes(k, n) ==
  /\ n \in snapshot[k] /\ res[k][n] = None /\ buf[k][n] # None
  /\ res' = [res EXCEPT ![k][n] = buf[k][n]]
  /\ UNCHANGED <<registered, call, snapshot, fn, buf, verdict>>

TimesOut(k, n) ==
  /\ n \in snapshot[k] /\ res[k][n] = None
  /\ res' = [res EXCEPT ![k][n] = "fail"]
  /\ UNCHANGED <<registered, call, snapshot, fn, buf, verdict>>

Aggregate(statuses) ==
  CASE "fail" \in statuses -> "not_ready"
    [] "degraded" \in statuses -> "degraded"
    [] OTHER -> "ready"

HandlerCode(status) == IF status = "not_ready" THEN 503 ELSE 200

\* One result for each function of the snapshot has come through ch.
Collect(k) ==
  /\ call[k] = "collect" /\ \A n \in snapshot[k] : res[k][n] # None
  /\ LET status == Aggregate({res[k][n] : n \in snapshot[k]})
     IN  verdict' = [verdict EXCEPT ![k] = [status |-> status, code |-> HandlerCode(status)]]
  /\ call' = [call EXCEPT ![k] = "done"]
  /\ UNCHANGED <<registered, snapshot, fn, buf, res>>

Next ==
  \/ \E n \in Names : Register(n)
  \/ \E k \in Calls :
       \/ Start(k) \/ Collect(k)
       \/ \E n \in Names : Returns(k, n) \/ Sends(k, n) \/ Takes(k, n) \/ TimesOut(k, n)

Spec == Init /\ [][Next]_vars

\* Timers fire and goroutines run; a CheckFunc need not return.
FairSpec ==
  /\ Spec
  /\ \A k \in Calls : WF_vars(Collect(k))
  /\ \A k \in Calls, n \in Names : WF_vars(Takes(k, n) \/ TimesOut(k, n)) /\ WF_vars(Sends(k, n))

-----------------------------------------------------------------------------
TypeOK ==
  \A k \in Calls : /\ snapshot[k] \subseteq registered
                   /\ \A n \in Names \ snapshot[k] : fn[k][n] = None /\ res[k][n] = None
                   /\ call[k] = "done" <=> verdict[k].status # None
                   /\ call[k] = "done" => \A n \in snapshot[k] : res[k][n] # None

\* A probe says ready or degraded only if every function of its snapshot has
\* really returned, and none of them failed or panicked.
ReadyIsTrue ==
  \A k \in Calls : verdict[k].code = 200 =>
    \A n \in snapshot[k] : fn[k][n] = "gone" /\ buf[k][n] \in {"ok", "degraded"}

\* Check returns although functions hang or panic.
CheckReturns == \A k \in Calls : call[k] = "collect" ~> call[k] = "done"

\* The goroutine of a function that returns after the timeout still ends.
NoLeak == \A k \in Calls, n \in Names : fn[k][n] \in Finished ~> fn[k][n] = "gone"
=============================================================================
