----------------------------- MODULE ReadGroup -----------------------------
(***************************************************************************)
(* readcache.Group: callers of Do that ask for the same key share one load *)
(* while it is in flight.  Every step here is one critical section of      *)
(* Group.mu, or one wake-up of a blocked caller.                           *)
(***************************************************************************)
EXTENDS Naturals, FiniteSets

CONSTANTS Callers,      \* goroutines that execute Do
          Keys,
          BadKeys,      \* keys that are empty or longer than MaxKeyBytes
          Values,       \* what loads return
          Tickets,      \* identities of Call objects; unreferenced ones are reused
          None,
          MaxKeys, MaxFollowers

ASSUME GroupConstants ==
  /\ BadKeys \subseteq Keys
  /\ None \notin Tickets \cup Keys
  /\ MaxKeys \in Nat \ {0} /\ MaxFollowers \in Nat \ {0}  \* NewGroup

VARIABLES calls,    \* g.calls: the current ticket of each key
          call,     \* the Call objects
          proc,     \* Do's progress in each caller
          outcome   \* ghost: what the leader of each ticket has to share

gvars == <<calls, call, proc, outcome>>

Ok(v) == <<"ok", v>>
Err(e) == <<"err", e>>
Errors == {Err(e) : e \in {"load", "aborted", "cancelled", "capacity"}}
Results == {Ok(v) : v \in Values} \cup Errors

\* What an arbitrary load returns.
Loaded == {Ok(v) : v \in Values} \cup {Err("load")}

Call == [done : BOOLEAN, value : Results \cup {None}, followers : Nat]
NewCall == [done |-> FALSE, value |-> None, followers |-> 0]

Proc == [pc : {"idle", "load", "finish", "abort", "wait", "release"},
         key : Keys \cup {None}, ticket : Tickets \cup {None},
         result : Results \cup {None}]

At(pc, k, c, r) == [pc |-> pc, key |-> k, ticket |-> c, result |-> r]

Idle == At("idle", None, None, None)

Live == {k \in Keys : calls[k] # None}
Leading(p) == proc[p].pc \in {"load", "finish", "abort"}
Following(p) == proc[p].pc \in {"wait", "release"}
Fresh(c) == /\ \A k \in Keys : calls[k] # c
            /\ \A p \in Callers : proc[p].ticket # c

\* Caller p lets go of ticket c.  A Call nobody refers to is garbage.
Collect(p, c, f, initial) ==
  IF \E q \in Callers \ {p} : proc[q].ticket = c
  THEN f ELSE [f EXCEPT ![c] = initial]

GroupInit ==
  /\ calls = [k \in Keys |-> None]
  /\ call = [c \in Tickets |-> NewCall]
  /\ proc = [p \in Callers |-> Idle]
  /\ outcome = [c \in Tickets |-> None]

-----------------------------------------------------------------------------
Join(p, k) ==
  /\ call[calls[k]].followers < MaxFollowers
  /\ call' = [call EXCEPT ![calls[k]].followers = @ + 1]
  /\ proc' = [proc EXCEPT ![p] = At("wait", k, calls[k], None)]
  /\ UNCHANGED <<calls, outcome>>

Lead(p, k) ==
  /\ Cardinality(Live) < MaxKeys
  /\ \E c \in Tickets :
       /\ Fresh(c)
       /\ calls' = [calls EXCEPT ![k] = c]
       /\ proc' = [proc EXCEPT ![p] = At("load", k, c, None)]
  /\ UNCHANGED <<call, outcome>>

\* Begin, called by Do: join the call in flight or become the leader of a new
\* one.  ErrKey and ErrCapacity leave no trace.
Begin(p, k) ==
  /\ proc[p].pc = "idle"
  /\ \/ k \in BadKeys /\ UNCHANGED gvars
     \/ k \in Live \ BadKeys /\ Join(p, k)
     \/ /\ k \in Live \ BadKeys
        /\ call[calls[k]].followers >= MaxFollowers
        /\ UNCHANGED gvars
     \/ k \notin Live \cup BadKeys /\ Lead(p, k)
     \/ /\ k \notin Live \cup BadKeys
        /\ Cardinality(Live) >= MaxKeys
        /\ UNCHANGED gvars

\* Wait: the call is done, or the follower's own context ends.  When both hold
\* select takes either.
Wait(p) ==
  /\ proc[p].pc = "wait"
  /\ \E r \in {Err("cancelled")}
               \cup (IF call[proc[p].ticket].done
                     THEN {call[proc[p].ticket].value} ELSE {}) :
       proc' = [proc EXCEPT ![p].pc = "release", ![p].result = r]
  /\ UNCHANGED <<calls, call, outcome>>

\* The deferred release of a follower.
release(p) ==
  /\ proc[p].pc = "release"
  /\ LET c == proc[p].ticket IN
       /\ call' = Collect(p, c, [call EXCEPT ![c].followers = @ - 1], NewCall)
       /\ outcome' = Collect(p, c, outcome, None)
  /\ proc' = [proc EXCEPT ![p] = Idle]
  /\ UNCHANGED calls

\* The leader's load returns r, or panics: then only the deferred Finish runs.
LoadReturns(p, r) ==
  /\ proc[p].pc = "load"
  /\ proc' = [proc EXCEPT ![p].pc = "finish", ![p].result = r]
  /\ outcome' = [outcome EXCEPT ![proc[p].ticket] = r]
  /\ UNCHANGED <<calls, call>>

\* Mutated: a panic skips the deferred Finish.
LoadPanicsUnrecovered(p) ==
  /\ proc[p].pc = "load"
  /\ proc' = [proc EXCEPT ![p] = Idle]
  /\ outcome' = [outcome EXCEPT ![proc[p].ticket] = Err("aborted")]
  /\ UNCHANGED <<calls, call>>

LoadPanics(p) ==
  /\ proc[p].pc = "load"
  /\ proc' = [proc EXCEPT ![p].pc = "abort"]
  /\ outcome' = [outcome EXCEPT ![proc[p].ticket] = Err("aborted")]
  /\ UNCHANGED <<calls, call>>

\* Mutated: any ticket ends the current call of the key.
FinishAny(k, c, r) ==
  IF calls[k] # None
  THEN [calls |-> [calls EXCEPT ![k] = None],
        call |-> [call EXCEPT ![calls[k]].value = r, ![calls[k]].done = TRUE]]
  ELSE [calls |-> calls, call |-> call]

\* Finish accepts only the current ticket of the key.
Finish(k, c, r) ==
  IF calls[k] = c
  THEN [calls |-> [calls EXCEPT ![k] = None],
        call |-> [call EXCEPT ![c].value = r, ![c].done = TRUE]]
  ELSE [calls |-> calls, call |-> call]

\* Do: Finish with the loaded value, then the deferred Finish with ErrAborted.
FinishLoaded(p) ==
  /\ proc[p].pc = "finish"
  /\ LET new == Finish(proc[p].key, proc[p].ticket, proc[p].result)
     IN  calls' = new.calls /\ call' = new.call
  /\ proc' = [proc EXCEPT ![p].pc = "abort"]
  /\ UNCHANGED outcome

FinishDeferred(p) ==
  /\ proc[p].pc = "abort"
  /\ LET c == proc[p].ticket
         new == Finish(proc[p].key, c, Err("aborted"))
     IN  /\ calls' = new.calls
         /\ call' = Collect(p, c, new.call, NewCall)
         /\ outcome' = Collect(p, c, outcome, None)
  /\ proc' = [proc EXCEPT ![p] = Idle]

\* The steps of Do outside the load.
DoStep(p) ==
  \/ Wait(p)
  \/ release(p)
  \/ FinishLoaded(p)
  \/ FinishDeferred(p)

GroupNext ==
  \E p \in Callers :
    \/ \E k \in Keys : Begin(p, k)
    \/ DoStep(p)
    \/ \E r \in Loaded : LoadReturns(p, r)
    \/ LoadPanics(p)

Ends(p) == release(p) \/ FinishLoaded(p) \/ FinishDeferred(p)
Loads(p) == (\E r \in Loaded : LoadReturns(p, r)) \/ LoadPanics(p)
Woken(p) == Wait(p) /\ call[proc[p].ticket].done

\* Loads return and goroutines are scheduled.  Nobody has to cancel a follower.
GroupFairness ==
  \A p \in Callers : WF_gvars(Ends(p)) /\ WF_gvars(Loads(p)) /\ WF_gvars(Woken(p))

GroupFairSpec == GroupInit /\ [][GroupNext]_gvars /\ GroupFairness

-----------------------------------------------------------------------------
(* Properties *)

\* Type invariant: well-formed calls, and a caller inside Do holds a ticket.
GroupTypeOK ==
  /\ calls \in [Keys -> Tickets \cup {None}]
  /\ call \in [Tickets -> Call]
  /\ proc \in [Callers -> Proc]
  /\ \A p \in Callers : proc[p].pc # "idle" =>
       proc[p].key \in Keys /\ proc[p].ticket \in Tickets
  /\ outcome \in [Tickets -> Results \cup {None}]

\* Begin ("Releasing a follower never cancels the leader or allows a second
\* leader"): at most one caller runs the load of a key at any time, and its
\* ticket is the key's current one.
SingleFlight ==
  \A p \in Callers : proc[p].pc \in {"load", "finish"} =>
    /\ calls[proc[p].key] = proc[p].ticket
    /\ \A q \in Callers : /\ proc[q].pc \in {"load", "finish"}
                          /\ proc[q].key = proc[p].key
                          => q = p

\* Finish ("accepts only the current ticket for this key"): a call is done only
\* with what its own leader's load produced.  The deferred Finish of an earlier
\* leader, which runs after the next leader of the key may have begun, never
\* ends the later call; a follower returns that outcome or its own cancellation.
SharedOutcome ==
  /\ \A c \in Tickets : call[c].done => call[c].value = outcome[c]
  /\ \A p \in Callers : proc[p].pc = "release" =>
       proc[p].result \in {outcome[proc[p].ticket], Err("cancelled")}

\* Limits ("bound live keys and concurrently attached followers"): the counter
\* of a call is the number of callers attached to it, and both limits hold.
FollowersCounted ==
  /\ \A c \in Tickets :
       /\ call[c].followers =
            Cardinality({p \in Callers : Following(p) /\ proc[p].ticket = c})
       /\ call[c].followers <= MaxFollowers
  /\ Cardinality(Live) <= MaxKeys

\* Begin ("leaders must also Finish, including when their load panics"): a call
\* in flight has a leader that will finish it.
NoOrphan ==
  \A k \in Live : \E p \in Callers : Leading(p) /\ proc[p].ticket = calls[k]

\* What callers that share a load may rely on.
FlightSound == SingleFlight /\ SharedOutcome /\ NoOrphan

\* Do ("Unblock followers even when the caller's panic is recovered above us"):
\* every Do returns, although nobody cancels it.
DoReturns == \A p \in Callers : proc[p].pc # "idle" ~> proc[p].pc = "idle"
=============================================================================
