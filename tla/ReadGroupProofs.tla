-------------------------- MODULE ReadGroupProofs ---------------------------
(***************************************************************************)
(* The shared flights of readcache.Group for any number of callers, keys,  *)
(* values and limits, and its counters.                                    *)
(***************************************************************************)
EXTENDS ReadGroup, Integers, TLAPS

GroupSpec == GroupInit /\ [][GroupNext]_gvars

Shared == Results \cup {None}

CallRec == [done : BOOLEAN, value : Shared, followers : Int]

Types ==
  /\ calls \in [Keys -> Tickets \cup {None}]
  /\ call \in [Tickets -> CallRec]
  /\ proc \in [Callers -> Proc]
  /\ outcome \in [Tickets -> Shared]

\* A caller inside Do holds a ticket for its key, an idle one holds none.
Holds(p) == IF proc[p].pc = "idle" THEN proc[p].ticket = None
            ELSE proc[p].key \in Keys /\ proc[p].ticket \in Tickets

\* A leader's ticket is current until its first Finish, and what it is about
\* to share is the outcome of its own load.  The deferred Finish finds the
\* ticket current only after a panic.
LeaderOK(p) ==
  LET c == proc[p].ticket IN
  /\ proc[p].pc \in {"load", "finish"} => calls[proc[p].key] = c
  /\ proc[p].pc = "finish" => proc[p].result = outcome[c]
  /\ proc[p].pc = "abort" /\ calls[proc[p].key] = c => outcome[c] = Err("aborted")

OneLeader ==
  \A p, q \in Callers :
    Leading(p) /\ Leading(q) /\ proc[p].ticket = proc[q].ticket => p = q

\* A follower on its way out has the value of its call, which stays as it is
\* while the follower refers to it.
FollowerOK(p) ==
  LET c == proc[p].ticket IN
  proc[p].pc = "release" =>
    proc[p].result = Err("cancelled") \/ (call[c].done /\ proc[p].result = call[c].value)

Owned(k) ==
  calls[k] # None =>
    \E p \in Callers : Leading(p) /\ proc[p].ticket = calls[k] /\ proc[p].key = k

DoneOK(c) ==
  call[c].done => /\ call[c].value = outcome[c]
                  /\ \A k \in Keys : calls[k] # c
                  /\ \E p \in Callers : proc[p].ticket = c

IInv ==
  /\ Types /\ OneLeader
  /\ \A p \in Callers : Holds(p) /\ LeaderOK(p) /\ FollowerOK(p)
  /\ \A k \in Keys : Owned(k)
  /\ \A c \in Tickets : DoneOK(c)

\* The fields of a call that Finish ends.
LEMMA CallUpdate ==
  ASSUME NEW x \in CallRec, NEW v \in Shared, NEW y,
         y = [x EXCEPT !.value = v, !.done = TRUE]
  PROVE  y \in CallRec /\ y.value = v /\ y.done /\ y.followers = x.followers
  BY Zenon DEF CallRec

\* Nobody holds a ticket at the start.
LEMMA InitInv == GroupInit => IInv
  <1> SUFFICES ASSUME GroupInit PROVE IInv
    OBVIOUS
  <1> USE DEF GroupInit, NewCall, Idle, At
  <1>1. Types
    BY DEF Types, Proc, Shared, CallRec
  <1>2. OneLeader /\ \A p \in Callers : Holds(p) /\ LeaderOK(p) /\ FollowerOK(p)
    BY DEF OneLeader, Leading, Holds, LeaderOK, FollowerOK
  <1>3. (\A k \in Keys : Owned(k)) /\ (\A c \in Tickets : DoneOK(c))
    BY DEF Owned, DoneOK
  <1> QED
    BY <1>1, <1>2, <1>3 DEF IInv

\* A caller joins the current call of its key: nothing but the counter of the
\* call changes.
LEMMA JoinStep ==
  ASSUME IInv, NEW p \in Callers, NEW k \in Keys, proc[p].pc = "idle",
         calls[k] # None, Join(p, k)
  PROVE  IInv'
  <1> DEFINE c == calls[k]
  <1>1. c \in Tickets /\ UNCHANGED <<calls, outcome>>
    BY DEF IInv, Types, Join
  <1>2. /\ proc'[p].pc = "wait" /\ proc'[p].key = k /\ proc'[p].ticket = c
        /\ proc'[p].result = None /\ proc'[p] \in Proc
        /\ \A q \in Callers \ {p} : proc'[q] = proc[q]
        /\ proc' \in [Callers -> Proc]
    BY <1>1 DEF IInv, Types, Join, At, Proc
  <1>3. \A d \in Tickets : call'[d].done = call[d].done /\ call'[d].value = call[d].value
    BY <1>1 DEF IInv, Types, Join
  <1>4. call' \in [Tickets -> CallRec]
    BY <1>1 DEF IInv, Types, Join, CallRec
  <1> HIDE DEF c
  <1>5. Types'
    BY <1>1, <1>2, <1>4 DEF IInv, Types
  <1>6. OneLeader' /\ \A q \in Callers : Holds(q)' /\ LeaderOK(q)'
    BY <1>1, <1>2 DEF IInv, OneLeader, Leading, Holds, LeaderOK
  <1>7. ASSUME NEW q \in Callers PROVE FollowerOK(q)'
    BY <1>2, <1>3 DEF IInv, FollowerOK, Holds
  <1>8. ASSUME NEW j \in Keys PROVE Owned(j)'
    BY <1>1, <1>2 DEF IInv, Owned, Leading
  <1>9. ASSUME NEW d \in Tickets PROVE DoneOK(d)'
    <2>1. \A q \in Callers : proc[q].ticket = d => proc'[q].ticket = d
      BY <1>2, GroupConstants DEF IInv, Holds, GroupConstants
    <2> QED
      BY <1>1, <1>3, <2>1 DEF IInv, DoneOK
  <1> QED
    BY <1>5, <1>6, <1>7, <1>8, <1>9 DEF IInv

\* A caller becomes the leader of a new call, whose ticket nobody knows.
LEMMA LeadStep ==
  ASSUME IInv, NEW p \in Callers, NEW k \in Keys, proc[p].pc = "idle",
         calls[k] = None, Lead(p, k)
  PROVE  IInv'
  <1>1. PICK c \in Tickets :
          /\ Fresh(c)
          /\ calls' = [calls EXCEPT ![k] = c]
          /\ proc' = [proc EXCEPT ![p] = At("load", k, c, None)]
          /\ UNCHANGED <<call, outcome>>
    BY Zenon DEF Lead
  <1>2. /\ proc'[p].pc = "load" /\ proc'[p].key = k /\ proc'[p].ticket = c
        /\ proc'[p].result = None
        /\ \A q \in Callers \ {p} : proc'[q] = proc[q]
        /\ proc' \in [Callers -> Proc]
    BY <1>1 DEF IInv, Types, At, Proc
  <1>3. /\ calls'[k] = c /\ calls' \in [Keys -> Tickets \cup {None}]
        /\ \A j \in Keys \ {k} : calls'[j] = calls[j]
    BY <1>1 DEF IInv, Types
  <1>4. (\A q \in Callers : proc[q].ticket # c) /\ (\A j \in Keys : calls[j] # c)
    BY <1>1 DEF Fresh
  <1>5. ~call[c].done
    BY <1>4 DEF IInv, DoneOK
  <1>6. Types'
    BY <1>1, <1>2, <1>3 DEF IInv, Types
  <1>7. OneLeader' /\ \A q \in Callers : Holds(q)'
    BY <1>2, <1>4 DEF IInv, OneLeader, Leading, Holds
  <1>8. ASSUME NEW q \in Callers PROVE LeaderOK(q)'
    <2>1. CASE q = p
      BY <1>2, <1>3, <2>1 DEF LeaderOK
    <2>2. CASE q # p
      <3>1. proc'[q] = proc[q] /\ outcome' = outcome /\ Holds(q) /\ LeaderOK(q)
        BY <1>1, <1>2, <2>2 DEF IInv
      <3>2. proc[q].pc \in {"load", "finish"} => proc[q].key # k
        BY <3>1, GroupConstants DEF LeaderOK, Holds, GroupConstants
      <3> QED
        BY <1>3, <1>4, <3>1, <3>2 DEF LeaderOK, Holds
    <2> QED
      BY <2>1, <2>2
  <1>9. ASSUME NEW q \in Callers PROVE FollowerOK(q)'
    BY <1>1, <1>2 DEF IInv, FollowerOK
  <1>10. ASSUME NEW j \in Keys PROVE Owned(j)'
    BY <1>2, <1>3 DEF IInv, Owned, Leading
  <1>11. ASSUME NEW d \in Tickets PROVE DoneOK(d)'
    <2>1. CASE d = c
      BY <1>1, <1>5, <2>1 DEF DoneOK
    <2>2. CASE d # c
      BY <1>1, <1>2, <1>3, <2>2, GroupConstants DEF IInv, DoneOK, Holds, GroupConstants
    <2> QED
      BY <2>1, <2>2
  <1> QED
    BY <1>6, <1>7, <1>8, <1>9, <1>10, <1>11 DEF IInv
\* A follower wakes up, with the value of a call that is done or cancelled.
LEMMA WaitStep ==
  ASSUME IInv, NEW p \in Callers, Wait(p)
  PROVE  IInv'
  <1> DEFINE c == proc[p].ticket
  <1>1. proc[p].pc = "wait" /\ c \in Tickets /\ UNCHANGED <<calls, call, outcome>>
    BY DEF IInv, Holds, Wait
  <1>2. PICK r : /\ r = Err("cancelled") \/ (call[c].done /\ r = call[c].value)
                 /\ proc' = [proc EXCEPT ![p].pc = "release", ![p].result = r]
    BY Zenon DEF Wait
  <1>3. r \in Shared
    <2>1. Err("cancelled") \in Shared
      BY DEF Shared, Results, Errors
    <2>2. call[c].value \in Shared
      BY <1>1 DEF IInv, Types, CallRec
    <2> QED
      BY <1>2, <2>1, <2>2
  <1>4. /\ proc'[p].pc = "release" /\ proc'[p].result = r
        /\ proc'[p].key = proc[p].key /\ proc'[p].ticket = c
        /\ \A q \in Callers \ {p} : proc'[q] = proc[q]
        /\ proc' \in [Callers -> Proc]
    <2>1. proc \in [Callers -> Proc] /\ proc[p] \in Proc /\ r \in Results \cup {None}
      BY <1>3 DEF IInv, Types, Shared
    <2>2. proc' = [proc EXCEPT ![p].pc = "release", ![p].result = r]
      BY <1>2
    <2>3. proc'[p] = [proc[p] EXCEPT !.pc = "release", !.result = r]
      BY <2>1, <2>2, Zenon
    <2> DEFINE x == proc[p]
               y == proc'[p]
    <2>4. /\ x \in Proc /\ r \in Results \cup {None}
          /\ y = [x EXCEPT !.pc = "release", !.result = r]
      BY <2>1, <2>3, Zenon
    <2> HIDE DEF x, y
    <2>5. y \in Proc /\ y.pc = "release" /\ y.result = r /\ y.key = x.key /\ y.ticket = x.ticket
      BY <2>4, Zenon DEF Proc
    <2>6. /\ proc'[p] \in Proc /\ proc'[p].pc = "release" /\ proc'[p].result = r
          /\ proc'[p].key = proc[p].key /\ proc'[p].ticket = c
      BY <2>5 DEF x, y
    <2> HIDE DEF c
    <2> QED
      BY <2>1, <2>2, <2>6
  <1> HIDE DEF c
  <1>5. Types'
    BY <1>1, <1>4 DEF IInv, Types
  <1>6. OneLeader' /\ \A q \in Callers : Holds(q)' /\ LeaderOK(q)'
    BY <1>1, <1>4 DEF IInv, OneLeader, Leading, Holds, LeaderOK, c
  <1>7. ASSUME NEW q \in Callers PROVE FollowerOK(q)'
    <2>1. CASE q = p
      <3>1. /\ call' = call /\ proc'[q].ticket = c /\ proc'[q].result = r
            /\ r = Err("cancelled") \/ (call[c].done /\ r = call[c].value)
        BY <1>1, <1>2, <1>4, <2>1
      <3> QED
        BY <3>1, Zenon DEF FollowerOK
    <2>2. CASE q # p
      BY <1>1, <1>4, <2>2 DEF IInv, FollowerOK
    <2> QED
      BY <2>1, <2>2
  <1>8. ASSUME NEW j \in Keys PROVE Owned(j)'
    BY <1>1, <1>4 DEF IInv, Owned, Leading
  <1>9. ASSUME NEW d \in Tickets PROVE DoneOK(d)'
    <2>1. \A q \in Callers : proc'[q].ticket = proc[q].ticket
      BY <1>4 DEF c
    <2> QED
      BY <1>1, <2>1 DEF IInv, DoneOK
  <1> QED
    BY <1>5, <1>6, <1>7, <1>8, <1>9 DEF IInv

\* The load returns or panics: its outcome is known to the leader alone.
LEMMA LoadStep ==
  ASSUME IInv, NEW p \in Callers, NEW r \in Shared,
         LoadReturns(p, r) \/ (LoadPanics(p) /\ r = Err("aborted"))
  PROVE  IInv'
  <1> DEFINE c == proc[p].ticket
  <1>1. /\ proc[p].pc = "load" /\ c \in Tickets /\ UNCHANGED <<calls, call>>
        /\ outcome' = [outcome EXCEPT ![c] = r]
    BY DEF IInv, Holds, LoadReturns, LoadPanics
  <1>2. /\ proc'[p].key = proc[p].key /\ proc'[p].ticket = c
        /\ \/ proc'[p].pc = "finish" /\ proc'[p].result = r
           \/ proc'[p].pc = "abort" /\ r = Err("aborted")
        /\ \A q \in Callers \ {p} : proc'[q] = proc[q]
        /\ proc' \in [Callers -> Proc]
    BY DEF IInv, Types, Proc, Shared, LoadReturns, LoadPanics
  <1>3. calls[proc[p].key] = c /\ ~call[c].done
    BY <1>1 DEF IInv, LeaderOK, DoneOK, Holds
  <1>4. /\ outcome'[c] = r /\ outcome' \in [Tickets -> Shared]
        /\ \A d \in Tickets \ {c} : outcome'[d] = outcome[d]
    BY <1>1 DEF IInv, Types
  <1> HIDE DEF c
  <1>5. Types'
    BY <1>1, <1>2, <1>4 DEF IInv, Types
  <1>6. OneLeader' /\ \A q \in Callers : Holds(q)'
    BY <1>1, <1>2 DEF IInv, OneLeader, Leading, Holds, c
  <1>7. ASSUME NEW q \in Callers PROVE LeaderOK(q)'
    <2>1. CASE q = p
      BY <1>1, <1>2, <1>3, <1>4, <2>1 DEF LeaderOK
    <2>2. CASE q # p
      <3>1. Leading(q) => proc[q].ticket # c
        BY <1>1, <2>2 DEF IInv, OneLeader, Leading, c
      <3>2. LeaderOK(q) /\ Holds(q) /\ proc'[q] = proc[q]
        BY <1>2, <2>2 DEF IInv
      <3> QED
        BY <1>1, <1>4, <3>1, <3>2 DEF LeaderOK, Leading, Holds
    <2> QED
      BY <2>1, <2>2
  <1>8. ASSUME NEW q \in Callers PROVE FollowerOK(q)'
    BY <1>1, <1>2 DEF IInv, FollowerOK
  <1>9. ASSUME NEW j \in Keys PROVE Owned(j)'
    <2>1. \A q \in Callers : Leading(q) => /\ Leading(q)'
                                          /\ proc'[q].ticket = proc[q].ticket
                                          /\ proc'[q].key = proc[q].key
      BY <1>2 DEF Leading, c
    <2> QED
      BY <1>1, <2>1 DEF IInv, Owned
  <1>10. ASSUME NEW d \in Tickets PROVE DoneOK(d)'
    <2>1. \A q \in Callers : proc'[q].ticket = proc[q].ticket
      BY <1>2 DEF c
    <2> QED
      BY <1>1, <1>3, <1>4, <2>1 DEF IInv, DoneOK
  <1> QED
    BY <1>5, <1>6, <1>7, <1>8, <1>9, <1>10 DEF IInv

-----------------------------------------------------------------------------
\* Caller p, whose ticket was c, is idle again.  A leader takes its ticket out
\* of use; the Call c is kept for its other holders or collected.
Leaves(p, c) ==
  /\ proc' = [proc EXCEPT ![p] = Idle]
  /\ \A k \in Keys : /\ calls'[k] \in {calls[k], None}
                     /\ Leading(p) => calls'[k] # c
                     /\ calls[k] # c \/ ~Leading(p) => calls'[k] = calls[k]
  /\ \A d \in Tickets \ {c} : call'[d] = call[d] /\ outcome'[d] = outcome[d]
  /\ IF \E q \in Callers \ {p} : proc[q].ticket = c
     THEN /\ outcome'[c] = outcome[c]
          /\ call'[c].done => /\ call'[c].value = outcome[c]
                              /\ \A k \in Keys : calls'[k] # c
          /\ call[c].done => call'[c].done /\ call'[c].value = call[c].value
     ELSE ~call'[c].done

\* Whoever leaves, the others find their calls as they were.
LEMMA LeaveStep ==
  ASSUME IInv, Types', NEW p \in Callers, NEW c \in Tickets, proc[p].ticket = c, Leaves(p, c)
  PROVE  IInv'
  <1>1. /\ proc'[p].pc = "idle" /\ proc'[p].ticket = None
        /\ \A q \in Callers \ {p} : proc'[q] = proc[q]
    BY DEF IInv, Types, Idle, At, Leaves
  <1>2. /\ c # None /\ \A k \in Keys : calls'[k] # None => calls'[k] = calls[k]
        /\ \A d \in Tickets \ {c} : call'[d] = call[d] /\ outcome'[d] = outcome[d]
    BY GroupConstants DEF GroupConstants, Leaves
  <1>3. OneLeader' /\ \A q \in Callers : Holds(q)'
    BY <1>1 DEF IInv, OneLeader, Leading, Holds
  <1>4. ASSUME NEW q \in Callers \ {p} PROVE LeaderOK(q)' /\ FollowerOK(q)'
    <2>1. proc'[q] = proc[q] /\ Holds(q) /\ LeaderOK(q) /\ FollowerOK(q)
      BY <1>1 DEF IInv
    <2>2. /\ proc[q].pc \in {"load", "finish"} => calls'[proc[q].key] = calls[proc[q].key]
          /\ Leading(q) /\ calls'[proc[q].key] = proc[q].ticket
               => calls[proc[q].key] = proc[q].ticket
      <3>1. Leading(p) /\ Leading(q) => proc[q].ticket # c
        BY DEF IInv, OneLeader
      <3> QED
        BY <1>2, <2>1, <3>1, GroupConstants DEF Leaves, LeaderOK, Leading, Holds, GroupConstants
    <2>3. proc[q].pc # "idle" =>
            /\ outcome'[proc[q].ticket] = outcome[proc[q].ticket]
            /\ call[proc[q].ticket].done =>
                 /\ call'[proc[q].ticket].done
                 /\ call'[proc[q].ticket].value = call[proc[q].ticket].value
      BY <1>2, <2>1 DEF Leaves, Holds
    <2> QED
      BY <2>1, <2>2, <2>3, Zenon DEF LeaderOK, FollowerOK, Leading, Holds
  <1>5. LeaderOK(p)' /\ FollowerOK(p)'
    BY <1>1 DEF LeaderOK, FollowerOK
  <1>6. ASSUME NEW j \in Keys PROVE Owned(j)'
    <2> SUFFICES ASSUME calls'[j] # None
                 PROVE  \E q \in Callers : /\ Leading(q)' /\ proc'[q].ticket = calls'[j]
                                           /\ proc'[q].key = j
      BY DEF Owned
    <2>1. PICK q \in Callers : Leading(q) /\ proc[q].ticket = calls[j] /\ proc[q].key = j
      BY <1>2 DEF IInv, Owned
    <2>2. q # p
      BY <1>2, <2>1 DEF Leaves
    <2> QED
      BY <1>1, <1>2, <2>1, <2>2 DEF Leading
  <1>7. ASSUME NEW d \in Tickets PROVE DoneOK(d)'
    <2>1. CASE d = c
      <3>1. CASE \E q \in Callers \ {p} : proc[q].ticket = c
        <4>1. \E q \in Callers : proc'[q].ticket = c
          BY <1>1, <3>1
        <4> QED
          BY <2>1, <3>1, <4>1, Zenon DEF DoneOK, Leaves
      <3>2. CASE ~\E q \in Callers \ {p} : proc[q].ticket = c
        BY <2>1, <3>2, Zenon DEF DoneOK, Leaves
      <3> QED
        BY <3>1, <3>2
    <2>2. CASE d # c
      <3>1. call'[d] = call[d] /\ outcome'[d] = outcome[d] /\ DoneOK(d)
        BY <1>2, <2>2 DEF IInv
      <3>2. /\ (\E q \in Callers : proc[q].ticket = d) => \E q \in Callers : proc'[q].ticket = d
            /\ (\A k \in Keys : calls[k] # d) => \A k \in Keys : calls'[k] # d
        BY <1>1, <1>2, <2>2, GroupConstants DEF GroupConstants
      <3> QED
        BY <3>1, <3>2, Zenon DEF DoneOK
    <2> QED
      BY <2>1, <2>2
  <1> QED
    BY <1>3, <1>4, <1>5, <1>6, <1>7 DEF IInv

\* The deferred release of a follower.
LEMMA ReleaseStep ==
  ASSUME IInv, NEW p \in Callers, release(p)
  PROVE  IInv'
  <1>1. PICK c \in Tickets : c = proc[p].ticket
    BY DEF IInv, Holds, release
  <1> DEFINE others == \E q \in Callers \ {p} : proc[q].ticket = c
             new == [call EXCEPT ![c].followers = @ - 1]
  <1>2. /\ proc' = [proc EXCEPT ![p] = Idle] /\ calls' = calls /\ ~Leading(p)
        /\ call' = IF others THEN new ELSE [new EXCEPT ![c] = NewCall]
        /\ outcome' = IF others THEN outcome ELSE [outcome EXCEPT ![c] = None]
    BY <1>1 DEF release, Collect, Leading
  <1>3. /\ new \in [Tickets -> CallRec]
        /\ new[c].value = call[c].value /\ new[c].done = call[c].done
        /\ \A d \in Tickets \ {c} : new[d] = call[d]
    BY DEF IInv, Types, CallRec
  <1>4. /\ call[c].done => call[c].value = outcome[c] /\ \A k \in Keys : calls[k] # c
        /\ outcome \in [Tickets -> Shared]
    BY DEF IInv, DoneOK, Types
  <1> HIDE DEF new, others
  <1>5. Types'
    <2>1. NewCall \in CallRec
      BY DEF NewCall, Shared, CallRec
    <2>2. proc' \in [Callers -> Proc]
      BY <1>2 DEF IInv, Types, Idle, At, Proc
    <2>3. outcome' \in [Tickets -> Shared]
      BY <1>2, <1>4 DEF Shared
    <2>4. call' \in [Tickets -> CallRec]
      BY <1>2, <1>3, <2>1
    <2> QED
      BY <1>2, <2>2, <2>3, <2>4 DEF IInv, Types
  <1>6. \A d \in Tickets \ {c} : call'[d] = call[d] /\ outcome'[d] = outcome[d]
    BY <1>2, <1>3, <1>4
  <1>7. CASE others
    <2>1. /\ call'[c].value = call[c].value /\ call'[c].done = call[c].done
          /\ outcome' = outcome
      BY <1>2, <1>3, <1>7
    <2>2. Leaves(p, c)
      BY <1>2, <1>4, <1>6, <1>7, <2>1, Zenon DEF Leaves, others
    <2> QED
      BY <1>1, <1>5, <2>2, LeaveStep
  <1>8. CASE ~others
    <2>1. ~call'[c].done
      BY <1>2, <1>3, <1>8 DEF NewCall
    <2>2. Leaves(p, c)
      BY <1>2, <1>6, <1>8, <2>1, Zenon DEF Leaves, others
    <2> QED
      BY <1>1, <1>5, <2>2, LeaveStep
  <1> QED
    BY <1>7, <1>8

\* The leader's own Finish.  Its ticket is current, so the call is done with
\* the outcome of the load.
LEMMA FinishLoadedStep ==
  ASSUME IInv, NEW p \in Callers, FinishLoaded(p)
  PROVE  IInv'
  <1> DEFINE c == proc[p].ticket
             k == proc[p].key
  <1>1. /\ proc[p].pc = "finish" /\ c \in Tickets /\ k \in Keys
        /\ calls[k] = c /\ proc[p].result = outcome[c]
    BY DEF IInv, Holds, LeaderOK, FinishLoaded
  <1>2. /\ calls' = [calls EXCEPT ![k] = None] /\ UNCHANGED outcome
        /\ call' = [call EXCEPT ![c].value = outcome[c], ![c].done = TRUE]
        /\ proc' = [proc EXCEPT ![p].pc = "abort"]
    BY <1>1 DEF FinishLoaded, Finish
  <1>3. /\ proc'[p].pc = "abort" /\ proc'[p].key = k /\ proc'[p].ticket = c
        /\ \A q \in Callers \ {p} : proc'[q] = proc[q]
        /\ proc' \in [Callers -> Proc]
    <2>1. proc \in [Callers -> Proc] /\ proc[p] \in Proc
      BY DEF IInv, Types
    <2>2. proc'[p] = [proc[p] EXCEPT !.pc = "abort"]
      BY <1>2, <2>1
    <2>3. /\ proc'[p] \in Proc /\ proc'[p].pc = "abort"
          /\ proc'[p].key = k /\ proc'[p].ticket = c
      BY <2>1, <2>2 DEF Proc
    <2> HIDE DEF c, k
    <2> QED
      BY <1>2, <2>1, <2>3
  <1>4. /\ calls'[k] = None /\ calls' \in [Keys -> Tickets \cup {None}]
        /\ \A j \in Keys \ {k} : calls'[j] = calls[j]
    BY <1>1, <1>2 DEF IInv, Types
  <1>5. /\ call'[c].done /\ call'[c].value = outcome[c]
        /\ \A d \in Tickets \ {c} : call'[d] = call[d]
    BY <1>1, <1>2 DEF IInv, Types
  <1>6. call' \in [Tickets -> CallRec]
    <2>1. /\ outcome[c] \in Shared /\ call[c] \in CallRec
          /\ call \in [Tickets -> CallRec] /\ c \in Tickets
      BY <1>1 DEF IInv, Types
    <2>2. call'[c] = [call[c] EXCEPT !.value = outcome[c], !.done = TRUE]
      <3>1. call' = [call EXCEPT ![c].value = outcome[c], ![c].done = TRUE]
        BY <1>2
      <3> QED
        BY <2>1, <3>1, Zenon
    <2>3. call'[c] \in CallRec
      BY <2>1, <2>2, CallUpdate, Zenon
    <2> HIDE DEF c, k
    <2> QED
      BY <1>1, <1>2, <2>3 DEF IInv, Types
  <1>7. ~call[c].done
    BY <1>1 DEF IInv, DoneOK
  <1> HIDE DEF c, k
  <1>8. \A q \in Callers : proc'[q].ticket = proc[q].ticket /\ proc'[q].key = proc[q].key
    BY <1>3 DEF c, k
  <1>9. \A j \in Keys \ {k} : calls[j] # c
    <2> SUFFICES ASSUME NEW j \in Keys, calls[j] = c PROVE j = k
      OBVIOUS
    <2>1. PICK q \in Callers : Leading(q) /\ proc[q].ticket = c /\ proc[q].key = j
      BY <1>1, GroupConstants DEF IInv, Owned, GroupConstants
    <2>2. q = p
      BY <1>1, <2>1 DEF IInv, OneLeader, Leading, c
    <2> QED
      BY <2>1, <2>2 DEF k
  <1>10. Types'
    BY <1>2, <1>3, <1>4, <1>6 DEF IInv, Types
  <1>11. OneLeader' /\ \A q \in Callers : Holds(q)'
    BY <1>1, <1>3 DEF IInv, OneLeader, Leading, Holds, c, k
  <1>12. ASSUME NEW q \in Callers PROVE LeaderOK(q)'
    <2>1. CASE q = p
      BY <1>1, <1>3, <1>4, <2>1, GroupConstants DEF LeaderOK, GroupConstants
    <2>2. CASE q # p
      <3>1. proc'[q] = proc[q] /\ Holds(q) /\ LeaderOK(q)
        BY <1>3, <2>2 DEF IInv
      <3>2. Leading(q) => proc[q].ticket # c
        BY <1>1, <2>2 DEF IInv, OneLeader, Leading, c
      <3>3. proc[q].pc \in {"load", "finish"} => proc[q].key # k
        BY <1>1, <3>1, <3>2 DEF LeaderOK, Leading
      <3>4. Leading(q) => proc[q].key \in Keys /\ proc[q].ticket \in Tickets
        BY <3>1 DEF Holds, Leading
      <3>5. Leading(q) /\ calls'[proc[q].key] = proc[q].ticket
              => calls[proc[q].key] = proc[q].ticket
        BY <1>4, <3>4, GroupConstants DEF GroupConstants
      <3> QED
        BY <1>2, <1>4, <3>1, <3>3, <3>4, <3>5, Zenon DEF LeaderOK, Leading
    <2> QED
      BY <2>1, <2>2
  <1>13. ASSUME NEW q \in Callers PROVE FollowerOK(q)'
    <2>1. CASE q = p
      BY <1>3, <2>1 DEF FollowerOK
    <2>2. CASE q # p
      <3>1. proc'[q] = proc[q] /\ Holds(q) /\ FollowerOK(q)
        BY <1>3, <2>2 DEF IInv
      <3> QED
        BY <1>5, <1>7, <3>1 DEF FollowerOK, Holds
    <2> QED
      BY <2>1, <2>2
  <1>14. ASSUME NEW j \in Keys PROVE Owned(j)'
    <2>1. \A q \in Callers : Leading(q) => Leading(q)'
      BY <1>3 DEF Leading
    <2>2. Owned(j)
      BY DEF IInv
    <2> QED
      BY <1>4, <1>8, <2>1, <2>2 DEF Owned
  <1>15. ASSUME NEW d \in Tickets PROVE DoneOK(d)'
    <2>1. CASE d = c
      <3>1. \A j \in Keys : calls'[j] # c
        BY <1>1, <1>4, <1>9, GroupConstants DEF GroupConstants
      <3> QED
        BY <1>2, <1>3, <1>5, <2>1, <3>1 DEF DoneOK
    <2>2. CASE d # c
      <3>1. call'[d] = call[d] /\ DoneOK(d) /\ outcome' = outcome
        BY <1>2, <1>5, <2>2, Zenon DEF IInv
      <3>2. (\A j \in Keys : calls[j] # d) => \A j \in Keys : calls'[j] # d
        BY <1>4, GroupConstants DEF GroupConstants
      <3> QED
        BY <1>8, <3>1, <3>2 DEF DoneOK
    <2> QED
      BY <2>1, <2>2
  <1> QED
    BY <1>10, <1>11, <1>12, <1>13, <1>14, <1>15 DEF IInv
\* The deferred Finish, which ends the call only after a panic: otherwise the
\* key has another ticket or none.
LEMMA FinishDeferredStep ==
  ASSUME IInv, NEW p \in Callers, FinishDeferred(p)
  PROVE  IInv'
  <1>0. PICK c \in Tickets, k \in Keys : c = proc[p].ticket /\ k = proc[p].key
    BY DEF IInv, Holds, FinishDeferred
  <1> DEFINE others == \E q \in Callers \ {p} : proc[q].ticket = c
             new == Finish(k, c, Err("aborted"))
  <1>1. /\ proc[p].pc = "abort" /\ proc' = [proc EXCEPT ![p] = Idle]
        /\ calls[k] = c => outcome[c] = Err("aborted")
    BY <1>0 DEF IInv, LeaderOK, FinishDeferred
  <1>2. /\ calls' = new.calls
        /\ call' = IF others THEN new.call ELSE [new.call EXCEPT ![c] = NewCall]
        /\ outcome' = IF others THEN outcome ELSE [outcome EXCEPT ![c] = None]
    BY <1>0 DEF FinishDeferred, Collect
  <1>3. Leading(p)
    BY <1>1 DEF Leading
  <1>4. \A j \in Keys : calls[j] = c => j = k
    <2> SUFFICES ASSUME NEW j \in Keys, calls[j] = c PROVE j = k
      OBVIOUS
    <2>1. PICK q \in Callers : Leading(q) /\ proc[q].ticket = c /\ proc[q].key = j
      BY GroupConstants DEF IInv, Owned, GroupConstants
    <2>2. q = p
      BY <1>0, <1>3, <2>1 DEF IInv, OneLeader
    <2> QED
      BY <1>0, <2>1, <2>2
  <1>5. calls \in [Keys -> Tickets \cup {None}] /\ call \in [Tickets -> CallRec]
    BY DEF IInv, Types
  <1>6. call[c].done => call[c].value = outcome[c] /\ calls[k] # c
    BY <1>1 DEF IInv, DoneOK
  <1>7. /\ new.calls \in [Keys -> Tickets \cup {None}]
        /\ \A j \in Keys : new.calls[j] = IF calls[j] = c THEN None ELSE calls[j]
    <2>1. CASE calls[k] = c
      <3>1. new.calls = [calls EXCEPT ![k] = None]
        BY <2>1 DEF Finish
      <3> HIDE DEF new
      <3>2. new.calls \in [Keys -> Tickets \cup {None}]
        BY <1>5, <3>1
      <3>3. new.calls[k] = None
        BY <1>1, <1>5, <3>1
      <3>4. \A j \in Keys \ {k} : new.calls[j] = calls[j]
        BY <1>5, <3>1
      <3> QED
        BY <1>4, <2>1, <3>2, <3>3, <3>4
    <2>2. CASE calls[k] # c
      <3>1. new.calls = calls
        BY <2>2 DEF Finish
      <3> HIDE DEF new
      <3> QED
        BY <1>4, <1>5, <2>2, <3>1
    <2> QED
      BY <2>1, <2>2
  <1>8. /\ new.call \in [Tickets -> CallRec]
        /\ \A d \in Tickets \ {c} : new.call[d] = call[d]
        /\ new.call[c].done => new.call[c].value = outcome[c]
        /\ call[c].done => new.call[c] = call[c]
    <2>1. CASE calls[k] = c
      <3>1. /\ new.call = [call EXCEPT ![c].value = Err("aborted"), ![c].done = TRUE]
            /\ outcome[c] = Err("aborted") /\ outcome[c] \in Shared
        BY <1>1, <2>1 DEF Finish, IInv, Types
      <3> HIDE DEF new
      <3>2. new.call[c] = [call[c] EXCEPT !.value = outcome[c], !.done = TRUE]
        BY <1>1, <1>5, <3>1, Zenon
      <3>3. call[c] \in CallRec
        BY <1>1, <1>5
      <3>4. new.call[c] \in CallRec /\ new.call[c].value = outcome[c]
        <4> DEFINE v == outcome[c]
                   x == call[c]
                   y == new.call[c]
        <4>1. v \in Shared /\ x \in CallRec /\ y = [x EXCEPT !.value = v, !.done = TRUE]
          BY <3>1, <3>2, <3>3
        <4> HIDE DEF v, x, y
        <4>2. y \in CallRec /\ y.value = v
          BY <4>1, Zenon DEF CallRec
        <4> QED
          BY <4>2 DEF v, y
      <3>5. \A d \in Tickets \ {c} : new.call[d] = call[d]
        BY <1>5, <3>1
      <3>6. new.call \in [Tickets -> CallRec]
        BY <1>1, <1>5, <3>1, <3>4
      <3> QED
        BY <1>6, <2>1, <3>4, <3>5, <3>6
    <2>2. CASE calls[k] # c
      <3>1. new.call = call
        BY <2>2 DEF Finish
      <3> HIDE DEF new
      <3> QED
        BY <1>5, <1>6, <3>1
    <2> QED
      BY <2>1, <2>2, Zenon
  <1> HIDE DEF new
  <1>9. Types'
    <2>1. NewCall \in CallRec
      BY DEF NewCall, Shared, CallRec
    <2>2. proc' \in [Callers -> Proc]
      BY <1>1 DEF IInv, Types, Idle, At, Proc
    <2>3. outcome' \in [Tickets -> Shared]
      BY <1>1, <1>2 DEF IInv, Types, Shared
    <2>4. call' \in [Tickets -> CallRec]
      BY <1>1, <1>2, <1>8, <2>1
    <2> QED
      BY <1>2, <1>7, <2>2, <2>3, <2>4 DEF Types
  <1>10. \A d \in Tickets \ {c} : call'[d] = call[d] /\ outcome'[d] = outcome[d]
    BY <1>2, <1>8 DEF IInv, Types
  <1>11. /\ \A j \in Keys : calls'[j] \in {calls[j], None}
         /\ \A j \in Keys : calls'[j] # c
         /\ \A j \in Keys : calls[j] # c => calls'[j] = calls[j]
    BY <1>1, <1>2, <1>7, GroupConstants DEF GroupConstants
  <1>12. CASE others
    <2>1. call' = new.call /\ outcome' = outcome
      BY <1>2, <1>12
    <2>2. /\ call'[c].done => call'[c].value = outcome[c]
          /\ call[c].done => call'[c].done /\ call'[c].value = call[c].value
      BY <1>8, <2>1
    <2>3. Leaves(p, c)
      BY <1>1, <1>3, <1>10, <1>11, <1>12, <2>1, <2>2, Zenon DEF Leaves
    <2> QED
      BY <1>0, <1>9, <2>3, LeaveStep
  <1>13. CASE ~others
    <2>1. ~call'[c].done
      BY <1>2, <1>8, <1>13 DEF NewCall
    <2>2. Leaves(p, c)
      BY <1>1, <1>3, <1>10, <1>11, <1>13, <2>1, Zenon DEF Leaves
    <2> QED
      BY <1>0, <1>9, <2>2, LeaveStep
  <1> QED
    BY <1>12, <1>13

\* What the users of a Group do to it: they start calls, move them on, and end
\* their loads with some result or a panic.
FlightStep ==
  \E p \in Callers :
    \/ \E k \in Keys : Begin(p, k)
    \/ DoStep(p)
    \/ \E r \in Results : LoadReturns(p, r)
    \/ LoadPanics(p)

\* Every step of Do keeps the invariant.
LEMMA FlightInv ==
  ASSUME IInv, FlightStep \/ UNCHANGED gvars
  PROVE  IInv'
  <1>1. CASE UNCHANGED gvars
    BY <1>1 DEF gvars, IInv, Types, OneLeader, Leading, Holds, LeaderOK, FollowerOK, Owned, DoneOK
  <1>2. ASSUME NEW p \in Callers, NEW k \in Keys, Begin(p, k) PROVE IInv'
    <2>1. proc[p].pc = "idle"
      BY <1>2 DEF Begin
    <2>2. CASE k \in Live /\ Join(p, k)
      BY <2>1, <2>2, JoinStep DEF Live
    <2>3. CASE k \notin Live /\ Lead(p, k)
      BY <2>1, <2>3, LeadStep DEF Live
    <2> QED
      BY <1>1, <1>2, <2>2, <2>3 DEF Begin
  <1>3. ASSUME NEW p \in Callers, (\E r \in Results : LoadReturns(p, r)) \/ LoadPanics(p)
        PROVE  IInv'
    <2>1. Results \subseteq Shared /\ Err("aborted") \in Shared
      BY DEF Shared, Results, Errors
    <2> QED
      BY <1>3, <2>1, LoadStep
  <1>4. ASSUME NEW p \in Callers, DoStep(p) PROVE IInv'
    BY <1>4, WaitStep, ReleaseStep, FinishLoadedStep, FinishDeferredStep DEF DoStep
  <1> QED
    BY SMTT(30), <1>1, <1>2, <1>3, <1>4 DEF FlightStep

LEMMA GroupSteps == [GroupNext]_gvars => FlightStep \/ UNCHANGED gvars
  <1>1. Loaded \subseteq Results
    BY DEF Loaded, Results, Errors
  <1> QED
    BY <1>1 DEF GroupNext, FlightStep

LEMMA NextInv == IInv /\ [GroupNext]_gvars => IInv'
  BY FlightInv, GroupSteps

\* The invariant holds in every reachable state.
LEMMA AlwaysIInv == GroupSpec => []IInv
  BY InitInv, NextInv, PTL DEF GroupSpec

\* What the invariant says of callers that share a load.
LEMMA InvFlights == IInv => FlightSound
  <1> SUFFICES ASSUME IInv PROVE FlightSound
    OBVIOUS
  <1>1. SingleFlight
    <2> SUFFICES ASSUME NEW p \in Callers, proc[p].pc \in {"load", "finish"}
                 PROVE  /\ calls[proc[p].key] = proc[p].ticket
                        /\ \A q \in Callers : /\ proc[q].pc \in {"load", "finish"}
                                              /\ proc[q].key = proc[p].key
                                              => q = p
      BY DEF SingleFlight
    <2>1. calls[proc[p].key] = proc[p].ticket
      BY DEF IInv, LeaderOK
    <2>2. ASSUME NEW q \in Callers, proc[q].pc \in {"load", "finish"}, proc[q].key = proc[p].key
          PROVE  q = p
      BY <2>1, <2>2 DEF IInv, LeaderOK, OneLeader, Leading
    <2> QED
      BY <2>1, <2>2
  <1>2. SharedOutcome
    <2>1. ASSUME NEW c \in Tickets PROVE call[c].done => call[c].value = outcome[c]
      BY DEF IInv, DoneOK
    <2>2. ASSUME NEW p \in Callers, proc[p].pc = "release"
          PROVE  proc[p].result \in {outcome[proc[p].ticket], Err("cancelled")}
      <3>1. proc[p].ticket \in Tickets
        BY <2>2 DEF IInv, Holds
      <3>2. \/ proc[p].result = Err("cancelled")
            \/ call[proc[p].ticket].done /\ proc[p].result = call[proc[p].ticket].value
        BY <2>2 DEF IInv, FollowerOK
      <3> QED
        BY <2>1, <3>1, <3>2
    <2> QED
      BY <2>1, <2>2 DEF SharedOutcome
  <1>3. NoOrphan
    BY DEF IInv, Owned, NoOrphan, Live
  <1> QED
    BY <1>1, <1>2, <1>3 DEF FlightSound

\* Group: at most one load of a key runs (Begin never makes two leaders); a call
\* ends with what its own leader loaded, never by the deferred Finish of an
\* earlier leader; and a call in flight has a leader that will finish it, also
\* after a panic.
THEOREM GroupFlights == GroupSpec => []FlightSound
  BY InvFlights, AlwaysIInv, PTL

-----------------------------------------------------------------------------
\* What the proofs use of finite sets.  It is a theorem, CountingHolds in
\* ReadScopeProofs; assuming it here keeps the library out of these proofs.
Counting ==
  /\ IsFiniteSet({}) /\ Cardinality({}) = 0
  /\ \A S : IsFiniteSet(S) => Cardinality(S) \in Nat
  /\ \A S : IsFiniteSet(S) =>
       \A T \in SUBSET S : IsFiniteSet(T) /\ Cardinality(T) <= Cardinality(S)
  /\ \A S, x : IsFiniteSet(S) =>
       /\ IsFiniteSet(S \cup {x})
       /\ Cardinality(S \cup {x}) = IF x \in S THEN Cardinality(S) ELSE Cardinality(S) + 1
  /\ \A S, x : IsFiniteSet(S) =>
       /\ IsFiniteSet(S \ {x})
       /\ Cardinality(S \ {x}) = IF x \in S THEN Cardinality(S) - 1 ELSE Cardinality(S)

\* The callers attached to a call.
Followers(c) == {p \in Callers : Following(p) /\ proc[p].ticket = c}

Counted(c) ==
  /\ IsFiniteSet(Followers(c))
  /\ call[c].followers = Cardinality(Followers(c))
  /\ call[c].followers <= MaxFollowers

\* Strengthens FollowersCounted: the sets that are counted are finite.
CountInv ==
  /\ \A c \in Tickets : Counted(c)
  /\ IsFiniteSet(Live) /\ Cardinality(Live) <= MaxKeys

\* Nobody is attached to a call at the start.
LEMMA InitCount == Counting /\ GroupInit => CountInv
  <1> SUFFICES ASSUME Counting, GroupInit PROVE CountInv
    OBVIOUS
  <1>1. Live = {} /\ \A c \in Tickets : Followers(c) = {} /\ call[c].followers = 0
    BY DEF GroupInit, Live, Followers, Following, Idle, At, NewCall
  <1> QED
    BY <1>1, GroupConstants DEF Counting, CountInv, Counted, GroupConstants

\* A call whose counter and followers stay as they are stays counted.
LEMMA KeepsCount ==
  ASSUME CountInv, NEW c \in Tickets,
         Followers(c)' = Followers(c), call'[c].followers = call[c].followers
  PROVE  Counted(c)'
  BY DEF CountInv, Counted

\* The live keys stay within their limit when none is added.
LEMMA FewerLive ==
  ASSUME Counting, CountInv, Live' \subseteq Live
  PROVE  IsFiniteSet(Live') /\ Cardinality(Live') <= MaxKeys
  <1>1. IsFiniteSet(Live) /\ Cardinality(Live) <= MaxKeys /\ Live' \in SUBSET Live
    BY DEF CountInv
  <1>2. /\ IsFiniteSet(Live') /\ Cardinality(Live') <= Cardinality(Live)
        /\ Cardinality(Live') \in Nat /\ Cardinality(Live) \in Nat
    BY <1>1 DEF Counting
  <1> QED
    BY <1>1, <1>2, GroupConstants DEF GroupConstants

\* Join counts the caller that attaches itself.
LEMMA JoinCount ==
  ASSUME Counting, IInv, CountInv, NEW p \in Callers, NEW k \in Keys, proc[p].pc = "idle",
         calls[k] # None, Join(p, k)
  PROVE  CountInv'
  <1>1. PICK c \in Tickets : c = calls[k] /\ calls' = calls
    BY DEF IInv, Types, Join
  <1>2. /\ proc'[p].pc = "wait" /\ proc'[p].ticket = c
        /\ \A q \in Callers \ {p} : proc'[q] = proc[q]
    BY <1>1 DEF IInv, Types, Join, At
  <1>3. /\ call'[c].followers = call[c].followers + 1
        /\ \A d \in Tickets \ {c} : call'[d] = call[d]
        /\ call[c].followers < MaxFollowers
    BY <1>1 DEF IInv, Types, Join, CallRec
  <1>4. p \notin Followers(c) /\ Followers(c)' = Followers(c) \cup {p}
    BY <1>2 DEF Followers, Following
  <1>5. Counted(c)'
    <2>1. /\ IsFiniteSet(Followers(c)) /\ call[c].followers = Cardinality(Followers(c))
          /\ Cardinality(Followers(c)) \in Nat
      BY <1>1 DEF Counting, CountInv, Counted
    <2>2. /\ IsFiniteSet(Followers(c) \cup {p})
          /\ Cardinality(Followers(c) \cup {p}) = Cardinality(Followers(c)) + 1
      BY <1>4, <2>1 DEF Counting
    <2> QED
      BY <1>3, <1>4, <2>1, <2>2, GroupConstants DEF Counted, GroupConstants
  <1>6. ASSUME NEW d \in Tickets, d # c PROVE Counted(d)'
    <2>1. Followers(d)' = Followers(d)
      BY <1>2, <1>6 DEF Followers, Following
    <2> QED
      BY <1>3, <1>6, <2>1, KeepsCount
  <1>7. Live' = Live
    BY <1>1 DEF Live
  <1> QED
    BY <1>5, <1>6, <1>7 DEF CountInv

\* Lead adds one live key, below the limit.
LEMMA LeadCount ==
  ASSUME Counting, IInv, CountInv, NEW p \in Callers, NEW k \in Keys, proc[p].pc = "idle",
         calls[k] = None, Lead(p, k)
  PROVE  CountInv'
  <1>1. PICK c \in Tickets :
          /\ calls' = [calls EXCEPT ![k] = c]
          /\ proc' = [proc EXCEPT ![p] = At("load", k, c, None)]
          /\ UNCHANGED <<call, outcome>>
    BY Zenon DEF Lead
  <1>2. /\ proc'[p].pc = "load" /\ \A q \in Callers \ {p} : proc'[q] = proc[q]
        /\ \A j \in Keys \ {k} : calls'[j] = calls[j]
        /\ calls'[k] # None
    BY <1>1, GroupConstants DEF IInv, Types, At, GroupConstants
  <1>3. ASSUME NEW d \in Tickets PROVE Counted(d)'
    <2>1. Followers(d)' = Followers(d)
      BY <1>2 DEF Followers, Following
    <2> QED
      BY <1>1, <2>1, KeepsCount
  <1>4. Live' = Live \cup {k} /\ k \notin Live
    BY <1>2 DEF Live
  <1>5. IsFiniteSet(Live) /\ Cardinality(Live) \in Nat /\ Cardinality(Live) < MaxKeys
    BY DEF Counting, CountInv, Lead
  <1>6. IsFiniteSet(Live') /\ Cardinality(Live') = Cardinality(Live) + 1
    BY <1>4, <1>5 DEF Counting
  <1> QED
    BY <1>3, <1>5, <1>6, GroupConstants DEF CountInv, GroupConstants

\* A step of caller p that leaves its role, the calls in flight and every
\* counter alone.
Quiet(p) ==
  /\ Following(p)' <=> Following(p)
  /\ proc'[p].ticket = proc[p].ticket
  /\ \A q \in Callers \ {p} : proc'[q] = proc[q]
  /\ \A d \in Tickets : call'[d].followers = call[d].followers
  /\ Live' \subseteq Live

LEMMA QuietCount ==
  ASSUME Counting, CountInv, NEW p \in Callers, Quiet(p)
  PROVE  CountInv'
  <1>1. ASSUME NEW d \in Tickets PROVE Counted(d)'
    <2>1. Followers(d)' = Followers(d) /\ call'[d].followers = call[d].followers
      BY DEF Quiet, Followers, Following
    <2> QED
      BY <2>1, KeepsCount
  <1>2. Live' \subseteq Live
    BY DEF Quiet
  <1> QED
    BY SMTT(30), <1>1, <1>2, FewerLive DEF CountInv

\* Caller p leaves the call c: a follower is taken off its counter, and a Call
\* that nobody else refers to starts from zero again.
Uncounts(p, c) ==
  /\ proc' = [proc EXCEPT ![p] = Idle] /\ Live' \subseteq Live
  /\ \A d \in Tickets \ {c} : call'[d] = call[d]
  /\ IF \E q \in Callers \ {p} : proc[q].ticket = c
     THEN call'[c].followers =
            IF Following(p) THEN call[c].followers - 1 ELSE call[c].followers
     ELSE call'[c].followers = 0

LEMMA LeaveCount ==
  ASSUME Counting, IInv, CountInv, NEW p \in Callers, NEW c \in Tickets, proc[p].ticket = c,
         Uncounts(p, c)
  PROVE  CountInv'
  <1>1. /\ proc'[p].pc = "idle" /\ proc'[p].ticket = None
        /\ \A q \in Callers \ {p} : proc'[q] = proc[q]
    BY Zenon DEF IInv, Types, Idle, At, Uncounts
  <1>2. ASSUME NEW d \in Tickets, d # c PROVE Counted(d)'
    <2>1. Followers(d)' = Followers(d)
      BY <1>1, <1>2 DEF Followers, Following
    <2>2. call'[d] = call[d]
      BY <1>2 DEF Uncounts
    <2> QED
      BY <2>1, <2>2, KeepsCount
  <1>3. Followers(c)' = Followers(c) \ {p} /\ (p \in Followers(c) <=> Following(p))
    BY <1>1 DEF Followers, Following
  <1>4. /\ IsFiniteSet(Followers(c)) /\ call[c].followers = Cardinality(Followers(c))
        /\ Cardinality(Followers(c)) \in Nat /\ call[c].followers <= MaxFollowers
    BY SMTT(30) DEF Counting, CountInv, Counted
  <1>5. /\ IsFiniteSet(Followers(c)')
        /\ Cardinality(Followers(c)') =
             IF Following(p) THEN call[c].followers - 1 ELSE call[c].followers
        /\ Cardinality(Followers(c)') \in Nat
    BY <1>3, <1>4 DEF Counting
  <1>6. call'[c].followers = Cardinality(Followers(c)')
    <2>1. CASE \E q \in Callers \ {p} : proc[q].ticket = c
      BY <1>5, <2>1 DEF Uncounts
    <2>2. CASE ~\E q \in Callers \ {p} : proc[q].ticket = c
      <3>1. Followers(c)' = {}
        BY <1>1, <1>3, <2>2 DEF Followers
      <3> QED
        BY <2>2, <3>1 DEF Counting, Uncounts
    <2> QED
      BY <2>1, <2>2
  <1>7. Counted(c)'
    BY <1>4, <1>5, <1>6, GroupConstants DEF Counted, GroupConstants
  <1>8. Live' \subseteq Live
    BY DEF Uncounts
  <1> QED
    BY <1>2, <1>7, <1>8, FewerLive DEF CountInv

\* The deferred release of a follower.
LEMMA ReleaseCount ==
  ASSUME Counting, IInv, CountInv, NEW p \in Callers, release(p)
  PROVE  CountInv'
  <1>1. PICK c \in Tickets : c = proc[p].ticket
    BY DEF IInv, Holds, release
  <1> DEFINE new == [call EXCEPT ![c].followers = @ - 1]
  <1>2. /\ proc' = [proc EXCEPT ![p] = Idle] /\ calls' = calls
        /\ call' = IF \E q \in Callers \ {p} : proc[q].ticket = c
                   THEN new ELSE [new EXCEPT ![c] = NewCall]
    BY <1>1 DEF release, Collect
  <1>3. /\ new \in [Tickets -> CallRec] /\ new[c].followers = call[c].followers - 1
        /\ \A d \in Tickets \ {c} : new[d] = call[d]
    BY DEF IInv, Types, CallRec
  <1> HIDE DEF new
  <1>4. Following(p) /\ Live' \subseteq Live
    BY <1>2 DEF Following, release, Live
  <1>5. \A d \in Tickets \ {c} : call'[d] = call[d]
    BY <1>2, <1>3
  <1>6. IF \E q \in Callers \ {p} : proc[q].ticket = c
        THEN call'[c].followers = call[c].followers - 1 ELSE call'[c].followers = 0
    BY <1>2, <1>3 DEF NewCall
  <1>7. Uncounts(p, c)
    BY SMTT(30), <1>2, <1>4, <1>5, <1>6 DEF Uncounts
  <1> QED
    BY <1>1, <1>7, LeaveCount

\* Finish touches no counter and adds no live key.
LEMMA FinishCount ==
  ASSUME IInv, NEW k \in Keys, NEW c \in Tickets, NEW r
  PROVE  /\ \A d \in Tickets : Finish(k, c, r).call[d].followers = call[d].followers
         /\ \A d \in Tickets \ {c} : Finish(k, c, r).call[d] = call[d]
         /\ DOMAIN Finish(k, c, r).call = Tickets
         /\ \A j \in Keys : Finish(k, c, r).calls[j] \in {calls[j], None}
  <1>1. calls \in [Keys -> Tickets \cup {None}] /\ call \in [Tickets -> CallRec]
    BY DEF IInv, Types
  <1>2. CASE calls[k] = c
    <2> DEFINE new == [call EXCEPT ![c].value = r, ![c].done = TRUE]
    <2>1. Finish(k, c, r).calls = [calls EXCEPT ![k] = None] /\ Finish(k, c, r).call = new
      BY <1>2 DEF Finish
    <2>2. DOMAIN new = Tickets /\ new[c] = [call[c] EXCEPT !.value = r, !.done = TRUE]
      BY <1>1, Zenon
    <2>3. new[c].followers = call[c].followers
      <3> DEFINE x == call[c]
                 y == new[c]
      <3>1. x \in CallRec /\ y = [x EXCEPT !.value = r, !.done = TRUE]
        BY <1>1, <2>2
      <3> HIDE DEF x, y
      <3>2. y.followers = x.followers
        BY <3>1, Zenon DEF CallRec
      <3> QED
        BY <3>2 DEF x, y
    <2>4. \A d \in Tickets \ {c} : new[d] = call[d]
      BY <1>1, Zenon
    <2> HIDE DEF new
    <2>5. \A j \in Keys : [calls EXCEPT ![k] = None][j] \in {calls[j], None}
      BY <1>1
    <2> QED
      BY Zenon, <2>1, <2>2, <2>3, <2>4, <2>5
  <1>3. CASE calls[k] # c
    BY <1>1, <1>3 DEF Finish
  <1> QED
    BY <1>2, <1>3

\* The leader's Finish: it stays a leader.
LEMMA FinishLoadedCount ==
  ASSUME Counting, IInv, CountInv, NEW p \in Callers, FinishLoaded(p)
  PROVE  CountInv'
  <1>1. PICK c \in Tickets, k \in Keys : c = proc[p].ticket /\ k = proc[p].key
    BY DEF IInv, Holds, FinishLoaded
  <1>2. PICK r : calls' = Finish(k, c, r).calls /\ call' = Finish(k, c, r).call
    BY <1>1, Zenon DEF FinishLoaded
  <1>3. /\ \A d \in Tickets : call'[d].followers = call[d].followers
        /\ \A j \in Keys : calls'[j] \in {calls[j], None}
    BY <1>2, FinishCount
  <1>4. proc[p].pc = "finish" /\ proc' = [proc EXCEPT ![p].pc = "abort"]
    BY DEF FinishLoaded
  <1>5. /\ proc'[p].pc = "abort" /\ proc'[p].ticket = proc[p].ticket
        /\ \A q \in Callers \ {p} : proc'[q] = proc[q]
    BY <1>4 DEF IInv, Types, Proc
  <1>6. Live' \subseteq Live /\ (Following(p)' <=> Following(p))
    BY <1>3, <1>4, <1>5 DEF Live, Following
  <1> QED
    BY <1>3, <1>5, <1>6, QuietCount DEF Quiet

\* The deferred Finish: the leader leaves, and was no follower.
LEMMA FinishDeferredCount ==
  ASSUME Counting, IInv, CountInv, NEW p \in Callers, FinishDeferred(p)
  PROVE  CountInv'
  <1>1. PICK c \in Tickets, k \in Keys : c = proc[p].ticket /\ k = proc[p].key
    BY SMTT(30) DEF IInv, Holds, FinishDeferred
  <1> DEFINE new == Finish(k, c, Err("aborted"))
             others == \E q \in Callers \ {p} : proc[q].ticket = c
  <1>2. /\ proc' = [proc EXCEPT ![p] = Idle] /\ calls' = new.calls
        /\ call' = IF others THEN new.call ELSE [new.call EXCEPT ![c] = NewCall]
        /\ ~Following(p)
    BY <1>1 DEF FinishDeferred, Collect, Following
  <1>3. /\ \A d \in Tickets : new.call[d].followers = call[d].followers
        /\ \A d \in Tickets \ {c} : new.call[d] = call[d]
        /\ DOMAIN new.call = Tickets
        /\ \A j \in Keys : new.calls[j] \in {calls[j], None}
    BY FinishCount
  <1> HIDE DEF new
  <1>4. Live' \subseteq Live
    BY <1>2, <1>3 DEF Live
  <1>5. \A d \in Tickets \ {c} : call'[d] = call[d]
    BY <1>2, <1>3
  <1>6. IF others THEN call'[c].followers = call[c].followers
                  ELSE call'[c].followers = 0
    BY <1>2, <1>3, SMTT(30) DEF NewCall
  <1>7. Uncounts(p, c)
    BY <1>2, <1>4, <1>5, <1>6 DEF Uncounts
  <1> QED
    BY <1>1, <1>7, LeaveCount

\* Every step that a Group's users take keeps the counters.
LEMMA FlightCount ==
  ASSUME Counting, IInv, CountInv, FlightStep \/ UNCHANGED gvars
  PROVE  CountInv'
  <1>1. CASE UNCHANGED gvars
    BY <1>1 DEF gvars, CountInv, Counted, Followers, Following, Live
  <1>2. ASSUME NEW p \in Callers, NEW k \in Keys, Begin(p, k) PROVE CountInv'
    <2>1. proc[p].pc = "idle"
      BY <1>2 DEF Begin
    <2>2. CASE k \in Live /\ Join(p, k)
      BY <2>1, <2>2, JoinCount DEF Live
    <2>3. CASE k \notin Live /\ Lead(p, k)
      BY <2>1, <2>3, LeadCount DEF Live
    <2> QED
      BY <1>1, <1>2, <2>2, <2>3 DEF Begin
  <1>3. ASSUME NEW p \in Callers, (\E r \in Results : LoadReturns(p, r)) \/ LoadPanics(p)
        PROVE  CountInv'
    <2>1. /\ proc[p].pc = "load" /\ proc'[p].pc \in {"finish", "abort"}
          /\ proc'[p].ticket = proc[p].ticket
          /\ \A q \in Callers \ {p} : proc'[q] = proc[q]
          /\ UNCHANGED <<calls, call>>
      BY <1>3 DEF IInv, Types, Proc, LoadReturns, LoadPanics
    <2>2. Quiet(p)
      BY <2>1 DEF Live, Following, Quiet
    <2> QED
      BY <2>2, QuietCount
  <1>4. ASSUME NEW p \in Callers, Wait(p) PROVE CountInv'
    <2>1. PICK r : proc' = [proc EXCEPT ![p].pc = "release", ![p].result = r]
      BY <1>4, Zenon DEF Wait
    <2>2. /\ proc'[p].pc = "release" /\ proc'[p].ticket = proc[p].ticket
          /\ \A q \in Callers \ {p} : proc'[q] = proc[q]
      BY <2>1 DEF IInv, Types, Proc
    <2>3. Quiet(p)
      BY Zenon, <1>4, <2>2 DEF Wait, Live, Following, Quiet
    <2> QED
      BY <2>3, QuietCount
  <1>5. ASSUME NEW p \in Callers, DoStep(p) PROVE CountInv'
    BY <1>4, <1>5, ReleaseCount, FinishLoadedCount, FinishDeferredCount DEF DoStep
  <1> QED
    BY <1>1, <1>2, <1>3, <1>5 DEF FlightStep
=============================================================================
