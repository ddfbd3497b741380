-------------------------- MODULE ReadScopeProofs ---------------------------
(***************************************************************************)
(* The memo of readcache.Scope, its limits and those of its Group, for any *)
(* number of callers, keys, values and limits.  The first part proves what *)
(* needs no counting; the second adds the counters and the limits.         *)
(***************************************************************************)
EXTENDS ReadScope, ReadGroupProofs

ScopeTypes ==
  /\ entries \in [Keys -> {Absent, Reserved} \cup {Ok(v) : v \in Values}]
  /\ bytes \in Nat
  /\ cancelled \in BOOLEAN /\ closed \in BOOLEAN
  /\ want \in [Callers -> Keys \cup {None}]
  /\ step \in [Callers -> {"none", "lookup", "fetch", "commit", "undo"}]
  /\ data \in [Callers -> Results \cup {None, Err("panic")}]

Reserving(p) == step[p] \in {"fetch", "commit", "undo"}

\* A caller is in the load function while its group considers it loading.  Past
\* the lookup its key is reserved, unless Close has dropped the reservation.
LoadOK(p) ==
  /\ (step[p] # "none") <=> (proc[p].pc = "load")
  /\ want[p] # None => proc[p].pc = "idle"
  /\ step[p] = "commit" => \E v \in Values : data[p] = Ok(v)
  /\ step[p] = "undo" => data[p] \in Results \cup {Err("panic")}
  /\ Reserving(p) => entries[proc[p].key] = Reserved \/ closed

Reservations ==
  \A k \in Present \ Stored : \E p \in Callers : proc[p].key = k /\ Reserving(p)

CloseOK == closed => cancelled /\ Stored = {} /\ bytes = 0

Inner == IInv /\ ScopeTypes /\ Reservations /\ \A p \in Callers : LoadOK(p)

ScopeInv == Inner /\ CloseOK

-----------------------------------------------------------------------------
Entry == {Absent, Reserved} \cup {Ok(v) : v \in Values}

\* Results, reservations and absent entries are told apart.
LEMMA Distinct ==
  /\ Absent # Reserved
  /\ \A v : Ok(v) \notin {Absent, Reserved} /\ Ok(v)[2] = v
  /\ \A v, e : Ok(v) # Err(e)
  BY DEF Absent, Reserved, Ok, Err

\* A caller inside the load function leads the only load of its key.
LEMMA Loader ==
  ASSUME ScopeInv, NEW p \in Callers, step[p] # "none"
  PROVE  /\ proc[p].pc = "load" /\ proc[p].key \in Keys /\ proc[p].ticket \in Tickets
         /\ \A q \in Callers \ {p} : step[q] # "none" => proc[q].key # proc[p].key
  <1>1. IInv /\ \A q \in Callers : step[q] # "none" => proc[q].pc = "load"
    BY DEF ScopeInv, Inner, LoadOK
  <1>2. ASSUME NEW q \in Callers, step[q] # "none", proc[q].key = proc[p].key
        PROVE  q = p
    BY <1>1, <1>2 DEF IInv, LeaderOK, OneLeader, Leading
  <1> QED
    BY <1>1, <1>2 DEF IInv, Holds

\* The load function of p ends with a result or a panic.
LoadEnded(p) ==
  /\ (\E r \in Results : LoadReturns(p, r)) \/ LoadPanics(p)
  /\ step' = [step EXCEPT ![p] = "none"]
  /\ data' = [data EXCEPT ![p] = None]

\* Only its own entry may have changed, and not into a reservation.
EndsLoad(p, k) ==
  /\ LoadEnded(p) /\ UNCHANGED <<cancelled, closed, want>> /\ bytes' \in Nat
  /\ entries' \in [Keys -> Entry]
  /\ \A j \in Keys \ {k} : entries'[j] = entries[j]
  /\ (entries'[k] = entries[k] /\ step[p] = "lookup") \/ entries'[k] # Reserved

LEMMA EndKept ==
  ASSUME ScopeInv, NEW p \in Callers, NEW k \in Keys, k = proc[p].key, step[p] # "none",
         EndsLoad(p, k)
  PROVE  Inner'
  <1>1. IInv'
    BY FlightInv DEF ScopeInv, Inner, FlightStep, EndsLoad, LoadEnded
  <1>2. /\ proc[p].pc = "load" /\ proc'[p].pc \in {"finish", "abort"}
        /\ \A q \in Callers \ {p} : proc'[q] = proc[q]
    BY DEF ScopeInv, Inner, IInv, Types, Proc, EndsLoad, LoadEnded, LoadReturns, LoadPanics
  <1>3. /\ step'[p] = "none"
        /\ \A q \in Callers \ {p} : step'[q] = step[q] /\ data'[q] = data[q]
        /\ step' \in [Callers -> {"none", "lookup", "fetch", "commit", "undo"}]
        /\ data' \in [Callers -> Results \cup {None, Err("panic")}]
    BY DEF ScopeInv, Inner, ScopeTypes, EndsLoad, LoadEnded
  <1>4. ScopeTypes'
    BY <1>3 DEF ScopeInv, Inner, ScopeTypes, Entry, EndsLoad
  <1>5. ASSUME NEW q \in Callers PROVE LoadOK(q)'
    <2>1. CASE q = p
      <3>1. want'[p] = None
        BY <1>2 DEF ScopeInv, Inner, LoadOK, EndsLoad
      <3> QED
        BY <1>2, <1>3, <2>1, <3>1 DEF LoadOK, Reserving
    <2>2. CASE q # p
      <3>1. /\ proc'[q] = proc[q] /\ step'[q] = step[q] /\ data'[q] = data[q]
            /\ want' = want /\ closed' = closed /\ LoadOK(q)
        BY <1>2, <1>3, <2>2 DEF ScopeInv, Inner, EndsLoad
      <3>2. Reserving(q) => entries'[proc[q].key] = entries[proc[q].key]
        BY <2>2, Loader DEF Reserving, EndsLoad
      <3> QED
        BY <3>1, <3>2 DEF LoadOK, Reserving
    <2> QED
      BY <2>1, <2>2
  <1>6. Reservations'
    <2> SUFFICES ASSUME NEW j \in Keys, entries'[j] = Reserved
                 PROVE  \E q \in Callers : proc'[q].key = j /\ Reserving(q)'
      BY <1>4 DEF Reservations, Present, Stored, ScopeTypes
    <2>1. entries[j] = Reserved
      BY DEF EndsLoad
    <2>2. PICK q \in Callers : proc[q].key = j /\ Reserving(q) /\ q # p
      <3>1. Reservations /\ (Reserving(p) => step[p] # "lookup")
        BY DEF ScopeInv, Inner, Reserving
      <3>2. PICK q \in Callers : proc[q].key = j /\ Reserving(q)
        BY <2>1, <3>1, Distinct DEF Reservations, Present, Stored
      <3> QED
        BY <3>1, <3>2 DEF EndsLoad
    <2> QED
      BY <1>2, <1>3, <2>2 DEF Reserving
  <1> QED
    BY <1>1, <1>4, <1>5, <1>6 DEF Inner


\* An entry without a value becomes a reservation or absent.
LEMMA UnstoredChange ==
  ASSUME ScopeTypes, NEW k \in Keys, k \notin Stored, NEW x \in {Absent, Reserved},
         entries' = [entries EXCEPT ![k] = x]
  PROVE  /\ entries' \in [Keys -> Entry] /\ entries'[k] = x
         /\ \A j \in Keys \ {k} : entries'[j] = entries[j]
         /\ Stored' = Stored
  <1>1. /\ entries' \in [Keys -> Entry] /\ entries'[k] = x
        /\ \A j \in Keys \ {k} : entries'[j] = entries[j]
    BY DEF ScopeTypes, Entry
  <1> QED
    BY <1>1 DEF Stored

\* A new scope is empty and nobody uses it.
LEMMA ScopeInitInv == Init => ScopeInv
  <1> SUFFICES ASSUME Init PROVE ScopeInv
    OBVIOUS
  <1>1. IInv
    BY InitInv DEF Init
  <1>2. ScopeTypes
    BY Zenon DEF Init, ScopeTypes
  <1>3. \A p \in Callers : LoadOK(p)
    BY DEF Init, GroupInit, Idle, At, LoadOK, Reserving
  <1>4. Present = {} /\ Stored = {}
    BY DEF Init, Present, Stored
  <1> QED
    BY <1>1, <1>2, <1>3, <1>4 DEF ScopeInv, Inner, Reservations, CloseOK, Init

\* The end of s.ctx disturbs nothing.
LEMMA CancelStep == ASSUME ScopeInv, Cancel PROVE ScopeInv'
  <1>1. IInv'
    BY FlightInv DEF ScopeInv, Inner, Cancel
  <1>2. UNCHANGED <<proc, entries, bytes, closed, want, step, data>> /\ cancelled' = TRUE
    BY DEF Cancel, gvars
  <1>3. ScopeTypes' /\ CloseOK'
    BY <1>2 DEF ScopeInv, Inner, ScopeTypes, CloseOK, Stored
  <1>4. (\A p \in Callers : LoadOK(p)') /\ Reservations'
    BY <1>2 DEF ScopeInv, Inner, LoadOK, Reserving, Reservations, Present, Stored
  <1> QED
    BY <1>1, <1>3, <1>4 DEF ScopeInv, Inner

\* Close empties the scope; loads in progress lose their reservations.
LEMMA ClearStep == ASSUME ScopeInv, Clear PROVE ScopeInv'
  <1>1. IInv'
    BY FlightInv DEF ScopeInv, Inner, Clear
  <1>2. /\ UNCHANGED <<proc, cancelled, want, step, data>> /\ closed' = TRUE /\ bytes' = 0
        /\ cancelled = TRUE /\ entries' = [k \in Keys |-> Absent]
    BY DEF Clear, gvars, ScopeInv, Inner, ScopeTypes
  <1>3. ScopeTypes'
    BY <1>2 DEF ScopeInv, Inner, ScopeTypes
  <1>4. Present' = {} /\ Stored' = {}
    BY <1>2 DEF Present, Stored
  <1>5. \A p \in Callers : LoadOK(p)'
    BY <1>2 DEF ScopeInv, Inner, LoadOK, Reserving
  <1> QED
    BY <1>1, <1>2, <1>3, <1>4, <1>5 DEF ScopeInv, Inner, Reservations, CloseOK

\* A step that changes neither the entries nor the scope's state, and at most
\* the group's and the caller's progress outside the load function.
Outside(p) ==
  /\ FlightStep \/ UNCHANGED gvars
  /\ UNCHANGED <<entries, bytes, cancelled, closed, data>>
  /\ \A q \in Callers \ {p} : proc'[q] = proc[q] /\ step'[q] = step[q] /\ want'[q] = want[q]
  /\ step[p] = "none" /\ step'[p] \in {"none", "lookup"}
  /\ step'[p] = "lookup" <=> proc'[p].pc = "load"
  /\ want'[p] # None => proc'[p].pc = "idle"
  /\ want' \in [Callers -> Keys \cup {None}]
  /\ step' \in [Callers -> {"none", "lookup", "fetch", "commit", "undo"}]

LEMMA OutsideStep ==
  ASSUME ScopeInv, NEW p \in Callers, Outside(p)
  PROVE  ScopeInv'
  <1>1. IInv'
    BY FlightInv DEF ScopeInv, Inner, Outside
  <1>2. ScopeTypes'
    BY DEF ScopeInv, Inner, ScopeTypes, Outside
  <1>3. CloseOK' /\ Present' = Present /\ Stored' = Stored
    BY DEF ScopeInv, CloseOK, Present, Stored, Outside
  <1>4. ASSUME NEW q \in Callers
        PROVE  LoadOK(q)' /\ (Reserving(q) => Reserving(q)' /\ proc'[q].key = proc[q].key)
    BY DEF ScopeInv, Inner, LoadOK, Reserving, Outside
  <1>5. Reservations'
    BY <1>3, <1>4 DEF ScopeInv, Inner, Reservations
  <1> QED
    BY <1>1, <1>2, <1>3, <1>4, <1>5 DEF ScopeInv, Inner

\* Resolve only notes the key.
LEMMA ResolveKept == ASSUME ScopeInv, NEW p \in Callers, NEW k \in Keys, Resolve(p, k)
                     PROVE  ScopeInv'
  <1>1. /\ UNCHANGED gvars /\ UNCHANGED <<entries, bytes, cancelled, closed, data, proc, step>>
        /\ proc[p].pc = "idle" /\ want' = [want EXCEPT ![p] = k]
    BY DEF Resolve, gvars
  <1>2. /\ want' \in [Callers -> Keys \cup {None}]
        /\ \A q \in Callers \ {p} : want'[q] = want[q]
        /\ step' \in [Callers -> {"none", "lookup", "fetch", "commit", "undo"}]
    BY <1>1 DEF ScopeInv, Inner, ScopeTypes
  <1>3. step[p] = "none"
    BY <1>1 DEF ScopeInv, Inner, LoadOK
  <1> QED
    BY <1>1, <1>2, <1>3, OutsideStep DEF Outside

\* Do begins or joins a call: a new leader enters the load function.
LEMMA DoKept == ASSUME ScopeInv, NEW p \in Callers, Do(p) PROVE ScopeInv'
  <1>1. want[p] \in Keys /\ proc[p].pc = "idle" /\ step[p] = "none"
    BY DEF Do, ScopeInv, Inner, ScopeTypes, LoadOK
  <1>2. /\ UNCHANGED <<entries, bytes, cancelled, closed, data>>
        /\ want' = [want EXCEPT ![p] = None]
        /\ step' = [step EXCEPT ![p] = IF proc'[p].pc = "load" THEN "lookup" ELSE "none"]
    BY DEF Do
  <1>3. FlightStep \/ UNCHANGED gvars
    BY <1>1 DEF Do, FlightStep
  <1>4. \A q \in Callers \ {p} : proc'[q] = proc[q]
    <2>1. proc \in [Callers -> Proc]
      BY DEF ScopeInv, Inner, IInv, Types
    <2>2. UNCHANGED gvars \/ Join(p, want[p]) \/ Lead(p, want[p])
      BY DEF Do, Begin
    <2> QED
      BY <2>1, <2>2 DEF Join, Lead, gvars
  <1>5. /\ \A q \in Callers \ {p} : step'[q] = step[q] /\ want'[q] = want[q]
        /\ step'[p] = IF proc'[p].pc = "load" THEN "lookup" ELSE "none"
        /\ want'[p] = None
        /\ want' \in [Callers -> Keys \cup {None}]
        /\ step' \in [Callers -> {"none", "lookup", "fetch", "commit", "undo"}]
    BY <1>2 DEF ScopeInv, Inner, ScopeTypes
  <1> QED
    BY <1>1, <1>2, <1>3, <1>4, <1>5, OutsideStep DEF Outside

\* The steps of Do outside the load touch the group alone.
LEMMA DoStepKept == ASSUME ScopeInv, NEW p \in Callers, DoStep(p), UNCHANGED svars
                    PROVE  ScopeInv'
  <1>1. /\ proc[p].pc \in {"wait", "release", "finish", "abort"}
        /\ \A q \in Callers \ {p} : proc'[q] = proc[q]
        /\ proc'[p].pc # "load"
    <2>1. proc \in [Callers -> Proc]
      BY DEF ScopeInv, Inner, IInv, Types
    <2>2. CASE Wait(p)
      <3>1. PICK r : proc' = [proc EXCEPT ![p].pc = "release", ![p].result = r]
        BY <2>2, Zenon DEF Wait
      <3> QED
        BY <2>1, <2>2, <3>1 DEF Wait, Proc
    <2>3. CASE release(p) \/ FinishDeferred(p)
      BY <2>1, <2>3 DEF release, FinishDeferred, Idle, At
    <2>4. CASE FinishLoaded(p)
      BY <2>1, <2>4 DEF FinishLoaded, Proc
    <2> QED
      BY <2>2, <2>3, <2>4 DEF DoStep
  <1>2. step[p] = "none" /\ want[p] = None
    BY <1>1 DEF ScopeInv, Inner, LoadOK
  <1>3. FlightStep
    BY DEF FlightStep
  <1> QED
    BY <1>1, <1>2, <1>3, OutsideStep DEF Outside, svars, ScopeInv, Inner, ScopeTypes

-----------------------------------------------------------------------------
\* p moves on inside the load function and its entry is or becomes a
\* reservation, or stays as it is.
Moves(p, s, d) ==
  /\ step' = [step EXCEPT ![p] = s] /\ s \in {"fetch", "commit", "undo"}
  /\ data' = [data EXCEPT ![p] = d] /\ d \in Results \cup {None, Err("panic")}
  /\ s = "commit" => \E v \in Values : d = Ok(v)
  /\ s = "undo" => d \in Results \cup {Err("panic")}

Inside(p, k) ==
  /\ UNCHANGED gvars /\ UNCHANGED <<bytes, cancelled, closed, want>>
  /\ \E s, d : Moves(p, s, d)
  /\ entries' \in [Keys -> Entry]
  /\ \A j \in Keys \ {k} : entries'[j] = entries[j]
  /\ entries'[k] = Reserved \/ (entries' = entries /\ Reserving(p))

LEMMA InsideStep ==
  ASSUME ScopeInv, NEW p \in Callers, NEW k \in Keys, k = proc[p].key, step[p] # "none",
         Inside(p, k)
  PROVE  Inner'
  <1>1. IInv' /\ UNCHANGED <<proc, want, closed>>
    BY FlightInv DEF ScopeInv, Inner, gvars, Inside
  <1>2. PICK s, d : Moves(p, s, d)
    BY DEF Inside
  <1>3. /\ step'[p] = s /\ data'[p] = d
        /\ \A q \in Callers \ {p} : step'[q] = step[q] /\ data'[q] = data[q]
        /\ step' \in [Callers -> {"none", "lookup", "fetch", "commit", "undo"}]
        /\ data' \in [Callers -> Results \cup {None, Err("panic")}]
    BY <1>2 DEF ScopeInv, Inner, ScopeTypes, Moves
  <1>4. ScopeTypes'
    BY <1>3 DEF ScopeInv, Inner, ScopeTypes, Entry, Inside
  <1>5. ASSUME NEW q \in Callers PROVE LoadOK(q)'
    <2>1. LoadOK(q)
      BY DEF ScopeInv, Inner
    <2>2. CASE q = p
      BY <1>1, <1>2, <1>3, <2>1, <2>2 DEF LoadOK, Reserving, Inside, Moves
    <2>3. CASE q # p
      <3>1. Reserving(q) => entries'[proc[q].key] = entries[proc[q].key]
        BY <2>3, Loader DEF Reserving, Inside
      <3> QED
        BY <1>1, <1>3, <2>1, <2>3, <3>1 DEF LoadOK, Reserving
    <2> QED
      BY <2>2, <2>3
  <1>6. Reservations'
    <2> SUFFICES ASSUME NEW j \in Keys, entries'[j] = Reserved
                 PROVE  \E q \in Callers : proc'[q].key = j /\ Reserving(q)'
      BY <1>4 DEF Reservations, Present, Stored, ScopeTypes
    <2>1. CASE j = k
      BY <1>1, <1>2, <1>3, <2>1 DEF Reserving, Moves
    <2>2. CASE j # k
      <3>1. entries[j] = Reserved /\ Reservations
        BY <2>2 DEF ScopeInv, Inner, Inside
      <3>2. PICK q \in Callers : proc[q].key = j /\ Reserving(q)
        BY <3>1, Distinct DEF Reservations, Present, Stored
      <3> QED
        BY <1>1, <1>3, <2>2, <3>2 DEF Reserving
    <2> QED
      BY <2>1, <2>2
  <1> QED
    BY <1>1, <1>4, <1>5, <1>6 DEF Inner

\* The lookup returns a retained value, finds no room, or reserves the entry.
LEMMA LookupKept == ASSUME ScopeInv, NEW p \in Callers, Lookup(p) PROVE ScopeInv'
  <1>1. PICK k \in Keys : k = proc[p].key /\ step[p] = "lookup"
    BY Loader DEF Lookup
  <1>2. UNCHANGED <<bytes, cancelled, closed, want>> /\ bytes' \in Nat
    BY DEF Lookup, ScopeInv, Inner, ScopeTypes
  <1>3. ASSUME NEW r \in Results, Return(p, r), entries' = entries PROVE ScopeInv'
    <2>1. LoadEnded(p)
      BY <1>3 DEF Return, LoadEnded
    <2>2. EndsLoad(p, k)
      BY <1>1, <1>2, <1>3, <2>1 DEF ScopeInv, Inner, ScopeTypes, Entry, EndsLoad
    <2>3. Inner'
      BY <1>1, <2>2, EndKept
    <2>4. CloseOK'
      BY <1>2, <1>3 DEF ScopeInv, CloseOK, Stored
    <2> QED
      BY <2>3, <2>4 DEF ScopeInv
  <1>4. CASE k \in Stored /\ Return(p, Ok(entries[k][2])) /\ UNCHANGED entries
    <2>1. PICK v \in Values : entries[k] = Ok(v)
      BY <1>4 DEF ScopeInv, Inner, ScopeTypes, Stored
    <2>2. Ok(entries[k][2]) \in Results
      BY <2>1, Distinct DEF Results
    <2> QED
      BY <1>3, <1>4, <2>2
  <1>5. CASE Return(p, Err("capacity")) /\ UNCHANGED entries
    <2>1. Err("capacity") \in Results
      BY DEF Results, Errors
    <2> QED
      BY <1>3, <1>5, <2>1
  <1>6. CASE /\ k \notin Stored /\ Cardinality(Present) < MaxEntries
             /\ entries' = [entries EXCEPT ![k] = Reserved]
             /\ step' = [step EXCEPT ![p] = "fetch"]
             /\ UNCHANGED <<gvars, data>>
    <2>1. /\ entries' \in [Keys -> Entry] /\ entries'[k] = Reserved
          /\ \A j \in Keys \ {k} : entries'[j] = entries[j]
          /\ Stored' = Stored
      BY Zenon, <1>6, UnstoredChange, Distinct DEF ScopeInv, Inner
    <2>2. Moves(p, "fetch", data[p])
      BY <1>6 DEF ScopeInv, Inner, ScopeTypes, Moves
    <2>3. Inner'
      <3>1. Inside(p, k)
        BY <1>2, <1>6, <2>1, <2>2, Zenon DEF Inside
      <3> QED
        BY <1>1, <3>1, InsideStep
    <2>4. CloseOK'
      BY <1>2, <2>1 DEF ScopeInv, CloseOK
    <2> QED
      BY <2>3, <2>4 DEF ScopeInv
  <1> QED
    BY <1>1, <1>4, <1>5, <1>6 DEF Lookup

\* The provider answers: the scope does not change.
LEMMA FetchKept == ASSUME ScopeInv, NEW p \in Callers, Fetch(p) PROVE ScopeInv'
  <1>1. PICK k \in Keys : k = proc[p].key /\ step[p] = "fetch" /\ Reserving(p)
    BY Loader DEF Fetch, Reserving
  <1>2. UNCHANGED gvars /\ UNCHANGED <<entries, bytes, cancelled, closed, want>>
    BY DEF Fetch
  <1>3. \E s, d : Moves(p, s, d)
    <2>1. ASSUME NEW e \in {"load", "panic"}, step' = [step EXCEPT ![p] = "undo"],
                 data' = [data EXCEPT ![p] = Err(e)]
          PROVE  Moves(p, "undo", Err(e))
      BY <2>1 DEF Moves, Results, Errors
    <2>2. ASSUME NEW v \in Values, v <= MaxValueBytes,
                 step' = [step EXCEPT ![p] = "commit"], data' = [data EXCEPT ![p] = Ok(v)]
          PROVE  Moves(p, "commit", Ok(v))
      BY <2>2 DEF Moves, Results
    <2>3. ASSUME step' = [step EXCEPT ![p] = "undo"],
                 data' = [data EXCEPT ![p] = Err("capacity")]
          PROVE  Moves(p, "undo", Err("capacity"))
      BY <2>3 DEF Moves, Results, Errors
    <2> QED
      BY <2>1, <2>2, <2>3 DEF Fetch
  <1>4. Inside(p, k)
    BY <1>1, <1>2, <1>3 DEF ScopeInv, Inner, ScopeTypes, Entry, Inside
  <1>5. Inner'
    BY <1>1, <1>4, InsideStep
  <1>6. CloseOK'
    BY SMTT(30), <1>2 DEF ScopeInv, CloseOK, Stored
  <1> QED
    BY <1>5, <1>6 DEF ScopeInv
\* The second critical section: a value is stored only while the scope is open
\* and has room for it.
LEMMA CommitKept == ASSUME ScopeInv, NEW p \in Callers, Commit(p) PROVE ScopeInv'
  <1>1. PICK k \in Keys : k = proc[p].key /\ step[p] = "commit" /\ Reserving(p)
    BY Loader DEF Commit, Reserving
  <1>2. PICK v \in Values : data[p] = Ok(v)
    BY <1>1 DEF ScopeInv, Inner, LoadOK
  <1>3. UNCHANGED <<cancelled, closed, want>>
    BY DEF Commit
  <1>4. CASE /\ step' = [step EXCEPT ![p] = "undo"]
             /\ data' = [data EXCEPT ![p] =
                           Err(IF cancelled THEN "cancelled" ELSE "capacity")]
             /\ UNCHANGED <<gvars, entries, bytes>>
    <2>1. Err(IF cancelled THEN "cancelled" ELSE "capacity") \in Results
      BY DEF Results, Errors
    <2>2. Moves(p, "undo", Err(IF cancelled THEN "cancelled" ELSE "capacity"))
      BY <1>4, <2>1, Zenon DEF Moves
    <2>3. Inside(p, k)
      BY <1>1, <1>3, <1>4, <2>2 DEF ScopeInv, Inner, ScopeTypes, Entry, Inside
    <2>4. Inner'
      BY <1>1, <2>3, InsideStep
    <2>5. CloseOK'
      BY <1>3, <1>4 DEF ScopeInv, CloseOK, Stored
    <2> QED
      BY <2>4, <2>5 DEF ScopeInv
  <1>5. CASE /\ ~cancelled /\ data[p][2] <= MaxBytes - bytes
             /\ entries' = [entries EXCEPT ![proc[p].key] = data[p]]
             /\ bytes' = bytes + data[p][2]
             /\ Return(p, data[p])
    <2>1. ~closed /\ entries[k] = Reserved
      BY SMTT(30), <1>1, <1>5 DEF ScopeInv, Inner, CloseOK, LoadOK
    <2>2. /\ v <= MaxBytes - bytes /\ entries' = [entries EXCEPT ![k] = Ok(v)]
          /\ bytes' = bytes + v
      BY <1>1, <1>2, <1>5, Distinct
    <2>3. bytes' \in Nat
      BY <2>2, ScopeConstants DEF ScopeInv, Inner, ScopeTypes, ScopeConstants
    <2>4. LoadEnded(p)
      BY <1>2, <1>5 DEF Return, LoadEnded, Results
    <2>5. /\ entries' \in [Keys -> Entry] /\ entries'[k] # Reserved
          /\ \A j \in Keys \ {k} : entries'[j] = entries[j]
      BY <2>2, Distinct DEF ScopeInv, Inner, ScopeTypes, Entry
    <2>6. EndsLoad(p, k)
      BY <1>3, <2>3, <2>4, <2>5 DEF EndsLoad
    <2>7. Inner'
      BY <1>1, <2>6, EndKept
    <2>8. CloseOK'
      BY <1>3, <2>1 DEF CloseOK
    <2> QED
      BY <2>7, <2>8 DEF ScopeInv
  <1> QED
    BY SMTT(30), <1>4, <1>5 DEF Commit

\* A load past its lookup has no value under its key.
LEMMA ReservedUnstored ==
  ASSUME ScopeInv, NEW p \in Callers, Reserving(p)
  PROVE  proc[p].key \notin Stored
  BY DEF ScopeInv, Inner, LoadOK, CloseOK, Stored

\* The deferred delete drops the reservation, or nothing after Close.
LEMMA UndoKept == ASSUME ScopeInv, NEW p \in Callers, Undo(p) PROVE ScopeInv'
  <1>1. PICK k \in Keys : k = proc[p].key /\ step[p] = "undo" /\ Reserving(p)
    BY Loader DEF Undo, Reserving
  <1>2. UNCHANGED <<bytes, cancelled, closed, want>> /\ bytes' \in Nat
    BY DEF Undo, ScopeInv, Inner, ScopeTypes
  <1>3. /\ entries' \in [Keys -> Entry] /\ entries'[k] = Absent
        /\ \A j \in Keys \ {k} : entries'[j] = entries[j]
        /\ Stored' = Stored
    BY Zenon, <1>1, ReservedUnstored, UnstoredChange DEF ScopeInv, Inner, Undo
  <1>4. data[p] \in Results \cup {Err("panic")}
    BY SMTT(30), <1>1 DEF ScopeInv, Inner, LoadOK
  <1>5. LoadEnded(p)
    BY <1>4, Zenon DEF Undo, Return, LoadEnded
  <1>6. Inner'
    <2>1. EndsLoad(p, k)
      BY <1>2, <1>3, <1>5, Distinct DEF EndsLoad
    <2> QED
      BY <1>1, <2>1, EndKept
  <1>7. CloseOK'
    BY <1>2, <1>3 DEF ScopeInv, CloseOK
  <1> QED
    BY SMTT(30), <1>6, <1>7 DEF ScopeInv

\* Every step of the scope keeps the invariant.
LEMMA ScopeNextInv == ScopeInv /\ [Next]_vars => ScopeInv'
  <1> SUFFICES ASSUME ScopeInv, [Next]_vars PROVE ScopeInv'
    OBVIOUS
  <1>1. CASE UNCHANGED vars
    <2>1. IInv'
      BY SMTT(30), <1>1, FlightInv DEF vars, gvars, ScopeInv, Inner
    <2>2. ScopeTypes' /\ (\A p \in Callers : LoadOK(p)')
      BY SMTT(30), <1>1 DEF vars, ScopeInv, Inner, ScopeTypes, LoadOK, Reserving
    <2>3. Reservations' /\ CloseOK'
      BY <1>1 DEF vars, ScopeInv, Inner, Reservations, CloseOK, Present, Stored, Reserving
    <2> QED
      BY <2>1, <2>2, <2>3 DEF ScopeInv, Inner
  <1>2. ASSUME NEW p \in Callers, ResolveStep(p) PROVE ScopeInv'
    BY <1>2, DoKept, LookupKept, FetchKept, CommitKept, UndoKept, DoStepKept DEF ResolveStep
  <1> QED
    BY <1>1, <1>2, CancelStep, ClearStep, ResolveKept DEF Next

\* The invariant holds in every reachable state.
LEMMA AlwaysScopeInv == Spec => []ScopeInv
  BY ScopeInitInv, ScopeNextInv, PTL DEF Spec

-----------------------------------------------------------------------------
\* Once Close has returned nothing is retained, not even by a load that was past
\* its own context check.
THEOREM ScopeClosedEmpty == Spec => []ClosedEmpty
  <1>1. ScopeInv => ClosedEmpty
    BY DEF ScopeInv, Inner, CloseOK, ClosedEmpty
  <1> QED
    BY <1>1, AlwaysScopeInv, PTL

\* The flights of the group are sound when the scope drives it: one load per
\* key, shared with the outcome of its own leader and never without one.
THEOREM ScopeFlights == Spec => []FlightSound
  <1>1. ScopeInv => FlightSound
    BY InvFlights DEF ScopeInv, Inner
  <1> QED
    BY <1>1, AlwaysScopeInv, PTL

\* A retained value is what every later Resolve of its key returns: no step
\* changes or drops it before Close.
THEOREM ScopeMemoStable == Spec => MemoStable
  <1> DEFINE Keeps == \A k \in Stored : entries'[k] = entries[k] \/ closed'
  <1>1. ScopeInv /\ [Next]_vars => Keeps \/ UNCHANGED vars
    <2> SUFFICES ASSUME ScopeInv, Next, NEW k \in Stored, ~closed' PROVE entries'[k] = entries[k]
      BY DEF Keeps
    <2>1. entries \in [Keys -> Entry] /\ k \in Keys
      BY DEF ScopeInv, Inner, ScopeTypes, Entry, Stored
    <2>2. ASSUME NEW p \in Callers, NEW x, entries' = [entries EXCEPT ![proc[p].key] = x],
                 proc[p].key \notin Stored
          PROVE  entries'[k] = entries[k]
      BY <2>1, <2>2
    <2>3. ASSUME NEW p \in Callers, Lookup(p) PROVE entries'[k] = entries[k]
      BY <2>2, <2>3 DEF Lookup
    <2>4. ASSUME NEW p \in Callers, Commit(p) PROVE entries'[k] = entries[k]
      <3>1. proc[p].key \notin Stored
        BY <2>4, ReservedUnstored DEF Commit, Reserving
      <3> QED
        BY <2>2, <2>4, <3>1 DEF Commit
    <2>5. ASSUME NEW p \in Callers, Undo(p) PROVE entries'[k] = entries[k]
      <3>1. proc[p].key \notin Stored
        BY SMTT(30), <2>5, ReservedUnstored DEF Undo, Reserving
      <3> QED
        BY SMTT(30), <2>2, <2>5, <3>1 DEF Undo
    <2>6. CASE Cancel \/ \E p \in Callers, j \in Keys : Resolve(p, j)
      BY <2>6 DEF Cancel, Resolve
    <2>7. ASSUME NEW p \in Callers, Do(p) \/ Fetch(p) \/ UNCHANGED svars
          PROVE  entries'[k] = entries[k]
      BY <2>7 DEF Do, Fetch, svars
    <2> QED
      BY SMTT(30), <2>3, <2>4, <2>5, <2>6, <2>7 DEF Next, ResolveStep, Clear
  <1>2. ScopeInv /\ [Next]_vars => [Keeps]_vars
    BY <1>1
  <1> QED
    BY <1>2, AlwaysScopeInv, PTL DEF Spec, MemoStable

-----------------------------------------------------------------------------
Room ==
  /\ IsFiniteSet(Present) /\ Cardinality(Present) <= MaxEntries
  /\ IsFiniteSet(Retained) /\ bytes = Cardinality(Retained) /\ bytes <= MaxBytes

\* An entry without a value becomes a reservation or absent: what is retained
\* stays the same.
LEMMA UnstoredRoom ==
  ASSUME ScopeTypes, NEW k \in Keys, k \notin Stored, NEW x \in {Absent, Reserved},
         entries' = [entries EXCEPT ![k] = x]
  PROVE  /\ Retained' = Retained
         /\ Present' = IF x = Absent THEN Present \ {k} ELSE Present \cup {k}
  <1>1. /\ entries'[k] = x /\ Stored' = Stored
        /\ \A j \in Keys \ {k} : entries'[j] = entries[j]
    BY UnstoredChange, Zenon
  <1>2. {{j} \X (1..entries'[j][2]) : j \in Stored} = {{j} \X (1..entries[j][2]) : j \in Stored}
    <2>1. \A j \in Stored : entries'[j] = entries[j]
      BY <1>1 DEF Stored
    <2> QED
      BY <2>1, Zenon
  <1>3. Retained' = Retained
    BY <1>1, <1>2 DEF Retained
  <1>4. Present' = IF x = Absent THEN Present \ {k} ELSE Present \cup {k}
    BY <1>1, Distinct DEF Present
  <1> QED
    BY <1>3, <1>4

\* Nothing new is retained or reserved.
LEMMA RoomKept ==
  ASSUME Counting, Room, Present' \subseteq Present, Retained' = Retained, bytes' = bytes
  PROVE  Room'
  <1>1. IsFiniteSet(Present) /\ Cardinality(Present) <= MaxEntries /\ Present' \in SUBSET Present
    BY DEF Room
  <1>2. /\ IsFiniteSet(Present') /\ Cardinality(Present') <= Cardinality(Present)
        /\ Cardinality(Present') \in Nat /\ Cardinality(Present) \in Nat
    BY <1>1 DEF Counting
  <1>3. Cardinality(Present') <= MaxEntries
    BY <1>1, <1>2, ScopeConstants DEF ScopeConstants
  <1> QED
    BY <1>2, <1>3 DEF Room

\* The lookup reserves an entry below the limit.
LEMMA ReserveRoom ==
  ASSUME Counting, ScopeTypes, Room, NEW k \in Keys, k \notin Stored, Cardinality(Present) < MaxEntries,
         entries' = [entries EXCEPT ![k] = Reserved], bytes' = bytes
  PROVE  Room'
  <1>1. Retained' = Retained /\ Present' = Present \cup {k}
    BY Zenon, UnstoredRoom, Distinct
  <1>2. IsFiniteSet(Present) /\ Cardinality(Present) \in Nat
    BY DEF Counting, Room
  <1>3. /\ IsFiniteSet(Present \cup {k})
        /\ Cardinality(Present \cup {k}) =
             IF k \in Present THEN Cardinality(Present) ELSE Cardinality(Present) + 1
    BY <1>2 DEF Counting
  <1>4. IsFiniteSet(Present') /\ Cardinality(Present') <= MaxEntries
    BY <1>1, <1>2, <1>3, ScopeConstants DEF ScopeConstants
  <1> QED
    BY <1>1, <1>4 DEF Room

\* What a Scope does to its Group.
LEMMA ScopeSteps ==
  ASSUME ScopeInv, [Next]_vars
  PROVE  FlightStep \/ UNCHANGED gvars
  <1>1. ASSUME NEW p \in Callers, NEW r \in Results, Return(p, r) PROVE FlightStep
    BY SMTT(30), <1>1 DEF Return, FlightStep
  <1>2. ASSUME NEW p \in Callers, Do(p) \/ DoStep(p) PROVE FlightStep \/ UNCHANGED gvars
    BY <1>2 DEF Do, FlightStep, ScopeInv, Inner, ScopeTypes
  <1>3. ASSUME NEW p \in Callers, Lookup(p) PROVE FlightStep \/ UNCHANGED gvars
    <2>1. Err("capacity") \in Results
      BY DEF Results, Errors
    <2>2. proc[p].key \in Stored => Ok(entries[proc[p].key][2]) \in Results
      <3>1. proc[p].key \in Stored => \E v \in Values : entries[proc[p].key] = Ok(v)
        BY DEF ScopeInv, Inner, ScopeTypes, Stored
      <3> QED
        BY <3>1, Distinct DEF Results
    <2> QED
      BY <1>1, <1>3, <2>1, <2>2, Zenon DEF Lookup
  <1>4. ASSUME NEW p \in Callers, Commit(p) PROVE FlightStep \/ UNCHANGED gvars
    <2>1. data[p] \in Results
      BY <1>4 DEF ScopeInv, Inner, LoadOK, Commit, Results
    <2> QED
      BY <1>1, <1>4, <2>1, Zenon DEF Commit
  <1>5. ASSUME NEW p \in Callers, Undo(p) PROVE FlightStep
    <2>1. data[p] \in Results \cup {Err("panic")}
      BY <1>5 DEF ScopeInv, Inner, LoadOK, Undo
    <2> QED
      BY <1>1, <1>5, <2>1, Zenon DEF Undo, FlightStep
  <1> QED
    BY Zenon, <1>2, <1>3, <1>4, <1>5 DEF Next, ResolveStep, Cancel, Clear, Resolve, Fetch, vars, gvars

-----------------------------------------------------------------------------
F == INSTANCE FiniteSetTheorems

\* The library counts as FiniteSets does.
LEMMA SameCount ==
  ASSUME NEW S
  PROVE  (F!IsFiniteSet(S) <=> IsFiniteSet(S)) /\ F!Cardinality(S) = Cardinality(S)
  BY DEF F!Cardinality, Cardinality, F!IsFiniteSet, IsFiniteSet

LEMMA CountingHolds == Counting
  <1>1. \A S : IsFiniteSet(S) => Cardinality(S) \in Nat
    BY SameCount, F!FS_CardinalityType
  <1>2. IsFiniteSet({}) /\ Cardinality({}) = 0
    BY SameCount, F!FS_EmptySet
  <1>3. \A S : IsFiniteSet(S) =>
          \A T \in SUBSET S : IsFiniteSet(T) /\ Cardinality(T) <= Cardinality(S)
    BY SameCount, F!FS_Subset
  <1>4. \A S, x : IsFiniteSet(S) =>
          /\ IsFiniteSet(S \cup {x})
          /\ Cardinality(S \cup {x}) = IF x \in S THEN Cardinality(S) ELSE Cardinality(S) + 1
    BY SameCount, F!FS_AddElement
  <1>5. \A S, x : IsFiniteSet(S) =>
          /\ IsFiniteSet(S \ {x})
          /\ Cardinality(S \ {x}) = IF x \in S THEN Cardinality(S) - 1 ELSE Cardinality(S)
    BY SameCount, F!FS_RemoveElement
  <1> QED
    BY <1>1, <1>2, <1>3, <1>4, <1>5 DEF Counting

\* The n bytes of one value are added to a set without any.
LEMMA MoreBytes ==
  ASSUME NEW S, IsFiniteSet(S), NEW x, NEW n \in Nat, S \cap ({x} \X (1..n)) = {}
  PROVE  /\ IsFiniteSet(S \cup ({x} \X (1..n)))
         /\ Cardinality(S \cup ({x} \X (1..n))) = Cardinality(S) + n
  <1> DEFINE T == {x} \X (1..n)
  <1>1. F!IsFiniteSet({x}) /\ F!Cardinality({x}) = 1
    BY F!FS_Singleton
  <1>2. F!IsFiniteSet(1..n) /\ F!Cardinality(1..n) = n
    BY F!FS_Interval
  <1>3. F!IsFiniteSet(T) /\ F!Cardinality(T) = F!Cardinality({x}) * F!Cardinality(1..n)
    BY Zenon, <1>1, <1>2, F!FS_Product
  <1>4. S \cap T = {}
    OBVIOUS
  <1> HIDE DEF T
  <1>5. F!Cardinality(T) = n
    BY <1>1, <1>2, <1>3
  <1>6. /\ F!IsFiniteSet(S \cup T)
        /\ F!Cardinality(S \cup T) =
             F!Cardinality(S) + F!Cardinality(T) - F!Cardinality(S \cap T)
    BY <1>3, SameCount, F!FS_Union
  <1>7. F!Cardinality(S \cap T) = 0
    BY <1>4, F!FS_EmptySet
  <1>8. IsFiniteSet(S \cup T) /\ Cardinality(S \cup T) = Cardinality(S) + n
    BY <1>5, <1>6, <1>7, SameCount, F!FS_CardinalityType
  <1> QED
    BY <1>8 DEF T

\* A value takes the place of a reservation: as many bytes as it is long are
\* retained in addition.
LEMMA CommitRoom ==
  ASSUME ScopeTypes, Room, NEW k \in Keys, entries[k] = Reserved, NEW v \in Values,
         v <= MaxBytes - bytes, entries' = [entries EXCEPT ![k] = Ok(v)], bytes' = bytes + v
  PROVE  Room'
  <1>1. /\ entries \in [Keys -> Entry] /\ bytes \in Nat /\ v \in Nat /\ MaxBytes \in Nat
        /\ IsFiniteSet(Retained) /\ bytes = Cardinality(Retained)
    BY ScopeConstants DEF ScopeTypes, Entry, Room, ScopeConstants
  <1>2. /\ entries'[k] = Ok(v) /\ entries'[k][2] = v
        /\ \A j \in Keys \ {k} : entries'[j] = entries[j]
    BY <1>1, Distinct
  <1>3. Present' = Present
    BY <1>2, Distinct DEF Present
  <1>4. Stored' = Stored \cup {k} /\ k \notin Stored
    BY <1>2, Distinct DEF Stored
  <1> DEFINE new == {k} \X (1..v)
  <1>5. Retained' = Retained \cup new
    <2>1. \A j \in Stored : entries'[j] = entries[j]
      BY <1>2, <1>4 DEF Stored
    <2>2. \A x : x \in Retained <=> \E j \in Stored : x \in {j} \X (1..entries[j][2])
      BY Zenon DEF Retained
    <2>3. \A x : x \in Retained' <=> \E j \in Stored' : x \in {j} \X (1..entries'[j][2])
      BY Zenon DEF Retained
    <2>4. {k} \X (1..entries'[k][2]) = new
      BY <1>2
    <2> HIDE DEF new
    <2>5. \A x : x \in Retained' <=> x \in Retained \/ x \in new
      BY <1>4, <2>1, <2>2, <2>3, <2>4, Zenon
    <2> QED
      BY <2>5
  <1>6. Retained \cap new = {}
    <2> SUFFICES ASSUME NEW j \in Stored, NEW x \in {j} \X (1..entries[j][2]), x \in new
                 PROVE  FALSE
      BY DEF Retained
    <2>1. x[1] = j /\ x[1] = k
      OBVIOUS
    <2> QED
      BY <1>4, <2>1
  <1>7. IsFiniteSet(Retained') /\ Cardinality(Retained') = Cardinality(Retained) + v
    BY Zenon, <1>1, <1>5, <1>6, MoreBytes
  <1> HIDE DEF new
  <1>8. bytes' <= MaxBytes
    BY <1>1
  <1> QED
    BY <1>1, <1>3, <1>7, <1>8 DEF Room

\* The entries and the bytes change in Close, in the lookup, in the commit and
\* in the deferred delete; each keeps them within the limits.
LEMMA RoomNext ==
  ASSUME ScopeInv, Room, [Next]_vars
  PROVE  Room'
  <1>1. CASE UNCHANGED <<entries, bytes>>
    BY SMTT(30), <1>1 DEF Room, Present, Retained, Stored
  <1>2. CASE Clear
    <2>1. Present' = {} /\ Stored' = {} /\ bytes' = 0
      BY <1>2 DEF Clear, Present, Stored
    <2>2. Retained' = {}
      BY <2>1 DEF Retained
    <2> QED
      BY <2>1, <2>2, ScopeConstants, CountingHolds DEF Counting, Room, ScopeConstants
  <1>3. ASSUME NEW p \in Callers, step[p] # "none" PROVE proc[p].key \in Keys
    BY <1>3, Loader
  <1>4. ScopeTypes
    BY DEF ScopeInv, Inner
  <1>5. ASSUME NEW p \in Callers, Lookup(p) PROVE Room'
    <2>1. PICK k \in Keys : k = proc[p].key
      BY <1>3, <1>5 DEF Lookup
    <2>2. \/ UNCHANGED <<entries, bytes>>
          \/ /\ k \notin Stored /\ Cardinality(Present) < MaxEntries
             /\ entries' = [entries EXCEPT ![k] = Reserved] /\ bytes' = bytes
      BY <1>5, <2>1, Zenon DEF Lookup
    <2> QED
      BY SMTT(30), <1>1, <1>4, <2>2, ReserveRoom, CountingHolds
  <1>6. ASSUME NEW p \in Callers, Commit(p) PROVE Room'
    <2> SUFFICES ASSUME ~cancelled, data[p][2] <= MaxBytes - bytes,
                        entries' = [entries EXCEPT ![proc[p].key] = data[p]],
                        bytes' = bytes + data[p][2]
                 PROVE  Room'
      BY <1>1, <1>6, Zenon DEF Commit
    <2>1. PICK k \in Keys : k = proc[p].key /\ step[p] = "commit"
      BY <1>3, <1>6, Zenon DEF Commit
    <2>2. PICK v \in Values : data[p] = Ok(v) /\ data[p][2] = v
      BY <2>1, Distinct, SMTT(30) DEF ScopeInv, Inner, LoadOK
    <2>3. entries[k] = Reserved
      BY <2>1 DEF ScopeInv, Inner, CloseOK, LoadOK, Reserving
    <2> QED
      BY Zenon, <1>4, <2>1, <2>2, <2>3, CommitRoom
  <1>7. ASSUME NEW p \in Callers, Undo(p) PROVE Room'
    <2>1. /\ proc[p].key \in Keys \ Stored /\ bytes' = bytes
          /\ entries' = [entries EXCEPT ![proc[p].key] = Absent]
      BY <1>3, <1>7, ReservedUnstored DEF Undo, Reserving
    <2>2. Present' \subseteq Present /\ Retained' = Retained
      BY Zenon, <1>4, <2>1, UnstoredRoom
    <2> QED
      BY <2>1, <2>2, RoomKept, CountingHolds, SMTT(30)
  <1>8. CASE Cancel \/ \E p \in Callers, k \in Keys : Resolve(p, k)
    BY SMTT(30), <1>1, <1>8 DEF Cancel, Resolve
  <1>9. ASSUME NEW p \in Callers, Do(p) \/ Fetch(p) \/ UNCHANGED svars PROVE Room'
    BY <1>1, <1>9 DEF Do, Fetch, svars
  <1> QED
    BY <1>1, <1>2, <1>5, <1>6, <1>7, <1>8, <1>9 DEF Next, ResolveStep, vars

\* Limits of Group: the counter of a call is the number of callers attached to
\* it, and neither the followers nor the live keys exceed their limit.
THEOREM GroupFollowers == GroupSpec => []FollowersCounted
  <1>1. GroupInit => IInv /\ CountInv
    BY InitInv, InitCount, CountingHolds
  <1>2. IInv /\ CountInv /\ [GroupNext]_gvars => (IInv /\ CountInv)'
    BY SMTT(30), GroupSteps, FlightInv, FlightCount, CountingHolds
  <1>3. CountInv => FollowersCounted
    BY DEF CountInv, Counted, Followers, FollowersCounted
  <1> QED
    BY <1>1, <1>2, <1>3, PTL DEF GroupSpec

\* With the counters and the limits the invariant holds in every reachable state.
LEMMA AlwaysLimits == Spec => [](ScopeInv /\ CountInv /\ Room)
  <1>1. Init => CountInv /\ Room
    <2> SUFFICES ASSUME Init PROVE Room
      BY Zenon, InitCount, CountingHolds DEF Init
    <2>1. Present = {} /\ Stored = {} /\ bytes = 0
      BY DEF Init, Present, Stored
    <2>2. Retained = {}
      BY <2>1 DEF Retained
    <2> QED
      BY <2>1, <2>2, ScopeConstants, CountingHolds DEF Counting, Room, ScopeConstants
  <1>2. ScopeInv /\ CountInv /\ Room /\ [Next]_vars => (ScopeInv /\ CountInv /\ Room)'
    <2> SUFFICES ASSUME ScopeInv, CountInv, Room, [Next]_vars
                 PROVE  ScopeInv' /\ CountInv' /\ Room'
      OBVIOUS
    <2>1. CountInv'
      BY ScopeSteps, FlightCount, CountingHolds DEF ScopeInv, Inner
    <2> QED
      BY <2>1, ScopeNextInv, RoomNext
  <1> QED
    BY <1>1, <1>2, ScopeInitInv, PTL DEF Spec

\* The byte counter of a Scope is the total length of what it retains and never
\* exceeds MaxBytes, whatever loads were in flight when Close ran.
THEOREM ScopeBytes == Spec => []BytesExact
  <1>1. Room => BytesExact
    BY DEF Room, BytesExact
  <1> QED
    BY <1>1, AlwaysLimits, PTL

\* Entries (reservations included), live keys and followers stay within their
\* limits, every reservation belongs to a load in progress, and a call's counter
\* is the number of callers attached to it.
THEOREM ScopeLimitsKept == Spec => []LimitsKept
  <1>1. ScopeInv /\ CountInv /\ Room => LimitsKept
    <2> SUFFICES ASSUME ScopeInv, CountInv, Room PROVE LimitsKept
      OBVIOUS
    <2>1. FollowersCounted
      BY DEF CountInv, Counted, Followers, FollowersCounted
    <2>2. EntriesBounded
      BY DEF ScopeInv, Inner, Room, Reservations, Reserving, EntriesBounded
    <2>3. GroupTypeOK
      <3>1. ASSUME NEW c \in Tickets PROVE call[c] \in Call
        <4>1. call[c] \in CallRec
          BY SMTT(30) DEF ScopeInv, Inner, IInv, Types
        <4>2. call[c].followers \in Nat
          BY CountingHolds DEF Counting, CountInv, Counted
        <4> QED
          BY <4>1, <4>2 DEF CallRec, Call, Shared
      <3>2. call \in [Tickets -> Call]
        BY <3>1 DEF ScopeInv, Inner, IInv, Types
      <3> QED
        BY SMTT(30), <3>2 DEF ScopeInv, Inner, IInv, Types, Holds, Shared, GroupTypeOK
    <2>4. TypeOK
      BY <2>3, Zenon DEF ScopeInv, Inner, ScopeTypes, LoadOK, TypeOK
    <2> QED
      BY <2>1, <2>2, <2>4 DEF LimitsKept
  <1> QED
    BY <1>1, AlwaysLimits, PTL
=============================================================================
