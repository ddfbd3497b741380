----------------------------- MODULE ReadScope -----------------------------
(***************************************************************************)
(* readcache.Scope: a bounded memo on top of a Group.  Resolve passes the  *)
(* group a load function that looks the key up, reserves an entry, calls   *)
(* the provider and commits its data, each under its own Scope.mu section. *)
(* A value is its own length in bytes.                                     *)
(***************************************************************************)
EXTENDS ReadGroup, TLC

CONSTANTS MaxEntries, MaxBytes, MaxValueBytes

ASSUME ScopeConstants ==  \* NewScope
  /\ Values \subseteq Nat
  /\ MaxEntries \in Nat \ {0} /\ MaxValueBytes \in Nat \ {0}
  /\ MaxBytes \in Nat /\ MaxValueBytes <= MaxBytes

VARIABLES entries,    \* by key: Absent, Reserved (nil), or the data
          bytes,
          cancelled,  \* s.ctx is done: Close, MaxAge or the parent's end
          closed,     \* Close has cleared the entries
          want,       \* the key of a Resolve that has not reached Begin
          step,       \* progress inside the load function
          data        \* the load function's local data or error

svars == <<entries, bytes, cancelled, closed, want, step, data>>
vars == <<calls, call, proc, outcome,
          entries, bytes, cancelled, closed, want, step, data>>

Absent == <<"absent">>
Reserved == <<"reserved">>
Stored == {k \in Keys : entries[k] \notin {Absent, Reserved}}
Present == {k \in Keys : entries[k] # Absent}

Init ==
  /\ GroupInit
  /\ entries = [k \in Keys |-> Absent]
  /\ bytes = 0
  /\ cancelled = FALSE /\ closed = FALSE
  /\ want = [p \in Callers |-> None]
  /\ step = [p \in Callers |-> "none"]
  /\ data = [p \in Callers |-> None]

-----------------------------------------------------------------------------
\* s.ctx ends: MaxAge passes, the parent ends, or Close calls cancel.
Cancel ==
  /\ ~cancelled
  /\ cancelled' = TRUE
  /\ UNCHANGED <<gvars, entries, bytes, closed, want, step, data>>

\* Close, after its call of cancel.  It may be called again.
Clear ==
  /\ cancelled
  /\ entries' = [k \in Keys |-> Absent]
  /\ bytes' = 0
  /\ closed' = TRUE
  /\ UNCHANGED <<gvars, cancelled, want, step, data>>

\* Resolve is called and finds s.ctx alive.
Resolve(p, k) ==
  /\ proc[p].pc = "idle" /\ want[p] = None
  /\ ~cancelled
  /\ want' = [want EXCEPT ![p] = k]
  /\ UNCHANGED <<gvars, entries, bytes, cancelled, closed, step, data>>

\* group.Do: its own context check may already see the cancellation.
Do(p) ==
  /\ want[p] # None
  /\ \/ Begin(p, want[p])
     \/ proc[p].pc = "idle" /\ UNCHANGED gvars
  /\ want' = [want EXCEPT ![p] = None]
  /\ step' = [step EXCEPT ![p] = IF proc'[p].pc = "load" THEN "lookup" ELSE "none"]
  /\ UNCHANGED <<entries, bytes, cancelled, closed, data>>

\* The load function returns r to Do.
Return(p, r) ==
  /\ LoadReturns(p, r)
  /\ step' = [step EXCEPT ![p] = "none"]
  /\ data' = [data EXCEPT ![p] = None]

\* Mutated: entries that are still loading do not count.
LookupUnreserved(p) ==
  /\ step[p] = "lookup"
  /\ LET k == proc[p].key IN
       \/ /\ k \in Stored
          /\ Return(p, Ok(entries[k][2]))
          /\ UNCHANGED entries
       \/ /\ k \notin Stored
          /\ Cardinality(Stored) >= MaxEntries
          /\ Return(p, Err("capacity"))
          /\ UNCHANGED entries
       \/ /\ k \notin Stored
          /\ Cardinality(Stored) < MaxEntries
          /\ entries' = [entries EXCEPT ![k] = Reserved]
          /\ step' = [step EXCEPT ![p] = "fetch"]
          /\ UNCHANGED <<gvars, data>>
  /\ UNCHANGED <<bytes, cancelled, closed, want>>

\* Mutated: a retained value is loaded again.
LookupIgnoringHit(p) ==
  /\ step[p] = "lookup"
  /\ \/ /\ Cardinality(Present) >= MaxEntries
        /\ Return(p, Err("capacity"))
        /\ UNCHANGED entries
     \/ /\ Cardinality(Present) < MaxEntries
        /\ entries' = [entries EXCEPT ![proc[p].key] = Reserved]
        /\ step' = [step EXCEPT ![p] = "fetch"]
        /\ UNCHANGED <<gvars, data>>
  /\ UNCHANGED <<bytes, cancelled, closed, want>>

\* A hit, a full scope, or a reservation (which counts as an entry).
Lookup(p) ==
  /\ step[p] = "lookup"
  /\ LET k == proc[p].key IN
       \/ /\ k \in Stored
          /\ Return(p, Ok(entries[k][2]))
          /\ UNCHANGED entries
       \/ /\ k \notin Stored
          /\ Cardinality(Present) >= MaxEntries
          /\ Return(p, Err("capacity"))
          /\ UNCHANGED entries
       \/ /\ k \notin Stored
          /\ Cardinality(Present) < MaxEntries
          /\ entries' = [entries EXCEPT ![k] = Reserved]
          /\ step' = [step EXCEPT ![p] = "fetch"]
          /\ UNCHANGED <<gvars, data>>
  /\ UNCHANGED <<bytes, cancelled, closed, want>>

\* External: the provider returns data that fits, data that is too large, an
\* error (or the context has ended), or it panics.
Fetch(p) ==
  /\ step[p] = "fetch"
  /\ \/ \E v \in Values :
          /\ step' = [step EXCEPT ![p] = IF v <= MaxValueBytes THEN "commit" ELSE "undo"]
          /\ data' = [data EXCEPT ![p] =
                        IF v <= MaxValueBytes THEN Ok(v) ELSE Err("capacity")]
     \/ \E e \in {"load", "panic"} :
          /\ step' = [step EXCEPT ![p] = "undo"]
          /\ data' = [data EXCEPT ![p] = Err(e)]
  /\ UNCHANGED <<gvars, entries, bytes, cancelled, closed, want>>

\* Mutated: a closed scope still stores the value.
CommitAfterCancel(p) ==
  /\ step[p] = "commit"
  /\ \/ /\ data[p][2] > MaxBytes - bytes
        /\ step' = [step EXCEPT ![p] = "undo"]
        /\ data' = [data EXCEPT ![p] = Err("capacity")]
        /\ UNCHANGED <<gvars, entries, bytes>>
     \/ /\ data[p][2] <= MaxBytes - bytes
        /\ entries' = [entries EXCEPT ![proc[p].key] = data[p]]
        /\ bytes' = bytes + data[p][2]
        /\ Return(p, data[p])
  /\ UNCHANGED <<cancelled, closed, want>>

\* Mutated: the bytes of the value are not compared with the limit.
CommitUnlimited(p) ==
  /\ step[p] = "commit"
  /\ ~cancelled
  /\ entries' = [entries EXCEPT ![proc[p].key] = data[p]]
  /\ bytes' = bytes + data[p][2]
  /\ Return(p, data[p])
  /\ UNCHANGED <<cancelled, closed, want>>

\* The second critical section of the load function.
Commit(p) ==
  /\ step[p] = "commit"
  /\ \/ /\ cancelled \/ data[p][2] > MaxBytes - bytes
        /\ step' = [step EXCEPT ![p] = "undo"]
        /\ data' = [data EXCEPT ![p] =
                      Err(IF cancelled THEN "cancelled" ELSE "capacity")]
        /\ UNCHANGED <<gvars, entries, bytes>>
     \/ /\ ~cancelled /\ data[p][2] <= MaxBytes - bytes
        /\ entries' = [entries EXCEPT ![proc[p].key] = data[p]]
        /\ bytes' = bytes + data[p][2]
        /\ Return(p, data[p])
  /\ UNCHANGED <<cancelled, closed, want>>

\* The deferred delete of a reservation that was not committed.
Undo(p) ==
  /\ step[p] = "undo"
  /\ entries' = [entries EXCEPT ![proc[p].key] = Absent]
  /\ IF data[p] = Err("panic")
     THEN /\ LoadPanics(p)
          /\ step' = [step EXCEPT ![p] = "none"]
          /\ data' = [data EXCEPT ![p] = None]
     ELSE Return(p, data[p])
  /\ UNCHANGED <<bytes, cancelled, closed, want>>

ResolveStep(p) ==
  \/ Do(p)
  \/ Lookup(p)
  \/ Fetch(p)
  \/ Commit(p)
  \/ Undo(p)
  \/ DoStep(p) /\ UNCHANGED svars

Next ==
  \/ Cancel
  \/ Clear
  \/ \E p \in Callers : (\E k \in Keys : Resolve(p, k)) \/ ResolveStep(p)

Spec == Init /\ [][Next]_vars

-----------------------------------------------------------------------------
(* Properties *)

\* Type invariant: a caller is inside the load function exactly while the
\* group considers it loading.
TypeOK ==
  /\ GroupTypeOK
  /\ entries \in [Keys -> {Absent, Reserved} \cup {Ok(v) : v \in Values}]
  /\ bytes \in Nat
  /\ want \in [Callers -> Keys \cup {None}]
  /\ \A p \in Callers : (step[p] # "none") <=> (proc[p].pc = "load")

\* The bytes of the retained values.
Retained == UNION {{k} \X (1..entries[k][2]) : k \in Stored}

\* Resolve and Close: the byte counter is the total length of the retained
\* values and never exceeds MaxBytes, whatever loads were in flight at Close.
BytesExact == bytes = Cardinality(Retained) /\ bytes <= MaxBytes

\* ScopeLimits ("including entries reserved by active loads"): reservations and
\* values together respect MaxEntries, and a reservation always belongs to a
\* load in progress.
EntriesBounded ==
  /\ Cardinality(Present) <= MaxEntries
  /\ \A k \in Present \ Stored :
       \E p \in Callers : /\ proc[p].key = k
                          /\ step[p] \in {"fetch", "commit", "undo"}

\* Limits and ScopeLimits: every limit of the scope and of its group holds,
\* within the type invariant.
LimitsKept == TypeOK /\ EntriesBounded /\ FollowersCounted

\* Close: once it has returned nothing is retained, not even by a load that
\* was past its own context check when Close ran.
ClosedEmpty == closed => Stored = {} /\ bytes = 0

\* Resolve memoizes: a retained value is what every later Resolve of its key
\* returns, so it never changes or disappears before Close.
MemoStable ==
  [][\A k \in Stored : entries'[k] = entries[k] \/ closed']_vars

\* Callers, tickets and the valid keys are interchangeable.
Symmetry == Permutations(Callers) \cup Permutations(Tickets)
              \cup Permutations(Keys \ BadKeys)
=============================================================================
