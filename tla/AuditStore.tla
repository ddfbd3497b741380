----------------------------- MODULE AuditStore -----------------------------
(***************************************************************************)
(* audit.PostgresStore: events recorded by several writers while a reader  *)
(* walks the pages of a filtered listing from cursor to cursor.  A row     *)
(* carries the time its insert began and a random id, and may become       *)
(* visible after rows with later times.                                    *)
(***************************************************************************)
EXTENDS Integers, Sequences, FiniteSets, SequencesExt

CONSTANTS Ids, Scopes, MaxTime,
          MaxLimit, DefaultLimit,  \* 100 and 50 in the code
          Limits                   \* what callers ask for

VARIABLES now, rows, pending,      \* visible rows, inserts in progress
          filter, limit,           \* of the listing
          cursor, listed, pc,
          atStart                  \* ghost: rows visible to the first page

vars == <<now, rows, pending, filter, limit, cursor, listed, pc, atStart>>

NoCursor == [t |-> -1, id |-> -1]
AnyScope == "any"

Used == {r.id : r \in rows \cup pending}

Init ==
  /\ now = 0 /\ rows = {} /\ pending = {} /\ atStart = {}
  /\ filter \in Scopes \cup {AnyScope} /\ limit \in Limits
  /\ cursor = NoCursor /\ listed = <<>> /\ pc = "idle"

\* Record: the database gives the row its id and its time.
RecordBegins ==
  /\ \E id \in Ids \ Used, s \in Scopes :
       pending' = pending \cup {[t |-> now, id |-> id, scope |-> s]}
  /\ UNCHANGED <<now, rows, filter, limit, cursor, listed, pc, atStart>>

RecordCommits(r) ==
  /\ pending' = pending \ {r} /\ rows' = rows \cup {r}
  /\ UNCHANGED <<now, filter, limit, cursor, listed, pc, atStart>>

RecordFails(r) ==
  /\ pending' = pending \ {r}
  /\ UNCHANGED <<now, rows, filter, limit, cursor, listed, pc, atStart>>

Tick == now < MaxTime /\ now' = now + 1
        /\ UNCHANGED <<rows, pending, filter, limit, cursor, listed, pc, atStart>>

-----------------------------------------------------------------------------
Matches(r) == filter = AnyScope \/ r.scope = filter

\* Mutated: the row of the cursor is included.
AtOrBefore(r, c) == c = NoCursor \/ r.t < c.t \/ (r.t = c.t /\ r.id <= c.id)

Before(r, c) == c = NoCursor \/ r.t < c.t \/ (r.t = c.t /\ r.id < c.id)

Newer(a, b) == a.t > b.t \/ (a.t = b.t /\ a.id > b.id)

EffectiveLimit == IF limit <= 0 \/ limit > MaxLimit THEN DefaultLimit ELSE limit

\* The rows of the query in its order, one more than the limit at most.
Select == SetToSortSeq({r \in rows : Matches(r) /\ Before(r, cursor)}, Newer)

NextCursor(found) ==
  IF Len(found) > EffectiveLimit
  THEN [t |-> found[EffectiveLimit].t, id |-> found[EffectiveLimit].id] ELSE NoCursor

\* List with the cursor of the page before; the walk ends without a cursor.
List ==
  /\ pc \in {"idle", "walking"}
  /\ LET found == Select
         page == SubSeq(found, 1, IF Len(found) > EffectiveLimit THEN EffectiveLimit ELSE Len(found))
         next == NextCursor(found)
     IN  /\ listed' = listed \o page
         /\ cursor' = next
         /\ pc' = IF next = NoCursor THEN "done" ELSE "walking"
         /\ atStart' = IF pc = "idle" THEN {r \in rows : Matches(r)} ELSE atStart
  /\ UNCHANGED <<now, rows, pending, filter, limit>>

Next == RecordBegins \/ Tick \/ List
        \/ \E r \in pending : RecordCommits(r) \/ RecordFails(r)

Spec == Init /\ [][Next]_vars

-----------------------------------------------------------------------------
TypeOK == /\ pc \in {"idle", "walking", "done"}
          /\ pc = "walking" <=> cursor # NoCursor
          /\ EffectiveLimit \in 1..MaxLimit

\* A walk to the end has every event that was visible when it began, although
\* events come in between the pages and the cursor row has equals in time.
WalkComplete == pc = "done" => atStart \subseteq Range(listed)

\* Newest first and no event twice, across all pages.
NewestFirst == \A i, j \in DOMAIN listed : i < j => Newer(listed[i], listed[j])

\* Every page keeps to the filter, also those read with a cursor.
KeepsFilter == \A i \in DOMAIN listed : Matches(listed[i])
=============================================================================
