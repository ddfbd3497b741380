------------------------------ MODULE S3Listing -----------------------------
(***************************************************************************)
(* s3store.Client.ListObjects, by the SDK or by plain HTTP, while other    *)
(* clients put and delete objects with PutObject and DeleteObject.  Keys   *)
(* are numbers in listing order; key 0 is the prefix itself, whose token   *)
(* reference is empty.  Every key is a clean path: objectURL (path.Join)   *)
(* would ask for "x" when it is given "x/", and for "a/b" for "a//b", and  *)
(* such keys are left out.                                                 *)
(***************************************************************************)
EXTENDS Naturals, Sequences, FiniteSets, SequencesExt

CONSTANTS LastKey, PageSize,
          Huge,        \* the keys whose objects exceed maxObjectSize
          MaxWrites, MaxFaults

VARIABLES bucket,      \* the version of each object, 0 when there is none
          pc, page, after, more,   \* of the lister: rest of the page, token
          entries,
          writes, faults,
          stable,      \* ghost: keys that exist since the listing began
          held         \* ghost: versions each key has had since then

vars == <<bucket, pc, page, after, more, entries, writes, faults, stable, held>>

Keys == 0..LastKey
Present == {k \in Keys : bucket[k] # 0}

Init ==
  /\ bucket \in [Keys -> {0, 1}]
  /\ pc = "page" /\ page = <<>> /\ after = 0 /\ more = FALSE
  /\ entries = <<>> /\ writes = 0 /\ faults = 0
  /\ stable = Present /\ held = [k \in Keys |-> {bucket[k]}]

lister == <<pc, page, after, more, entries>>

\* PutObject and DeleteObject of other clients.  The answer does not matter
\* to a listing, so a lost one is the same step.
PutObject(k) ==
  /\ writes < MaxWrites /\ writes' = writes + 1
  /\ bucket' = [bucket EXCEPT ![k] = writes + 2]
  /\ held' = [held EXCEPT ![k] = @ \cup {writes + 2}]
  /\ UNCHANGED <<lister, faults, stable>>

DeleteObject(k) ==
  /\ writes < MaxWrites /\ writes' = writes + 1
  /\ bucket' = [bucket EXCEPT ![k] = 0]
  /\ held' = [held EXCEPT ![k] = @ \cup {0}]
  /\ stable' = stable \ {k}
  /\ UNCHANGED <<lister, faults>>

-----------------------------------------------------------------------------
\* Keys from the token on; the token of a page is one past its last key.
Rest(from) == SetToSortSeq({k \in Present : k >= from}, <)

ListPage ==
  /\ pc = "page"
  /\ LET all == Rest(after) IN
       /\ page' = SubSeq(all, 1, IF Len(all) < PageSize THEN Len(all) ELSE PageSize)
       /\ more' = (Len(all) > PageSize)
       /\ after' = IF Len(all) > PageSize THEN all[PageSize] + 1 ELSE after
  /\ pc' = "fetch"
  /\ UNCHANGED <<bucket, entries, writes, faults, stable, held>>

Fail == pc' = "failed" /\ page' = <<>> /\ entries' = <<>>

\* The prefix itself is skipped.  An object that is gone or too large fails
\* the listing; body and ETag are those of one answer.
GetObject ==
  /\ pc = "fetch" /\ page # <<>>
  /\ LET k == Head(page) IN
       IF k = 0 THEN page' = Tail(page) /\ UNCHANGED <<pc, entries>>
       ELSE IF bucket[k] = 0 \/ k \in Huge THEN Fail
       ELSE /\ entries' = Append(entries, [ref |-> k, body |-> bucket[k], etag |-> bucket[k]])
            /\ page' = Tail(page) /\ UNCHANGED pc
  /\ UNCHANGED <<bucket, after, more, writes, faults, stable, held>>

EndPage ==
  /\ pc = "fetch" /\ page = <<>>
  /\ pc' = IF more THEN "page" ELSE "done"
  /\ UNCHANGED <<bucket, page, after, more, entries, writes, faults, stable, held>>

\* A request fails.
RequestFails ==
  /\ pc \in {"page", "fetch"} /\ (pc = "fetch" => page # <<>>)
  /\ faults < MaxFaults /\ faults' = faults + 1
  /\ Fail
  /\ UNCHANGED <<bucket, after, more, writes, stable, held>>

ListObjects == ListPage \/ GetObject \/ EndPage

Next == ListObjects \/ RequestFails \/ \E k \in Keys : PutObject(k) \/ DeleteObject(k)

\* Requests are answered.
Spec == Init /\ [][Next]_vars /\ WF_vars(ListObjects)

-----------------------------------------------------------------------------
TypeOK ==
  /\ pc \in {"page", "fetch", "done", "failed"}
  /\ Len(page) <= PageSize
  /\ pc = "failed" => entries = <<>>

Refs == {entries[i].ref : i \in DOMAIN entries}

\* A listing that succeeds holds every object that was there all along,
\* across pages, however others write meanwhile.
Complete == pc = "done" => stable \ {0} \subseteq Refs

\* It holds each reference once and never the prefix itself, and no object it
\* was told is too large.
EachOnce == /\ Cardinality(Refs) = Len(entries)
            /\ Refs \cap ({0} \cup Huge) = {}

\* The ETag, "used as Version for change detection", is that of the body
\* beside it, a version the object had during the listing.
Coherent == \A i \in DOMAIN entries : /\ entries[i].etag = entries[i].body
                                      /\ entries[i].body \in held[entries[i].ref] \ {0}

\* Every listing ends.
Ends == <>(pc \in {"done", "failed"})
=============================================================================
