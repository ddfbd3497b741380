------------------------------ MODULE S3Stream ------------------------------
(***************************************************************************)
(* Streaming uploads and pinned downloads of s3store on one key of a       *)
(* versioned bucket.  A writer puts its body, repeats the call after an    *)
(* error and, told that the object exists, verifies the existing version   *)
(* as the comment of ErrObjectExists asks: stat, open that version, read.  *)
(***************************************************************************)
EXTENDS Integers, Sequences

CONSTANTS Writers,
          Size(_),       \* the length of a writer's body
          MaxStream,     \* MaxStreamObjectBytes
          MaxBytes,      \* the budget a reader gives
          Conditional,   \* sets of writers that use PutStreamIfAbsent
          MaxFaults

VARIABLES setup, versions, pc, tries, reply, ref, length, got, remaining, faults

vars == <<setup, versions, pc, tries, reply, ref, length, got, remaining, faults>>
transfer == <<ref, length, got, remaining>>

\* The SDK repeats a request it got no answer to; plain HTTP does not.
Attempts == IF setup.iam THEN 1 ELSE 2

StreamBounds == 1 <= MaxBytes /\ MaxBytes <= MaxStream

Init ==
  /\ setup \in [iam : BOOLEAN, conditional : Conditional,
                pinning : BOOLEAN,      \* the store heeds versionId
                sized : BOOLEAN]        \* it announces the length
  /\ versions = <<>> /\ faults = 0
  /\ pc = [w \in Writers |-> "start"] /\ tries = [w \in Writers |-> 0]
  /\ reply = [w \in Writers |-> 0] /\ ref = [w \in Writers |-> 0]
  /\ length = [w \in Writers |-> -1]
  /\ got = [w \in Writers |-> 0] /\ remaining = [w \in Writers |-> 0]

Goto(w, next) == pc' = [pc EXCEPT ![w] = next]
Latest == Len(versions)

\* The checks of putStream before it sends anything.
PutStream(w) ==
  /\ pc[w] \in {"start", "failed"}
  /\ Goto(w, IF Size(w) < 1 \/ Size(w) > MaxStream THEN "refused" ELSE "sending")
  /\ tries' = [tries EXCEPT ![w] = 1]
  /\ UNCHANGED <<setup, versions, reply, transfer, faults>>

\* The store handles the request: version 0 is the answer 412.
Stores(w) ==
  /\ pc[w] = "sending"
  /\ IF w \in setup.conditional /\ versions # <<>>
     THEN reply' = [reply EXCEPT ![w] = 0] /\ UNCHANGED versions
     ELSE versions' = Append(versions, w) /\ reply' = [reply EXCEPT ![w] = Latest + 1]
  /\ Goto(w, "answered")
  /\ UNCHANGED <<setup, tries, transfer, faults>>

Receipt(w) ==
  /\ pc[w] = "answered"
  /\ IF reply[w] = 0 THEN Goto(w, "exists") /\ UNCHANGED ref
     ELSE Goto(w, "stored") /\ ref' = [ref EXCEPT ![w] = reply[w]]
  /\ tries' = [tries EXCEPT ![w] = 0] /\ reply' = [reply EXCEPT ![w] = 0]
  /\ UNCHANGED <<setup, versions, length, got, remaining, faults>>

\* The request or its answer is lost, or the store fails.
Lost(w) ==
  /\ pc[w] \in {"sending", "answered"}
  /\ faults < MaxFaults /\ faults' = faults + 1
  /\ IF tries[w] < Attempts THEN Goto(w, "sending") /\ tries' = [tries EXCEPT ![w] = @ + 1]
     ELSE Goto(w, "failed") /\ UNCHANGED tries
  /\ UNCHANGED <<setup, versions, reply, transfer>>

-----------------------------------------------------------------------------
\* StatStreamObject, of the object that was in the way.
Stat(w) ==
  /\ pc[w] = "exists"
  /\ ref' = [ref EXCEPT ![w] = Latest]
  /\ Goto(w, "pinned")
  /\ UNCHANGED <<setup, versions, tries, reply, length, got, remaining, faults>>

\* Mutated: the version received is not compared.
OpenAny(w) ==
  /\ pc[w] = "pinned"
  /\ length' = [length EXCEPT ![w] = Size(versions[IF setup.pinning THEN ref[w] ELSE Latest])]
  /\ Goto(w, "reading")
  /\ got' = [got EXCEPT ![w] = 0] /\ remaining' = [remaining EXCEPT ![w] = MaxBytes]
  /\ UNCHANGED <<setup, versions, tries, reply, ref, faults>>

\* OpenVersion: a version other than the one asked for, or an announced
\* length beyond the budget, is refused.
OpenVersion(w) ==
  /\ pc[w] = "pinned"
  /\ LET received == IF setup.pinning THEN ref[w] ELSE Latest
         size == Size(versions[received])
     IN  IF received # ref[w] \/ (setup.sized /\ size > MaxBytes)
         THEN Goto(w, "unread") /\ UNCHANGED <<length, got, remaining>>
         ELSE /\ Goto(w, "reading")
              /\ length' = [length EXCEPT ![w] = size]
              /\ got' = [got EXCEPT ![w] = 0]
              /\ remaining' = [remaining EXCEPT ![w] = MaxBytes]
  /\ UNCHANGED <<setup, versions, tries, reply, ref, faults>>

Smaller(a, b) == IF a < b THEN a ELSE b

\* boundedObjectReader.Read: what the body gives, no more than the budget;
\* with the budget spent, one byte more is an error and the end is the end.
Read(w) ==
  /\ pc[w] = "reading"
  /\ LET left == length[w] - got[w]
     IN  IF remaining[w] = 0
         THEN /\ Goto(w, IF left > 0 THEN "unread" ELSE "verified")
              /\ UNCHANGED <<got, remaining>>
         ELSE \E n \in 0..Smaller(remaining[w], left) :
                /\ n = 0 => left = 0
                /\ got' = [got EXCEPT ![w] = @ + n]
                /\ remaining' = [remaining EXCEPT ![w] = @ - n]
                /\ \/ left = n /\ Goto(w, "verified")   \* with the last bytes
                   \/ n > 0 /\ UNCHANGED pc
  /\ UNCHANGED <<setup, versions, tries, reply, ref, length, faults>>

\* The stat, the open or a read fails; the verification starts again.
ReadFails(w) ==
  /\ pc[w] \in {"exists", "pinned", "reading"}
  /\ faults < MaxFaults /\ faults' = faults + 1
  /\ Goto(w, "exists")
  /\ length' = [length EXCEPT ![w] = -1] /\ ref' = [ref EXCEPT ![w] = 0]
  /\ got' = [got EXCEPT ![w] = 0] /\ remaining' = [remaining EXCEPT ![w] = 0]
  /\ UNCHANGED <<setup, versions, tries, reply>>

Step(w) == \/ PutStream(w) \/ Stores(w) \/ Receipt(w)
           \/ Stat(w) \/ OpenVersion(w) \/ Read(w)

Next == \E w \in Writers : Step(w) \/ Lost(w) \/ ReadFails(w)

Spec == Init /\ [][Next]_vars /\ \A w \in Writers : WF_vars(Step(w))

-----------------------------------------------------------------------------
TypeOK ==
  /\ \A w \in Writers : /\ ref[w] \in 0..Latest
                        /\ pc[w] \in {"pinned", "stored", "verified"} => ref[w] > 0
                        /\ pc[w] = "reading" => remaining[w] = MaxBytes - got[w]

\* PutStreamIfAbsent: "a lost receipt/retry cannot generate unlimited object
\* versions": when all use it there is one, through retries of the SDK and of
\* the callers.
OneVersion == setup.conditional = Writers => Latest <= 1

\* A receipt names the version that holds the writer's own body.
ReceiptIsOwn == \A w \in Writers : pc[w] = "stored" => versions[ref[w]] = w

\* A download that ends holds the whole pinned version and fits the budget:
\* never a prefix of it, never another version.
PinnedAndWhole ==
  \A w \in Writers : pc[w] = "verified" =>
    got[w] = Size(versions[ref[w]]) /\ got[w] <= MaxBytes

\* A reader never hands out more than its budget.
WithinBudget == \A w \in Writers : got[w] <= MaxBytes

\* Once the faults are over every writer has its receipt, has verified the
\* object that was there, or has been refused.
Settled == \A w \in Writers : <>(pc[w] \in {"stored", "verified", "unread", "refused"})
=============================================================================
