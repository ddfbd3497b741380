--------------------------- MODULE ConfigWatcher ---------------------------
(***************************************************************************)
(* configsource.ConfigWatcher: RunPeriodicWatch polls a source, validates  *)
(* hashes, skips what it has applied, and calls ApplyFunc for the rest.    *)
(***************************************************************************)
EXTENDS ConfigSources

CONSTANTS First,   \* the content of every document at the start
          Invalid  \* configurations that ApplyFunc always rejects

ASSUME WatcherConstants == First \in Configs /\ Invalid \subseteq Configs

VARIABLES lastETag, lastHash,  \* of the watcher
          applied,             \* external: the configuration the service runs
          appliedTag,          \* ghost: the ETag it came with
          failed,              \* ghost: an apply has failed since then
          loop                 \* RunPeriodicWatch: running, cancelled, stopped

vars == <<setup, remote, owner, mem, manifest, fetch, published, faults,
          lastETag, lastHash, applied, appliedTag, failed, loop>>
wvars == <<lastETag, lastHash, applied, appliedTag, failed, loop>>

Init ==
  /\ SourcesInit(First)
  /\ lastETag = NoTag /\ lastHash = None
  /\ applied = None /\ appliedTag = NoTag /\ failed = FALSE
  /\ loop = "running"

\* The ticker fires and Apply calls Fetch.  When the context is cancelled at
\* the same time the select may still choose the ticker.
Poll ==
  /\ fetch.pc = "idle" /\ loop # "stopped"
  /\ fetch' = [NoFetch EXCEPT !.pc = "open"]
  /\ UNCHANGED <<setup, remote, owner, mem, manifest, published, faults, wvars>>

Cancel ==
  /\ "cancel" \in setup.faults /\ loop = "running"
  /\ loop' = "cancelled"
  /\ UNCHANGED <<svars, lastETag, lastHash, applied, appliedTag, failed>>

\* The select of RunPeriodicWatch chooses ctx.Done().
Stop ==
  /\ fetch.pc = "idle" /\ loop = "cancelled"
  /\ loop' = "stopped"
  /\ UNCHANGED <<svars, lastETag, lastHash, applied, appliedTag, failed>>

\* S3 and HTTP requests fail under a cancelled context; files are still read.
FetchCancelled ==
  /\ fetch.pc = "open" /\ Kind # "file" /\ loop = "cancelled"
  /\ Fail
  /\ UNCHANGED <<setup, remote, owner, mem, manifest, published, faults, wvars>>

Fetched == fetch.pc = "got" \/ (fetch.pc = "have" /\ ~IsManifest)

\* ValidateHash returns no error.  A pinned policy is the pinned hash itself.
ValidateHash(hash, tag) ==
  \/ setup.policy = "disabled"
  \/ /\ setup.policy = "tofu"
     /\ lastHash # None => ~(tag = lastETag /\ hash # lastHash)
  \/ hash = setup.policy

\* Mutated: unchanged content is not recognised.
SeenNever == FALSE

\* Nothing to do: same ETag and same hash as what was applied last.
Seen == fetch.tag # NoTag /\ fetch.tag = lastETag /\ fetch.data = lastHash

\* Mutated: an integrity violation empties lastETag, as a failed apply does.
SkipForgetting ==
  /\ Fetched
  /\ fetch.data = None \/ ~ValidateHash(fetch.data, fetch.tag) \/ Seen
  /\ lastETag' = IF fetch.data # None /\ ~Seen THEN NoTag ELSE lastETag
  /\ fetch' = NoFetch
  /\ UNCHANGED <<setup, remote, owner, mem, manifest, published, faults,
                 lastHash, applied, appliedTag, failed, loop>>

\* Apply, after Fetch: no data, an integrity violation, or nothing new.
Skip ==
  /\ Fetched
  /\ fetch.data = None \/ ~ValidateHash(fetch.data, fetch.tag) \/ Seen
  /\ fetch' = NoFetch
  /\ UNCHANGED <<setup, remote, owner, mem, manifest, published, faults, wvars>>

ToApply ==
  /\ Fetched
  /\ fetch.data # None
  /\ ValidateHash(fetch.data, fetch.tag)
  /\ ~Seen

ApplySucceeds ==
  /\ ToApply
  /\ fetch.data \notin Invalid
  /\ applied' = fetch.data /\ appliedTag' = fetch.tag /\ failed' = FALSE
  /\ lastETag' = fetch.tag /\ lastHash' = fetch.data
  /\ fetch' = NoFetch
  /\ UNCHANGED <<setup, remote, owner, mem, manifest, published, faults, loop>>

\* Mutated: a failed apply is remembered as done.
ApplyFailsRemembered ==
  /\ ToApply
  /\ \/ fetch.data \in Invalid /\ UNCHANGED faults
     \/ /\ "apply" \in setup.faults /\ faults < MaxFaults
        /\ faults' = faults + 1
  /\ lastETag' = fetch.tag /\ lastHash' = fetch.data /\ failed' = TRUE
  /\ fetch' = NoFetch
  /\ UNCHANGED <<setup, remote, owner, mem, manifest, published,
                 applied, appliedTag, loop>>

\* ApplyFunc rejects the data, or fails for a reason of its own.
ApplyFails ==
  /\ ToApply
  /\ \/ fetch.data \in Invalid /\ UNCHANGED faults
     \/ /\ "apply" \in setup.faults /\ faults < MaxFaults
        /\ faults' = faults + 1
  /\ lastETag' = NoTag /\ failed' = TRUE
  /\ fetch' = NoFetch
  /\ UNCHANGED <<setup, remote, owner, mem, manifest, published,
                 lastHash, applied, appliedTag, loop>>

Next ==
  \/ PublishAny /\ UNCHANGED wvars
  \/ FetchError /\ UNCHANGED wvars
  \/ FetchStep /\ UNCHANGED wvars
  \/ Poll
  \/ Cancel
  \/ Stop
  \/ FetchCancelled
  \/ Skip
  \/ ApplySucceeds
  \/ ApplyFails

Spec == Init /\ [][Next]_vars

\* The ticker keeps firing and every fetch and apply returns.
Progress == Poll \/ (FetchStep /\ UNCHANGED wvars) \/ Skip \/ ApplySucceeds
              \/ (ApplyFails /\ UNCHANGED faults)

FairSpec == Spec /\ WF_vars(Progress)

-----------------------------------------------------------------------------
(* Properties *)

\* The configuration the sources offer now.
Offered ==
  IF ~IsManifest THEN remote["main"].data
  ELSE LET e == remote["main"].data
       IN  IF e.ver # None /\ e.sum = remote[e.res].data THEN e.sum ELSE None

\* Type invariant: the watcher remembers a hash only of what it applied.
TypeOK ==
  /\ setup \in Setups
  /\ lastHash \in Configs \cup {None}
  /\ applied = lastHash
  /\ loop \in {"running", "cancelled", "stopped"}
  /\ applied \notin Invalid
  /\ mem \in [{"main", "payload"} -> Tags \cup {NoTag}]
  /\ fetch.pc \in {"idle", "open", "read", "have", "got"}

\* ManifestSource.Fetch ("validates the checksum if present") and HashPinned:
\* what runs is the content the manifest entry or the operator named, although
\* manifest and payload are fetched one after the other and may both change in
\* between.
ChecksumHonoured ==
  applied # None =>
    /\ IsManifest => appliedTag[3] \in {None, applied}
    /\ setup.policy \in {"tofu", "disabled", applied}

\* Apply: what runs was checked, is valid and is what the watcher remembers.
AppliedChecked == TypeOK /\ ChecksumHonoured

\* Another content under the ETag applied last: HashTOFU rejects it for good.
Forged ==
  /\ setup.policy = "tofu" /\ setup.tags = "reused"
  /\ remote["main"].tag = lastETag /\ remote["main"].data # lastHash

\* ApplyFunc, a pinned hash and HashTOFU accept what is offered.
Acceptable ==
  /\ Offered \notin Invalid \cup {None}
  /\ setup.policy \in {"tofu", "disabled", Offered}
  /\ ~Forged

\* RunPeriodicWatch: unless it is cancelled, once documents stop changing the
\* service ends up running what they offer, if it is acceptable: after failed
\* fetches and applies, false integrity alarms from a file that changed between
\* stat and read, and manifests published before their payload.
Converges == <>[](loop = "running" /\ Acceptable => applied = Offered)

\* README ("calls your apply function only when something changes"): apply is
\* called only for content or an ETag other than the ones applied last, or
\* after a failure.
OnlyChanges ==
  [][ApplySucceeds => \/ fetch.data # applied
                      \/ fetch.tag # appliedTag
                      \/ lastETag # appliedTag]_vars

\* Under HashTOFU the service of a direct source goes from one content to
\* another under the ETag it is running.
SwitchesUnderTag ==
  /\ applied # None /\ applied' # applied /\ fetch.tag = appliedTag
  /\ ~IsManifest /\ setup.policy = "tofu"

\* Apply and ValidateHash: unless an apply has failed since, no content replaces
\* the one that is running under its ETag, whatever the server does with its
\* ETags and however often the other was turned down; after a failure, which
\* empties lastETag, none does unless the server gave that ETag to several
\* contents.  A file may change between stat and read.
SameTagCaught == [][SwitchesUnderTag => failed /\ setup.tags = "reused"]_vars

\* README ("rejects same-ETag content changes (tampering detection)") and Apply
\* ("Hash validation always runs when data is present, even when ETag is
\* unchanged, to detect same-ETag content tampering"): without exception.
SameTagRejected == [][~SwitchesUnderTag]_vars
=============================================================================
