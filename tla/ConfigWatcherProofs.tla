------------------------ MODULE ConfigWatcherProofs -------------------------
(***************************************************************************)
(* ConfigWatcher over all its sources, for any configurations, versions,   *)
(* resources and ETags, and any number of changes and failures.            *)
(***************************************************************************)
EXTENDS ConfigWatcher, TLAPS

-----------------------------------------------------------------------------
(* What a Fetch in progress holds *)

ETags == Tags \cup {NoTag}
Synthetic == ETags \X Versions \X (Configs \cup {None})
Fetches == [pc : {"idle", "open", "read", "have", "got"}, at : {"main", "payload"},
            tag : ETags \cup Synthetic, data : Configs \cup {None} \cup Entries,
            entry : Entries \cup {None}, mtag : ETags]

\* The documents.
RemoteOK ==
  /\ remote \in [Docs -> [data : Configs \cup Entries, tag : ETags]]
  /\ remote["main"].data \in IF IsManifest THEN Entries ELSE Configs
  /\ \A r \in Resources : remote[r].data \in Configs
  /\ setup.tags # "none" => \A x \in Docs : remote[x].tag \in Tags

\* A payload is read only for an entry of the manifest, and what a manifest
\* source returns carries the checksum it was compared with.
FetchOK ==
  /\ fetch \in Fetches
  /\ fetch.at = "payload" => IsManifest /\ fetch.entry \in Entries /\ fetch.entry.ver \in Versions
  /\ fetch.pc = "got" => IsManifest
  /\ fetch.pc = "read" /\ ~IsManifest => setup.main = "file"
  /\ fetch.pc \in {"read", "have"} => fetch.tag \in ETags
  /\ setup.tags # "none" /\ fetch.pc \in {"read", "have"} => fetch.tag # NoTag
  /\ fetch.pc = "have" => fetch.data \in {None} \cup (IF fetch.at = "main" /\ IsManifest THEN Entries ELSE Configs)
  /\ fetch.pc = "got" /\ fetch.at = "main" => fetch.data = None
  /\ fetch.pc = "got" /\ fetch.at = "payload" => fetch.data \in Configs \cup {None}
  /\ fetch.pc = "got" /\ fetch.data # None => fetch.tag \in Synthetic /\ fetch.tag[3] \in {None, fetch.data}

MemOK == mem \in [{"main", "payload"} -> ETags]

IInv == AppliedChecked /\ RemoteOK /\ FetchOK /\ MemOK

-----------------------------------------------------------------------------
(* Which tags can come back *)

Direct == ~IsManifest /\ setup.policy = "tofu" /\ setup.tags = "honest"
Main == remote["main"]
Owner == owner["main"]

\* Honest tags of objects: each stands for one content.
ObjectTags ==
  /\ Owner[Main.tag] = Main.data
  /\ fetch.pc = "have" /\ fetch.data # None => Owner[fetch.tag] = fetch.data
  /\ applied # None => Owner[appliedTag] = applied

\* Honest tags of files: a modification time that is over does not come back.
FileTags ==
  /\ Owner[Main.tag] # None
  /\ fetch.pc \in {"read", "have"} => Owner[fetch.tag] # None
  /\ applied # None =>
       /\ Owner[appliedTag] # None
       /\ lastETag # appliedTag => Main.tag # appliedTag
       /\ fetch.pc \in {"read", "have"} =>
            /\ fetch.tag # appliedTag => Main.tag # appliedTag
            /\ lastETag # appliedTag => fetch.tag # appliedTag

TagsInv ==
  /\ owner \in [Docs -> [ETags -> Configs \cup Entries \cup {None}]]
  /\ applied # None => appliedTag \in ETags \cup Synthetic
  /\ lastETag \in ETags \cup Synthetic
  /\ ~IsManifest => lastETag \in ETags /\ appliedTag \in ETags
  /\ ~IsManifest /\ setup.tags = "none" =>
       lastETag = NoTag /\ appliedTag = NoTag /\ Main.tag = NoTag
       /\ (fetch.pc \in {"read", "have"} => fetch.tag = NoTag)
  /\ Direct => IF setup.main = "file" THEN FileTags ELSE ObjectTags
  /\ applied # None /\ ~failed => lastETag = appliedTag

-----------------------------------------------------------------------------
(* The steps *)

\* The ways to build a watcher.
LEMMA SetupType ==
  ASSUME IInv
  PROVE  /\ setup.main \in {"file", "s3", "http"} /\ setup.tags \in {"honest", "reused", "none"}
         /\ setup.payload \in {"none", "file", "s3", "http"}
         /\ setup.policy \in {"tofu", "disabled"} \cup Configs
PROOF BY SetupShapes DEF IInv, AppliedChecked, TypeOK

\* At the start no fetch is under way and every document has its first content.
LEMMA InitHolds == Init => IInv /\ TagsInv
PROOF
<1> SUFFICES ASSUME Init PROVE IInv /\ TagsInv
    OBVIOUS
<1> USE SourceConstants, WatcherConstants
<1>e. PICK e \in Entries : e = [ver |-> CHOOSE v \in Versions : TRUE, sum |-> First,
                               res |-> CHOOSE r \in Resources : TRUE]
  BY Zenon DEF Entries
<1>t. PICK t \in Tags : t = CHOOSE u \in Tags : TRUE
  OBVIOUS
<1>r. remote = [x \in Docs |-> [data |-> IF x = "main" /\ IsManifest THEN e ELSE First,
                               tag |-> IF setup.tags = "none" THEN NoTag ELSE t]]
  BY <1>e, <1>t DEF Init, SourcesInit
<1>1. RemoteOK
  BY <1>r DEF RemoteOK, Docs, ETags
<1>2. FetchOK
  BY DEF FetchOK, Fetches, Init, SourcesInit, NoFetch, ETags
<1>3. MemOK
  BY DEF MemOK, Init, SourcesInit, ETags
<1>4. AppliedChecked
  BY <1>3 DEF AppliedChecked, TypeOK, ChecksumHonoured, Init, SourcesInit, NoFetch, MemOK, ETags
<1>5. /\ "main" \in Docs /\ Main.tag \in ETags /\ Owner[Main.tag] = Main.data
      /\ ~IsManifest => Main.data # None
  <2>1. "main" \in Docs
    BY DEF Docs
  <2>2. Main.tag \in ETags
    BY <1>1, <2>1 DEF RemoteOK, Main
  <2>3. Owner[Main.tag] = Main.data
    BY Zenon, <2>1, <2>2 DEF Init, SourcesInit, Owner, Main, ETags
  <2>4. ~IsManifest => Main.data # None
    BY <1>1 DEF RemoteOK, Main
  <2> QED BY <2>1, <2>2, <2>3, <2>4
<1>6. owner \in [Docs -> [ETags -> Configs \cup Entries \cup {None}]]
  <2>1. \A x \in Docs : remote[x].data \in Configs \cup Entries
    BY <1>1 DEF RemoteOK
  <2> QED BY Zenon, <2>1 DEF Init, SourcesInit, ETags
<1>7. TagsInv
  BY <1>5, <1>6, <1>r DEF TagsInv, Init, SourcesInit, NoFetch, ETags, FileTags, ObjectTags, Main, Direct
<1> QED BY <1>1, <1>2, <1>3, <1>4, <1>7 DEF IInv

\* Where a Fetch reads.
LEMMA DocType ==
  ASSUME IInv
  PROVE  /\ Doc \in Docs /\ "main" \in Docs
         /\ fetch.at = "main" => Doc = "main"
         /\ remote[Doc] \in [data : Configs \cup Entries, tag : ETags]
         /\ remote[Doc].data \in IF fetch.at = "main" /\ IsManifest THEN Entries ELSE Configs
         /\ setup.tags # "none" => remote[Doc].tag # NoTag
         /\ ~IsManifest => fetch.at = "main"
PROOF
<1> USE SourceConstants DEF IInv
<1>1. "main" \in Docs /\ Resources \subseteq Docs
  BY DEF Docs
<1>2. fetch.at \in {"main", "payload"}
  BY DEF FetchOK, Fetches
<1>3. CASE fetch.at = "main"
  BY <1>1, <1>3 DEF Doc, RemoteOK
<1>4. CASE fetch.at = "payload"
  <2>1. IsManifest /\ fetch.entry.res \in Resources
    BY <1>4 DEF FetchOK, Entries
  <2> QED BY <1>1, <1>4, <2>1 DEF Doc, RemoteOK
<1> QED BY <1>2, <1>3, <1>4

-----------------------------------------------------------------------------
(* Someone replaces a document *)

\* A new document may bring a new ETag, but not the content of another honest one.
LEMMA PublishHolds ==
  ASSUME IInv, TagsInv, NEW x \in Docs, NEW d,
         d \in IF x = "main" /\ IsManifest THEN Entries ELSE Configs,
         Publish(x, d), UNCHANGED wvars
  PROVE  IInv' /\ TagsInv'
PROOF
<1> USE SourceConstants
<1>t. PICK t \in IF setup.tags = "none" THEN {NoTag} ELSE Tags :
             /\ setup.tags = "honest" => owner[x][t] \in {None} \cup
                                      (IF KindOf(x) = "file" THEN {} ELSE {d})
             /\ remote' = [remote EXCEPT ![x] = [data |-> d, tag |-> t]]
             /\ owner' = [owner EXCEPT ![x][t] = d]
  BY Zenon DEF Publish
<1>s. UNCHANGED <<setup, mem, manifest, fetch, lastETag, lastHash, applied, appliedTag, failed, loop>>
  BY DEF Publish, wvars
<1>d. t \in ETags /\ d \in Configs \cup Entries
  BY DEF ETags
<1>1. RemoteOK'
  <2>1. remote' \in [Docs -> [data : Configs \cup Entries, tag : ETags]]
    BY <1>t, <1>d DEF IInv, RemoteOK
  <2>2. remote'["main"].data \in IF IsManifest THEN Entries ELSE Configs
    BY <1>t DEF IInv, RemoteOK, Docs
  <2>3. \A r \in Resources : remote'[r].data \in Configs
    BY <1>t DEF IInv, RemoteOK, Docs
  <2>4. setup.tags # "none" => \A y \in Docs : remote'[y].tag \in Tags
    BY <1>t DEF IInv, RemoteOK
  <2> QED BY <1>s, <2>1, <2>2, <2>3, <2>4 DEF RemoteOK, IsManifest
<1>2. FetchOK' /\ MemOK' /\ AppliedChecked'
  BY <1>s DEF IInv, FetchOK, MemOK, AppliedChecked, TypeOK, ChecksumHonoured, IsManifest
<1>o. owner' \in [Docs -> [ETags -> Configs \cup Entries \cup {None}]]
  BY <1>t, <1>d DEF TagsInv
<1>m. "main" \in Docs
  BY DEF Docs
<1>3. ~IsManifest /\ setup.tags = "none" => Main'.tag = NoTag
  BY <1>t, <1>m DEF TagsInv, Main, IInv, RemoteOK
<1>4. CASE x # "main"
  <2>1. owner'["main"] = owner["main"] /\ remote'["main"] = remote["main"]
    BY <1>4, <1>t, <1>m DEF TagsInv, IInv, RemoteOK
  <2>2. UNCHANGED <<Owner, Main>>
    BY <2>1 DEF Owner, Main
  <2> QED BY <1>1, <1>2, <1>s, <1>o, <1>3, <2>2
           DEF TagsInv, IInv, Direct, FileTags, ObjectTags, IsManifest
<1>5. CASE x = "main"
  <2>1. Main' = [data |-> d, tag |-> t] /\ Owner' = [Owner EXCEPT ![t] = d]
    BY <1>5, <1>t, <1>m DEF TagsInv, IInv, RemoteOK, Main, Owner
  <2>2. Owner \in [ETags -> Configs \cup Entries \cup {None}]
    BY <1>m DEF TagsInv, Owner
  <2>3. ASSUME Direct PROVE IF setup.main = "file" THEN FileTags' ELSE ObjectTags'
    <3>0. d \in Configs /\ d # None /\ applied \in Configs \cup {None}
      BY <2>3 DEF Direct, IInv, AppliedChecked, TypeOK
    <3>1. CASE setup.main = "file"
      <4>1. Owner[t] = None
        BY <1>5, <1>t, <2>3, <3>1 DEF Direct, KindOf, Owner
      <4>2. FileTags
        BY <2>3, <3>1 DEF TagsInv
      <4>3. FileTags'
        BY <1>d, <1>s, <2>1, <2>2, <3>0, <4>1, <4>2 DEF FileTags
      <4> QED BY <3>1, <4>3
    <3>2. CASE setup.main # "file"
      <4>1. Owner[t] \in {None, d}
        BY <1>5, <1>t, <2>3, <3>2 DEF Direct, KindOf, Owner
      <4>2. ObjectTags
        BY <2>3, <3>2 DEF TagsInv
      <4>3. ObjectTags'
        BY <1>d, <1>s, <2>1, <2>2, <3>0, <4>1, <4>2 DEF ObjectTags
      <4> QED BY <3>2, <4>3
    <3> QED BY <3>1, <3>2
  <2> QED BY <1>1, <1>2, <1>s, <1>o, <1>3, <2>3 DEF TagsInv, IInv, Direct, IsManifest
<1> QED BY <1>4, <1>5

-----------------------------------------------------------------------------
(* A source reads *)

\* Steps that leave the documents and the watcher alone.
Reads == UNCHANGED <<setup, remote, owner, lastETag, lastHash, applied, appliedTag, failed, loop>>

\* What such a step has to establish.
LEMMA ReadHolds ==
  ASSUME IInv, TagsInv, Reads, FetchOK', MemOK',
         ~IsManifest /\ fetch'.pc \in {"read", "have"} =>
           \/ /\ fetch.pc = "read" /\ fetch'.tag = fetch.tag /\ setup.main = "file"
           \/ /\ fetch'.tag = Main.tag
              /\ fetch'.pc = "have" /\ setup.main # "file" => fetch'.data \in {None, Main.data}
  PROVE  IInv' /\ TagsInv'
PROOF
<1> USE DEF Reads
<1>1. RemoteOK'
  BY DEF IInv, RemoteOK, IsManifest
<1>2. AppliedChecked'
  BY DEF IInv, AppliedChecked, TypeOK, ChecksumHonoured, IsManifest, FetchOK, Fetches, MemOK, ETags
<1>3. UNCHANGED <<Owner, Main>>
  BY DEF Owner, Main
<1>4. ASSUME Direct, setup.main = "file" PROVE FileTags'
  <2>1. FileTags /\ ~IsManifest
    BY <1>4 DEF TagsInv, Direct
  <2> QED BY <1>3, <2>1 DEF FileTags
<1>5. ASSUME Direct, setup.main # "file" PROVE ObjectTags'
  <2>1. ObjectTags /\ ~IsManifest
    BY <1>5 DEF TagsInv, Direct
  <2> QED BY <1>3, <1>5, <2>1 DEF ObjectTags
<1>6. ~IsManifest /\ setup.tags = "none" /\ fetch'.pc \in {"read", "have"} => fetch'.tag = NoTag
  BY DEF TagsInv
<1> QED BY <1>1, <1>2, <1>3, <1>4, <1>5, <1>6 DEF TagsInv, IInv, Direct, IsManifest

\* A Fetch that is not under way, or has just begun, holds nothing.
LEMMA FreshHolds ==
  ASSUME IInv, TagsInv, Reads, UNCHANGED mem,
         fetch' \in {NoFetch, [NoFetch EXCEPT !.pc = "open"]}
  PROVE  IInv' /\ TagsInv'
PROOF
<1>1. FetchOK'
  BY SourceConstants DEF FetchOK, Fetches, NoFetch, ETags, Reads, IsManifest
<1>2. MemOK'
  BY DEF IInv, MemOK
<1>3. fetch'.pc \in {"idle", "open"}
  BY DEF NoFetch
<1> QED BY <1>1, <1>2, <1>3, ReadHolds

\* The steps of the four Fetch methods.
LEMMA FetchHolds ==
  ASSUME IInv, TagsInv, FetchStep, UNCHANGED wvars
  PROVE  IInv' /\ TagsInv'
PROOF
<1> USE SourceConstants
<1>r. Reads
  BY DEF FetchStep, Stat, ReadFile, GetObject, GetHTTP, ResolveManifest, CheckPayload, Reads, wvars
<1>i. IsManifest' = IsManifest /\ setup' = setup
  BY <1>r DEF Reads, IsManifest
<1>f. FetchOK /\ fetch \in Fetches /\ MemOK
  BY DEF IInv, FetchOK
<1>k. ~IsManifest => Doc = "main" /\ Kind = setup.main /\ remote[Doc] = Main
  BY DocType DEF Kind, KindOf, Main
<1>1. CASE Stat
  <2>0. remote[Doc].tag \in ETags
    BY DocType
  <2>1. /\ fetch' = [fetch EXCEPT !.pc = "read", !.tag = remote[Doc].tag] /\ UNCHANGED mem
        /\ Kind = "file"
    BY <1>1 DEF Stat
  <2>2. FetchOK'
    BY Zenon, <1>f, <1>i, <1>k, <2>0, <2>1, DocType DEF FetchOK, Fetches
  <2>3. MemOK'
    BY <1>f, <2>1 DEF MemOK
  <2>4. fetch'.tag = remote[Doc].tag /\ fetch'.pc = "read"
    BY <1>f, <2>1 DEF Fetches
  <2> QED BY <1>r, <1>k, <2>2, <2>3, <2>4, ReadHolds
<1>2. CASE ReadFile
  <2>1. /\ fetch' = [fetch EXCEPT !.pc = "have", !.data = remote[Doc].data]
        /\ fetch.pc = "read" /\ UNCHANGED mem /\ (~IsManifest => setup.main = "file")
    BY <1>2, <1>f DEF ReadFile, FetchOK
  <2>2. FetchOK'
    BY Zenon, <1>f, <1>i, <2>1, DocType DEF FetchOK, Fetches
  <2>3. MemOK'
    BY <1>f, <2>1 DEF MemOK
  <2>4. fetch'.tag = fetch.tag /\ fetch'.pc = "have" /\ fetch'.data = remote[Doc].data
    BY <1>f, <2>1 DEF Fetches
  <2> QED BY <1>r, <1>k, <2>1, <2>2, <2>3, <2>4, ReadHolds
<1>3. CASE GetObject
  <2>1. /\ fetch' = [fetch EXCEPT !.pc = "have", !.data = remote[Doc].data, !.tag = remote[Doc].tag]
        /\ UNCHANGED mem
    BY <1>3 DEF GetObject
  <2>2. FetchOK'
    BY Zenon, <1>f, <1>i, <2>1, DocType DEF FetchOK, Fetches
  <2>3. MemOK'
    BY <1>f, <2>1 DEF MemOK
  <2>4. fetch'.tag = remote[Doc].tag /\ fetch'.data = remote[Doc].data
    BY <1>f, <2>1 DEF Fetches
  <2> QED BY <1>r, <1>k, <2>2, <2>3, <2>4, ReadHolds
<1>4. CASE GetHTTP
  <2>0. fetch.at \in {"main", "payload"} /\ mem[fetch.at] \in ETags
    BY <1>f DEF Fetches, MemOK
  <2>1. CASE mem[fetch.at] # NoTag /\ mem[fetch.at] = remote[Doc].tag
    <3>1. fetch' = [fetch EXCEPT !.pc = "have", !.data = None, !.tag = remote[Doc].tag] /\ UNCHANGED mem
      BY <1>4, <2>1 DEF GetHTTP
    <3>2. FetchOK'
      BY Zenon, <1>f, <1>i, <2>0, <2>1, <3>1 DEF FetchOK, Fetches
    <3>3. MemOK'
      BY <1>f, <3>1 DEF MemOK
    <3>4. fetch'.tag = remote[Doc].tag /\ fetch'.data = None
      BY <1>f, <3>1 DEF Fetches
    <3> QED BY <1>r, <1>k, <3>2, <3>3, <3>4, ReadHolds
  <2>2. CASE ~(mem[fetch.at] # NoTag /\ mem[fetch.at] = remote[Doc].tag)
    <3>1. /\ fetch' = [fetch EXCEPT !.pc = "have", !.data = remote[Doc].data, !.tag = remote[Doc].tag]
          /\ mem' = [mem EXCEPT ![fetch.at] = remote[Doc].tag]
      BY <1>4, <2>2 DEF GetHTTP
    <3>2. FetchOK'
      BY Zenon, <1>f, <1>i, <3>1, DocType DEF FetchOK, Fetches
    <3>3. MemOK'
      BY <1>f, <2>0, <3>1, DocType DEF MemOK
    <3>4. fetch'.tag = remote[Doc].tag /\ fetch'.data = remote[Doc].data
      BY <1>f, <3>1 DEF Fetches
    <3> QED BY <1>r, <1>k, <3>2, <3>3, <3>4, ReadHolds
  <2> QED BY <2>1, <2>2
<1>5. CASE ResolveManifest
  <2>0. /\ fetch.pc = "have" /\ fetch.at = "main" /\ IsManifest
        /\ fetch.data \in {None} \cup Entries /\ fetch.tag \in ETags
    BY <1>5, <1>f DEF ResolveManifest, FetchOK
  <2>1. CASE fetch' = [fetch EXCEPT !.pc = "got", !.data = None] /\ UNCHANGED mem
    <3>1. FetchOK'
      BY Zenon, <1>f, <1>i, <2>0, <2>1 DEF FetchOK, Fetches
    <3>2. MemOK'
      BY <1>f, <2>1 DEF MemOK
    <3> QED BY <1>r, <2>0, <3>1, <3>2, ReadHolds
  <2>2. CASE fetch' = NoFetch /\ UNCHANGED mem
    BY <1>r, <2>2, FreshHolds
  <2>3. CASE /\ fetch.data # None /\ fetch.data.ver # None
             /\ fetch' = [fetch EXCEPT !.pc = "open", !.at = "payload", !.entry = fetch.data,
                                       !.mtag = fetch.tag]
             /\ mem' = IF manifest.res = fetch.data.res THEN mem
                       ELSE [mem EXCEPT !["payload"] = NoTag]
    <3>0. fetch.data \in Entries /\ fetch.data.ver \in Versions
      BY <2>0, <2>3 DEF Entries
    <3>1. FetchOK'
      BY Zenon, <1>f, <1>i, <2>0, <2>3, <3>0 DEF FetchOK, Fetches
    <3>2. MemOK'
      BY <1>f, <2>3 DEF MemOK, ETags
    <3> QED BY <1>r, <2>0, <3>1, <3>2, ReadHolds
  <2> QED BY <1>5, <2>1, <2>2, <2>3 DEF ResolveManifest, Fail
<1>6. CASE CheckPayload
  <2>0. /\ fetch.pc = "have" /\ fetch.at = "payload" /\ IsManifest /\ UNCHANGED mem
        /\ fetch.data \in {None} \cup Configs /\ fetch.entry \in Entries /\ fetch.entry.ver \in Versions
    BY <1>6, <1>f DEF CheckPayload, FetchOK
  <2>m. MemOK'
    BY <1>f, <2>0 DEF MemOK
  <2>1. CASE fetch.data = None /\ fetch' = [fetch EXCEPT !.pc = "got"]
    <3>1. FetchOK'
      BY <1>f, <1>i, <2>0, <2>1 DEF FetchOK, Fetches
    <3> QED BY <1>r, <2>0, <2>m, <3>1, ReadHolds
  <2>2. CASE fetch' = NoFetch
    BY <1>r, <2>0, <2>2, FreshHolds
  <2>3. CASE /\ fetch.data # None /\ fetch.entry.sum \in {None, fetch.data}
             /\ fetch' = [fetch EXCEPT !.pc = "got", !.tag = syntheticETag(fetch.mtag, fetch.entry)]
    <3>1. PICK s \in Synthetic : s = syntheticETag(fetch.mtag, fetch.entry) /\ s[3] = fetch.entry.sum
      <4>1. fetch.mtag \in ETags /\ fetch.entry.sum \in Configs \cup {None}
        BY <1>f, <2>0 DEF Entries, Fetches
      <4>2. <<fetch.mtag, fetch.entry.ver, fetch.entry.sum>> \in Synthetic
        BY <2>0, <4>1 DEF Synthetic
      <4> QED BY <4>2 DEF syntheticETag
    <3>2. FetchOK'
      BY Zenon, <1>f, <1>i, <2>0, <2>3, <3>1 DEF FetchOK, Fetches
    <3> QED BY <1>r, <2>0, <2>m, <3>2, ReadHolds
  <2> QED BY <1>6, <2>1, <2>2, <2>3 DEF CheckPayload, Fail
<1> QED BY <1>1, <1>2, <1>3, <1>4, <1>5, <1>6 DEF FetchStep

-----------------------------------------------------------------------------
(* The watcher *)

\* What Apply is given.
LEMMA FetchedType ==
  ASSUME IInv, ToApply
  PROVE  /\ fetch.data \in Configs
         /\ IsManifest => fetch.tag \in Synthetic /\ fetch.tag[3] \in {None, fetch.data}
         /\ ~IsManifest => fetch.pc = "have" /\ fetch.tag \in ETags
         /\ setup.tags # "none" => fetch.tag # NoTag
PROOF
<1> USE DEF IInv
<1>1. fetch.data # None /\ Fetched /\ fetch.at \in {"main", "payload"}
  BY DEF ToApply, FetchOK, Fetches
<1>2. CASE IsManifest
  <2>1. fetch.pc = "got"
    BY <1>1, <1>2 DEF Fetched
  <2>2. fetch.data \in Configs /\ fetch.tag \in Synthetic /\ fetch.tag[3] \in {None, fetch.data}
    BY <1>1, <2>1 DEF FetchOK
  <2>3. NoTag \notin Synthetic
    BY SourceConstants DEF Synthetic, ETags
  <2> QED BY <1>2, <2>2, <2>3
<1>3. CASE ~IsManifest
  <2>1. fetch.pc = "have"
    BY <1>1, <1>3 DEF Fetched, FetchOK
  <2> QED BY <1>1, <1>3, <2>1 DEF FetchOK
<1> QED BY <1>2, <1>3

\* A successful apply makes the fetched content and ETag the ones in force.
LEMMA ApplyHolds ==
  ASSUME IInv, TagsInv, ApplySucceeds
  PROVE  IInv' /\ TagsInv'
PROOF
<1> USE SourceConstants
<1>s. /\ applied' = fetch.data /\ appliedTag' = fetch.tag
      /\ lastETag' = fetch.tag /\ lastHash' = fetch.data /\ failed' = FALSE
      /\ fetch' = NoFetch /\ fetch.data \notin Invalid
      /\ UNCHANGED <<setup, remote, owner, mem, loop>>
      /\ ToApply
  BY DEF ApplySucceeds
<1>i. IsManifest' = IsManifest /\ UNCHANGED <<Main, Owner, Direct>>
  BY <1>s DEF IsManifest, Main, Owner, Direct
<1>p. fetch'.pc = "idle"
  BY <1>s DEF NoFetch
<1>1. RemoteOK'
  BY <1>s DEF IInv, RemoteOK, IsManifest
<1>2. FetchOK' /\ MemOK'
  BY <1>s DEF IInv, FetchOK, Fetches, NoFetch, ETags, MemOK
<1>3. TypeOK'
  BY <1>s, <1>p, FetchedType DEF IInv, AppliedChecked, TypeOK
<1>4. ChecksumHonoured'
  <2>1. setup.policy \in {"tofu", "disabled", fetch.data}
    BY <1>s DEF ToApply, ValidateHash
  <2> QED BY <1>s, <1>i, <2>1, FetchedType DEF ChecksumHonoured
<1>5. ASSUME Direct, setup.main = "file" PROVE FileTags'
  <2>1. FileTags /\ fetch.pc = "have"
    BY <1>5, <1>s, FetchedType DEF TagsInv, Direct
  <2> QED BY <1>s, <1>i, <1>p, <2>1 DEF FileTags
<1>6. ASSUME Direct, setup.main # "file" PROVE ObjectTags'
  <2>1. ObjectTags /\ fetch.pc = "have" /\ fetch.data # None
    BY <1>6, <1>s, FetchedType DEF TagsInv, Direct
  <2> QED BY <1>s, <1>i, <1>p, <2>1 DEF ObjectTags
<1>7. TagsInv'
  BY <1>s, <1>i, <1>p, <1>5, <1>6, FetchedType DEF TagsInv
<1> QED BY <1>1, <1>2, <1>3, <1>4, <1>7 DEF IInv, AppliedChecked

\* A failed apply under HashTOFU was of another ETag than the one in force.
LEMMA OtherTag ==
  ASSUME IInv, ToApply, ~IsManifest, setup.policy = "tofu", applied # None,
         setup.tags # "none" \/ fetch.data # applied
  PROVE  fetch.tag # lastETag
PROOF
<1>1. lastHash = applied /\ setup.policy \notin Configs
  BY SetupShapes DEF IInv, AppliedChecked, TypeOK
<1>2. ~(fetch.tag = lastETag /\ fetch.data # lastHash)
  BY <1>1, FetchedType DEF ToApply, ValidateHash
<1>3. fetch.tag # NoTag /\ fetch.tag = lastETag => fetch.data # lastHash
  BY DEF ToApply, Seen
<1> QED BY <1>1, <1>2, <1>3, FetchedType

\* A failed apply empties lastETag; the file it read no longer has the ETag in force.
LEMMA FailHolds ==
  ASSUME IInv, TagsInv, ApplyFails
  PROVE  IInv' /\ TagsInv'
PROOF
<1> USE SourceConstants
<1>s. /\ lastETag' = NoTag /\ fetch' = NoFetch /\ failed' = TRUE
      /\ UNCHANGED <<setup, remote, owner, mem, loop, applied, appliedTag, lastHash>>
      /\ ToApply
  BY DEF ApplyFails
<1>i. IsManifest' = IsManifest /\ UNCHANGED <<Main, Owner, Direct>>
  BY <1>s DEF IsManifest, Main, Owner, Direct
<1>p. fetch'.pc = "idle"
  BY <1>s DEF NoFetch
<1>1. RemoteOK'
  BY <1>s DEF IInv, RemoteOK, IsManifest
<1>2. FetchOK' /\ MemOK'
  BY <1>s DEF IInv, FetchOK, Fetches, NoFetch, ETags, MemOK
<1>3. AppliedChecked'
  BY <1>s, <1>i, <1>p DEF IInv, AppliedChecked, TypeOK, ChecksumHonoured
<1>5. ASSUME Direct, setup.main = "file" PROVE FileTags'
  <2>1. FileTags /\ fetch.pc = "have" /\ setup.tags # "none"
    BY <1>5, <1>s, FetchedType DEF TagsInv, Direct
  <2>2. applied # None => fetch.tag # lastETag
    BY <1>5, <1>s, <2>1, OtherTag DEF Direct
  <2>3. applied # None => Main.tag # appliedTag
    BY <2>1, <2>2 DEF FileTags
  <2> QED BY <1>s, <1>i, <1>p, <2>1, <2>3 DEF FileTags
<1>6. ASSUME Direct, setup.main # "file" PROVE ObjectTags'
  <2>1. ObjectTags
    BY <1>6 DEF TagsInv
  <2> QED BY <1>s, <1>i, <1>p, <2>1 DEF ObjectTags
<1>7. TagsInv'
  BY Zenon, <1>s, <1>i, <1>p, <1>5, <1>6 DEF TagsInv, ETags
<1> QED BY <1>1, <1>2, <1>3, <1>7 DEF IInv

\* Every step keeps both invariants.
LEMMA NextHolds ==
  ASSUME IInv, TagsInv, [Next]_vars
  PROVE  IInv' /\ TagsInv'
PROOF
<1>0. "main" \in Docs /\ Resources \subseteq Docs /\ "main" \notin Resources
  BY SourceConstants DEF Docs
<1>1. CASE PublishAny /\ UNCHANGED wvars
  <2>1. CASE \E d \in IF IsManifest THEN Entries ELSE Configs : Publish("main", d)
    BY <1>0, <1>1, <2>1, PublishHolds
  <2>2. CASE \E r \in Resources, d \in Configs : Publish(r, d)
    <3>1. PICK r \in Resources, d \in Configs : Publish(r, d)
      BY <2>2
    <3> QED BY <1>0, <1>1, <3>1, PublishHolds
  <2> QED BY <1>1, <2>1, <2>2 DEF PublishAny
<1>2. CASE FetchError /\ UNCHANGED wvars
  BY <1>2, FreshHolds DEF FetchError, Fail, Reads, wvars
<1>3. CASE FetchStep /\ UNCHANGED wvars
  BY <1>3, FetchHolds
<1>4. CASE Poll \/ FetchCancelled \/ Skip
  BY <1>4, FreshHolds DEF Poll, FetchCancelled, Skip, Fail, Reads, wvars
<1>5. CASE Cancel \/ Stop \/ UNCHANGED vars
  <2>1. UNCHANGED <<svars, lastETag, lastHash, applied, appliedTag, failed>>
        /\ (loop' = loop \/ loop' \in {"cancelled", "stopped"})
    BY <1>5 DEF Cancel, Stop, vars, svars
  <2>2. IInv'
    BY <2>1 DEF IInv, RemoteOK, FetchOK, MemOK, AppliedChecked, TypeOK, ChecksumHonoured, svars, IsManifest
  <2>3. TagsInv'
    BY <2>1 DEF TagsInv, FileTags, ObjectTags, Direct, Main, Owner, IsManifest, svars
  <2> QED BY <2>2, <2>3
<1>6. CASE ApplySucceeds
  BY <1>6, ApplyHolds
<1>7. CASE ApplyFails
  BY <1>7, FailHolds
<1> QED BY <1>1, <1>2, <1>3, <1>4, <1>5, <1>6, <1>7 DEF Next

LEMMA AlwaysHolds == Spec => [](IInv /\ TagsInv)
PROOF BY InitHolds, NextHolds, PTL DEF Spec

-----------------------------------------------------------------------------
(* Theorems *)

\* ConfigWatcher.Apply and ManifestSource.Fetch: what the service runs is
\* valid, is what the watcher remembers, and has the hash that the manifest
\* entry or the operator named, whatever changes between the reads.
THEOREM WhatRunsIsChecked == Spec => []AppliedChecked
PROOF BY AlwaysHolds, PTL DEF IInv

\* ConfigWatcher.Apply: a configuration is applied again only under another
\* ETag or after a failure, when the servers send ETags at all (without one
\* every poll applies).
THEOREM AppliesChanges ==
  ASSUME \A s \in Setups : s.tags # "none"
  PROVE  Spec => OnlyChanges
PROOF
<1>1. ASSUME IInv, ApplySucceeds
      PROVE  fetch.data # applied \/ fetch.tag # appliedTag \/ lastETag # appliedTag
  <2>1. setup.tags # "none" /\ lastHash = applied
    BY <1>1 DEF IInv, AppliedChecked, TypeOK
  <2>2. ToApply
    BY <1>1 DEF ApplySucceeds
  <2> QED BY <1>1, <2>1, <2>2, FetchedType DEF ToApply, Seen
<1>2. IInv /\ [Next]_vars => [ApplySucceeds => \/ fetch.data # applied
                                             \/ fetch.tag # appliedTag
                                             \/ lastETag # appliedTag]_vars
  BY <1>1
<1> QED BY <1>2, AlwaysHolds, PTL DEF Spec, OnlyChanges

\* Apply and ValidateHash under HashTOFU, for servers that reuse their ETags
\* too: one content replaces another under the ETag that is running only after
\* a failed apply has emptied lastETag, and then only when the server gave that
\* ETag to several contents; never because a file changed between stat and read.
THEOREM TagNamesContent == Spec => SameTagCaught
PROOF
<1>1. ASSUME IInv, TagsInv, Next, SwitchesUnderTag
      PROVE  failed /\ setup.tags = "reused"
  <2>0. /\ applied # None /\ applied' # applied /\ fetch.tag = appliedTag
        /\ ~IsManifest /\ setup.policy = "tofu"
    BY <1>1 DEF SwitchesUnderTag
  <2>1. ApplySucceeds
    BY <1>1, <2>0 DEF Next, PublishAny, wvars, Poll, Cancel, Stop, FetchCancelled, Skip, ApplyFails
  <2>2. ToApply /\ fetch.data # applied
    BY <2>0, <2>1 DEF ApplySucceeds
  <2>3. fetch.tag # lastETag
    BY <1>1, <2>0, <2>2, OtherTag
  <2>4. fetch.pc = "have" /\ fetch.data # None
    BY <1>1, <2>0, <2>2, FetchedType DEF ToApply
  <2>5. failed
    BY <1>1, <2>0, <2>3 DEF TagsInv
  <2>6. setup.tags # "none"
    BY <1>1, <2>0, <2>3 DEF TagsInv
  <2>7. ~(setup.tags = "honest" /\ setup.main = "file")
    <3>1. SUFFICES ASSUME setup.tags = "honest", setup.main = "file" PROVE FALSE
      OBVIOUS
    <3>2. FileTags
      BY <1>1, <2>0, <3>1 DEF TagsInv, Direct
    <3> QED BY <2>0, <2>3, <2>4, <3>2 DEF FileTags
  <2>8. ~(setup.tags = "honest" /\ setup.main # "file")
    <3>1. SUFFICES ASSUME setup.tags = "honest", setup.main # "file" PROVE FALSE
      OBVIOUS
    <3>2. ObjectTags
      BY <1>1, <2>0, <3>1 DEF TagsInv, Direct
    <3> QED BY <2>0, <2>2, <2>4, <3>2 DEF ObjectTags
  <2> QED BY <1>1, <2>5, <2>6, <2>7, <2>8, SetupType
<1>2. IInv /\ TagsInv /\ [Next]_vars => [SwitchesUnderTag => failed /\ setup.tags = "reused"]_vars
  BY <1>1
<1> QED BY <1>2, AlwaysHolds, PTL DEF Spec, SameTagCaught
=============================================================================
