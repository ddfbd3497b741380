--------------------------- MODULE ConfigSources ---------------------------
(***************************************************************************)
(* The Fetch methods of configsource: FileSource, S3Source and HTTPSource, *)
(* and ManifestSource on top of two of them.  A document may change        *)
(* between any two steps.  A hash is represented by the data it hashes.    *)
(***************************************************************************)
EXTENDS Naturals

CONSTANTS Configs,     \* configuration contents
          Versions,    \* service versions in a manifest
          Resources,   \* places a manifest entry can point to
          Tags,        \* ETags: object ETag, mtime and size, Last-Modified
          NoTag,       \* the empty ETag
          None,
          Setups,      \* ways to build the watcher, one per behaviour
          MaxPublish,  \* bound: changes of documents
          MaxFaults    \* bound: failed fetches and failed applies

ASSUME SourceConstants ==
  /\ None \notin Configs \cup Versions \cup Resources \cup Tags
  /\ NoTag \notin Tags
  /\ Versions # {} /\ Resources # {} /\ Tags # {} /\ "main" \notin Resources
  /\ NoTag \notin (Tags \cup {NoTag}) \X Versions \X (Configs \cup {None})
  /\ MaxPublish \in Nat /\ MaxFaults \in Nat

\* A hash policy is a word or the pinned hash, which is none of these words.
ASSUME SetupShapes ==
  /\ Setups \subseteq [main : {"file", "s3", "http"}, payload : {"none", "file", "s3", "http"},
                       tags : {"honest", "reused", "none"}, policy : {"tofu", "disabled"} \cup Configs,
                       faults : SUBSET {"fetch", "apply", "cancel"}]
  /\ {"tofu", "disabled"} \cap Configs = {}

VARIABLES setup,     \* the configured source, constant
          remote,    \* external: the documents
          owner,     \* external: the data each ETag of a document stands for
          mem,       \* HTTPSource.lastETag, of the main and the payload source
          manifest,  \* ManifestSource: lastVersion, lastCksum and resolvedCR
          fetch,     \* the Fetch in progress
          published, faults

svars == <<setup, remote, owner, mem, manifest, fetch, published, faults>>

Docs == {"main"} \cup Resources
IsManifest == setup.payload # "none"

\* A manifest, reduced to the entry of this service.  Entries without a
\* version stand for manifests that do not parse or lack an active entry.
Entries == [ver : Versions \cup {None}, sum : Configs \cup {None}, res : Resources]

NoFetch == [pc |-> "idle", at |-> "main", tag |-> NoTag, data |-> None,
            entry |-> None, mtag |-> NoTag]

\* The document that the source at hand reads.
Doc == IF fetch.at = "main" THEN "main" ELSE fetch.entry.res
KindOf(x) == IF x = "main" THEN setup.main ELSE setup.payload
Kind == KindOf(Doc)

\* ManifestSource's syntheticETag.
syntheticETag(etag, e) == <<etag, e.ver, e.sum>>

SourcesInit(data) ==
  /\ setup \in Setups
  /\ remote = [x \in Docs |->
                 [data |-> IF x = "main" /\ IsManifest
                           THEN [ver |-> CHOOSE v \in Versions : TRUE, sum |-> data,
                                 res |-> CHOOSE r \in Resources : TRUE]
                           ELSE data,
                  tag |-> IF setup.tags = "none" THEN NoTag
                          ELSE CHOOSE t \in Tags : TRUE]]
  /\ owner = [x \in Docs |-> [t \in Tags \cup {NoTag} |->
                IF t = remote[x].tag THEN remote[x].data ELSE None]]
  /\ mem = [s \in {"main", "payload"} |-> NoTag]
  /\ manifest = [ver |-> None, sum |-> None, res |-> None]
  /\ fetch = NoFetch
  /\ published = 0 /\ faults = 0

-----------------------------------------------------------------------------
\* External: someone replaces a document.  Honest ETags stand for one content
\* each (and the modification time of a file does not come back); reused ones
\* do not; some servers send none.
Publish(x, d) ==
  /\ published < MaxPublish
  /\ d # remote[x].data
  /\ \E t \in IF setup.tags = "none" THEN {NoTag} ELSE Tags :
       /\ setup.tags = "honest" => owner[x][t] \in {None} \cup
                                (IF KindOf(x) = "file" THEN {} ELSE {d})
       /\ remote' = [remote EXCEPT ![x] = [data |-> d, tag |-> t]]
       /\ owner' = [owner EXCEPT ![x][t] = d]
  /\ published' = published + 1
  /\ UNCHANGED <<setup, mem, manifest, fetch, faults>>

PublishAny ==
  \/ \E d \in IF IsManifest THEN Entries ELSE Configs : Publish("main", d)
  \/ IsManifest /\ \E r \in Resources, d \in Configs : Publish(r, d)

\* Fetch returns an error.
Fail == fetch' = NoFetch

\* FileSource: os.Stat, then os.ReadFile.
Stat ==
  /\ fetch.pc = "open" /\ Kind = "file"
  /\ fetch' = [fetch EXCEPT !.pc = "read", !.tag = remote[Doc].tag]
  /\ UNCHANGED <<setup, remote, owner, mem, manifest, published, faults>>

ReadFile ==
  /\ fetch.pc = "read"
  /\ fetch' = [fetch EXCEPT !.pc = "have", !.data = remote[Doc].data]
  /\ UNCHANGED <<setup, remote, owner, mem, manifest, published, faults>>

\* S3Source.
GetObject ==
  /\ fetch.pc = "open" /\ Kind = "s3"
  /\ fetch' = [fetch EXCEPT !.pc = "have", !.data = remote[Doc].data,
                            !.tag = remote[Doc].tag]
  /\ UNCHANGED <<setup, remote, owner, mem, manifest, published, faults>>

\* HTTPSource: a conditional GET; 304 keeps the validator, 200 replaces it.
GetHTTP ==
  /\ fetch.pc = "open" /\ Kind = "http"
  /\ IF mem[fetch.at] # NoTag /\ mem[fetch.at] = remote[Doc].tag
     THEN /\ fetch' = [fetch EXCEPT !.pc = "have", !.data = None,
                                    !.tag = mem[fetch.at]]
          /\ UNCHANGED mem
     ELSE /\ fetch' = [fetch EXCEPT !.pc = "have", !.data = remote[Doc].data,
                                    !.tag = remote[Doc].tag]
          /\ mem' = [mem EXCEPT ![fetch.at] = remote[Doc].tag]
  /\ UNCHANGED <<setup, remote, owner, manifest, published, faults>>

\* The file, the network or the server fails.
FetchError ==
  /\ fetch.pc \in {"open", "read"}
  /\ "fetch" \in setup.faults /\ faults < MaxFaults
  /\ faults' = faults + 1
  /\ Fail
  /\ UNCHANGED <<setup, remote, owner, mem, manifest, published>>

Unchanged(e) ==
  e.ver = manifest.ver /\ e.sum = manifest.sum /\ manifest.ver # None

\* ManifestSource, once the manifest is here: nothing new, no entry, or the
\* entry's source, which is built anew when the resource changed.
ResolveManifest ==
  /\ fetch.pc = "have" /\ fetch.at = "main" /\ IsManifest
  /\ LET e == fetch.data IN
       \/ /\ e = None \/ (e # None /\ e.ver # None /\ Unchanged(e))
          /\ fetch' = [fetch EXCEPT !.pc = "got", !.data = None]
          /\ UNCHANGED <<mem, manifest>>
       \/ /\ e # None /\ e.ver = None
          /\ Fail
          /\ UNCHANGED <<mem, manifest>>
       \/ /\ e # None /\ e.ver # None /\ ~Unchanged(e)
          /\ fetch' = [fetch EXCEPT !.pc = "open", !.at = "payload", !.entry = e,
                                    !.mtag = fetch.tag]
          /\ mem' = IF manifest.res = e.res THEN mem
                    ELSE [mem EXCEPT !["payload"] = NoTag]
          /\ manifest' = [manifest EXCEPT !.res = e.res]
  /\ UNCHANGED <<setup, remote, owner, published, faults>>

\* Mutated: the checksum of the entry is not compared.
CheckPayloadUnverified ==
  /\ fetch.pc = "have" /\ fetch.at = "payload"
  /\ fetch' = [fetch EXCEPT !.pc = "got",
                 !.tag = syntheticETag(fetch.mtag, fetch.entry)]
  /\ manifest' = [manifest EXCEPT !.ver = fetch.entry.ver, !.sum = fetch.entry.sum]
  /\ UNCHANGED <<setup, remote, owner, mem, published, faults>>

\* ManifestSource, once the payload is here: verify the checksum, remember the
\* entry, and combine the manifest's ETag with it.
CheckPayload ==
  /\ fetch.pc = "have" /\ fetch.at = "payload"
  /\ LET e == fetch.entry IN
       \/ /\ fetch.data = None
          /\ fetch' = [fetch EXCEPT !.pc = "got"]
          /\ UNCHANGED manifest
       \/ /\ fetch.data # None /\ e.sum \notin {None, fetch.data}
          /\ Fail
          /\ UNCHANGED manifest
       \/ /\ fetch.data # None /\ e.sum \in {None, fetch.data}
          /\ fetch' = [fetch EXCEPT !.pc = "got",
                                    !.tag = syntheticETag(fetch.mtag, e)]
          /\ manifest' = [manifest EXCEPT !.ver = e.ver, !.sum = e.sum]
  /\ UNCHANGED <<setup, remote, owner, mem, published, faults>>

FetchStep ==
  \/ Stat
  \/ ReadFile
  \/ GetObject
  \/ GetHTTP
  \/ ResolveManifest
  \/ CheckPayload
=============================================================================
