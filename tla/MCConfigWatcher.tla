-------------------------- MODULE MCConfigWatcher --------------------------
EXTENDS ConfigWatcher

CONSTANT Pinned  \* the hash an operator pins

\* How a watcher can be built, with the failures it meets.
Direct(kind, tags, policy, failures) ==
  [main |-> kind, payload |-> "none", tags |-> tags, policy |-> policy,
   faults |-> failures]

ByManifest(kind, payload, failures) ==
  [main |-> kind, payload |-> payload, tags |-> "honest", policy |-> "tofu",
   faults |-> failures]

\* HTTPSource and ManifestSource remember what they returned, so that a failed
\* apply is not repeated: no transient apply failures for them.
Recovering == {Direct("file", "honest", "tofu", {"fetch", "apply", "cancel"}),
               Direct("s3", "honest", "tofu", {"fetch", "apply", "cancel"}),
               Direct("s3", "reused", "disabled", {"apply"}),
               Direct("s3", "reused", "tofu", {"apply"}),
               Direct("file", "reused", "tofu", {"apply"}),
               Direct("file", "honest", Pinned, {"apply"}),
               Direct("http", "honest", "tofu", {"fetch"}),
               ByManifest("s3", "file", {"fetch"}),
               ByManifest("s3", "s3", {"fetch"})}

\* An object store that gives one ETag to several contents.
Reusing == {Direct("s3", "reused", "tofu", {})}
=============================================================================
