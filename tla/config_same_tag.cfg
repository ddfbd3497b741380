\* A server that reuses ETags, and a configuration that ApplyFunc rejects.
SPECIFICATION FairSpec
CONSTANTS
  Configs = {a, b, bad}
  Versions = {v1, v2}
  Resources = {r1, r2}
  Tags = {t1, t2, t3}
  NoTag = NoTag
  None = None
  First = a
  Pinned = b
  Invalid = {bad}
  Setups <- Reusing
  MaxPublish = 2
  MaxFaults = 0
PROPERTY SameTagRejected
\* RunPeriodicWatch returns when its context is cancelled.
CHECK_DEADLOCK FALSE
