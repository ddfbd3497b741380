\* File, S3, HTTP and manifest sources; some servers reuse their ETags.
SPECIFICATION FairSpec
CONSTANTS
  Configs = {a, b, bad}
  Versions = {v1, v2}
  Resources = {r1, r2}
  Tags = {t1, t2, t3}
  NoTag = NoTag
  None = None
  First = a
  Pinned = b
  Invalid = {bad}
  Setups <- Recovering
  MaxPublish = 2
  MaxFaults = 1
INVARIANT AppliedChecked
PROPERTIES Converges OnlyChanges SameTagCaught
\* RunPeriodicWatch returns when its context is cancelled.
CHECK_DEADLOCK FALSE
