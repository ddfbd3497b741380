SPECIFICATION Spec
CONSTANTS
  Workers = {w1}
  BufferSize = 1
  MaxBatch = 2
  Closers = {k1}
  Recorders = {r1}
  MaxItems = 2
INVARIANT NoPanic
CHECK_DEADLOCK FALSE
