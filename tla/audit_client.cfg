\* One worker, so the channel of batches holds four; seven items overflow it.
SPECIFICATION FairSpec
CONSTANTS
  Workers = {w1}
  BufferSize = 2
  MaxBatch = 2
  Closers = {k1}
  MaxItems = 7
INVARIANTS PipelineSound TransportClosedLast
PROPERTIES CloseReturns AllSettle
CHECK_DEADLOCK FALSE
