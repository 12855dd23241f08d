SPECIFICATION FairSpec
CONSTANTS
  Threads = {t1, t2}
  Sizes = {1, 3}
  Capacity = 2
  Threshold = 2
  MaxRecords = 2
  MaxFlushes = 1
  Closer = t1
INVARIANT NothingLost CloseIsDurable
PROPERTIES CloseReturns
CHECK_DEADLOCK FALSE
