SPECIFICATION FairSpec
CONSTANTS
  Inode = {1}
  Client = {p1, p2}
  Worker = {w1, w2}
  MaxPos = 1
  StripeSize = 1
  perInodeCap = 2
  globalCap = 2
  queueSize = 1
  MaxBuf = 1
  MaxBatch = 4
  Workload <- ProgressWorkload
PROPERTIES
  CallsReturn
CHECK_DEADLOCK FALSE
