SPECIFICATION Spec
CONSTANTS
  Inode = {1}
  Client = {p1}
  Worker = {w1}
  MaxPos = 2
  StripeSize = 2
  perInodeCap = 3
  globalCap = 4
  queueSize = 1
  MaxBuf = 1
  MaxBatch = 4
  Workload <- RaceWorkload
INVARIANTS
  FsyncNeverLies
CHECK_DEADLOCK FALSE
