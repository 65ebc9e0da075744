SPECIFICATION Spec
CONSTANTS
  Inode = {1}
  Client = {p1, p2}
  Worker = {w1, w2}
  MaxPos = 2
  StripeSize = 2
  perInodeCap = 2
  globalCap = 4
  queueSize = 1
  MaxBuf = 2
  MaxBatch = 3
  Workload <- SafetyWorkload
SYMMETRY Symmetry
INVARIANTS
  TypeOK
  FsyncDurable
  SingleFlusher
  StatCoversWritten
  PermitsAccounted
  SizeCovered
  TruncateSticks
  ChmodSticks
  NoPanic
  DrainDurable
  AwaitedFlushes
PROPERTIES
  ImplementsWriteBack
CHECK_DEADLOCK FALSE
