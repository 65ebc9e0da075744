SPECIFICATION Spec
CONSTANTS
  Proc = {p1, p2}
  Inode = {1}
  NumStripes = 1
  SegmentMaxSize = 2
  MaxSeg = 3
  Workload <- CollectWorkload
INVARIANTS
  NeverDangling
CHECK_DEADLOCK FALSE
