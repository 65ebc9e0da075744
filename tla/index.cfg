SPECIFICATION Spec
CONSTANTS
  Proc = {p1, p2}
  Inode = {1}
  NumStripes = 2
  SegmentMaxSize = 4
  MaxSeg = 2
  Workload <- SafetyWorkload
SYMMETRY Symmetry
INVARIANTS
  FragmentsDurable
  NewestWins
  ReadsRightBytes
CHECK_DEADLOCK FALSE
