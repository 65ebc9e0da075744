SPECIFICATION Spec
CONSTANTS
  MaxPos = 2
  MaxWrites = 2
  MaxMoves = 0
  MaxReads = 1
INVARIANTS
  ReadsSucceed
CHECK_DEADLOCK FALSE
