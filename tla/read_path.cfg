SPECIFICATION Spec
CONSTANTS
  MaxPos = 3
  MaxWrites = 3
  MaxMoves = 1
  MaxReads = 1
INVARIANTS
  ReadIntegrity
  ReadsFresh
CHECK_DEADLOCK FALSE
