SPECIFICATION Spec
CONSTANTS
  Legacy = 3
  BatchSize = 2
  MaxClock = 7
  MaxServe = 2
  MaxCrash = 1
INVARIANTS
  NothingLost
CHECK_DEADLOCK FALSE
