SPECIFICATION Spec
CONSTANTS
  Legacy = 3
  BatchSize = 2
  MaxClock = 7
  MaxServe = 2
  MaxCrash = 2
INVARIANTS
  AllocAhead
  SeqAhead
  RenamedIsComplete
CHECK_DEADLOCK FALSE
