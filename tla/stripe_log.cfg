SPECIFICATION Spec
CONSTANTS
  Radix = 5
  InodeLen = 2
  StripeLen = 1
  SeqLen = 2
  Inode <- Files
  Name <- Names
  Writes <- Appends
  StripeSize = 3
  FirstPos = 11
  MaxPos = 15
  MaxFrags = 3
  MaxEdits = 2
INVARIANTS
  PlanIsNewestWins
  StripesReportedOnce
PROPERTIES
  ImplementsByteArray
CHECK_DEADLOCK FALSE
