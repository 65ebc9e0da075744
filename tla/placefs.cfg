SPECIFICATION SysSpec
CONSTANTS
  NumStripes = 3
  SegmentMaxSize = 2
  HotMaxBytes = 2
  HotTargetBytes = 2
  Tick = 1
  MaxBackoff = 4
  MaxPass = 1
  HealthMaxTickGap = 4
  MaxWrites = 3
  Handler = {h1, h2}
  Workload <- Days
INVARIANTS
  ClosedLast
  ExitIsClean
  HealthyOnceMounted
  ObservationsCounted
PROPERTIES
  StaleMeansBackoff
  PressureRelieved
  StopReturns
  SignalledExits
