SPECIFICATION SpecEnds
CONSTANTS
  Job <- Jobs
  Runs <- JobRuns
  Panics <- Panicky
  PoolSize = 4
  MaxMoves = 1
  Closer = {c1, c2}
INVARIANTS
  TypeOK
  NoTimerStranded
  StopTwice
PROPERTIES
  StopWaits
  Fires
  StopReturns
CHECK_DEADLOCK FALSE
