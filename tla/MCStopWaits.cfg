SPECIFICATION Spec
CONSTANTS
  Job <- Jobs
  Runs <- JobRuns
  Panics <- Panicky
  PoolSize = 4
  MaxMoves = 1
  Closer = {c1}
PROPERTIES
  StopDoesNotWait
CHECK_DEADLOCK FALSE
