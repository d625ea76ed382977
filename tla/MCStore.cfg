SPECIFICATION Spec
CONSTANTS
  a = a
  b = b
  s1 = s1
  s2 = s2
  None = None
  Task <- TwoTasks
  Node <- TwoNodes
  Slot <- TwoSlots
  Home <- SplitHome
  Delay <- DelayMixed
  Backoff <- BackoffMixed
  CronOverlap = TRUE
  MaxFaults = 1
INVARIANTS
  TypeOK
  CountInRange
  GivesUpAfterAllAttempts
PROPERTIES
  FinishedIsFinal
  SuccessIsKept
  Terminates
CHECK_DEADLOCK FALSE
