SPECIFICATION Spec
CONSTANTS
  a = a
  b = b
  s1 = s1
  s2 = s2
  None = None
  Task <- OneTask
  Node <- TwoNodes
  Slot <- TwoSlots
  Home <- SplitHome
  Delay <- DelaySlow
  Backoff <- BackoffShort
  CronOverlap = FALSE
  MaxFaults = 0
PROPERTIES
  SuccessIsFinal
CHECK_DEADLOCK FALSE
