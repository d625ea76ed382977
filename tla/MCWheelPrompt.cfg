SPECIFICATION Spec
CONSTANTS
  t1 = t1
  t2 = t2
  t3 = t3
  g1 = g1
  g2 = g2
  None = None
  Loop = Loop
  Timer <- ThreeTimers
  Goroutine <- OneGoroutine
  Stoppable <- FirstStoppable
  Delay <- DelaysLong
  WheelSize = 2
  MaxLevel = 2
  LevelTick <- Ticks2
  MaxTime = 6
  Lag = FALSE
INVARIANTS
  OneCycle
  ClocksAgree
  NoSelfLock
PROPERTIES
  ImplementsTimerService
CHECK_DEADLOCK FALSE
