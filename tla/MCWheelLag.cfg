SPECIFICATION Spec
CONSTANTS
  t1 = t1
  t2 = t2
  t3 = t3
  g1 = g1
  g2 = g2
  None = None
  Loop = Loop
  Timer <- ThreeTimers
  Goroutine <- TwoGoroutines
  Stoppable <- FirstStoppable
  Delay <- DelaysShort
  WheelSize = 2
  MaxLevel = 2
  LevelTick <- Ticks1
  MaxTime = 2
  Lag = TRUE
SYMMETRY Symmetry
INVARIANTS
  TypeOK
  NoStranded
  OnePlace
CHECK_DEADLOCK FALSE
