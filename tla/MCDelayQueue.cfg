SPECIFICATION Spec
CONSTANTS
  i1 = i1
  i2 = i2
  i3 = i3
  None = None
  Item <- MCItem
  LoopItem <- MCLoopItem
  Prio <- MCPrio
  MaxTime = 2
INVARIANTS
  TypeOK
  WakeProtocol
  NoLostWakeup
  NoCircularWait
PROPERTIES
  OfferReturns
  ImplementsExpiryQueue
CHECK_DEADLOCK FALSE
