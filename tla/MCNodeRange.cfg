SPECIFICATION Spec
CONSTANTS
  MaxOrdinal = 2
  Node <- OneNode
  Last = 4
  MaxChurn = 5
INVARIANTS
  TypeOK
  OwnRows
  FetchesItsShare
PROPERTY
  Settles
  Learns
CHECK_DEADLOCK FALSE
