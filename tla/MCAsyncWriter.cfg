CONSTANTS
  p1 = p1
  p2 = p2
  Producers <- MCProducers
  Capacity = 2
  MaxItems = 5
  Batch = 2
SPECIFICATION WriterSpec
INVARIANTS
  CloseDrains
PROPERTIES
  KeepsOrder
  CloseEnds
CHECK_DEADLOCK FALSE
