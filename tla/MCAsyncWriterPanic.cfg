CONSTANTS
  p1 = p1
  p2 = p2
  Producers <- MCProducers
  Capacity = 2
  MaxItems = 5
  Batch = 1
SPECIFICATION WriterSpec
INVARIANTS
  CallsAreSafe
CHECK_DEADLOCK FALSE
