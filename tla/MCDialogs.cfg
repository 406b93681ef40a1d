CONSTANTS
  t1 = t1
  t2 = t2
  Stranger = Stranger
  NoTag = NoTag
  OneReader = FALSE
  FreshCallIds = TRUE
  MaxDialogs = 2
  CalleeTags <- MCOneTag
SPECIFICATION Spec
INVARIANTS
  EndsOnce
  RemovedIsCleaned
  CountsAddUp
PROPERTIES
  TimeoutHangsUp
  EveryDialogEnds
CHECK_DEADLOCK FALSE
