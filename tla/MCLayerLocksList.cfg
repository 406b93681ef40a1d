CONSTANTS
  Nobody = Nobody
  Threads <- MCWithList
  Path <- MCPath
SPECIFICATION LocksSpec
PROPERTIES
  ListIsReturned
CHECK_DEADLOCK FALSE
