CONSTANTS
  Nobody = Nobody
  Threads <- MCThreads
  Path <- MCPath
SPECIFICATION LocksSpec
INVARIANTS
  NoWaitCycle
PROPERTIES
  EveryPathFinishes
