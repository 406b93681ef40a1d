CONSTANTS
  Invites = {i1, i2}
  Byes = {b1}
  Timers = {t1}
  Sweeper = sweeper
  MaxStreams = 1
  HeldStreams <- MCHeldStreams
  None = None
SPECIFICATION Spec
INVARIANTS
  RelaysAreReachable
  SendersAreListed
CHECK_DEADLOCK FALSE
