CONSTANTS
  Invites = {i1, i2}
  Byes = {b1}
  Timers = {}
  Sweeper = sweeper
  MaxStreams = 1
  HeldStreams <- MCHeldStreams
  None = None
SPECIFICATION FairSpec
INVARIANTS
  RelaysAreReachable
  SendersAreListed
PROPERTIES
  IdleRelaysGo
  StopsReturn
CHECK_DEADLOCK FALSE
