\* TLC stops at the first property it finds violated: the other lines are
\* for one run each.
CONSTANTS
  Invites = {i1, i2}
  Byes = {b1}
  Timers = {t1}
  Sweeper = sweeper
  MaxStreams = 1
  HeldStreams <- MCHeldStreams
  None = None
SPECIFICATION Spec
INVARIANT BoundSocketsAreReachable
\* PROPERTY ByeReleasesRelay
\* PROPERTY AnswersNameLiveStreams
CHECK_DEADLOCK FALSE
