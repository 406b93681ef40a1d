\* TLC stops at the first property it finds violated: the other lines are
\* for one run each.  The last two are beyond the assumptions: 2xx responses
\* on two TCP connections, and a Call-ID that is used again while a timer of
\* its earlier dialog is left over (OneReader = FALSE, FreshCallIds = FALSE,
\* CalleeTags <- MCTags).
CONSTANTS
  t1 = t1
  t2 = t2
  Stranger = Stranger
  NoTag = NoTag
  OneReader = TRUE
  FreshCallIds = TRUE
  MaxDialogs = 2
  CalleeTags <- MCOneTag
SPECIFICATION Spec
INVARIANT NoFileWithoutDialog
\* INVARIANT GateHolds
\* PROPERTY ACKIsRouted
\* PROPERTY TimeoutBoundsTheCall
\* PROPERTY NoEarlyTimeout
\* PROPERTY CalleeIsSettled
CHECK_DEADLOCK FALSE
