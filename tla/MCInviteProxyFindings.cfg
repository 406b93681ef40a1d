\* TLC stops at the first property it finds violated: the other lines are
\* for one run each.
CONSTANTS
  None = None
  b1 = b1
  b2 = b2
  Branches <- MCOneBranch
  CallerTransport = "UDP"
  CalleeTransport = "TCP"
  UpstreamCodes <- MCUpstreamCodes
  LocalCodes <- MCNoCodes
SPECIFICATION Spec
PROPERTY TimeoutLeavesNoBranch
\* PROPERTY FailedCallIsReported
\* INVARIANT CallStartMeansAnswered
\* INVARIANT RetransmissionsAbsorbed
CHECK_DEADLOCK FALSE
