CONSTANTS
  None = None
  b1 = b1
  b2 = b2
  Branches <- MCBranches
  CallerTransport = "UDP"
  CalleeTransport = "TCP"
  UpstreamCodes <- MCUpstreamCodes
  LocalCodes <- MCRefusals
SPECIFICATION SafeSpec
SYMMETRY MCSymmetry
INVARIANTS
  AnswerIsGenuine
  AnsweredCallIsReported
PROPERTIES
  CancelLeavesNoBranch
  WatchdogLeavesNoBranch
CHECK_DEADLOCK FALSE
