CONSTANTS
  None = None
  b1 = b1
  b2 = b2
  Branches <- MCOneBranch
  CallerTransport = "UDP"
  CalleeTransport = "UDP"
  UpstreamCodes <- MCUpstreamCodes
  LocalCodes <- MCLocalCodes
SPECIFICATION Spec
PROPERTIES
  AnsweredCallGetsReported
  EveryInviteAnswered
  EveryInviteCollected
CHECK_DEADLOCK FALSE
