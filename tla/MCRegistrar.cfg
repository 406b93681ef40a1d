CONSTANTS
  desk = desk
  mobile = mobile
  both = both
  moves = moves
  query = query
  Contacts = {desk, mobile}
  Requests = {both, moves}
  Asks <- MCAsks
  Stars = {}
  StoreFails = TRUE
  MaxTime = 2
  MaxDuration = 2
  None = None
SPECIFICATION FairSpec
PROPERTIES
  OwnContactsAnswered
  ExpiryIsReported
CHECK_DEADLOCK FALSE
