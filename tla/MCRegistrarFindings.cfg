\* TLC stops at the first property it finds violated: the other lines are
\* for one run each.  The last two are violated without failing store calls
\* (StoreFails = FALSE) too.
CONSTANTS
  desk = desk
  mobile = mobile
  both = both
  moves = moves
  query = query
  Contacts = {desk, mobile}
  Requests = {both, moves, query}
  Asks <- MCAsks
  Stars = {query}
  StoreFails = TRUE
  MaxTime = 2
  MaxDuration = 2
  None = None
SPECIFICATION Spec
PROPERTY CurrentBindingsAnswered
\* PROPERTY SweepsAreReported
\* INVARIANT EventsTellTheTable
\* PROPERTY StarRemovesAll
CHECK_DEADLOCK FALSE
