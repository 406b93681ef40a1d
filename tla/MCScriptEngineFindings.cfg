\* TLC stops at the first property it finds violated: the other lines are
\* for one run each.
CONSTANTS
  Keys = {k1, k2}
  Ips = {i1, i2}
  Opts <- MCOpts
  MaxTime = 0
  MaxRequests = 0
  lenient = lenient
  strict = strict
  Scripts <- MCScripts
  Limits <- MCLimits
  Unlimited = Unlimited
  Broken = Broken
  NoScript = NoScript
  InitialScript = lenient
  Admins = {a1, a2}
  Workers = {w1}
SPECIFICATION Spec
SYMMETRY MCSymmetry
INVARIANT DiskFollowsMemory
\* INVARIANT FailureRestores
\* with MaxTime = 2, MaxRequests = 3:
\* INVARIANT WindowNeverExceeded
CHECK_DEADLOCK FALSE
