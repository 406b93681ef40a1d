CONSTANTS
  Keys = {k1, k2}
  Ips = {i1, i2}
  Opts <- MCOpts
  MaxTime = 2
  MaxRequests = 3
  lenient = lenient
  strict = strict
  Scripts <- MCScripts
  Limits <- MCLimits
  Unlimited = Unlimited
  Broken = Broken
  NoScript = NoScript
  InitialScript = lenient
  Admins = {a1}
  Workers = {w1}
SPECIFICATION Spec
SYMMETRY MCSymmetry
INVARIANTS
  CountDecides
  WindowBound
  DeniedExactlyForCause
  DiskFollowsMemory
CHECK_DEADLOCK FALSE
