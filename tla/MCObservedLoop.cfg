SPECIFICATION ObservedSpec
CONSTANTS
  s1 = s1
  s2 = s2
  s3 = s3
  t1 = t1
  k1 = k1
  None = None
  Soon <- MCSoon
  Timers <- MCTimers
  Fds = {}
  Watches = {}
  Conns <- MCConns
  MaxTime = 1
  SkipWindow = 1
  MaxUnwinds = 1
  PollMayFail = FALSE
PROPERTIES
  KeepsContract
SYMMETRY Symmetry
CHECK_DEADLOCK FALSE
