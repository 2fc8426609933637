SPECIFICATION FairSpec
CONSTANTS
  s1 = s1
  t1 = t1
  f1 = f1
  w1 = w1
  w2 = w2
  k1 = k1
  None = None
  Soon <- OneSoon
  Timers <- OneTimer
  Fds <- OneFd
  Watches <- TwoWatches
  Conns <- OneConn
  MaxTime = 1
  SkipWindow = 1
  MaxUnwinds = 1
  PollMayFail = TRUE
INVARIANTS
  ParkedIsWoken
  WatchesSound
PROPERTIES
  StopReturns
  SoonRuns
  TimerRuns
  ReadinessServed
CHECK_DEADLOCK FALSE
