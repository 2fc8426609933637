SPECIFICATION FairSpec
CONSTANTS
  p1 = p1
  p2 = p2
  c1 = c1
  c2 = c2
  t1 = t1
  Producers <- MCProducers
  Callbacks <- MCCallbacks
  Timers <- MCTimers
INVARIANTS
  TypeOK
  NoLostWakeup
  RaisedFlagIsBacked
PROPERTIES
  PushedIsDrained
  DrainTerminates
