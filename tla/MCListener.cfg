SPECIFICATION FairSpec
CONSTANTS
  l1 = l1
  l2 = l2
  Listeners <- MCListeners
  Target = 2
  Backoff = 2
  Interval = 1
  QueueMax = 1
  Scenes <- MCScenes
  MaxTroubles = 1
  MaxUnwinds = 1
  Troubles = {"descriptors"}
INVARIANTS
  NeverDeaf
  TrafficAccounted
  NoErrorStorm
PROPERTIES
  ServesAgain
CHECK_DEADLOCK FALSE
