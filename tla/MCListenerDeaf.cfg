SPECIFICATION FairSpec
CONSTANTS
  l1 = l1
  l2 = l2
  Listeners <- MCListeners
  Target = 2
  Backoff = 2
  Interval = 1
  QueueMax = 1
  Scenes <- OneListener
  MaxTroubles = 2
  MaxUnwinds = 0
  Troubles = {"descriptors", "watches"}
PROPERTIES
  AcceptsAgain
CHECK_DEADLOCK FALSE
