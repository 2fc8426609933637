SPECIFICATION FairSpec
CONSTANTS
  Tasks <- MCTasks
  Futures <- MCFutures
  Nobody = "nobody"
  App = "app"
  MaxSize = 1
  Scenarios <- MCScenarios
  MaxInbox = 2
  MaxTrailing = 2
  High = 1
  Low = 0
  Batch = 2
INVARIANTS
  MessagesSound
  NoStrandedWaiter
  CancelNotLost
  WireSound
  ReadsUnlessPressed
PROPERTIES
  EveryoneTold
  SessionEnds
CHECK_DEADLOCK FALSE
