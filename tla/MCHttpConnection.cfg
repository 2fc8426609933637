SPECIFICATION FairSpec
CONSTANTS
  Scenarios <- MCScenarios
  Requests <- MCRequests
  Depth = 2
  Quantum = 2
  High = 1
  Low = 0
  MaxItems = 2
  MaxWaits = 2
INVARIANTS ExchangesKeptApart NobodyForgotten NotCutShort
PROPERTIES EveryRequestServed ClosesInTheEnd
CHECK_DEADLOCK FALSE
