SPECIFICATION FairSpec
CONSTANTS
  Scenarios <- HalfClose
  Requests <- MCRequests
  Depth = 2
  Quantum = 2
  High = 1
  Low = 0
  MaxItems = 2
  MaxWaits = 2
INVARIANT HalfCloseKeepsResponse
CHECK_DEADLOCK FALSE
