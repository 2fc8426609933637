SPECIFICATION Spec
CONSTANTS
  Scenarios <- Holding
  High = 1
  Low = 0
  Cork = 2
  Gather = 2
  Rounds = 2
  Slots = {s1, s2, s3, s4}
  MaxProtocols = 2
  MaxPauses = 2
  MaxInterrupts = 1
INVARIANTS
  ReceivedInOrder
CHECK_DEADLOCK FALSE
