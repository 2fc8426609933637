SPECIFICATION FairSpec
CONSTANTS
  Scenarios <- AllScenarios
  High = 1
  Low = 0
  Cork = 2
  Gather = 2
  Rounds = 2
  Slots = {s1, s2, s3, s4}
  MaxProtocols = 2
  MaxPauses = 2
  MaxInterrupts = 1
INVARIANTS
  EntrySound
  InboundSound
  OutboundSound
PROPERTIES
  SilentAfterLost
  CloseCompletes
  PausedIsResumed
  KeepsReading
CHECK_DEADLOCK FALSE
