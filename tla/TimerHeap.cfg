SPECIFICATION Spec
CONSTANTS
  Arity = 2
  MaxTimers = 4
  Times = 2
  PollMayFail = TRUE
INVARIANTS
  BookkeepingExact
PROPERTIES
  TicksOnTime
CHECK_DEADLOCK FALSE
