SPECIFICATION FairSpec
CONSTANTS
  Chunk = 1
  MaxSlots = 2
  Generations = 2
  Batch = 2
  MaxOther = 2
INVARIANTS
  SlabSound
  InFlightIsOwedOnePacket
PROPERTIES
  HeldIsReleased
CHECK_DEADLOCK FALSE
