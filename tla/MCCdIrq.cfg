\* Interrupt delivery with every interleaving of devices and instructions.
CONSTANTS
  SrMasks <- MCSrMasks
  MaxNest = 1
SPECIFICATION FairSpec
INVARIANTS
  LineFollowsPending
  PreciseInterrupts
PROPERTIES
  VectorMatchesSource
  NoSourceLost
  VblLatchHolds
  SpeedHackWakes
