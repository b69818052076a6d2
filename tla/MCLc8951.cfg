\* The LC8951: sectors of a disc, one of which cannot be read, into the circular
\* buffer, byte-wide registers, and the DMA that fetches the sectors.
CONSTANTS
  Base = 3
  DbcHighs = 2
  SectorSize = 4
  HeaderSize = 1
  DataSize = 2
  Depth = 2
  Lba = {s1, s2}
  Readable = {s1}
  Protected = {s1}
  Garbage = garbage
  Zero = zero
  DmaWords = {1, 4}
SPECIFICATION Spec
ACTION_CONSTRAINT Scope
INVARIANTS
  RecentIntact
  PatchedOnce
PROPERTIES
  DeciDescribesSector
  TransferContinues
