\* A data track from the drive to software's memory.
CONSTANTS
  SrMasks = {0, 7}
  MaxNest = 1
  Base = 4
  DbcHighs = 2
  SectorSize = 5
  HeaderSize = 1
  DataSize = 2
  Depth = 3
  Garbage = garbage
  Zero = zero
  Last = 6
  MaxLate = 2
SPECIFICATION FairStream
INVARIANTS
  NothingStranded
PROPERTIES
  StreamSpec
  SectorsArrive
