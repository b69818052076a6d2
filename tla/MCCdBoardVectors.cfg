\* The stack pointer and program counter a reset starts from.
CONSTANTS
  Commands = {1, 2}
  Ready = 3
  ProgramBytes = 1
  SectorWords = 1
  WindowSectors = 1
  DescSectors = 1
  Sectors = 1
  Routines = {"sound", "pcm"}
  None = None
  MaxResets = 2
SPECIFICATION Spec
INVARIANTS
  ResetFromBios
