\* A program of three bytes, banks of three sectors of two words, two resets.
CONSTANTS
  Commands = {1, 2}
  Ready = 3
  ProgramBytes = 3
  SectorWords = 2
  WindowSectors = 3
  DescSectors = 2
  Sectors = 5
  Routines = {"sound", "pcm"}
  None = None
  MaxResets = 2
SPECIFICATION Spec
INVARIANTS
  NeverTorn
  UploadInOrder
PROPERTIES
  SoundAnswers
