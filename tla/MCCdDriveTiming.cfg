\* The sector rate of a double-speed drive, as documented.
CONSTANTS
  Tracks <- MCTracks
  Leadout = 5
  Pregap = 150
  ScanStep = 2
  Samps = 2
  IdleRate = 7
  Rate1X = 6
  Rate2X = 3
  Fast = TRUE
  MaxStep = 1
  MaxLba = 6
SPECIFICATION Spec
PROPERTIES
  OneSectorPerPeriod
