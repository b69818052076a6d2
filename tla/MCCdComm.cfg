\* Packets between the BIOS and the drive, nybble by nybble.
CONSTANTS
  Tracks <- MCTracks
  Leadout = 2
  Pregap = 150
  ScanStep = 1
  Samps = 1
  IdleRate = 1
  Rate1X = 1
  Rate2X = 1
  Fast = FALSE
  MaxStep = 1
  MaxLba = 2
  Packets <- MCPackets
SPECIFICATION SpecComm
ACTION_CONSTRAINT Scope
INVARIANTS
  TypeOKComm
  ResponseIsSealed
PROPERTIES
  BadPacketIsInert
  PlayFollowsToc
