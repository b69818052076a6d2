\* Every sequence of commands, ticks and mixer reads on a small disc.
CONSTANTS
  Tracks <- MCTracks
  Leadout = 5
  Pregap = 150
  ScanStep = 2
  Samps = 2
  IdleRate = 7
  Rate1X = 6
  Rate2X = 3
  Fast = TRUE
  MaxStep = 1
  MaxLba = 6
SPECIFICATION FairSpec
INVARIANTS
  TrackCacheCoherent
  SoundIsAudio
  SilentUnlessPlaying
  OnlyAudioIsHeard
PROPERTIES
  PeriodsRecur
