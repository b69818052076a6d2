\* A second of six cycles, two seconds; the words have their full 52 bits.
CONSTANTS
  SecondCycs = 6
  Costs = {1}
  Div64 = 2
  Div256 = 3
  Div2048 = 3
  Div4096 = 3
  NoTime = NoTime
  MaxSeconds = 2
  Seeds <- SeedsMC
  Programs <- ProgramsMC
SPECIFICATION Spec
INVARIANTS
  SnapshotShifts
PROPERTIES
  ClockSpec
  SetArrives
  PulseCatchesUp
