\* Frames of four short lines, costs that are odd and even, and a counter of four.
CONSTANTS
  LineCycles = 4
  Lines = 3
  BorderBottom = 1
  VblCycle = 0
  ScanCycle = 1
  NextCycle = 3
  DivZ80 = 4
  DivYm = 2
  SampleCap = 4
  WatchdogCycs = 10
  CpuCosts = {1, 3}
  Z80Costs = {1}
  MaxCpuCost = 3
  MaxZ80Cost = 1
  HalfWrap = 2
  Modes <- ModesMC
  Programs <- ProgramsMC
SPECIFICATION SpecMC
INVARIANTS
  InStep
  SamplesFit
  BeamInStep
  OneVblPerFrame
PROPERTIES
  TimerSpec
  WatchdogBites
  FramesEnd
