\* Saved states, resets and restarts, for what is held in several places.
CONSTANTS
  SrMasks <- MCSrMasks
  MaxNest = 1
  NoSave = NoSave
  Boards <- MCBoards
  Systems = {"aes", "mvs"}
  Bytes = {3, 144, 240}
  Registers = {0, 9, 16, 18, 24, 28}
  BankMask = 31
  NoCart = NoCart
  Entries = {0, 1}
  Halves = {0, 1}
  Half = 3
  Steps <- StepsMC
  MaxWalk = 5
SPECIFICATION SpecStates
INVARIANTS
  PartsAgree
  SelectedTogether
  PaletteCurrent
  WalkWraps
CONSTRAINT
  Few
ACTION_CONSTRAINT
  Scope
