SPECIFICATION Spec
CONSTANTS
  Roots = {r1}
  MaxBatches = 1
  MaxSubmissions = 1
  MaxHeight = 2
  BlockSecs = {6}
  MaxPending = 2
  RollupWindow = 6
  FirstVersion = 1
  LastVersion = 1
  Unknown = Unknown
  OptionWindow = Unknown
  DefaultWindow = 6
  PageSize = 1
  WarnWithin = 0
  Validates = TRUE
  MaxFaults = 1
INVARIANT LoopContinues
CHECK_DEADLOCK FALSE
