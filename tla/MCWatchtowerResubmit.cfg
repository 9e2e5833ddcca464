SPECIFICATION Spec
CONSTANTS
  Roots = {r1, r2}
  MaxBatches = 2
  MaxSubmissions = 2
  MaxHeight = 2
  BlockSecs = {6}
  MaxPending = 2
  RollupWindow = 6
  FirstVersion = 2
  LastVersion = 2
  Unknown = Unknown
  OptionWindow = Unknown
  DefaultWindow = 6
  PageSize = 1
  WarnWithin = 0
  Validates = TRUE
  MaxFaults = 0
INVARIANT ResubmissionsStayPolled
CHECK_DEADLOCK FALSE
