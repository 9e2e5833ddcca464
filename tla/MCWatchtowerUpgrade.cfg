SPECIFICATION Spec
CONSTANTS
  Roots = {r1}
  MaxBatches = 2
  MaxSubmissions = 2
  MaxHeight = 2
  BlockSecs = {6}
  MaxPending = 2
  RollupWindow = 5
  FirstVersion = 0
  LastVersion = 2
  Unknown = Unknown
  OptionWindow = Unknown
  DefaultWindow = 12
  PageSize = 1
  WarnWithin = 0
  Validates = FALSE
  MaxFaults = 0
INVARIANTS
  TypeOK
  OpenBatchesStayPolled
CHECK_DEADLOCK FALSE
