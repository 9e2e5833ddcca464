SPECIFICATION Spec
CONSTANTS
  Roots = {r1}
  MaxBatches = 4
  MaxSubmissions = 2
  MaxHeight = 2
  BlockSecs = {6}
  MaxPending = 2
  RollupWindow = 5
  FirstVersion = 2
  LastVersion = 2
  Unknown = Unknown
  PageSize = 1
  DefaultWindow = 6
  Statuses = {"active"}
  MaxFaults = 0
INVARIANTS
  SnapshotExact
PROPERTIES
  HeldBackNotFinal
CHECK_DEADLOCK FALSE
