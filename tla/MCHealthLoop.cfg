SPECIFICATION FairSpec
CONSTANTS
  Roots = {r1}
  MaxBatches = 2
  MaxSubmissions = 1
  MaxHeight = 2
  BlockSecs = {6}
  MaxPending = 2
  RollupWindow = 6
  FirstVersion = 0
  LastVersion = 1
  Unknown = Unknown
  PageSize = 1
  DefaultWindow = 6
  Statuses = {"active", "paused", "stopped"}
  MaxFaults = 1
INVARIANTS
  TypeOK
  SnapshotExact
PROPERTIES
  PollsAsPromised
  StopReported
CHECK_DEADLOCK FALSE
