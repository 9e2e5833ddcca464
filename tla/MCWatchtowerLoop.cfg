SPECIFICATION FairSpec
CONSTANTS
  Roots = {r1}
  MaxBatches = 2
  MaxSubmissions = 1
  MaxHeight = 2
  BlockSecs = {2, 6}
  MaxPending = 2
  RollupWindow = 5
  FirstVersion = 1
  LastVersion = 1
  Unknown = Unknown
  OptionWindow = Unknown
  DefaultWindow = 6
  PageSize = 1
  WarnWithin = 3
  Validates = TRUE
  MaxFaults = 1
INVARIANTS
  OpenBatchesStayPolled
  NearDeadlineWarned
PROPERTIES
  PollsAsPromised
  BatchesSurfaced
  StopEnds
CHECK_DEADLOCK FALSE
