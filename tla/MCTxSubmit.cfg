SPECIFICATION Spec
CONSTANTS
  Procs = {p1}
  MaxCalls = 2
  Rollups <- AnyRollup
  Setups <- AllSetups
  Inputs <- SubmitInputs
INVARIANTS
  SequenceRefusedOnlyIfOvertaken
  AnchorModesKept
PROPERTIES
  PaidRefusalsExcused
CHECK_DEADLOCK FALSE
