SPECIFICATION Spec
CONSTANTS
  Procs = {p1, p2}
  MaxCalls = 1
  Rollups <- MyRollup
  Setups <- KeySetups
  Inputs <- LifecycleInputs
SYMMETRY Perms
INVARIANTS
  TypeOK
  SequenceRefusedOnlyIfOvertaken
PROPERTIES
  PaidRefusalsExcused
  KeyRefusalsExcused
CHECK_DEADLOCK FALSE
