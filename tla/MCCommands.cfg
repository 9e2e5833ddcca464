SPECIFICATION CommandsSpec
CONSTANTS
  Roots = {r1, r2}
  NoRoot = NoRoot
  Absent = Absent
  MaxBatches = 2
  MaxAnchors = 2
  MaxHeight = 2
  TxCounts = {1, 2}
  V2Height = 2
  MaxFaults = 1
  Undefined = Undefined
  NotANumber = NotANumber
  MaxEdits = 2
  MinStakes = {2, 3}
  Rates <- MyRates
  DefaultRate <- MyDefaultRate
  MaxBalance = 4
  Fee = 1
  FeeBuffer = 1
  MaxRollups = 2
  MaxMoves = 2
  MaxCommands = 2
  Known = {"defi-rollup", "nft-rollup", "custom-rollup"}
  Unknown = "unknown-rollup"
  Shipped = {"defi-rollup", "nft-rollup"}
  FilesOf <- MyFiles
  MaxRuns = 3
  MaxUserSteps = 2
INVARIANTS
  ValidReproducesChain
  BuiltReceiptsVerify
  BuiltStaysLegal
PROPERTIES
  ManifestKeepsConfig
  DoctorClearsCreate
  BurnAsConfirmed
  UserFilesKept
  DoneMeansComplete
CHECK_DEADLOCK FALSE
SYMMETRY RootSymmetry
