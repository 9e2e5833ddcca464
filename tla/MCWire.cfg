SPECIFICATION WireSpec
CONSTANTS
  Leaf = {a, b}
  MaxLeaves = 7
  HashLeaves = FALSE
  DuplicateOdd = TRUE
  MaxInt = 7
  Ints <- MyInts
  Uints <- MyUints
  Texts = {}
  MaxSiblings = 2
  Absent = Absent
  Base = 8
  Word = 2
  Contracts <- MyContracts
  Payloads <- MyPayloads
  MaxMessageSize = 4
  MaxChanges = 2
  w1 = w1
  w2 = w2
  Prevs = {p}
  EmptyPrev = EmptyPrev
  WithdrawalRoots <- MyRoots
  Lists <- MyLists
  Unpayable = {u}
  Missing = Missing
  Other = Other
  NotCovered = NotCovered
  NoBatch = NoBatch
  UpgradeHeight = 2
  MaxIndex = 0
  MaxHeight = 3
  MaxFaults = 1
INVARIANTS
  HonestProofVerifies
  ProofBindsLeaf
  RootIsReference
  DecodedAsAsked
  ReplyMeansCalled
  ReadyCallsReach
  VerdictIsTheChains
  NoBondLost
  HonestBatchesStand
  ProofRefusedOnlyIfReplaced
  ExitZeroPaysTheListed
CHECK_DEADLOCK FALSE
CONSTRAINT BatchesThatCount
SYMMETRY PayeeSymmetry
