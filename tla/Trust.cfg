CONSTANTS
  Order = 40009
  LimbModulus = 256
  LimbCount = 2
  AggregationCoefficient <- MCCoefficient
  ScalarBound = 4
  CoefficientBound = 2
  PieceBound = 6
  SmallSupportBound = 4
  PublicBabySteps = 8
  UnitSupportBound = 6
  CasePieceCap = 4
  Capsules <- MCCapsules
  SecretOf <- MCSecretOf
  NoncesOf <- MCNoncesOf
  RosterOf <- MCRosterOf
  CtxOf <- MCCtxOf
  Bundles <- MCBundles
  Media <- MCMedia
  Rosters <- MCRosters
  Contexts = {"ctx", "stale"}
  QuorumKey = "quorum"
  RogueKey = "rogue"
  ProofBacked = "proof"
  None = None
  MaxTokens = 2
  MaxSignatures = 2
  N = 13
  EvenY <- EvenPoint
  Messages = {1, 2}
  Challenge <- SmallChallenge
  Widths = {32, 33, 63, 64, 65}
  Numbers <- MCNumbers
  Payloads <- MCPayloads
  MaxDomain = 2
  MaxBinding = 5
  SealOverhead = 2
  Absent = Absent
SPECIFICATION MCSpec
CHECK_DEADLOCK FALSE
INVARIANTS
  TrustedWereSealed
  BoundOpensIffTrusted
  SignedVerifies
  OneEncoding
  VerifiedUnderItsProof
