CONSTANTS
  Order = 40009
  LimbModulus = 4
  LimbCount = 8
  AggregationCoefficient <- MCCoefficient
  HintMask <- MCHintMask
  Separators = {1, 2, 3}
  Recipient = 8209
  Gates = {2503}
  Holders <- MCHolders
  GateOf <- MCGateOf
  ShareOf <- MCShareOf
  Secret = 16665
  PieceOf <- MCPieceOf
  Weights <- MCWeights
  Ctx = 3
  Now = 2
  Sealings <- MCSealings
  AttestedOf <- MCAttestedOf
  QuorumKey = "quorum"
  CoordinatorKey = "coordinator"
  Calls <- MCCalls
  MaxCalls = 4
  MaxPieces = 2
  MaxQuorums = 1
  MaxHanded = 2
  MaxAltered = 0
  ScalarBound = 2
  CoefficientBound = 2
  PieceBound = 2
  SmallSupportBound = 4
  UnitSupportBound = 6
  PublicBabySteps = 2
  MaxPayloadPieces = 2
  MaxPayloadGates = 1
  RecipientKey = 8209
  TriedKeys <- MCTriedKeys
  Contexts <- MCContexts
  PieceCount = 2
  PieceIn <- MCPieceIn
  MasksOfPiece <- MCMasksOfPiece
  StoredSeals <- MCStoredSeals
  AddedGate = 2503
  MaxPackage = 2
  MaxAlterations = 2
SPECIFICATION MCSpec
CHECK_DEADLOCK FALSE
INVARIANTS
  RecoversIffAttestedAndComplete
  CountedAreAuthorized
  TwoGatesRecover
  PayloadRecovers
  AdmittedAreFresh
PROPERTY ImplementsEscrow
