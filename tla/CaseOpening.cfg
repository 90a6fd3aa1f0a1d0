CONSTANTS
  Order = 46337
  LimbModulus = 256
  LimbCount = 2
  ScalarBound = 4
  CoefficientBound = 2
  PieceBound = 6
  SmallSupportBound = 4
  PublicBabySteps = 8
  UnitSupportBound = 6
  CasePieceCap = 255
  AggregationCoefficient <- MCCoefficient
  Recipient = 8209
  Gates <- MCGates
  Holders <- MCHolders
  GateOf <- MCGateOf
  ShareOf <- MCShareOf
  PieceOf <- MCPieceOf
  PieceNonces <- MCPieceNonces
  TokenCtx = "ctx"
  CaseCalls <- MCCaseCalls
  TriedSecrets = {8209, 5003}
  MaxInbox = 5
  MaxCalls = 3
SPECIFICATION CaseSpec
CHECK_DEADLOCK FALSE
INVARIANTS OpensIffEveryPieceQualifies PathsAgree
PROPERTY CaseImplementsEscrow
