CONSTANTS
  Order = 46337
  LimbModulus = 256
  LimbCount = 2
  ScalarBound = 4
  CoefficientBound = 2
  PieceBound = 2
  SmallSupportBound = 4
  PublicBabySteps = 8
  UnitSupportBound = 6
  CasePieceCap = 3
  AggregationCoefficient <- MCCoefficient
  Recipient = 8209
  Gates <- MCGates
  PieceInputs <- MCPieceInputs
  MaxPieces = 4
  None = None
SPECIFICATION Spec
CHECK_DEADLOCK FALSE
INVARIANTS BoundWouldVerify SealedCaseBinds
