CONSTANTS
  Order = 40009
  LimbModulus = 4
  LimbCount = 8
  AggregationCoefficient <- MCCoefficient
  ScalarBound = 7
  CoefficientBound = 2
  PieceBound = 6
  SmallSupportBound = 4
  UnitSupportBound = 6
  PublicBabySteps = 4
  LimbBabySteps = 5
  GiantWalkChunk = 3
  ScreenBound = 64
  SearchPoints <- MCSearchPoints
  SearchBounds = {1, 3, 4, 5, 8, 9, 16, 18, 23, 32, 48, 63, 64}
  Points <- MCPoints
  Occurs <- MCOccurs
  HalfSupportBound = 3
  ScalarWindow = 7
  TargetWindow = 3
  MixedWindow = 2
  Keys <- MCKeys
  MaxGates = 4
  H = 1117
  Slots = 2
  LimbSlots = 1
  PedersenPieceBound = 3
  Values = {0, 1, 3}
  Blindings = {30, 1200, 1230}
  MaxCommitted = 3
SPECIFICATION MCSpec
CHECK_DEADLOCK FALSE
INVARIANTS
  SearchesAreComplete
  MaskSearchIsExact
  CrossSearchIsExact
  PedersenScreenIsExact
  RosterScreenIsExact
