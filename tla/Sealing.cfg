CONSTANTS
  Unused = Unused
  Seals = {s1, s2}
  NonceSeeds = {e1, e2}
  Contexts <- MCContexts
  Keys = {pk1, pk2}
  Secrets <- MCSecrets
  ResidualAnnouncements <- MCResidualAnnouncements
  Ranges <- MCRanges
  MaxDifferences = 2
  ShareScalars = {w1, w2}
  ContributeCalls <- MCContributeCalls
  AuthorizeCalls <- MCAuthorizeCalls
  PointO = "O"
  MaxSeparatorLen = 3
  MaxShareProofs = 2
  Order = 13
  LimbModulus = 4
  LimbCount = 2
  AggregationCoefficient <- Coefficient
  SecretKey = 5
  Seeds = {3}
  Draw <- Drawn
  Guesses = {0, 5}
  OtherValues = {0, 2, 3, 4, 9}
  Targets = {0, 1}
  GVec <- MCGVec
  HVec <- MCHVec
  Coefficients <- MCCoefficients
  Witnesses <- MCWitnesses
  Offsets = {0, 1}
  Rhos = {2, 8}
  Challenges = {0, 1, 3, 7, 12}
  SmallEnough = 6
  ScalarBits = 4
  Widths <- MCWidths
  MsmPoints = {0, 1, 5, 12}
  MsmScalars = {0, 1, 3, 8, 10, 12}
  MaxTerms = 3
SPECIFICATION MCSpec
SYMMETRY SealsAreAlike
CHECK_DEADLOCK FALSE
INVARIANTS
  SealsAndOnlyWhatOpens
  NormArgumentIsExact
  RangeProofIsExact
  NonceAnswersOnce
  ChallengeBindsAllBefore
  ShareProofsAreBound
  MsmIsExact
