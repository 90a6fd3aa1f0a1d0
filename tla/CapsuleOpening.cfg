CONSTANTS
  Order = 10007
  LimbModulus = 128
  LimbCount = 2
  AggregationCoefficient <- MCCoefficient
  Recipient = 8209
  Gates <- MCGates
  Holders <- MCHolders
  GateOf <- MCGateOf
  ShareOf <- MCShareOf
  Capsules <- MCCapsules
  SecretOf <- MCSecretOf
  NoncesOf <- MCNoncesOf
  Target = "target"
  TargetCtx = "ctx"
  Contributions <- MCContributions
  TriedSecrets = {8209, 5003}
  MaxInbox = 4
  MaxAltered = 1
  MaxCalls = 4
SPECIFICATION Spec
CHECK_DEADLOCK FALSE
INVARIANTS OpensIffEveryHolderOnce AcceptedAreAuthentic
PROPERTY ImplementsEscrow
