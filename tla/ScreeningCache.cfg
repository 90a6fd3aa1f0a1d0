CONSTANTS
  Order = 11
  LimbModulus = 4
  LimbCount = 2
  AggregationCoefficient <- MCCoefficient
  Enumerable = {1, 10}
  NumsMultiples = {4, 7}
  ComponentRelation <- MCRelation
  MaxAccessKeys = 3
  Threads = {"s", "t"}
  Calls <- MCCalls
  OpeningBindingCacheCap = 2
  PublicKeyCacheCap = 3
  Nothing = Nothing
SPECIFICATION MCSpec
INVARIANTS AnswersAreCold CachesSound
PROPERTIES EntriesAreKept ImplementsColdScreening
