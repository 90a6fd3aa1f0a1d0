CONSTANTS
  Inputs <- MCInputs
  Scans <- MCScans
  MaxThreads = 4
  None = None
  Order = 43
  Multiples <- MCMultiples
  Batches <- MCBatches
  MaxCalls = 2
SPECIFICATION MCSpec
CHECK_DEADLOCK FALSE
INVARIANTS OutcomeIsInline NoWorkerOutlives ScanIsInline SumsAreTheGroupLaw
PROPERTY EveryCallEnds
