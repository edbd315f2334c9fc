SPECIFICATION Spec

CONSTANTS
  None = None
  Torn = Torn
  k1 = k1
  k2 = k2
  Requests <- AllRequests
  Legacy <- Old
  Budgets <- SeparateFaults
  MaxQueue = 1

INVARIANTS
  TypeOK
  LogReplays
  SnapshotNeverAhead
  RetryIsRecognised

PROPERTIES
  QueueGoesOn
  ImplementsLedger
