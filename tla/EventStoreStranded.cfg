SPECIFICATION Spec

CONSTANTS
  None = None
  Torn = Torn
  k1 = k1
  k2 = k2
  Requests <- FewRequests
  Legacy <- Old
  Budgets <- MixedFaults
  MaxQueue = 1

INVARIANTS
  NeverStranded
