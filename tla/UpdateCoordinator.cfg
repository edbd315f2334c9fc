SPECIFICATION Spec
CONSTANTS
  MaxVersion = 1
  MaxOperations = 2
  MaxLaunch = 2
  MaxRequests = 2
  MaxCrashes = 1
INVARIANTS
  TypeOK
  EveryUpdateIsDriven
  VerdictIsItsOwn
PROPERTIES
  NewCodexIsLeftAlone
  ActivationIsEarned
  UpdateEnds
  RestartEnds
CHECK_DEADLOCK FALSE
