SPECIFICATION Spec

CONSTANTS
  NoGoal = NoGoal
  NoContract = NoContract
  k1 = k1
  k2 = k2
  Ids <- OneId
  Goals = {}
  Scopes <- TaskScopes
  ChangeSets <- MixedChanges
  Times <- Instant
  MaxRevision = 5
  ClockMayStepBack = FALSE

INVARIANTS
  TypeOK
  ReplayAgrees
  ViewsAreValid

PROPERTIES
  NoSilentRegression
  ScopeIsFrozen
  AcceptanceIsRevoked

CHECK_DEADLOCK FALSE
