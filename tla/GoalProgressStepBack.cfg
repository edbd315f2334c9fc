SPECIFICATION Spec

CONSTANTS
  NoGoal = NoGoal
  NoContract = NoContract
  k1 = k1
  k2 = k2
  Ids <- OneId
  Goals <- OneGoal
  Scopes <- NativeScopes
  ChangeSets <- SmallChanges
  Times <- Clock
  MaxRevision = 2
  ClockMayStepBack = TRUE

INVARIANTS
  SnapshotIsRebuildable

CHECK_DEADLOCK FALSE
