SPECIFICATION Spec

CONSTANTS
  NoGoal = NoGoal
  NoContract = NoContract
  k1 = k1
  k2 = k2
  Ids <- BothIds
  Goals <- SomeGoals
  Scopes <- NativeScopes
  ChangeSets <- SmallChanges
  Times <- Clock
  MaxRevision = 3
  ClockMayStepBack = FALSE

INVARIANTS
  ReplayAgrees
  CompletionIsEarned
  ViewsAreValid
  NoTwoOnOneRevision

CHECK_DEADLOCK FALSE
