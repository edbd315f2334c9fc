SPECIFICATION Spec
CONSTANTS
  MaxWorkers  = 2
  MaxGoal     = 2
  MaxRevision = 3
  Ids         = {"c1", "c2"}
  NoContract  = NoContract
  Starts      <- SomeStarts
  Requests    = 2
  GoalChanges = 1
  Crashes     = 1
INVARIANTS
  TypeOK
  LastOfferIsShown
  UserDetachIsKept
PROPERTIES
  NoProgressOnAnotherGoal
  ActiveViewWasCurrent
  LoneReadIsExact
  DrainRests
CHECK_DEADLOCK FALSE
