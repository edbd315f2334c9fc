SPECIFICATION Spec
CONSTANTS
  MaxWorkers  = 2
  MaxGoal     = 2
  MaxRevision = 3
  Ids         = {"c1", "c2"}
  NoContract  = NoContract
  Starts      <- TaskStart
  Requests    = 3
  GoalChanges = 0
  Crashes     = 0
PROPERTIES
  ActiveTaskIsKept
CHECK_DEADLOCK FALSE
