SPECIFICATION Spec
CONSTANTS
  Threads     = {"a", "b"}
  NoThread    = NoThread
  Routes      <- AllRoutes
  MaxRevision = 2
  Starts      <- SomeStarts
  Moves       = 3
  Changes     = 2
  Clicks      = 1
  Faults      = 1
  Events      = 3
  Connects    = 1
  Backlog     = 3
INVARIANTS
  TypeOK
  WindowIsFollowed
  CardIsCurrent
PROPERTIES
  QueuesRest
CHECK_DEADLOCK FALSE
