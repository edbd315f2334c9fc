SPECIFICATION Spec
CONSTANTS
  Threads     = {"a", "b"}
  NoThread    = NoThread
  Routes      = {"a", "b"}
  MaxRevision = 2
  Starts      <- TrackedStart
  Moves       = 2
  Changes     = 0
  Clicks      = 1
  Faults      = 0
  Events      = 3
  Connects    = 0
  Backlog     = 1
INVARIANTS
  DetachedIsNotShown
CHECK_DEADLOCK FALSE
