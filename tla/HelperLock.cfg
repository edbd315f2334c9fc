SPECIFICATION FairSpec

CONSTANTS
  NoOne = 0
  Instances <- Three
  Attempts = 2
  Tolerance = 1
  MaxSkew = 1

INVARIANTS
  TypeOK
  MutualExclusion
  OwnIdentityIsCurrent

PROPERTIES
  PidFileIsKept
  AttemptsEnd
  NoneIsKeptOut

CHECK_DEADLOCK FALSE
