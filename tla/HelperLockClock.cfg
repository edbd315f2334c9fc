SPECIFICATION Spec

CONSTANTS
  NoOne = 0
  Instances <- Two
  Attempts = 2
  Tolerance = 1
  MaxSkew = 2

INVARIANTS
  MutualExclusion

CHECK_DEADLOCK FALSE
