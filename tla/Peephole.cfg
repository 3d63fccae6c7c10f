SPECIFICATION Spec
CONSTANTS
  Families <- AllFamilies
INVARIANT MergesAreRight
CHECK_DEADLOCK FALSE
