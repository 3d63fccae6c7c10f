SPECIFICATION FairSpec
CONSTANTS
  Families <- AllFamilies
INVARIANTS CapturedClosed HeightsAgree
PROPERTY Returns
CHECK_DEADLOCK FALSE
