SPECIFICATION FairSpec
CONSTANTS
  Families <- AllFamilies
  MaxParseDepth = 4
  MaxObjects = 1
  MaxFunctions = 2
INVARIANTS LevelsRestored AcceptedIsBracketed
PROPERTIES ReportsOnce EndsUnlessTooDeep
CHECK_DEADLOCK FALSE
