SPECIFICATION FairSpec
CONSTANTS
  Families <- Blocks
  MaxParseDepth = 4
  MaxObjects = 1
  MaxFunctions = 2
PROPERTY ParsingEnds
CHECK_DEADLOCK FALSE
