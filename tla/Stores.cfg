SPECIFICATION PartSpec
CONSTANTS
  Number = {1, 2, 3}
  NumberHash <- SmallNumberHash
  Literal <- SmallLiterals
  MaxLength = 4
  MaxFunctions = 1
  MinCapacity = 2
  MaxIndex = 3
  BlockSize = 2
  HashSize = 64
  Page = 2
  CommitChunk = 4
  StackSize = 10
  StringSize = 10
  Length = {1, 3, 7}
  MaxLine = 3
  MaxBytes = 6
  MaxFallback = 4
INVARIANTS TablesOK TombstonesAreReused GlobalsOK StringsAreInterned
INVARIANTS EveryArenaHasItsPlace RefusedOnlyWhenFull WritesAreCommitted LinesAreRight
PROPERTIES ImplementsDictionary ImplementsVariables ImplementsConstantTable
PROPERTIES ImplementsAllocator OverflowIsReal
CHECK_DEADLOCK FALSE
