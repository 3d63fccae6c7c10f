SPECIFICATION FairSpec
CONSTANTS
  Obj = {o1, o2, o3}
  Nil = Nil
  Name = {"init"}
  InitName = "init"
  UpIndex = {"up"}
  Global = {"g"}
  MaxStack = 3
  MaxFrames = 2
  Opcodes <- TableOpcodes
INVARIANTS TypeOK NoDangling OpenUpvalues UncheckedCasts IInv
PROPERTIES CollectionEnds
CHECK_DEADLOCK FALSE
