SPECIFICATION Spec
CONSTANTS
  Obj = {o1, o2, o3, o4, o5, o6}
  Nil = Nil
  Name = {"init"}
  InitName = "init"
  UpIndex = {"up"}
  Global = {}
  MaxStack = 4
  MaxFrames = 3
  Opcodes <- ClosureOpcodes
SYMMETRY Symmetry
INVARIANTS NoDangling OpenUpvalues
PROPERTY CollectsExactly
CHECK_DEADLOCK FALSE
