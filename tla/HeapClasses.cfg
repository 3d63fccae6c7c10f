SPECIFICATION Spec
CONSTANTS
  Obj = {o1, o2, o3, o4, o5}
  Nil = Nil
  Name = {"init", "get"}
  InitName = "init"
  UpIndex = {}
  Global = {}
  MaxStack = 4
  MaxFrames = 2
  Opcodes <- ClassOpcodes
SYMMETRY Symmetry
INVARIANTS NoDangling InitializerCache UncheckedCasts
CHECK_DEADLOCK FALSE
