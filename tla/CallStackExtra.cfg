SPECIFICATION Spec
CONSTANTS
  Data = {"nil", "a", "b"}
  Nil = "nil"
  Arity = {0, 1}
  ArgCount = {0, 1}
  MaxDepth = 4
  FramesMax = 3
  StackMax = 13
INVARIANTS SlotsAgree
