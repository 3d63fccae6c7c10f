SPECIFICATION Spec
CONSTANTS
  Data = {"nil", "a", "b"}
  Nil = "nil"
  Arity = {1, 2}
  ArgCount = {0, 1}
  MaxDepth = 4
  FramesMax = 3
  StackMax = 10
INVARIANTS ErrorsEnd
