SPECIFICATION PartSpec
CONSTANTS
  Data = {"nil", "a", "b"}
  Nil = "nil"
  Arity = {1, 2}
  ArgCount = {0, 1}
  MaxDepth = 4
  FramesMax = 3
  StackMax = 13
  Variable = {1, 2, 3, 4}
  Assigned = {1, 2}
  Unread = 0
  MaxSlots = 3
  MaxFrames = 2
  MaxClosures = 3
INVARIANTS FramesOK ErrorsEnd OpenSorted
PROPERTIES ImplementsActivations ImplementsSharing
