SPECIFICATION Spec
CONSTANTS
  NumBlocks = 3
  Values <- MCValues
  Void = "void"
  Bodies <- MCBodies
INVARIANTS
  LiveKept
  NothingExtra
CHECK_DEADLOCK FALSE
