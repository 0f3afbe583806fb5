CONSTANTS
  Functions <- MCBothWays
  Fixed <- MCFixed
  Globals <- MCGlobals
SPECIFICATION Spec
INVARIANT NoInsertAfterBranch
CHECK_DEADLOCK FALSE
