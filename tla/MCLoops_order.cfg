CONSTANTS
  Functions <- MCNested
  Fixed <- MCFixed
  Globals <- MCGlobals
SPECIFICATION Spec
INVARIANT DefsBeforeUses
CHECK_DEADLOCK FALSE
