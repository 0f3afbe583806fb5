CONSTANTS
  Functions <- MCContinue
  Fixed <- MCFixed
  Globals <- MCGlobals
SPECIFICATION Spec
INVARIANT PhisMatchPreds
CHECK_DEADLOCK FALSE
