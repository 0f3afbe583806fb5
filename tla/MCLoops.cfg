CONSTANTS
  Functions <- MCFunctions
  Fixed <- MCFixed
  Globals <- MCGlobals
SPECIFICATION Spec
INVARIANTS NestingRight EdgesAgree PhisMatchPreds DefsReachUses RunsOnce
CHECK_DEADLOCK FALSE
