SPECIFICATION MCSpec
CONSTANTS
  a = a
  b = b
  c = c
  d = d
  e = e
  NumLib = 1
  NumFuncs = 4
  Instrs <- MCInstrs
  FuncOf <- MCFuncOf
  MayUse <- MCMayUse
INVARIANTS
  PurityExact
  NoUseOfDeleted
  NothingObservableDeleted
  NothingUselessLeft
PROPERTIES
  PassEnds
CHECK_DEADLOCK FALSE
