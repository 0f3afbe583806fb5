SPECIFICATION Spec
CONSTANTS
  Programs <- MCPrograms
  Junk = Junk
  MAX = 9
INVARIANTS
  InitialValues
  OneConstantLeft
CHECK_DEADLOCK FALSE
