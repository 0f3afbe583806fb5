SPECIFICATION Spec
CONSTANTS
  Programs <- ConstTables
  Junk = Junk
  MAX = 9
INVARIANT InitialValues
CHECK_DEADLOCK FALSE
