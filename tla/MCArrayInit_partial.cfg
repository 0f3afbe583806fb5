SPECIFICATION Spec
CONSTANTS
  Programs <- PartGroups
  Junk = Junk
  MAX = 9
INVARIANT InitialValues
CHECK_DEADLOCK FALSE
