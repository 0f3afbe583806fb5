CONSTANTS
  NumBlocks = 6
  Functions <- MCRotated
  Instrs <- MCInstrs
  Args <- MCArgs
  Globals <- MCGlobals
  Consts <- MCConsts
  Floats <- MCFloats
  Zero = "0"
  GRegs = 5
  FRegs = 3
  ArgRegs = 1
  Null = Null
  Void = Void
  Junk = Junk
  Length <- MCLength
  Elem <- MCElem
  Params <- MCParams
  Pointers <- MCPointers
  Bools <- MCBools
SPECIFICATION MachineSpec
INVARIANT OperandsFound
CHECK_DEADLOCK FALSE
