CONSTANTS
  NumBlocks = 6
  Functions <- MCFunctions
  Instrs <- MCInstrs
  Args <- MCArgs
  Globals <- MCGlobals
  Consts <- MCConsts
  Floats <- MCFloats
  Zero = "0"
  GRegs = 3
  FRegs = 3
  ArgRegs = 1
  Null = Null
  Void = Void
  Junk = Junk
  Length <- MCLength
  Elem <- MCElem
  Params <- MCParams
  Pointers <- MCPointers
  Bools <- MCBools
SPECIFICATION MachineSpec
INVARIANTS HitsBacked OperandsHeld
PROPERTIES FrameDisjoint PinnedKept ImplementsSsa CompileEnds
CHECK_DEADLOCK FALSE
