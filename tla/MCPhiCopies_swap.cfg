SPECIFICATION CopiesSpec
CONSTANTS
  Names = {"x", "y"}
  Params = {"x", "y"}
  Reads = {"y"}
  NoName = NoName
  Conds <- OneOperand
  MaxStmts = 3
INVARIANTS
  SlotsAgree
