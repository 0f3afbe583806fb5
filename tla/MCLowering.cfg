SPECIFICATION Spec
CONSTANTS
  Names = {"x"}
  Params = {}
  Reads = {"x"}
  NoName = NoName
  Conds <- MCShapes
  MaxStmts = 5
CONSTRAINT Small
INVARIANTS
  NoInsertAfterTerminator
  EdgesMirror
  StacksFollowFrames
  AllBlocksEnd
  Reducible
  CondPhisMatchPreds
  HeaderHasNoStore
