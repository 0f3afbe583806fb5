SPECIFICATION CopiesSpec
CONSTANTS
  Names = {"x", "y"}
  Params = {"x", "y"}
  Reads = {"y"}
  NoName = NoName
  Conds <- SmallShapes
  MaxStmts = 3
INVARIANTS
  DomExact
  IdomExact
  FrontierExact
  NoAssertionFails
  StacksFollowCalls
  FullyPromoted
  LoadsAgree
  SlotsAgreeUnlessSwapped
PROPERTIES
  PassesEnd
