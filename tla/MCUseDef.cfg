SPECIFICATION Spec
CONSTANTS
  c = c
  phi = phi
  add = add
  Values <- MCValues
  Users <- MCUsers
  Null = Null
  MaxOperands = 3
INVARIANTS
  UsesMirrorOperands
  NothingDangles
PROPERTIES
  OnlyReplaced
  ReplaceEnds
