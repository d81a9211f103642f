CONSTANTS
  Names = {"f", "g"}
  Globals <- MCGlobals
  BodyNodes <- MCBodyNodes
  Results = {"", "x"}
  RetLabel <- MCRetLabel
  MaxLength = 6
SPECIFICATION Spec
INVARIANTS TypeOK CodeKept ExitsMatchReturns ReturnsLand
CHECK_DEADLOCK FALSE
