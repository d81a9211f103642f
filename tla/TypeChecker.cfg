CONSTANTS
  UniqueName <- MCUniqueName
  Idents = {"f", "x"}
  VarDims <- MCVarDims
  ParamDims <- MCParamDims
  MaxParams = 1
  MaxDepth = 2
  MaxOperands = 2
  MaxDefs = 3
SPECIFICATION Spec
INVARIANTS TypeOK LookupInnermost LiveNamesDistinct GlobalNamesAtZero CallsMatchDefinitions
PROPERTY ImplementsScopes
CHECK_DEADLOCK FALSE
