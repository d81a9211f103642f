CONSTANTS
  UniqueName <- MCUniqueName
  Idents = {"f", "x"}
  VarDims <- MCVarDims
  ParamDims <- MCParamDims
  MaxParams = 1
  MaxDepth = 1
  MaxOperands = 1
  MaxDefs = 2
SPECIFICATION Spec
INVARIANT ParamsHaveSymbols
CHECK_DEADLOCK FALSE
