CONSTANTS
  Shapes <- MCShapes
  Kinds = {"const", "lval", "exp"}
  MaxTokens = 4
SPECIFICATION Spec
INVARIANT ExpressionsAsChecked
CHECK_DEADLOCK FALSE
