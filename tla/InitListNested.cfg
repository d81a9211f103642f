CONSTANTS
  Shapes <- MCShapes
  Kinds = {"const", "lval", "exp"}
  MaxTokens = 8
SPECIFICATION Spec
INVARIANT NestedAsChecked
CHECK_DEADLOCK FALSE
