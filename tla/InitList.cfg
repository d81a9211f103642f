CONSTANTS
  Shapes <- MCShapes
  Kinds = {"const", "lval", "exp"}
  MaxTokens = 8
SPECIFICATION Spec
INVARIANTS TypeOK ElementsKeepOrder StoresInside NothingUnset TranslatedAsChecked
CHECK_DEADLOCK FALSE
