CONSTANTS
  Sources <- Supported
  Translation <- MCTranslation
  Means <- MCMeaning
  Requests <- MCRequests
  InZero <- GlobalNames
  NoResult = NoResult
  Junk = Junk
  ImmMin <- MCImmMin
  ImmMax = 63
  StackTop = 2000
  DataFrom = 4000
  BlocksFrom = 6000
  MaxLength = 1000
SPECIFICATION Spec
INVARIANTS TypeOK PassesSound IRResolves LabelsResolve JumpsLocal WritesInBounds
PROPERTIES RegistersRestored CallersFrameKept 
