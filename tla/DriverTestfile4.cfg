CONSTANTS
  Sources <- Refused
  Translation <- MCTranslation
  Means <- MCMeaning
  Requests <- MCRequests
  InZero <- GlobalNames
  NoResult = NoResult
  Junk = Junk
  ImmMin <- MCImmMin
  ImmMax = 63
  StackTop = 2000
  DataFrom = 4000
  BlocksFrom = 6000
  MaxLength = 1000
SPECIFICATION Spec
PROPERTY ImplementsSource
