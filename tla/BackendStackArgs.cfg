CONSTANTS
  ImmMin <- MCImmMin
  ImmMax = 11
  VReg <- MCVReg
  Labels <- MCLabels
  Programs <- MCStackArgPrograms
  BodyLength = 0
SPECIFICATION Spec
INVARIANT StackArgsMeetParams
