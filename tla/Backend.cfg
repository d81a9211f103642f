CONSTANTS
  ImmMin <- MCImmMin
  ImmMax = 11
  VReg <- MCVReg
  Labels <- MCLabels
  Programs <- MCPrograms
  BodyLength = 2
SPECIFICATION Spec
INVARIANTS TypeOK FramesSeparate AccessesOwned OutputLegal FramesBalanced ControlKept
PROPERTIES SlotsFixed Terminates
