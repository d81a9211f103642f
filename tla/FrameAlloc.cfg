CONSTANTS
  Regs = {r1, r2, r3}
  DecSizes <- MCDecSizes
  MaxFrame = 20
SPECIFICATION Spec
INVARIANTS TypeOK NoOverlap
PROPERTIES OffsetsFixed ImplementsRegions
CHECK_DEADLOCK FALSE
