CONSTANTS
  Bitwidth = 8
  Polynomial = 285
  CantorBasis <- MCCantorBasis
  Shapes <- MCShapes
  Seeds = {1}
  Junk = {0, 165}
  MaxCalls = 2
  LostSets <- MCLostSets
  WORK_SIZE8 = 2
  WORK_SIZE8_HIGH_FANOUT = 3
  HIGH_FANOUT_TOTAL_SHARDS = 9
  HIGH_FANOUT_TOTAL_SHARDS_WITH_REMAINDER = 8
  Dit4Modes = {"Auto", "DirectSafe"}
  DIT4_DIRECT_FROM = 3
  DebugAssertions = FALSE
SPECIFICATION Spec
CHECK_DEADLOCK FALSE
INVARIANTS TypeOK ParityIsOfTheCode
PROPERTY ImplementsErasureCode
