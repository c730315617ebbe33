CONSTANTS
  Bitwidth = 8
  Polynomial = 285
  CantorBasis <- MCCantorBasis
  Shapes <- MCDebugShapes
  Seeds = {1}
  Junk = {0, 165}
  MaxCalls = 1
  LostSets <- MCOneLost
  WORK_SIZE8 = 2
  WORK_SIZE8_HIGH_FANOUT = 3
  HIGH_FANOUT_TOTAL_SHARDS = 9
  HIGH_FANOUT_TOTAL_SHARDS_WITH_REMAINDER = 8
  Dit4Modes = {"Auto"}
  DIT4_DIRECT_FROM = 3
  DebugAssertions = TRUE
SPECIFICATION Spec
CHECK_DEADLOCK FALSE
INVARIANT AssertionsHold
