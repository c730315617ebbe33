CONSTANTS
  Bitwidth = 4
  Polynomial = 19
  CantorBasis <- MCCantorBasis
  Threads = {t1, t2}
  Workers = {w1, w2}
  Shapes <- MCShapes
  LostSets <- MCLostSets
  BLOCK = 2
  WORK_SIZE16 = 4
  CACHE_CAPACITY = 1
  MaxCalls = 2
SPECIFICATION Spec
CHECK_DEADLOCK FALSE
INVARIANTS TypeOK ParityIsOfTheCode PlanIsOfTheCall RecoveredIsOfTheCode
