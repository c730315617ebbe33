CONSTANTS
  DataShards = 2
  ParityShards = 2
  SingularRows <- MCSingularRows
  Threads = {t1, t2}
  Patterns <- MCPatterns
  Capacity = 2
  MaxCalls = 3
  Free = Free
SPECIFICATION FairSpec
INVARIANTS
  TypeOK
  CacheCoherent
  CountersAccounted
PROPERTIES
  ImplementsService
  CallsEnd
