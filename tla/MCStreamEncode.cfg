SPECIFICATION FairSpec
CONSTANTS
  DataShards = 2
  ParityShards = 2
  BlockSize = 2
  Lengths <- MCLengths
  FailPoints <- MCFailPoints
  Rooms <- MCRooms
INVARIANTS
  TypeOK
  ParityIsPrefix
  OkIsComplete
  ErrorIsOfAFailure
PROPERTIES
  CallReturns
CHECK_DEADLOCK FALSE
