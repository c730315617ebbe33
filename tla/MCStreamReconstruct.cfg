SPECIFICATION SessionSpec
CONSTANTS
  DataShards = 2
  ParityShards = 2
  SingularRows <- MCSingularRows
  Full = 3
  BlockSizes <- MCBlockSizes
INVARIANTS
  TypeOK
  ContentsAreCodeword
  OkIsWhole
  BlocksDoNotMatter
  VerdictIsOfTheUnread
PROPERTIES
  CallsReturn
