SPECIFICATION Spec
CONSTANTS
  DataShards = 2
  Codecs <- MCAll
INVARIANTS
  TypeOK
  InSyncIsConsistent
  SbsParityIsOfBatch
  VerifyTellsTheTruth
