SPECIFICATION Spec
CONSTANTS
  DataShards = 2
  Codecs <- MCFastOnly
INVARIANTS
  SbsVerifies
