SPECIFICATION Spec
CONSTANTS
  VECTOR = 2
  CODE_SLICE_MIN_CHUNK_BYTES = 4
  CODE_SLICE_DEFAULT_CHUNK_BYTES = 6
  CODE_SLICE_LARGE_CHUNK_BYTES = 8
  LARGE_SHARD_BYTES = 10
  Hosts <- MCHosts
  Overrides <- MCOverrides
  Stripes <- MCStripes
  Junk = 165
  MaxCalls = 2
  MaxSettings = 1
INVARIANTS
  TypeOK
  OutputsAreTheProduct
  RunsWhatWasAsked
PROPERTIES
  WorkIsWhole
CHECK_DEADLOCK FALSE
