CONSTANTS
  a = a
  b = b
  Nodes = {a, b}
  Codecs <- MCCodecs
  Expectations <- MCExpectations
  Allocations <- MCAllocations
  Arrivals <- MCArrivals
  ShardLen = 1
  Data <- MCData
  MaxCalls = 4
SPECIFICATION Spec
SYMMETRY MCSymmetry
CHECK_DEADLOCK FALSE
INVARIANTS TypeOK SlotsAreOfTheFed CompleteIsTheShard DecodesWhatItCan
