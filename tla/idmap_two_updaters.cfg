SPECIFICATION Spec
CONSTANTS
  FirstId = 2
  LastId = 4
  ArgIds = {2, 3, 4}
  Chunk = 4
  Writers = {w1, w2}
  Readers = {}
  Requests <- MCRequests
INVARIANT LoopAssertionHolds
