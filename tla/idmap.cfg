SPECIFICATION FairSpec
CONSTANTS
  FirstId = 2
  LastId = 4
  ArgIds = {1, 2, 3, 4}
  Chunk = 4
  Writers = {w1}
  Readers = {r1}
  Requests <- MCRequests
INVARIANTS TypeOK LoopAssertionHolds NoFalseCollapse RepliesSound PlainReadIsMinimal
PROPERTIES AddRowCollapses RootsNeverGrow CallsEnd

