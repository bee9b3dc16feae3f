SPECIFICATION FairSpec
CONSTANTS
  MEM = 34
  HalfInt = 64
  Sizes = {1, 2, 3, 7, 12, 29}
  Pointers <- AllPointers
INVARIANT TypeOK
INVARIANT Tiling
INVARIANT BlocksAreChunks
INVARIANT Coalesced
INVARIANT AllReturned
INVARIANT StaysInArray
PROPERTY PayloadUntouched
PROPERTY RefinesHeap
PROPERTY CallsReturn
CHECK_DEADLOCK FALSE
