SPECIFICATION Spec
CONSTANTS
  MEM = 28
  HalfInt = 64
  Sizes = {0, 1, 7}
  Pointers <- AllPointers
INVARIANT PreservedUntilFreed
CHECK_DEADLOCK FALSE
