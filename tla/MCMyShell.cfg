SPECIFICATION FairSpec
CONSTANTS
  NFds = 8
  PipeCap = 2
  Lines <- TypedLines
  Program <- Programs
INVARIANT TypeOK
INVARIANT ChildHasItsEnds
INVARIANT ReadersSeeTheEnd
INVARIANT NoBrokenPipe
INVARIANT StdKept
INVARIANT LeaksBounded
PROPERTY WaitsEnd
CHECK_DEADLOCK FALSE
