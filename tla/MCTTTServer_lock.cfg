SPECIFICATION Spec
CONSTANTS
  Threads = {t1, t2}
  NoThread = NoThread
  NGames = 1
  Messages <- DrawMessages
  Leavers = {}
INVARIANT EndedThreadsHoldNoLock
CHECK_DEADLOCK FALSE
