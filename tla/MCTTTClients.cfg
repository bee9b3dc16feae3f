SPECIFICATION ClientsSpec
CONSTANTS
  t1 = t1
  t2 = t2
  Threads = {t1, t2}
  NoThread = NoThread
  NGames = 2
  Messages <- MCMessages
  Sessions <- MCSessions
  Leavers = {t1, t2}
INVARIANT MoverIsAsked
PROPERTY EndsAsDocumented
CHECK_DEADLOCK FALSE
