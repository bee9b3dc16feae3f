SPECIFICATION FairSpec
CONSTANTS
  Threads = {t1, t2}
  NoThread = NoThread
  NGames = 1
  Messages <- TwoCellMessages
  Leavers = {t1}
PROPERTY CloseForfeits
CHECK_DEADLOCK FALSE
