SPECIFICATION TwoGames
CONSTANTS
  t1 = t1
  t2 = t2
  t3 = t3
  t4 = t4
  Threads = {t1, t2, t3, t4}
  NoThread = NoThread
  NGames = 2
  Messages <- DeliveryMessages
  Leavers = {t1}
PROPERTY AlertsDelivered
PROPERTY ResetForfeits
CHECK_DEADLOCK FALSE
