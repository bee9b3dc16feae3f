SPECIFICATION Spec
CONSTANTS
  Conns = {c1, c2, c3, c4}
  NoConn = NoConn
  NSlots = 2
  NFds = 3
INVARIANT OneThreadPerConnection
CHECK_DEADLOCK FALSE
