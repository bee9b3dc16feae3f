SPECIFICATION Spec
CONSTANTS
  Threads = {t1, t2}
  NoThread = NoThread
  NGames = 1
  Messages <- MatchMessages
  Leavers = {}
SYMMETRY ThreadSymmetry
INVARIANT VerdictsAgree
PROPERTY RefinesGames
CHECK_DEADLOCK FALSE
