SPECIFICATION Spec
CONSTANTS
  Threads = {t1, t2}
  NoThread = NoThread
  NGames = 1
  Messages <- ShortMessages
  Leavers = {t1, t2}
SYMMETRY ThreadSymmetry
INVARIANT TypeOK
INVARIANT SeatsUnique
INVARIANT RunningHasBothPlayers
INVARIANT OTrailsX
INVARIANT MoverSawBoard
PROPERTY MarksPermanent
PROPERTY RefinesGames
CHECK_DEADLOCK FALSE
