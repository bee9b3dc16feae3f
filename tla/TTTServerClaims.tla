--------------------------- MODULE TTTServerClaims --------------------------
(***************************************************************************)
(* What tic-tac-toe/README.md says of the server and the code of ttts.c    *)
(* does not do.  Each definition is checked by a run of its own, in which  *)
(* TLC finds the behaviour that contradicts it.                            *)
(***************************************************************************)
EXTENDS TTTServer

\* "Game state is kept intact between threads using a mutex": a thread that has
\* ended does not keep the mutex, or no other thread ever runs again.  TellOver
\* breaks out of the loop past pthread_mutex_unlock.
EndedThreadsHoldNoLock == lock # NoThread => pc[lock] # "exit"

\* "If a player disconnects, they automatically forfeit": a player that closes
\* its connection during a game ends that game.  recv returns 0 without setting
\* errno, and the EAGAIN of an earlier recv makes it look like an empty socket.
CloseForfeits ==
  \A t \in Threads, g \in Slots :
    peer[t] \in {"closed", "eof"} /\ player[t] # 0 /\ currentGame[t] = g /\ Running(g)
      ~> ~Running(g) \/ ~serverUp
=============================================================================
