---------------------------- MODULE MCTTTDelivery ---------------------------
(***************************************************************************)
(* Two games at once, for the liveness of the server.  The runs of         *)
(* MCTTTServer begin with an empty server; four threads make that too much *)
(* for a temporal property, so this one begins in the middle, in states    *)
(* the server gets to from there:                                          *)
(*                                                                         *)
(*   - in game 0 players t3 and t4 have moved once each, and t3 has        *)
(*     offered a draw.  t4 may take its time, accept it and thereby end    *)
(*     the game, or never answer, and both threads run on meanwhile;       *)
(*   - game 1 has just begun or its first draw offer was just rejected,    *)
(*     and t1 has not been alerted yet.  The client of t1 may leave.       *)
(***************************************************************************)
EXTENDS MCTTTServer

CONSTANTS t1, t2, t3, t4

MovedOnce == [EmptyBoard EXCEPT ![<<1, 1>>] = "X", ![<<1, 2>>] = "O"]

InTheMiddle ==
  /\ \E news \in {"BEGN", "DRAW_REJ"} :
       gameState = [g \in AllSlots |-> CASE g = 0 -> ConfState(2)
                                         [] g = 1 -> news
                                         [] OTHER -> "WAITING_P1"]
  /\ playerUnhandled = [g \in AllSlots |-> IF g = 1 THEN 1 ELSE 0]
  /\ board = [g \in AllSlots |-> IF g = 0 THEN MovedOnce ELSE EmptyBoard]
  /\ lastBoard = board
  /\ lock = NoThread
  /\ serverUp = TRUE
  /\ pc = [t \in Threads |-> "poll"]
  /\ currentGame = [t \in Threads |-> IF t \in {t3, t4} THEN 0 ELSE 1]
  /\ player = [t \in Threads |-> IF t \in {t1, t3} THEN 1 ELSE 2]
  /\ errno = [t \in Threads |-> "EAGAIN"]
  /\ peer = [t \in Threads |-> "open"]
  /\ view = [t \in Threads |-> board[currentGame[t]]]
  /\ told = [t \in Threads |-> {}]

TwoGames == InTheMiddle /\ [][Next]_vars /\ Fairness

\* In game 0 these cells are taken, in game 1 each player may ask for one.  The last
\* message ends the process.
DeliveryMessages ==
  {Mv("X", 1, 1), Mv("O", 1, 2), Dr("S"), Dr("A"), [type |-> "WILD"]}
=============================================================================
