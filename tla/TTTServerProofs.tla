--------------------------- MODULE TTTServerProofs --------------------------
(***************************************************************************)
(* Proofs about the server for any number of threads and games and any set *)
(* of messages.                                                            *)
(***************************************************************************)
EXTENDS TTTServer, TLAPS

-----------------------------------------------------------------------------
(* The board.                                                              *)

LEMMA EmptyBoardType == EmptyBoard \in Boards
  BY DEF EmptyBoard, Boards

\* Writing a mark on a board gives a board.
LEMMA WriteType ==
  ASSUME NEW b \in Boards, NEW c \in Cells, NEW p \in {1, 2}
  PROVE  [b EXCEPT ![c] = MarkOf(p)] \in Boards
  BY DEF Boards, MarkOf, Marks

\* What isGameOver returns.
LEMMA IsGameOverType ==
  ASSUME NEW b PROVE IsGameOver(b) \in {-1, 0, 1, 2}
  BY DEF IsGameOver

-----------------------------------------------------------------------------
(* Types.                                                                  *)

LEMMA SlotFacts == NoGame \in AllSlots /\ Slots \subseteq AllSlots
  BY DEF AllSlots

LEMMA StateTypes ==
  ASSUME NEW p \in {1, 2}
  PROVE  /\ Opponent(p) \in {1, 2}
         /\ {MoveState(p), ConfState(p), WinState(p), ResignState(p)} \subseteq States
         /\ \A over : AfterMove(over, p) \in States
  BY DEF Opponent, MoveState, ConfState, WinState, ResignState, AfterMove, States

LEMMA TypeInit == Init => TypeOK
  BY EmptyBoardType, SlotFacts DEF Init, TypeOK, States

LEMMA TypeStep == TypeOK /\ [Next]_vars => TypeOK'
<1> SUFFICES ASSUME TypeOK, [Next]_vars PROVE TypeOK'
  OBVIOUS
<1> USE SlotFacts DEF GoTo, TypeOK
<1>1. CASE UNCHANGED vars
  BY <1>1 DEF vars, gameVars, threadVars, clientVars
<1>2. ASSUME NEW t \in Threads,
             \/ Connect(t) \/ Client(t) \/ ChooseGame(t) \/ OutOfBounds(t)
             \/ Poll(t) \/ Recv(t) \/ RecordLoss(t) \/ Proc(t)
      PROVE  TypeOK'
  <2>1. CASE Connect(t)
    BY <2>1 DEF Connect, gameVars, clientVars
  <2>2. CASE ClientClose(t)
    BY <2>2 DEF ClientClose, gameVars, threadVars, clientVars
  <2>3. CASE ClientReset(t)
    BY <2>3 DEF ClientReset, gameVars, threadVars, clientVars
  <2>4. CASE ChooseGame(t)
    BY <2>4 DEF ChooseGame, gameVars, clientVars
  <2>5. CASE OutOfBounds(t)
    BY <2>5 DEF OutOfBounds, gameVars, threadVars, clientVars
  <2>6. CASE TellMove(t)
    BY <2>6 DEF TellMove, Send, Handled
  <2>7. CASE TellDraw(t)
    BY <2>7 DEF TellDraw, Send, Handled, clientVars
  <2>8. CASE TellBegin(t)
    BY <2>8 DEF TellBegin, Send, Handled, clientVars
  <2>9. CASE TellOver(t)
    <3>1. OutcomeFor(gameState[currentGame[t]]) \subseteq {"W", "L", "D"}
      BY DEF OutcomeFor
    <3> QED BY <2>9, <3>1 DEF TellOver, Send, Handled
  <2>10. CASE PollQuietly(t)
    BY <2>10 DEF PollQuietly, clientVars, States
  <2>11. CASE RecvNothing(t)
    BY <2>11 DEF RecvNothing, gameVars, clientVars
  <2>12. CASE RecvMessage(t)
    BY <2>12 DEF RecvMessage, gameVars, clientVars
  <2>13. CASE RecvEof(t)
    BY <2>13 DEF RecvEof, gameVars, clientVars
  <2>14. CASE RecvError(t)
    BY <2>14 DEF RecvError, gameVars, clientVars
  <2>15. CASE RecordLoss(t)
    BY <2>15 DEF RecordLoss, SetGame, ResignState, Opponent, States, clientVars
  <2>16. CASE JoinFirst(t)
    BY <2>16 DEF JoinFirst, SetGame, Send, States, clientVars
  <2>17. CASE JoinSecond(t)
    BY <2>17 DEF JoinSecond, SetGame, Send, States, clientVars
  <2>18. CASE Move(t)
    <3> DEFINE g == currentGame[t]
               p == player[t]
    <3>1. PICK m \in Messages : /\ MayMove(t, m)
                                /\ board' = [board EXCEPT ![g][m.position] = MarkOf(p)]
      BY <2>18 DEF Move
    <3>2. p \in {1, 2} /\ g \in AllSlots /\ m.position \in Cells
      BY <3>1 DEF MayMove, OnTurn
    <3>3. board' = [board EXCEPT ![g] = [board[g] EXCEPT ![m.position] = MarkOf(p)]]
      BY <3>1
    <3>4. board' \in [AllSlots -> Boards]
      BY <3>2, <3>3, WriteType
    <3>5. gameState' \in [AllSlots -> States] /\ playerUnhandled' \in [AllSlots -> 0..2]
      BY <2>18, <3>2, StateTypes DEF Move, SetGame
    <3>6. lastBoard' \in [AllSlots -> Boards] /\ view' \in [Threads -> Boards]
      <4>1. board'[g] \in Boards
        BY <3>2, <3>4
      <4>2. /\ lastBoard' \in {lastBoard, [lastBoard EXCEPT ![g] = board'[g]]}
            /\ view' \in {view, [view EXCEPT ![t] = board'[g]]}
        BY <2>18 DEF Move, BoardSaved
      <4> QED BY <4>1, <4>2
    <3>7. told' \in [Threads -> SUBSET {"W", "L", "D"}]
      BY <2>18 DEF Move
    <3> QED BY <2>18, <3>4, <3>5, <3>6, <3>7 DEF Move, Send
  <2>19. CASE OfferDraw(t)
    <3>1. player[t] \in {1, 2}
      BY <2>19 DEF OfferDraw, MayOffer, OnTurn
    <3> QED BY <2>19, <3>1, StateTypes DEF OfferDraw, SetGame, clientVars
  <2>20. CASE RejectDraw(t)
    <3>1. player[t] \in {1, 2}
      BY <2>20 DEF RejectDraw, MayAnswer
    <3> QED BY <2>20, <3>1, StateTypes DEF RejectDraw, SetGame, States, clientVars
  <2>21. CASE AcceptDraw(t)
    <3>1. player[t] \in {1, 2}
      BY <2>21 DEF AcceptDraw, MayAnswer
    <3> QED BY <2>21, <3>1, StateTypes DEF AcceptDraw, SetGame, States, Tell, Send
  <2>22. CASE AnswerInvalid(t)
    BY <2>22 DEF AnswerInvalid, Send, gameVars, clientVars
  <2>23. CASE Overrun(t)
    BY <2>23 DEF Overrun, gameVars, threadVars, clientVars
  <2> QED
    BY <1>2, <2>1, <2>2, <2>3, <2>4, <2>5, <2>6, <2>7, <2>8, <2>9, <2>10, <2>11,
       <2>12, <2>13, <2>14, <2>15, <2>16, <2>17, <2>18, <2>19, <2>20, <2>21, <2>22, <2>23
       DEF Client, Poll, Recv, Proc
<1> QED BY <1>1, <1>2 DEF Next

\* Every variable keeps its type: in particular a thread only ever works on a
\* slot of the array or on games[-1], and an alert is for player 1, 2 or nobody.
THEOREM TypeCorrect == Spec => []TypeOK
  BY TypeInit, TypeStep, PTL DEF Spec

-----------------------------------------------------------------------------
(* The mutex and finished games.                                           *)

LEMMA RetireInit == Init => RetireUnreachable
  BY SlotFacts DEF Init, RetireUnreachable, Over, OverStates

\* Whoever clears the alert of a finished game keeps the mutex, so with a free mutex
\* there is no finished game without an alert and the retire test fails.
LEMMA RetireStep == TypeOK /\ RetireUnreachable /\ [Next]_vars => RetireUnreachable'
<1> SUFFICES ASSUME TypeOK, RetireUnreachable, [Next]_vars PROVE RetireUnreachable'
  OBVIOUS
<1> USE DEF TypeOK, RetireUnreachable, Over, OverStates
<1>1. CASE UNCHANGED vars
  BY <1>1 DEF vars, gameVars, threadVars
<1>2. ASSUME NEW t \in Threads,
             \/ Connect(t) \/ Client(t) \/ ChooseGame(t) \/ OutOfBounds(t)
             \/ Poll(t) \/ Recv(t) \/ RecordLoss(t) \/ Proc(t)
      PROVE  RetireUnreachable'
  <2>1. CASE Connect(t)
    BY <2>1 DEF Connect, gameVars, threadVars
  <2>2. CASE ClientClose(t)
    BY <2>2 DEF ClientClose, gameVars, threadVars
  <2>3. CASE ClientReset(t)
    BY <2>3 DEF ClientReset, gameVars, threadVars
  <2>4. CASE ChooseGame(t)
    BY <2>4 DEF ChooseGame, gameVars, threadVars
  <2>5. CASE OutOfBounds(t)
    BY <2>5 DEF OutOfBounds, gameVars, threadVars
  <2>6. CASE TellMove(t)
    BY <2>6 DEF TellMove, Polling, TellsMove, MoveState, Handled
  <2>7. CASE TellDraw(t)
    BY <2>7 DEF TellDraw, Polling, TellsOffer, TellsRejection, ConfState, Handled
  <2>8. CASE TellBegin(t)
    BY <2>8 DEF TellBegin, Polling, TellsBegin, Handled
  <2>9. CASE TellOver(t)
    <3>1. lock' = t /\ t # NoThread
      BY <2>9, ThreadsAssumption DEF TellOver
    <3> QED BY <3>1
  <2>10. CASE PollQuietly(t)
    BY <2>10 DEF PollQuietly, Polling, GoTo
  <2>11. CASE RecvNothing(t)
    BY <2>11 DEF RecvNothing, gameVars, threadVars
  <2>12. CASE RecvMessage(t)
    BY <2>12 DEF RecvMessage, gameVars, threadVars
  <2>13. CASE RecvEof(t)
    BY <2>13 DEF RecvEof, gameVars, threadVars
  <2>14. CASE RecvError(t)
    BY <2>14 DEF RecvError, gameVars, threadVars
  <2>15. CASE RecordLoss(t)
    BY <2>15 DEF RecordLoss, SetGame, ResignState, Opponent
  <2>16. CASE JoinFirst(t)
    BY <2>16 DEF JoinFirst, SetGame
  <2>17. CASE JoinSecond(t)
    BY <2>17 DEF JoinSecond, SetGame
  <2>18. CASE Move(t)
    <3>1. player[t] \in {1, 2}
      BY <2>18 DEF Move, MayMove, OnTurn
    <3>2. playerUnhandled' = [playerUnhandled EXCEPT ![currentGame[t]] = Opponent(player[t])]
      BY <2>18 DEF Move, SetGame
    <3>3. gameState' = [gameState EXCEPT ![currentGame[t]] = gameState'[currentGame[t]]]
      BY <2>18 DEF Move, SetGame
    <3> QED BY <2>18, <3>1, <3>2, <3>3 DEF Move, Opponent
  <2>19. CASE OfferDraw(t)
    <3>1. player[t] \in {1, 2}
      BY <2>19 DEF OfferDraw, MayOffer, OnTurn
    <3>2. playerUnhandled' = [playerUnhandled EXCEPT ![currentGame[t]] = Opponent(player[t])]
      BY <2>19 DEF OfferDraw, SetGame
    <3>3. gameState' = [gameState EXCEPT ![currentGame[t]] = gameState'[currentGame[t]]]
      BY <2>19 DEF OfferDraw, SetGame
    <3> QED BY <2>19, <3>1, <3>2, <3>3 DEF OfferDraw, Opponent
  <2>20. CASE RejectDraw(t)
    <3>1. player[t] \in {1, 2}
      BY <2>20 DEF RejectDraw, MayAnswer
    <3>2. playerUnhandled' = [playerUnhandled EXCEPT ![currentGame[t]] = Opponent(player[t])]
      BY <2>20 DEF RejectDraw, SetGame
    <3>3. gameState' = [gameState EXCEPT ![currentGame[t]] = gameState'[currentGame[t]]]
      BY <2>20 DEF RejectDraw, SetGame
    <3> QED BY <2>20, <3>1, <3>2, <3>3 DEF RejectDraw, Opponent
  <2>21. CASE AcceptDraw(t)
    <3>1. player[t] \in {1, 2}
      BY <2>21 DEF AcceptDraw, MayAnswer
    <3>2. playerUnhandled' = [playerUnhandled EXCEPT ![currentGame[t]] = Opponent(player[t])]
      BY <2>21 DEF AcceptDraw, SetGame
    <3>3. gameState' = [gameState EXCEPT ![currentGame[t]] = gameState'[currentGame[t]]]
      BY <2>21 DEF AcceptDraw, SetGame
    <3> QED BY <2>21, <3>1, <3>2, <3>3 DEF AcceptDraw, Opponent
  <2>22. CASE AnswerInvalid(t)
    BY <2>22 DEF AnswerInvalid, gameVars, threadVars
  <2>23. CASE Overrun(t)
    BY <2>23 DEF Overrun, gameVars, threadVars
  <2> QED
    BY <1>2, <2>1, <2>2, <2>3, <2>4, <2>5, <2>6, <2>7, <2>8, <2>9, <2>10, <2>11,
       <2>12, <2>13, <2>14, <2>15, <2>16, <2>17, <2>18, <2>19, <2>20, <2>21, <2>22, <2>23
       DEF Client, Poll, Recv, Proc
<1> QED BY <1>1, <1>2 DEF Next

\* No finished slot is ever handed to a new game, however many games and threads
\* there are.
THEOREM NeverRetired == Spec => []RetireUnreachable
  BY TypeInit, TypeStep, RetireInit, RetireStep, PTL DEF Spec

-----------------------------------------------------------------------------
(* Seats.                                                                  *)

\* A thread that has not chosen a game has no seat; nobody has a seat in a game
\* that waits for its first player, and only seat 1 is taken in one that waits for
\* its second: so the seat that PLAY gives is free.
SeatInv ==
  /\ \A t \in Threads : pc[t] \in {"none", "find"} => player[t] = 0
  /\ \A t \in Threads : player[t] # 0 =>
       /\ gameState[currentGame[t]] # "WAITING_P1"
       /\ gameState[currentGame[t]] = "WAITING_P2" => player[t] = 1
  /\ SeatsUnique

LEMMA SeatInit == Init => SeatInv
  BY DEF Init, SeatInv, SeatsUnique

\* Every step keeps the seats of different threads different.
LEMMA SeatStep == TypeOK /\ SeatInv /\ [Next]_vars => SeatInv'
<1> SUFFICES ASSUME TypeOK, SeatInv, [Next]_vars PROVE SeatInv'
  OBVIOUS
<1> USE DEF TypeOK, SeatInv, SeatsUnique, GoTo
<1>1. CASE UNCHANGED vars
  BY <1>1 DEF vars, gameVars, threadVars
<1>2. ASSUME NEW t \in Threads,
             \/ Connect(t) \/ Client(t) \/ ChooseGame(t) \/ OutOfBounds(t)
             \/ Poll(t) \/ Recv(t) \/ RecordLoss(t) \/ Proc(t)
      PROVE  SeatInv'
  <2>1. CASE Connect(t)
    BY <2>1 DEF Connect, gameVars, threadVars
  <2>2. CASE ClientClose(t)
    BY <2>2 DEF ClientClose, gameVars, threadVars
  <2>3. CASE ClientReset(t)
    BY <2>3 DEF ClientReset, gameVars, threadVars
  <2>4. CASE ChooseGame(t)
    BY <2>4 DEF ChooseGame, gameVars, threadVars
  <2>5. CASE OutOfBounds(t)
    BY <2>5 DEF OutOfBounds, gameVars, threadVars
  <2>6. CASE TellMove(t)
    BY <2>6 DEF TellMove, Polling, Handled
  <2>7. CASE TellDraw(t)
    BY <2>7 DEF TellDraw, Polling, Handled
  <2>8. CASE TellBegin(t)
    BY <2>8 DEF TellBegin, Polling, Handled
  <2>9. CASE TellOver(t)
    BY <2>9 DEF TellOver, Polling, Handled
  <2>10. CASE PollQuietly(t)
    BY <2>10 DEF PollQuietly, Polling
  <2>11. CASE RecvNothing(t)
    BY <2>11 DEF RecvNothing, gameVars, threadVars
  <2>12. CASE RecvMessage(t)
    BY <2>12 DEF RecvMessage, gameVars, threadVars
  <2>13. CASE RecvEof(t)
    BY <2>13 DEF RecvEof, gameVars, threadVars
  <2>14. CASE RecvError(t)
    BY <2>14 DEF RecvError, gameVars, threadVars
  <2>15. CASE RecordLoss(t)
    BY <2>15 DEF RecordLoss, SetGame, ResignState
  <2>16. CASE JoinFirst(t)
    BY <2>16 DEF JoinFirst, Processing, MayJoin, SetGame
  <2>17. CASE JoinSecond(t)
    BY <2>17 DEF JoinSecond, Processing, MayJoin, SetGame
  <2>18. CASE Move(t)
    <3>1. player[t] \in {1, 2}
      BY <2>18 DEF Move, MayMove, OnTurn
    <3>2. /\ gameState' = [gameState EXCEPT ![currentGame[t]] = gameState'[currentGame[t]]]
          /\ gameState'[currentGame[t]] \notin {"WAITING_P1", "WAITING_P2"}
      BY <2>18, <3>1 DEF Move, SetGame, AfterMove, WinState, MoveState, ConfState
    <3> QED BY <2>18, <3>2 DEF Move
  <2>19. CASE OfferDraw(t)
    <3>1. player[t] \in {1, 2}
      BY <2>19 DEF OfferDraw, MayOffer, OnTurn
    <3>2. /\ gameState' = [gameState EXCEPT ![currentGame[t]] = gameState'[currentGame[t]]]
          /\ gameState'[currentGame[t]] \notin {"WAITING_P1", "WAITING_P2"}
      BY <2>19, <3>1 DEF OfferDraw, SetGame, AfterMove, WinState, MoveState, ConfState
    <3> QED BY <2>19, <3>2 DEF OfferDraw
  <2>20. CASE RejectDraw(t)
    <3>1. player[t] \in {1, 2}
      BY <2>20 DEF RejectDraw, MayAnswer
    <3>2. /\ gameState' = [gameState EXCEPT ![currentGame[t]] = gameState'[currentGame[t]]]
          /\ gameState'[currentGame[t]] \notin {"WAITING_P1", "WAITING_P2"}
      BY <2>20, <3>1 DEF RejectDraw, SetGame, AfterMove, WinState, MoveState, ConfState
    <3> QED BY <2>20, <3>2 DEF RejectDraw
  <2>21. CASE AcceptDraw(t)
    <3>1. player[t] \in {1, 2}
      BY <2>21 DEF AcceptDraw, MayAnswer
    <3>2. /\ gameState' = [gameState EXCEPT ![currentGame[t]] = gameState'[currentGame[t]]]
          /\ gameState'[currentGame[t]] \notin {"WAITING_P1", "WAITING_P2"}
      BY <2>21, <3>1 DEF AcceptDraw, SetGame, AfterMove, WinState, MoveState, ConfState
    <3> QED BY <2>21, <3>2 DEF AcceptDraw
  <2>22. CASE AnswerInvalid(t)
    BY <2>22 DEF AnswerInvalid, gameVars, threadVars
  <2>23. CASE Overrun(t)
    BY <2>23 DEF Overrun, gameVars, threadVars
  <2> QED
    BY <1>2, <2>1, <2>2, <2>3, <2>4, <2>5, <2>6, <2>7, <2>8, <2>9, <2>10, <2>11,
       <2>12, <2>13, <2>14, <2>15, <2>16, <2>17, <2>18, <2>19, <2>20, <2>21, <2>22, <2>23
       DEF Client, Poll, Recv, Proc
<1> QED BY <1>1, <1>2 DEF Next

\* No two threads ever share a seat of a game, whatever number of threads found
\* the game open.
THEOREM SeatsAreUnique == Spec => []SeatsUnique
<1>1. TypeOK /\ SeatInv /\ [Next]_vars => TypeOK' /\ SeatInv'
  BY TypeStep, SeatStep
<1>2. SeatInv => SeatsUnique
  BY DEF SeatInv
<1> QED BY TypeInit, SeatInit, <1>1, <1>2, PTL DEF Spec

-----------------------------------------------------------------------------
(* Both players are there.                                                 *)

Live(t) == pc[t] \in {"poll", "recv", "proc", "lost"}

\* The player of a game that waits for its second player has not left its loop.
FirstPlayerWaits ==
  \A g \in AllSlots : gameState[g] = "WAITING_P2" =>
    \E t \in Threads : Seated(t, g, 1) /\ Live(t)

PlayersInv == RunningHasBothPlayers /\ FirstPlayerWaits

LEMMA PlayersInit == Init => PlayersInv
  BY DEF Init, PlayersInv, RunningHasBothPlayers, FirstPlayerWaits, Running, RunningStates

\* The steps that give no seat and begin no game: enough that the stepping thread
\* stays in its loop, or leaves behind a game that needs no player.
LEMMA PlayersKept ==
  ASSUME TypeOK, PlayersInv, NEW t \in Threads,
         UNCHANGED <<player, currentGame>>,
         \A s \in Threads : s # t => pc'[s] = pc[s],
         \A g \in AllSlots : Running(g)' => Running(g),
         \A g \in AllSlots : gameState'[g] = "WAITING_P2" => gameState[g] = "WAITING_P2",
         \/ Live(t) => Live(t)'
         \/ ~Running(currentGame[t])' /\ gameState'[currentGame[t]] # "WAITING_P2"
  PROVE  PlayersInv'
<1>1. ASSUME NEW s \in Threads, NEW g \in AllSlots, NEW p, Seated(s, g, p), Live(s),
             Running(g)' \/ gameState'[g] = "WAITING_P2"
      PROVE  Seated(s, g, p)' /\ Live(s)'
  <2>1. CASE s = t
    BY <1>1, <2>1 DEF Seated
  <2>2. CASE s # t
    BY <1>1, <2>2 DEF Seated, Live
  <2> QED BY <2>1, <2>2
<1>2. RunningHasBothPlayers'
  <2> SUFFICES ASSUME NEW g \in AllSlots, Running(g)', NEW p \in {1, 2}
               PROVE  \E s \in Threads : Seated(s, g, p)' /\ Live(s)'
    BY DEF RunningHasBothPlayers, Live
  <2>1. PICK s \in Threads : Seated(s, g, p) /\ Live(s)
    BY DEF PlayersInv, RunningHasBothPlayers, Live
  <2> QED BY <1>1, <2>1
<1>3. FirstPlayerWaits'
  <2> SUFFICES ASSUME NEW g \in AllSlots, gameState'[g] = "WAITING_P2"
               PROVE  \E s \in Threads : Seated(s, g, 1)' /\ Live(s)'
    BY DEF FirstPlayerWaits
  <2>1. PICK s \in Threads : Seated(s, g, 1) /\ Live(s)
    BY DEF PlayersInv, FirstPlayerWaits
  <2> QED BY <1>1, <2>1
<1> QED BY <1>2, <1>3 DEF PlayersInv

\* A thread leaves its loop only from a game that needs it no more.
LEMMA PlayersStep == TypeOK /\ PlayersInv /\ [Next]_vars => PlayersInv'
<1> SUFFICES ASSUME TypeOK, PlayersInv, [Next]_vars PROVE PlayersInv'
  OBVIOUS
<1> USE DEF TypeOK, GoTo
<1>1. CASE UNCHANGED vars
  BY <1>1 DEF vars, gameVars, threadVars, PlayersInv, RunningHasBothPlayers,
              FirstPlayerWaits, Seated, Running, Live
<1>2. ASSUME NEW t \in Threads,
             \/ Connect(t) \/ Client(t) \/ ChooseGame(t) \/ OutOfBounds(t)
             \/ Poll(t) \/ Recv(t) \/ RecordLoss(t) \/ Proc(t)
      PROVE  PlayersInv'
  <2>1. CASE Connect(t)
    BY <2>1, PlayersKept DEF Connect, Live, Running, gameVars, threadVars
  <2>2. CASE ClientClose(t)
    BY <2>2, PlayersKept DEF ClientClose, Live, Running, gameVars, threadVars
  <2>3. CASE ClientReset(t)
    BY <2>3, PlayersKept DEF ClientReset, Live, Running, gameVars, threadVars
  <2>4. CASE ChooseGame(t)
    <3>1. \A s \in Threads : Live(s) => s # t /\ Live(s)' /\ currentGame'[s] = currentGame[s]
      BY <2>4 DEF ChooseGame, Live
    <3> QED BY <2>4, <3>1 DEF ChooseGame, PlayersInv, RunningHasBothPlayers, Live,
                             FirstPlayerWaits, Seated, Running, gameVars
  <2>5. CASE OutOfBounds(t)
    BY <2>5, PlayersKept DEF OutOfBounds, Live, Running, gameVars, threadVars
  <2>6. CASE TellMove(t)
    BY <2>6, PlayersKept DEF TellMove, Handled, Live, Running
  <2>7. CASE TellDraw(t)
    BY <2>7, PlayersKept DEF TellDraw, Handled, Live, Running
  <2>8. CASE TellBegin(t)
    BY <2>8, PlayersKept DEF TellBegin, Handled, Live, Running
  <2>9. CASE TellOver(t)
    BY <2>9, PlayersKept DEF TellOver, TellsOver, Handled, Running, RunningStates, OverStates
  <2>10. CASE PollQuietly(t)
    <3>1. \A g \in AllSlots : gameState'[g] \in {gameState[g], "OVER_READY_FOR_NEW"}
      BY <2>10 DEF PollQuietly
    <3>2. Live(t)' \/ gameState'[currentGame[t]] = "OVER_READY_FOR_NEW"
      BY <2>10 DEF PollQuietly, Live
    <3> QED BY <2>10, <3>1, <3>2, PlayersKept DEF PollQuietly, Running, RunningStates
  <2>11. CASE RecvNothing(t)
    BY <2>11, PlayersKept DEF RecvNothing, Live, Running, gameVars, threadVars
  <2>12. CASE RecvMessage(t)
    BY <2>12, PlayersKept DEF RecvMessage, Live, Running, gameVars, threadVars
  <2>13. CASE RecvEof(t)
    BY <2>13, PlayersKept DEF RecvEof, Live, Running, gameVars, threadVars
  <2>14. CASE RecvError(t)
    BY <2>14, PlayersKept DEF RecvError, Live, Running, gameVars, threadVars
  <2>15. CASE RecordLoss(t)
    BY <2>15, PlayersKept DEF RecordLoss, SetGame, ResignState, Running, RunningStates, Live
  <2>16. CASE JoinFirst(t)
    <3> PICK h \in AllSlots : h = currentGame[t]
      OBVIOUS
    <3>1. Seated(t, h, 1)' /\ Live(t)'
      BY <2>16 DEF JoinFirst, Seated, Live
    <3>2. player[t] = 0
      BY <2>16 DEF JoinFirst, MayJoin
    <3>3. \A s \in Threads, g \in AllSlots, p \in {1, 2} :
            Seated(s, g, p) /\ Live(s) => Seated(s, g, p)' /\ Live(s)'
      BY <2>16, <3>2 DEF JoinFirst, Seated, Live
    <3>4. \A g \in AllSlots : /\ Running(g)' => Running(g)
                              /\ gameState'[g] = "WAITING_P2" =>
                                   gameState[g] = "WAITING_P2" \/ g = h
      BY <2>16 DEF JoinFirst, SetGame, Running, RunningStates
    <3>5. RunningHasBothPlayers'
      BY <3>3, <3>4 DEF PlayersInv, RunningHasBothPlayers, Live
    <3>6. FirstPlayerWaits'
      BY <3>1, <3>3, <3>4 DEF PlayersInv, FirstPlayerWaits
    <3> QED BY <3>5, <3>6 DEF PlayersInv
  <2>17. CASE JoinSecond(t)
    <3> PICK h \in AllSlots : h = currentGame[t]
      OBVIOUS
    <3>1. Seated(t, h, 2)' /\ Live(t)'
      BY <2>17 DEF JoinSecond, Seated, Live
    <3>2. player[t] = 0 /\ gameState[h] = "WAITING_P2"
      BY <2>17 DEF JoinSecond, MayJoin
    <3>3. \A s \in Threads, g \in AllSlots, p \in {1, 2} :
            Seated(s, g, p) /\ Live(s) => Seated(s, g, p)' /\ Live(s)'
      BY <2>17, <3>2 DEF JoinSecond, Seated, Live
    <3>4. \A g \in AllSlots :
            /\ Running(g)' => Running(g) \/ g = h
            /\ gameState'[g] = "WAITING_P2" => gameState[g] = "WAITING_P2"
      BY <2>17, <3>2 DEF JoinSecond, SetGame, Running, RunningStates
    <3>5. PICK s \in Threads : Seated(s, h, 1)' /\ Live(s)'
      BY <3>2, <3>3 DEF PlayersInv, FirstPlayerWaits
    <3>6. RunningHasBothPlayers'
      BY <3>1, <3>3, <3>4, <3>5 DEF PlayersInv, RunningHasBothPlayers, Live
    <3>7. FirstPlayerWaits'
      BY <3>3, <3>4 DEF PlayersInv, FirstPlayerWaits
    <3> QED BY <3>6, <3>7 DEF PlayersInv
  <2>18. CASE Move(t)
    <3>1. player[t] \in {1, 2} /\ Running(currentGame[t])
      BY <2>18 DEF Move, MayMove, OnTurn, TurnStates, Running, RunningStates
    <3>2. /\ gameState' = [gameState EXCEPT ![currentGame[t]] = gameState'[currentGame[t]]]
          /\ gameState'[currentGame[t]] # "WAITING_P2"
      BY <2>18, <3>1 DEF Move, SetGame, AfterMove, WinState, MoveState, ConfState
    <3> QED BY <2>18, <3>1, <3>2, PlayersKept, SMTT(60) DEF Move, Running, Live
  <2>19. CASE OfferDraw(t)
    <3>1. player[t] \in {1, 2} /\ Running(currentGame[t])
      BY <2>19 DEF OfferDraw, MayOffer, OnTurn, TurnStates, Running, RunningStates
    <3>2. /\ gameState' = [gameState EXCEPT ![currentGame[t]] = gameState'[currentGame[t]]]
          /\ gameState'[currentGame[t]] # "WAITING_P2"
      BY <2>19, <3>1 DEF OfferDraw, SetGame, AfterMove, WinState, MoveState, ConfState
    <3> QED BY <2>19, <3>1, <3>2, PlayersKept DEF OfferDraw, Running, Live
  <2>20. CASE RejectDraw(t)
    <3>1. player[t] \in {1, 2} /\ Running(currentGame[t])
      BY <2>20 DEF RejectDraw, MayAnswer, ConfState, Running, RunningStates
    <3>2. /\ gameState' = [gameState EXCEPT ![currentGame[t]] = gameState'[currentGame[t]]]
          /\ gameState'[currentGame[t]] # "WAITING_P2"
      BY <2>20, <3>1 DEF RejectDraw, SetGame, AfterMove, WinState, MoveState, ConfState
    <3> QED BY <2>20, <3>1, <3>2, PlayersKept DEF RejectDraw, Running, Live
  <2>21. CASE AcceptDraw(t)
    <3>1. player[t] \in {1, 2} /\ Running(currentGame[t])
      BY <2>21 DEF AcceptDraw, MayAnswer, ConfState, Running, RunningStates
    <3>2. /\ gameState' = [gameState EXCEPT ![currentGame[t]] = gameState'[currentGame[t]]]
          /\ gameState'[currentGame[t]] # "WAITING_P2"
      BY <2>21, <3>1 DEF AcceptDraw, SetGame, AfterMove, WinState, MoveState, ConfState
    <3> QED BY <2>21, <3>1, <3>2, PlayersKept DEF AcceptDraw, Running, Live
  <2>22. CASE AnswerInvalid(t)
    BY <2>22, PlayersKept DEF AnswerInvalid, Live, Running, gameVars, threadVars
  <2>23. CASE Overrun(t)
    BY <2>23, PlayersKept DEF Overrun, Live, Running, gameVars, threadVars
  <2> QED
    BY <1>2, <2>1, <2>2, <2>3, <2>4, <2>5, <2>6, <2>7, <2>8, <2>9, <2>10, <2>11,
       <2>12, <2>13, <2>14, <2>15, <2>16, <2>17, <2>18, <2>19, <2>20, <2>21, <2>22, <2>23
       DEF Client, Poll, Recv, Proc
<1> QED BY <1>1, <1>2 DEF Next

\* A game in progress always has a living thread in each of its two seats.
THEOREM BothPlayersThere == Spec => []RunningHasBothPlayers
<1>1. TypeOK /\ PlayersInv /\ [Next]_vars => TypeOK' /\ PlayersInv'
  BY TypeStep, PlayersStep
<1>2. PlayersInv => RunningHasBothPlayers
  BY DEF PlayersInv
<1> QED BY TypeInit, PlayersInit, <1>1, <1>2, PTL DEF Spec

-----------------------------------------------------------------------------
(* The board and the verdict.                                              *)

LEMMA EmptyUndecided == IsGameOver(EmptyBoard) = -1
<1>1. \A c \in Cells : EmptyBoard[c] = Blank
  BY DEF EmptyBoard
<1>2. <<1, 1>> \in Cells /\ \A i, j \in Index : <<i, j>> \in Cells /\ <<i, 4 - i>> \in Cells
  BY DEF Cells, Index
<1>3. \A mark \in Marks : ~CheckWin(mark, EmptyBoard)
  BY <1>1, <1>2 DEF CheckWin, Marks, Blank, Index
<1>4. ~Full(EmptyBoard)
  BY <1>1, <1>2 DEF Full
<1> QED BY <1>3, <1>4 DEF IsGameOver, Marks

\* A line of `mark' that is there after a move was there before, if the move did
\* not write `mark'.
LEMMA NoNewLine ==
  ASSUME NEW b \in Boards, NEW mark \in Marks, NEW other \in Marks, mark # other,
         NEW c \in Cells, CheckWin(mark, [b EXCEPT ![c] = other])
  PROVE  CheckWin(mark, b)
<1> DEFINE after == [b EXCEPT ![c] = other]
<1>1. \A i, j \in Index : <<i, j>> \in Cells /\ <<i, 4 - i>> \in Cells
  BY DEF Cells, Index
<1>2. \A d \in Cells : after[d] = mark => b[d] = mark
  BY DEF Boards
<1> HIDE DEF after
<1>3. CheckWin(mark, after)
  BY DEF after
<1> QED BY <1>1, <1>2, <1>3 DEF CheckWin

\* The verdict after a move in an undecided game: never the opponent's win, and a
\* win or a draw only with the board for it.
LEMMA VerdictAfterMove ==
  ASSUME NEW b \in Boards, IsGameOver(b) = -1, NEW c \in Cells, NEW p \in {1, 2},
         NEW after, after = [b EXCEPT ![c] = MarkOf(p)]
  PROVE  /\ IsGameOver(after) \in {-1, 0, p}
         /\ IsGameOver(after) = p =>
              CheckWin(MarkOf(p), after) /\ ~CheckWin(MarkOf(Opponent(p)), after)
         /\ IsGameOver(after) = 0 =>
              Full(after) /\ ~CheckWin("X", after) /\ ~CheckWin("O", after)
<1>1. ~CheckWin("X", b) /\ ~CheckWin("O", b)
  BY DEF IsGameOver
<1>2. /\ MarkOf(p) \in Marks /\ MarkOf(Opponent(p)) \in Marks
      /\ MarkOf(p) # MarkOf(Opponent(p))
  BY DEF MarkOf, Opponent, Marks
<1>3. ~CheckWin(MarkOf(Opponent(p)), after)
  BY <1>1, <1>2, NoNewLine DEF Marks
<1> QED BY <1>3 DEF IsGameOver, MarkOf, Opponent

\* A game that has not begun has an empty board, one in progress is undecided,
\* and a verdict has its board.
NotBegunEmpty ==
  \A g \in AllSlots : gameState[g] \in {"WAITING_P1", "WAITING_P2"} => board[g] = EmptyBoard

BoardInv == NotBegunEmpty /\ RunningUndecided /\ VerdictSound

LEMMA BoardInit == Init => BoardInv
  BY DEF Init, BoardInv, NotBegunEmpty, RunningUndecided, VerdictSound, Running,
         RunningStates

\* The steps that write on no board: what state they may bring a game to.
LEMMA BoardKept ==
  ASSUME TypeOK, BoardInv, UNCHANGED board,
         \A g \in AllSlots :
           \/ gameState'[g] = gameState[g]
           \/ Running(g)' /\ (Running(g) \/ gameState[g] = "WAITING_P2")
           \/ gameState'[g] = "WAITING_P2" /\ gameState[g] = "WAITING_P1"
           \/ gameState'[g] \in {"GAME_OVER_P1_RESIGN", "GAME_OVER_P2_RESIGN",
                                 "GAME_OVER_DRAW_AGG", "OVER_READY_FOR_NEW"}
  PROVE  BoardInv'
  BY EmptyUndecided DEF BoardInv, NotBegunEmpty, RunningUndecided, VerdictSound,
                        Running, RunningStates

\* Every step keeps the boards and the states of the games in agreement.
LEMMA BoardStep == TypeOK /\ BoardInv /\ [Next]_vars => BoardInv'
<1> SUFFICES ASSUME TypeOK, BoardInv, [Next]_vars PROVE BoardInv'
  OBVIOUS
<1> USE DEF TypeOK, GoTo
<1>1. CASE UNCHANGED vars
  BY <1>1, BoardKept DEF vars, gameVars
<1>2. ASSUME NEW t \in Threads,
             \/ Connect(t) \/ Client(t) \/ ChooseGame(t) \/ OutOfBounds(t)
             \/ Poll(t) \/ Recv(t) \/ RecordLoss(t) \/ Proc(t)
      PROVE  BoardInv'
  <2>1. CASE Connect(t)
    BY <2>1, BoardKept DEF Connect, gameVars, threadVars, Running
  <2>2. CASE ClientClose(t)
    BY <2>2, BoardKept DEF ClientClose, gameVars, threadVars, Running
  <2>3. CASE ClientReset(t)
    BY <2>3, BoardKept DEF ClientReset, gameVars, threadVars, Running
  <2>4. CASE ChooseGame(t)
    BY <2>4, BoardKept DEF ChooseGame, gameVars, threadVars, Running
  <2>5. CASE OutOfBounds(t)
    BY <2>5, BoardKept DEF OutOfBounds, gameVars, threadVars, Running
  <2>6. CASE TellMove(t)
    BY <2>6, BoardKept DEF TellMove, Handled, Running
  <2>7. CASE TellDraw(t)
    BY <2>7, BoardKept DEF TellDraw, Handled, Running
  <2>8. CASE TellBegin(t)
    BY <2>8, BoardKept DEF TellBegin, Handled, Running
  <2>9. CASE TellOver(t)
    BY <2>9, BoardKept DEF TellOver, Handled, Running
  <2>10. CASE PollQuietly(t)
    BY <2>10, BoardKept DEF PollQuietly
  <2>11. CASE RecvNothing(t)
    BY <2>11, BoardKept DEF RecvNothing, gameVars, threadVars, Running
  <2>12. CASE RecvMessage(t)
    BY <2>12, BoardKept DEF RecvMessage, gameVars, threadVars, Running
  <2>13. CASE RecvEof(t)
    BY <2>13, BoardKept DEF RecvEof, gameVars, threadVars, Running
  <2>14. CASE RecvError(t)
    BY <2>14, BoardKept DEF RecvError, gameVars, threadVars, Running
  <2>15. CASE RecordLoss(t)
    BY <2>15, BoardKept DEF RecordLoss, SetGame, ResignState, Running, RunningStates
  <2>16. CASE JoinFirst(t)
    BY <2>16, BoardKept DEF JoinFirst, MayJoin, SetGame
  <2>17. CASE JoinSecond(t)
    BY <2>17, BoardKept DEF JoinSecond, MayJoin, SetGame, Running, RunningStates
  <2>18. CASE Move(t)
    <3> PICK g \in AllSlots : g = currentGame[t]
      OBVIOUS
    <3> PICK p : p = player[t]
      OBVIOUS
    <3>1. PICK m \in Messages : /\ MayMove(t, m)
                                /\ board' = [board EXCEPT ![g][m.position] = MarkOf(p)]
      BY <2>18 DEF Move
    <3>2. p \in {1, 2} /\ m.position \in Cells /\ Running(g)
      BY <3>1 DEF MayMove, OnTurn, TurnStates, Running, RunningStates
    <3>3. /\ board[g] \in Boards /\ IsGameOver(board[g]) = -1
          /\ board'[g] = [board[g] EXCEPT ![m.position] = MarkOf(p)]
      BY <3>1, <3>2 DEF BoardInv, RunningUndecided
    <3>4. gameState' = [gameState EXCEPT ![g] = AfterMove(IsGameOver(board'[g]), p)]
      BY <2>18 DEF Move, SetGame
    <3>5. \A h \in AllSlots : h # g => gameState'[h] = gameState[h] /\ board'[h] = board[h]
      BY <3>1, <3>4
    <3>6. /\ IsGameOver(board'[g]) \in {-1, 0, p}
          /\ IsGameOver(board'[g]) = p =>
               CheckWin(MarkOf(p), board'[g]) /\ ~CheckWin(MarkOf(Opponent(p)), board'[g])
          /\ IsGameOver(board'[g]) = 0 =>
               Full(board'[g]) /\ ~CheckWin("X", board'[g]) /\ ~CheckWin("O", board'[g])
      BY <3>2, <3>3, VerdictAfterMove
    <3>7. gameState'[g] = AfterMove(IsGameOver(board'[g]), p)
      BY <3>4
    <3>8. NotBegunEmpty'
      BY <3>2, <3>5, <3>7 DEF BoardInv, NotBegunEmpty, AfterMove, WinState, MoveState
    <3>9. RunningUndecided'
      <4>1. gameState'[g] \in RunningStates => IsGameOver(board'[g]) = -1
        BY <3>2, <3>6, <3>7 DEF AfterMove, WinState, MoveState, RunningStates
      <4> QED BY <4>1, <3>5 DEF BoardInv, RunningUndecided, Running
    <3>10. VerdictSound'
      <4>1. /\ gameState'[g] = "GAME_OVER_P1_WIN" => p = 1 /\ IsGameOver(board'[g]) = p
            /\ gameState'[g] = "GAME_OVER_P2_WIN" => p = 2 /\ IsGameOver(board'[g]) = p
            /\ gameState'[g] = "GAME_OVER_DRAW" => IsGameOver(board'[g]) = 0
        BY <3>2, <3>7 DEF AfterMove, WinState, MoveState
      <4> QED BY <4>1, <3>5, <3>6 DEF BoardInv, VerdictSound, MarkOf, Opponent
    <3> QED BY <3>8, <3>9, <3>10 DEF BoardInv
  <2>19. CASE OfferDraw(t)
    <3>1. player[t] \in {1, 2} /\ Running(currentGame[t])
      BY <2>19 DEF OfferDraw, MayOffer, OnTurn, TurnStates, Running, RunningStates
    <3>2. /\ gameState' = [gameState EXCEPT ![currentGame[t]] = gameState'[currentGame[t]]]
          /\ gameState'[currentGame[t]] \in RunningStates \cup {"GAME_OVER_DRAW_AGG"}
      BY <2>19, <3>1 DEF OfferDraw, SetGame, ConfState, RunningStates, Opponent
    <3> QED BY <2>19, <3>1, <3>2, BoardKept DEF OfferDraw, Running
  <2>20. CASE RejectDraw(t)
    <3>1. player[t] \in {1, 2} /\ Running(currentGame[t])
      BY <2>20 DEF RejectDraw, MayAnswer, ConfState, Running, RunningStates
    <3>2. /\ gameState' = [gameState EXCEPT ![currentGame[t]] = gameState'[currentGame[t]]]
          /\ gameState'[currentGame[t]] \in RunningStates \cup {"GAME_OVER_DRAW_AGG"}
      BY <2>20, <3>1 DEF RejectDraw, SetGame, ConfState, RunningStates, Opponent
    <3> QED BY <2>20, <3>1, <3>2, BoardKept DEF RejectDraw, Running
  <2>21. CASE AcceptDraw(t)
    <3>1. player[t] \in {1, 2} /\ Running(currentGame[t])
      BY <2>21 DEF AcceptDraw, MayAnswer, ConfState, Running, RunningStates
    <3>2. /\ gameState' = [gameState EXCEPT ![currentGame[t]] = gameState'[currentGame[t]]]
          /\ gameState'[currentGame[t]] \in RunningStates \cup {"GAME_OVER_DRAW_AGG"}
      BY <2>21, <3>1 DEF AcceptDraw, SetGame, ConfState, RunningStates, Opponent
    <3> QED BY <2>21, <3>1, <3>2, BoardKept DEF AcceptDraw, Running
  <2>22. CASE AnswerInvalid(t)
    BY <2>22, BoardKept DEF AnswerInvalid, gameVars, threadVars, Running
  <2>23. CASE Overrun(t)
    BY <2>23, BoardKept DEF Overrun, gameVars, threadVars, Running
  <2> QED
    BY <1>2, <2>1, <2>2, <2>3, <2>4, <2>5, <2>6, <2>7, <2>8, <2>9, <2>10, <2>11,
       <2>12, <2>13, <2>14, <2>15, <2>16, <2>17, <2>18, <2>19, <2>20, <2>21, <2>22, <2>23
       DEF Client, Poll, Recv, Proc
<1> QED BY <1>1, <1>2 DEF Next

\* A game in progress is undecided, and a verdict is announced only with the
\* board to show for it, for every number of threads and games.
THEOREM VerdictsAreSound == Spec => [](RunningUndecided /\ VerdictSound)
<1>1. TypeOK /\ BoardInv /\ [Next]_vars => TypeOK' /\ BoardInv'
  BY TypeStep, BoardStep
<1>2. BoardInv => RunningUndecided /\ VerdictSound
  BY DEF BoardInv
<1> QED BY TypeInit, BoardInit, <1>1, <1>2, PTL DEF Spec

-----------------------------------------------------------------------------
(* What a step never does.                                                 *)

\* A finished game is neither reopened nor written on: the branches of proc_msg test
\* for states of a game in progress, and the retire test never succeeds.
LEMMA StaysOverStep == TypeOK /\ RetireUnreachable /\ [Next]_vars => StaysOver
<1> SUFFICES ASSUME TypeOK, RetireUnreachable, [Next]_vars PROVE StaysOver
  OBVIOUS
<1> USE DEF TypeOK, StaysOver, Over, OverStates
<1>1. CASE UNCHANGED vars
  BY <1>1 DEF vars, gameVars
<1>2. ASSUME NEW t \in Threads,
             \/ Connect(t) \/ Client(t) \/ ChooseGame(t) \/ OutOfBounds(t)
             \/ Poll(t) \/ Recv(t) \/ RecordLoss(t) \/ Proc(t)
      PROVE  StaysOver
  <2>1. CASE Connect(t)
    BY <2>1 DEF Connect, gameVars, threadVars
  <2>2. CASE ClientClose(t)
    BY <2>2 DEF ClientClose, gameVars, threadVars
  <2>3. CASE ClientReset(t)
    BY <2>3 DEF ClientReset, gameVars, threadVars
  <2>4. CASE ChooseGame(t)
    BY <2>4 DEF ChooseGame, gameVars, threadVars
  <2>5. CASE OutOfBounds(t)
    BY <2>5 DEF OutOfBounds, gameVars, threadVars
  <2>6. CASE TellMove(t)
    BY <2>6 DEF TellMove, Handled
  <2>7. CASE TellDraw(t)
    BY <2>7 DEF TellDraw, Handled
  <2>8. CASE TellBegin(t)
    BY <2>8 DEF TellBegin, Handled
  <2>9. CASE TellOver(t)
    BY <2>9 DEF TellOver, Handled
  <2>10. CASE PollQuietly(t)
    BY <2>10 DEF PollQuietly, Polling, RetireUnreachable
  <2>11. CASE RecvNothing(t)
    BY <2>11 DEF RecvNothing, gameVars, threadVars
  <2>12. CASE RecvMessage(t)
    BY <2>12 DEF RecvMessage, gameVars, threadVars
  <2>13. CASE RecvEof(t)
    BY <2>13 DEF RecvEof, gameVars, threadVars
  <2>14. CASE RecvError(t)
    BY <2>14 DEF RecvError, gameVars, threadVars
  <2>15. CASE RecordLoss(t)
    BY <2>15 DEF RecordLoss, SetGame, ResignState
  <2>16. CASE JoinFirst(t)
    BY <2>16 DEF JoinFirst, MayJoin, SetGame
  <2>17. CASE JoinSecond(t)
    BY <2>17 DEF JoinSecond, MayJoin, SetGame
  <2>18. CASE Move(t)
    <3>1. ~Over(currentGame[t])
      BY <2>18 DEF Move, MayMove, OnTurn, TurnStates
    <3>2. \A g \in AllSlots : g # currentGame[t] =>
            gameState'[g] = gameState[g] /\ board'[g] = board[g]
      BY <2>18 DEF Move, SetGame
    <3> QED BY <3>1, <3>2
  <2>19. CASE OfferDraw(t)
    <3>1. ~Over(currentGame[t])
      BY <2>19 DEF OfferDraw, MayOffer, OnTurn, TurnStates
    <3>2. \A g \in AllSlots : g # currentGame[t] =>
            gameState'[g] = gameState[g] /\ board'[g] = board[g]
      BY <2>19 DEF OfferDraw, SetGame
    <3> QED BY <3>1, <3>2
  <2>20. CASE RejectDraw(t)
    <3>1. ~Over(currentGame[t])
      BY <2>20 DEF RejectDraw, MayAnswer, ConfState
    <3>2. \A g \in AllSlots : g # currentGame[t] =>
            gameState'[g] = gameState[g] /\ board'[g] = board[g]
      BY <2>20 DEF RejectDraw, SetGame
    <3> QED BY <3>1, <3>2
  <2>21. CASE AcceptDraw(t)
    <3>1. ~Over(currentGame[t])
      BY <2>21 DEF AcceptDraw, MayAnswer, ConfState
    <3>2. \A g \in AllSlots : g # currentGame[t] =>
            gameState'[g] = gameState[g] /\ board'[g] = board[g]
      BY <2>21 DEF AcceptDraw, SetGame
    <3> QED BY <3>1, <3>2
  <2>22. CASE AnswerInvalid(t)
    BY <2>22 DEF AnswerInvalid, gameVars, threadVars
  <2>23. CASE Overrun(t)
    BY <2>23 DEF Overrun, gameVars, threadVars
  <2> QED
    BY <1>2, <2>1, <2>2, <2>3, <2>4, <2>5, <2>6, <2>7, <2>8, <2>9, <2>10, <2>11,
       <2>12, <2>13, <2>14, <2>15, <2>16, <2>17, <2>18, <2>19, <2>20, <2>21, <2>22, <2>23
       DEF Client, Poll, Recv, Proc
<1> QED BY <1>1, <1>2 DEF Next

\* A finished game stays finished, on the board it ended on.
THEOREM OverStaysOver == Spec => OverIsFinal
<1>1. TypeOK /\ RetireUnreachable /\ [Next]_vars => TypeOK' /\ RetireUnreachable'
  BY TypeStep, RetireStep
<1>2. TypeOK /\ RetireUnreachable /\ [Next]_vars => [StaysOver]_vars
  BY StaysOverStep
<1> QED BY TypeInit, RetireInit, <1>1, <1>2, PTL DEF Spec, OverIsFinal

\* Only an accepted MOVE writes on a board, and it writes one free cell.
LEMMA OneMarkStep == TypeOK /\ [Next]_vars => OneMarkOnTurn
<1> SUFFICES ASSUME TypeOK, [Next]_vars PROVE OneMarkOnTurn
  OBVIOUS
<1> USE DEF TypeOK, OneMarkOnTurn
<1>1. CASE UNCHANGED vars
  BY <1>1 DEF vars, gameVars
<1>2. ASSUME NEW t \in Threads,
             \/ Connect(t) \/ Client(t) \/ ChooseGame(t) \/ OutOfBounds(t)
             \/ Poll(t) \/ Recv(t) \/ RecordLoss(t) \/ Proc(t)
      PROVE  OneMarkOnTurn
  <2>1. CASE Connect(t)
    BY <2>1 DEF Connect, gameVars
  <2>2. CASE ClientClose(t)
    BY <2>2 DEF ClientClose, gameVars
  <2>3. CASE ClientReset(t)
    BY <2>3 DEF ClientReset, gameVars
  <2>4. CASE ChooseGame(t)
    BY <2>4 DEF ChooseGame, gameVars
  <2>5. CASE OutOfBounds(t)
    BY <2>5 DEF OutOfBounds, gameVars
  <2>6. CASE TellMove(t)
    BY <2>6 DEF TellMove, Handled
  <2>7. CASE TellDraw(t)
    BY <2>7 DEF TellDraw, Handled
  <2>8. CASE TellBegin(t)
    BY <2>8 DEF TellBegin, Handled
  <2>9. CASE TellOver(t)
    BY <2>9 DEF TellOver, Handled
  <2>10. CASE PollQuietly(t)
    BY <2>10 DEF PollQuietly
  <2>11. CASE RecvNothing(t)
    BY <2>11 DEF RecvNothing, gameVars
  <2>12. CASE RecvMessage(t)
    BY <2>12 DEF RecvMessage, gameVars
  <2>13. CASE RecvEof(t)
    BY <2>13 DEF RecvEof, gameVars
  <2>14. CASE RecvError(t)
    BY <2>14 DEF RecvError, gameVars
  <2>15. CASE RecordLoss(t)
    BY <2>15 DEF RecordLoss
  <2>16. CASE JoinFirst(t)
    BY <2>16 DEF JoinFirst
  <2>17. CASE JoinSecond(t)
    BY <2>17 DEF JoinSecond
  <2>18. CASE Move(t)
    <3>1. PICK m \in Messages :
            /\ MayMove(t, m)
            /\ board' = [board EXCEPT ![currentGame[t]][m.position] = MarkOf(player[t])]
      BY <2>18 DEF Move
    <3>2. /\ player[t] \in {1, 2} /\ m.position \in Cells /\ pc[t] = "proc"
          /\ gameState[currentGame[t]] \in TurnStates(player[t])
          /\ board[currentGame[t]][m.position] = Blank
      BY <2>18, <3>1 DEF MayMove, OnTurn, Move, Processing
    <3>3. Seated(t, currentGame[t], player[t])
      BY DEF Seated
    <3> QED BY <3>1, <3>2, <3>3
  <2>19. CASE OfferDraw(t)
    BY <2>19 DEF OfferDraw
  <2>20. CASE RejectDraw(t)
    BY <2>20 DEF RejectDraw
  <2>21. CASE AcceptDraw(t)
    BY <2>21 DEF AcceptDraw
  <2>22. CASE AnswerInvalid(t)
    BY <2>22 DEF AnswerInvalid, gameVars
  <2>23. CASE Overrun(t)
    BY <2>23 DEF Overrun, gameVars, threadVars
  <2> QED
    BY <1>2, <2>1, <2>2, <2>3, <2>4, <2>5, <2>6, <2>7, <2>8, <2>9, <2>10, <2>11,
       <2>12, <2>13, <2>14, <2>15, <2>16, <2>17, <2>18, <2>19, <2>20, <2>21, <2>22, <2>23
       DEF Client, Poll, Recv, Proc
<1> QED BY <1>1, <1>2 DEF Next

\* Marks are written one at a time, on free cells, by the player on turn.
THEOREM MarksArePermanent == Spec => MarksPermanent
<1>1. TypeOK /\ [Next]_vars => [OneMarkOnTurn]_vars
  BY OneMarkStep
<1> QED BY TypeInit, TypeStep, <1>1, PTL DEF Spec, MarksPermanent
=============================================================================
