------------------------- MODULE TTTServerPlayProofs ------------------------
(***************************************************************************)
(* Proofs about what the two players of a game do and are shown: whose     *)
(* turn it is, which board a client has seen, which result it was told.    *)
(***************************************************************************)
EXTENDS TTTServerProofs, FiniteSetTheorems

-----------------------------------------------------------------------------
(* Turns.                                                                  *)

CellsOf(b, mark) == {c \in Cells : b[c] = mark}

LEMMA MarksAreFinite ==
  ASSUME NEW b, NEW mark
  PROVE  IsFiniteSet(CellsOf(b, mark)) /\ Cardinality(CellsOf(b, mark)) \in Nat
<1>1. IsFiniteSet(1..3)
  <2>1. 1 \in Int /\ 3 \in Int
    OBVIOUS
  <2> QED BY <2>1, FS_Interval, Zenon
<1>2. IsFiniteSet(Cells)
  BY <1>1, FS_Product DEF Cells, Index
<1>3. CellsOf(b, mark) \subseteq Cells
  BY DEF CellsOf
<1> QED BY <1>2, <1>3, FS_Subset, FS_CardinalityType

\* A mark on a free cell is one more of its kind and changes no other number.
LEMMA WriteCounts ==
  ASSUME NEW b \in Boards, NEW c \in Cells, b[c] = Blank, NEW mark \in Marks,
         NEW other \in Marks, other # mark, NEW after, after = [b EXCEPT ![c] = mark]
  PROVE  /\ Cardinality(CellsOf(after, mark)) = Cardinality(CellsOf(b, mark)) + 1
         /\ Cardinality(CellsOf(after, other)) = Cardinality(CellsOf(b, other))
<1>1. mark # Blank /\ other # Blank
  BY DEF Marks, Blank
<1>2. \A d \in Cells : after[d] = IF d = c THEN mark ELSE b[d]
  BY DEF Boards
<1>3. CellsOf(after, mark) = CellsOf(b, mark) \cup {c} /\ c \notin CellsOf(b, mark)
  BY <1>1, <1>2 DEF CellsOf
<1>4. CellsOf(after, other) = CellsOf(b, other)
  BY <1>1, <1>2 DEF CellsOf
<1>5. Cardinality(CellsOf(b, mark) \cup {c}) = Cardinality(CellsOf(b, mark)) + 1
  BY <1>3, MarksAreFinite, FS_AddElement
<1> QED BY <1>3, <1>4, <1>5

\* The states in which player 2 has still to write a mark.
OOwes == {"WAITING_FOR_P2_MOVE", "WAITING_FOR_P1_DRAW_CONF"}

LEMMA TrailsMeans ==
  OTrailsX <=>
    \A g \in AllSlots :
      /\ Cardinality(CellsOf(board[g], "O")) <= Cardinality(CellsOf(board[g], "X"))
      /\ gameState[g] \in OOwes =>
           Cardinality(CellsOf(board[g], "O")) < Cardinality(CellsOf(board[g], "X"))
  BY DEF OTrailsX, OOwes, Count, CellsOf

LEMMA TrailsMeansNext ==
  OTrailsX' <=>
    \A g \in AllSlots :
      /\ Cardinality(CellsOf(board'[g], "O")) <= Cardinality(CellsOf(board'[g], "X"))
      /\ gameState'[g] \in OOwes =>
           Cardinality(CellsOf(board'[g], "O")) < Cardinality(CellsOf(board'[g], "X"))
  BY DEF OTrailsX, OOwes, Count, CellsOf

LEMMA TrailsInit == Init => OTrailsX
<1> SUFFICES ASSUME Init PROVE OTrailsX
  OBVIOUS
<1>1. \A g \in AllSlots : board[g] = EmptyBoard /\ gameState[g] \notin OOwes
  BY DEF Init, OOwes
<1>2. CellsOf(EmptyBoard, "X") = {} /\ CellsOf(EmptyBoard, "O") = {}
  BY DEF CellsOf, EmptyBoard, Blank
<1> QED BY <1>1, <1>2, FS_EmptySet, TrailsMeans

\* The steps that write no mark and do not give player 2 the turn.
LEMMA TrailsKept ==
  ASSUME OTrailsX, UNCHANGED board,
         \A g \in AllSlots : gameState'[g] \in OOwes => gameState[g] \in OOwes
  PROVE  OTrailsX'
  BY TrailsMeans, TrailsMeansNext

LEMMA TrailsStep == TypeOK /\ OTrailsX /\ [Next]_vars => OTrailsX'
<1> SUFFICES ASSUME TypeOK, OTrailsX, [Next]_vars PROVE OTrailsX'
  OBVIOUS
<1> USE DEF TypeOK
<1>1. CASE UNCHANGED vars
  BY <1>1, TrailsKept DEF vars, gameVars
<1>2. ASSUME NEW t \in Threads,
             \/ Connect(t) \/ Client(t) \/ ChooseGame(t) \/ OutOfBounds(t)
             \/ Poll(t) \/ Recv(t) \/ RecordLoss(t) \/ Proc(t)
      PROVE  OTrailsX'
  <2>1. CASE Connect(t)
    BY <2>1, TrailsKept DEF Connect, gameVars
  <2>2. CASE ClientClose(t)
    BY <2>2, TrailsKept DEF ClientClose, gameVars
  <2>3. CASE ClientReset(t)
    BY <2>3, TrailsKept DEF ClientReset, gameVars
  <2>4. CASE ChooseGame(t)
    BY <2>4, TrailsKept DEF ChooseGame, gameVars
  <2>5. CASE OutOfBounds(t)
    BY <2>5, TrailsKept DEF OutOfBounds, gameVars
  <2>6. CASE TellMove(t)
    BY <2>6, TrailsKept DEF TellMove, Handled
  <2>7. CASE TellDraw(t)
    BY <2>7, TrailsKept DEF TellDraw, Handled
  <2>8. CASE TellBegin(t)
    BY <2>8, TrailsKept DEF TellBegin, Handled
  <2>9. CASE TellOver(t)
    BY <2>9, TrailsKept DEF TellOver, Handled
  <2>10. CASE PollQuietly(t)
    BY <2>10, TrailsKept DEF PollQuietly, OOwes
  <2>11. CASE RecvNothing(t)
    BY <2>11, TrailsKept DEF RecvNothing, gameVars
  <2>12. CASE RecvMessage(t)
    BY <2>12, TrailsKept DEF RecvMessage, gameVars
  <2>13. CASE RecvEof(t)
    BY <2>13, TrailsKept DEF RecvEof, gameVars
  <2>14. CASE RecvError(t)
    BY <2>14, TrailsKept DEF RecvError, gameVars
  <2>15. CASE RecordLoss(t)
    BY <2>15, TrailsKept DEF RecordLoss, SetGame, ResignState, OOwes
  <2>16. CASE JoinFirst(t)
    BY <2>16, TrailsKept DEF JoinFirst, SetGame, OOwes
  <2>17. CASE JoinSecond(t)
    BY <2>17, TrailsKept DEF JoinSecond, SetGame, OOwes
  <2>18. CASE Move(t)
    <3> DEFINE g == currentGame[t]
               p == player[t]
    <3>1. PICK m \in Messages : /\ MayMove(t, m)
                                /\ board' = [board EXCEPT ![g][m.position] = MarkOf(p)]
      BY <2>18 DEF Move
    <3>2. /\ p \in {1, 2} /\ g \in AllSlots /\ m.position \in Cells
          /\ board[g] \in Boards /\ board[g][m.position] = Blank
          /\ gameState[g] \in TurnStates(p)
      BY <3>1 DEF MayMove, OnTurn
    <3>3. board' = [board EXCEPT ![g] = [board[g] EXCEPT ![m.position] = MarkOf(p)]]
      BY <3>1
    <3>4. /\ \A h \in AllSlots : h # g => board'[h] = board[h] /\ gameState'[h] = gameState[h]
          /\ board'[g] = [board[g] EXCEPT ![m.position] = MarkOf(p)]
          /\ gameState'[g] \in OOwes => p = 1
      <4>1. /\ \A h \in AllSlots : h # g => board'[h] = board[h]
            /\ board'[g] = [board[g] EXCEPT ![m.position] = MarkOf(p)]
        BY <3>2, <3>3
      <4>2. /\ \A h \in AllSlots : h # g => gameState'[h] = gameState[h]
            /\ \E over : gameState'[g] = AfterMove(over, p)
        BY <2>18, <3>2 DEF Move, SetGame
      <4>3. p = 2 => \A over : AfterMove(over, p) \notin OOwes
        BY DEF AfterMove, WinState, MoveState, Opponent, OOwes
      <4> QED BY <3>2, <4>1, <4>2, <4>3
    <3> DEFINE X == Cardinality(CellsOf(board[g], "X"))
               O == Cardinality(CellsOf(board[g], "O"))
               Xn == Cardinality(CellsOf(board'[g], "X"))
               On == Cardinality(CellsOf(board'[g], "O"))
    <3>5. X \in Nat /\ O \in Nat
      BY MarksAreFinite
    <3>6. CASE p = 1
      <4>1. Xn = X + 1 /\ On = O
        BY <3>2, <3>4, <3>6, WriteCounts DEF MarkOf, Marks
      <4>2. O <= X
        BY <3>2, TrailsMeans
      <4> QED BY <3>4, <3>5, <4>1, <4>2, TrailsMeans, TrailsMeansNext
    <3>7. CASE p = 2
      <4>1. Xn = X /\ On = O + 1
        BY <3>2, <3>4, <3>7, WriteCounts DEF MarkOf, Marks
      <4>2. O < X
        BY <3>2, <3>7, TrailsMeans DEF TurnStates, OOwes
      <4> QED BY <3>4, <3>5, <3>7, <4>1, <4>2, TrailsMeans, TrailsMeansNext
    <3> QED BY <3>2, <3>6, <3>7
  <2>19. CASE OfferDraw(t)
    <3>1. player[t] \in {1, 2} /\ gameState[currentGame[t]] \in TurnStates(player[t])
      BY <2>19 DEF OfferDraw, MayOffer, OnTurn
    <3> QED BY <2>19, <3>1, TrailsKept
            DEF OfferDraw, SetGame, ConfState, Opponent, TurnStates, OOwes
  <2>20. CASE RejectDraw(t)
    BY <2>20, TrailsKept DEF RejectDraw, SetGame, OOwes
  <2>21. CASE AcceptDraw(t)
    BY <2>21, TrailsKept DEF AcceptDraw, SetGame, OOwes
  <2>22. CASE AnswerInvalid(t)
    BY <2>22, TrailsKept DEF AnswerInvalid, gameVars
  <2>23. CASE Overrun(t)
    BY <2>23, TrailsKept DEF Overrun, gameVars, threadVars
  <2> QED
    BY <1>2, <2>1, <2>2, <2>3, <2>4, <2>5, <2>6, <2>7, <2>8, <2>9, <2>10, <2>11,
       <2>12, <2>13, <2>14, <2>15, <2>16, <2>17, <2>18, <2>19, <2>20, <2>21, <2>22, <2>23
       DEF Client, Poll, Recv, Proc
<1> QED BY <1>1, <1>2 DEF Next

\* Through moves, draw offers, answers and rejections in any order, player 2 never
\* has more marks than player 1, and fewer when it is to move.
THEOREM PlayerTwoTrails == Spec => []OTrailsX
<1>1. TypeOK /\ OTrailsX /\ [Next]_vars => TypeOK' /\ OTrailsX'
  BY TypeStep, TrailsStep
<1> QED BY TypeInit, TrailsInit, <1>1, PTL DEF Spec

-----------------------------------------------------------------------------
(* What the mover has seen.                                                *)

Moving == {"WAITING_FOR_P1_MOVE", "WAITING_FOR_P2_MOVE"}

\* What the next MOVD will show is the board, until the game is over.
SavedForTheMover ==
  \A g \in AllSlots :
    gameState[g] \notin OverStates \cup {"OVER_READY_FOR_NEW"} => lastBoard[g] = board[g]

MoverInv == SavedForTheMover /\ MoverSawBoard

LEMMA SeenInit == Init => MoverInv
  BY DEF Init, MoverInv, SavedForTheMover, MoverSawBoard

\* The steps that show and write no board, give nobody the move and handle no
\* alert of a mover.
LEMMA SeenKept ==
  ASSUME TypeOK, MoverInv, UNCHANGED <<board, lastBoard, view>>,
         \A g \in AllSlots : gameState'[g] \in Moving =>
           gameState'[g] = gameState[g] /\ playerUnhandled'[g] = playerUnhandled[g],
         \A g \in AllSlots :
           \/ gameState'[g] = gameState[g]
           \/ gameState'[g] \in OverStates \cup {"OVER_READY_FOR_NEW"}
           \/ gameState[g] \notin OverStates \cup {"OVER_READY_FOR_NEW"},
         \A t \in Threads :
           player'[t] # 0 /\ gameState'[currentGame'[t]] \in Moving =>
             player'[t] = player[t] /\ currentGame'[t] = currentGame[t]
  PROVE  MoverInv'
<1>1. SavedForTheMover'
  BY DEF MoverInv, SavedForTheMover
<1>2. ASSUME NEW t \in Threads, NEW p \in {1, 2},
             player'[t] = p, gameState'[currentGame'[t]] = MoveState(p),
             playerUnhandled'[currentGame'[t]] # p
      PROVE  view'[t] = board'[currentGame'[t]]
  <2>1. player[t] = p /\ currentGame'[t] = currentGame[t] /\ currentGame[t] \in AllSlots
    BY <1>2 DEF Moving, MoveState, TypeOK
  <2>2. gameState[currentGame[t]] = MoveState(p) /\ playerUnhandled[currentGame[t]] # p
    BY <1>2, <2>1 DEF Moving, MoveState
  <2> QED BY <2>1, <2>2 DEF MoverInv, MoverSawBoard
<1>3. MoverSawBoard'
  BY <1>2 DEF MoverSawBoard
<1> QED BY <1>1, <1>3 DEF MoverInv

LEMMA SeenStep == TypeOK /\ SeatInv /\ MoverInv /\ [Next]_vars => MoverInv'
<1> SUFFICES ASSUME TypeOK, SeatInv, MoverInv, [Next]_vars PROVE MoverInv'
  OBVIOUS
<1> USE DEF TypeOK
<1>1. CASE UNCHANGED vars
  BY <1>1, SeenKept DEF vars, gameVars, threadVars, clientVars
<1>2. ASSUME NEW t \in Threads,
             \/ Connect(t) \/ Client(t) \/ ChooseGame(t) \/ OutOfBounds(t)
             \/ Poll(t) \/ Recv(t) \/ RecordLoss(t) \/ Proc(t)
      PROVE  MoverInv'
  <2>1. CASE Connect(t)
    BY <2>1, SeenKept DEF Connect, gameVars, threadVars, clientVars
  <2>2. CASE ClientClose(t)
    BY <2>2, SeenKept DEF ClientClose, gameVars, threadVars, clientVars
  <2>3. CASE ClientReset(t)
    BY <2>3, SeenKept DEF ClientReset, gameVars, threadVars, clientVars
  <2>4. CASE ChooseGame(t)
    <3>1. player[t] = 0
      BY <2>4 DEF ChooseGame, SeatInv
    <3>2. \A s \in Threads : s # t => currentGame'[s] = currentGame[s]
      BY <2>4 DEF ChooseGame
    <3> QED BY <2>4, <3>1, <3>2, SeenKept DEF ChooseGame, gameVars, clientVars
  <2>5. CASE OutOfBounds(t)
    BY <2>5, SeenKept DEF OutOfBounds, gameVars, threadVars, clientVars
  <2>6. CASE TellMove(t)
    <3> DEFINE g == currentGame[t]
               p == player[t]
    <3>1. p \in {1, 2} /\ g \in AllSlots /\ gameState[g] = MoveState(p)
      BY <2>6 DEF TellMove, TellsMove
    <3>2. /\ UNCHANGED <<gameState, board, lastBoard, player, currentGame>>
          /\ view' = [view EXCEPT ![t] = lastBoard[g]]
          /\ playerUnhandled' = [playerUnhandled EXCEPT ![g] = 0]
      BY <2>6 DEF TellMove, Handled
    <3>3. lastBoard[g] = board[g]
      BY <3>1 DEF MoverInv, SavedForTheMover, MoveState, OverStates
    <3>4. ASSUME NEW s \in Threads, NEW q \in {1, 2},
                 player[s] = q, gameState[currentGame[s]] = MoveState(q),
                 playerUnhandled'[currentGame[s]] # q
          PROVE  view'[s] = board[currentGame[s]]
      <4>1. CASE s = t
        BY <3>2, <3>3, <4>1
      <4>2. CASE s # t
        <5>1. currentGame[s] # g
          <6>1. currentGame[s] = g => q = p
            BY <3>1, <3>4 DEF MoveState
          <6> QED BY <3>1, <3>4, <4>2, <6>1 DEF SeatInv, SeatsUnique
        <5> QED BY <3>2, <3>4, <4>2, <5>1 DEF MoverInv, MoverSawBoard
      <4> QED BY <4>1, <4>2
    <3>5. MoverSawBoard'
      BY <3>2, <3>4 DEF MoverSawBoard
    <3> QED BY <3>2, <3>5 DEF MoverInv, SavedForTheMover
  <2>7. CASE TellDraw(t)
    BY <2>7, SeenKept DEF TellDraw, Handled, TellsOffer, TellsRejection, TellsBegin, ConfState, Moving, clientVars
  <2>8. CASE TellBegin(t)
    BY <2>8, SeenKept DEF TellBegin, Handled, TellsOffer, TellsRejection, TellsBegin, ConfState, Moving, clientVars
  <2>9. CASE TellOver(t)
    BY <2>9, SeenKept DEF TellOver, Handled, TellsOver, OverStates, Moving
  <2>10. CASE PollQuietly(t)
    BY <2>10, SeenKept DEF PollQuietly, Moving, clientVars
  <2>11. CASE RecvNothing(t)
    BY <2>11, SeenKept DEF RecvNothing, gameVars, threadVars, clientVars
  <2>12. CASE RecvMessage(t)
    BY <2>12, SeenKept DEF RecvMessage, gameVars, threadVars, clientVars
  <2>13. CASE RecvEof(t)
    BY <2>13, SeenKept DEF RecvEof, gameVars, threadVars, clientVars
  <2>14. CASE RecvError(t)
    BY <2>14, SeenKept DEF RecvError, gameVars, threadVars, clientVars
  <2>15. CASE RecordLoss(t)
    BY <2>15, SeenKept DEF RecordLoss, SetGame, ResignState, OverStates, Moving, clientVars
  <2>16. CASE JoinFirst(t)
    BY <2>16, SeenKept DEF JoinFirst, MayJoin, SetGame, OverStates, Moving, clientVars
  <2>17. CASE JoinSecond(t)
    BY <2>17, SeenKept DEF JoinSecond, MayJoin, SetGame, OverStates, Moving, clientVars
  <2>18. CASE Move(t)
    <3> DEFINE g == currentGame[t]
               p == player[t]
               over == IsGameOver(board'[g])
    <3>1. PICK m \in Messages : /\ MayMove(t, m)
                                /\ board' = [board EXCEPT ![g][m.position] = MarkOf(p)]
      BY <2>18 DEF Move
    <3>2. /\ p \in {1, 2} /\ g \in AllSlots
          /\ gameState[g] \in TurnStates(p)
      BY <3>1 DEF MayMove, OnTurn
    <3>3. /\ \A h \in AllSlots : h # g => board'[h] = board[h]
          /\ UNCHANGED <<player, currentGame>>
          /\ gameState' = [gameState EXCEPT ![g] = AfterMove(over, p)]
          /\ playerUnhandled' = [playerUnhandled EXCEPT ![g] = Opponent(p)]
      BY <2>18, <3>1 DEF Move, SetGame
    <3>4. /\ over \notin {p, 0} => lastBoard' = [lastBoard EXCEPT ![g] = board'[g]]
          /\ over \in {p, 0} => lastBoard' = lastBoard
          /\ \A s \in Threads : s # t => view'[s] = view[s]
      BY <2>18 DEF Move, BoardSaved
    <3>5. /\ over \in {p, 0} => AfterMove(over, p) \in OverStates
          /\ AfterMove(over, p) \in OverStates \/ AfterMove(over, p) = MoveState(Opponent(p))
      BY <3>2 DEF AfterMove, WinState, OverStates
    <3>6. SavedForTheMover'
      BY <3>2, <3>3, <3>4, <3>5 DEF MoverInv, SavedForTheMover, TurnStates, OverStates
    <3>7. ASSUME NEW s \in Threads, NEW q \in {1, 2},
                 player'[s] = q, gameState'[currentGame'[s]] = MoveState(q),
                 playerUnhandled'[currentGame'[s]] # q
          PROVE  view'[s] = board'[currentGame'[s]]
      <4>1. currentGame[s] # g
        <5>1. currentGame[s] = g => q = Opponent(p)
          BY <3>2, <3>3, <3>5, <3>7 DEF MoveState, Opponent, OverStates
        <5> QED BY <3>2, <3>3, <3>7, <5>1
      <4>2. s # t /\ currentGame[s] \in AllSlots
        BY <4>1
      <4> QED BY <3>3, <3>4, <3>7, <4>1, <4>2 DEF MoverInv, MoverSawBoard
    <3>8. MoverSawBoard'
      BY <3>7 DEF MoverSawBoard
    <3> QED BY <3>6, <3>8 DEF MoverInv
  <2>19. CASE OfferDraw(t)
    <3>1. player[t] \in {1, 2} /\ gameState[currentGame[t]] \in TurnStates(player[t])
      BY <2>19 DEF OfferDraw, MayOffer, OnTurn
    <3> QED BY <2>19, <3>1, SeenKept
            DEF OfferDraw, SetGame, ConfState, Opponent, TurnStates, Moving, OverStates, clientVars
  <2>20. CASE RejectDraw(t)
    BY <2>20, SeenKept DEF RejectDraw, MayAnswer, ConfState, SetGame, OverStates, Moving, clientVars
  <2>21. CASE AcceptDraw(t)
    BY <2>21, SeenKept DEF AcceptDraw, MayAnswer, ConfState, SetGame, Tell, OverStates, Moving
  <2>22. CASE AnswerInvalid(t)
    BY <2>22, SeenKept DEF AnswerInvalid, gameVars, threadVars, clientVars
  <2>23. CASE Overrun(t)
    BY <2>23, SeenKept DEF Overrun, gameVars, threadVars, clientVars
  <2> QED
    BY <1>2, <2>1, <2>2, <2>3, <2>4, <2>5, <2>6, <2>7, <2>8, <2>9, <2>10, <2>11,
       <2>12, <2>13, <2>14, <2>15, <2>16, <2>17, <2>18, <2>19, <2>20, <2>21, <2>22, <2>23
       DEF Client, Poll, Recv, Proc
<1> QED BY <1>1, <1>2 DEF Next

\* A player that is to move and has no alert waiting has been shown the board as
\* it is, whichever thread wrote the last mark and whatever became of the alerts.
THEOREM MoverKnowsTheBoard == Spec => []MoverSawBoard
<1>1. /\ TypeOK /\ SeatInv /\ MoverInv /\ [Next]_vars => TypeOK' /\ SeatInv' /\ MoverInv'
      /\ MoverInv => MoverSawBoard
  BY TypeStep, SeatStep, SeenStep DEF MoverInv
<1> QED BY TypeInit, SeatInit, SeenInit, <1>1, PTL DEF Spec

-----------------------------------------------------------------------------
(* What the clients are told, while nobody leaves.                         *)

NobodyLeft ==
  /\ \A t \in Threads : peer[t] = "open" /\ pc[t] # "lost"
  /\ \A g \in AllSlots : gameState[g] \notin {"GAME_OVER_P1_RESIGN", "GAME_OVER_P2_RESIGN"}

\* After a win only the loser is still to be told.
LoserIsOwed ==
  \A g \in AllSlots, p \in {1, 2} : gameState[g] = WinState(p) => playerUnhandled[g] # p

\* Nobody has been told a result of a game that goes on.
NothingYet ==
  \A t \in Threads :
    /\ player[t] # 0 /\ gameState[currentGame[t]] \notin OverStates => told[t] = {}
    /\ player[t] = 0 /\ pc[t] # "exit" => told[t] = {}

ToldInv == NobodyLeft /\ LoserIsOwed /\ NothingYet /\ VerdictsAgree

LEMMA NothingDue ==
  ASSUME NEW state, state \notin OverStates
  PROVE  /\ \A p \in {1, 2} : state # WinState(p)
         /\ \A alerted : ResultsTold(state, alerted, {}, {})
  BY DEF ResultsTold, WinState, OverStates

LEMMA ToldInit == Init => ToldInv
<1> SUFFICES ASSUME Init PROVE ToldInv
  OBVIOUS
<1>1. \A g \in AllSlots : gameState[g] \notin OverStates
  BY DEF Init, OverStates
<1>2. \A t \in Threads : told[t] = {}
  BY DEF Init
<1>3. NobodyLeft /\ LoserIsOwed /\ NothingYet
  BY <1>1, <1>2, NothingDue DEF Init, NobodyLeft, LoserIsOwed, NothingYet, OverStates
<1>4. VerdictsAgree
  BY <1>1, <1>2, NothingDue DEF VerdictsAgree
<1> QED BY <1>3, <1>4 DEF ToldInv

\* The steps that tell no outcome and end no game.
LEMMA ToldKept ==
  ASSUME TypeOK, ToldInv, UNCHANGED <<told, peer>>, NEW t \in Threads,
         pc[t] # "exit", pc'[t] # "lost", \A s \in Threads : s # t => pc'[s] = pc[s],
         \A s \in Threads :
           \/ player'[s] = player[s] /\ (player[s] = 0 \/ currentGame'[s] = currentGame[s])
           \/ /\ s = t /\ player[s] = 0
              /\ gameState'[currentGame'[s]] \notin OverStates,
         \A g \in AllSlots :
           \/ gameState'[g] = gameState[g] /\ playerUnhandled'[g] = playerUnhandled[g]
           \/ gameState[g] \notin OverStates /\ gameState'[g] \notin OverStates
  PROVE  ToldInv'
<1>1. NobodyLeft'
  BY DEF ToldInv, NobodyLeft, OverStates
<1>2. LoserIsOwed'
  BY NothingDue DEF ToldInv, LoserIsOwed
<1>3. ASSUME NEW s \in Threads
      PROVE  /\ player'[s] # 0 /\ gameState'[currentGame'[s]] \notin OverStates => told[s] = {}
             /\ player'[s] = 0 /\ pc'[s] # "exit" => told[s] = {}
  <2>1. CASE player'[s] = player[s] /\ player[s] # 0 /\ currentGame'[s] = currentGame[s]
    BY <2>1 DEF TypeOK, ToldInv, NothingYet
  <2>2. CASE player[s] = 0
    <3>1. pc[s] # "exit" => told[s] = {}
      BY <2>2 DEF ToldInv, NothingYet
    <3> QED BY <2>2, <3>1
  <2> QED BY <2>1, <2>2
<1>4. ASSUME NEW s \in Threads, NEW r \in Threads, NEW g \in AllSlots,
             currentGame'[s] = g, player'[s] = 1, currentGame'[r] = g, player'[r] = 2
      PROVE  ResultsTold(gameState'[g], playerUnhandled'[g], told[s], told[r])
  <2>1. CASE gameState'[g] \notin OverStates
    <3>1. told[s] = {} /\ told[r] = {}
      BY <1>3, <1>4, <2>1
    <3> QED BY <2>1, <3>1, NothingDue
  <2>2. CASE gameState'[g] \in OverStates
    <3>1. gameState'[g] = gameState[g] /\ playerUnhandled'[g] = playerUnhandled[g]
      BY <2>2
    <3>2. /\ player[s] = 1 /\ currentGame[s] = g
          /\ player[r] = 2 /\ currentGame[r] = g
      BY <1>4, <2>2
    <3> QED BY <3>1, <3>2 DEF ToldInv, VerdictsAgree, Seated
  <2> QED BY <2>1, <2>2
<1>5. NothingYet'
  BY <1>3 DEF NothingYet
<1>6. VerdictsAgree'
  BY <1>4 DEF VerdictsAgree, Seated
<1> QED BY <1>1, <1>2, <1>5, <1>6 DEF ToldInv

\* Player p ends its game in `state', is told `outcome', and the other is alerted.
EndsWith(state, outcome, p) ==
  /\ state \in OverStates
  /\ state \notin {WinState(Opponent(p)), "GAME_OVER_P1_RESIGN", "GAME_OVER_P2_RESIGN"}
  /\ p = 1 => ResultsTold(state, 2, {outcome}, {})
  /\ p = 2 => ResultsTold(state, 1, {}, {outcome})

\* A player ends its game and is told so at once.
LEMMA ToldVerdict ==
  ASSUME TypeOK, SeatsUnique, ToldInv, NEW t \in Threads, player[t] \in {1, 2}, pc[t] # "exit",
         gameState[currentGame[t]] \notin OverStates, NEW state, NEW outcome,
         EndsWith(state, outcome, player[t]),
         UNCHANGED <<player, currentGame, peer>>, pc' = [pc EXCEPT ![t] = "poll"],
         gameState' = [gameState EXCEPT ![currentGame[t]] = state],
         playerUnhandled' = [playerUnhandled EXCEPT ![currentGame[t]] = Opponent(player[t])],
         told' = [told EXCEPT ![t] = told[t] \cup {outcome}]
  PROVE  ToldInv'
<1> USE DEF TypeOK
<1> DEFINE g == currentGame[t]
           p == player[t]
<1>1. NobodyLeft'
  BY DEF ToldInv, NobodyLeft, EndsWith
<1>2. LoserIsOwed'
  <2>1. ASSUME NEW h \in AllSlots, NEW q \in {1, 2}, gameState'[h] = WinState(q)
        PROVE  playerUnhandled'[h] # q
    <3>1. CASE h = g
      <4>1. WinState(q) # WinState(Opponent(p))
        BY <2>1, <3>1 DEF EndsWith
      <4>2. q # Opponent(p)
        BY <4>1
      <4> QED BY <3>1, <4>2
    <3>2. CASE h # g
      BY <2>1, <3>2 DEF ToldInv, LoserIsOwed
    <3> QED BY <3>1, <3>2
  <2> QED BY <2>1 DEF LoserIsOwed
<1>3. /\ \A s \in Threads : player[s] # 0 /\ currentGame[s] = g => told[s] = {}
      /\ told'[t] = {outcome} /\ \A s \in Threads : s # t => told'[s] = told[s]
  BY DEF ToldInv, NothingYet
<1>4. NothingYet'
  <2>1. ASSUME NEW s \in Threads
        PROVE  /\ player[s] # 0 /\ gameState'[currentGame[s]] \notin OverStates => told'[s] = {}
               /\ player[s] = 0 /\ pc'[s] # "exit" => told'[s] = {}
    <3>1. CASE currentGame[s] = g /\ player[s] # 0
      BY <3>1 DEF EndsWith
    <3>2. CASE currentGame[s] # g \/ player[s] = 0
      <4>1. s # t
        BY <3>2
      <4>2. told'[s] = told[s] /\ pc'[s] = pc[s]
        BY <1>3, <4>1
      <4> QED BY <3>2, <4>2 DEF ToldInv, NothingYet
    <3> QED BY <3>1, <3>2
  <2> QED BY <2>1 DEF NothingYet
<1>5. VerdictsAgree'
  <2>1. ASSUME NEW s \in Threads, NEW r \in Threads, NEW h \in AllSlots,
               currentGame[s] = h, player[s] = 1, currentGame[r] = h, player[r] = 2
        PROVE  ResultsTold(gameState'[h], playerUnhandled'[h], told'[s], told'[r])
    <3>1. CASE h # g
      <4>1. s # t /\ r # t
        BY <2>1, <3>1
      <4>2. ResultsTold(gameState[h], playerUnhandled[h], told[s], told[r])
        BY <2>1 DEF ToldInv, VerdictsAgree, Seated
      <4>3. /\ gameState'[h] = gameState[h] /\ playerUnhandled'[h] = playerUnhandled[h]
            /\ told'[s] = told[s] /\ told'[r] = told[r]
        BY <1>3, <3>1, <4>1
      <4> QED BY <4>2, <4>3
    <3>2. CASE h = g /\ p = 1
      <4>1. s = t /\ r # t
        BY <2>1, <3>2 DEF SeatsUnique
      <4>2. told'[s] = {outcome} /\ told'[r] = {}
        BY <1>3, <2>1, <3>2, <4>1
      <4>3. gameState'[h] = state /\ playerUnhandled'[h] = 2
        BY <3>2 DEF Opponent
      <4> QED BY <3>2, <4>2, <4>3 DEF EndsWith
    <3>3. CASE h = g /\ p = 2
      <4>1. r = t /\ s # t
        BY <2>1, <3>3 DEF SeatsUnique
      <4>2. told'[r] = {outcome} /\ told'[s] = {}
        BY <1>3, <2>1, <3>3, <4>1
      <4>3. gameState'[h] = state /\ playerUnhandled'[h] = 1
        BY <3>3 DEF Opponent
      <4> QED BY <3>3, <4>2, <4>3 DEF EndsWith
    <3> QED BY <3>1, <3>2, <3>3
  <2> QED BY <2>1 DEF VerdictsAgree, Seated
<1> QED BY <1>1, <1>2, <1>4, <1>5 DEF ToldInv

\* A state in which player p is alerted that the game is over, while nobody leaves.
TellsLast(state, p) ==
  state \in OverStates \ {WinState(p), "GAME_OVER_P1_RESIGN", "GAME_OVER_P2_RESIGN"}

\* The OVER message gives the player that is alerted the result the other one has;
\* the DRAW message of a full grid gives it none.
LEMMA AlertCompletes ==
  ASSUME NEW state, NEW x, NEW o
  PROVE  /\ TellsLast(state, 1) /\ ResultsTold(state, 1, x, o)
              => ResultsTold(state, 0, x \cup OutcomeFor(state), o)
         /\ TellsLast(state, 2) /\ ResultsTold(state, 2, x, o)
              => ResultsTold(state, 0, x, o \cup OutcomeFor(state))
<1>1. ASSUME TellsLast(state, 1), ResultsTold(state, 1, x, o)
      PROVE  ResultsTold(state, 0, x \cup OutcomeFor(state), o)
  <2>1. CASE state = "GAME_OVER_P2_WIN"
    BY <1>1, <2>1 DEF ResultsTold, OutcomeFor, WinState
  <2>2. CASE state = "GAME_OVER_DRAW_AGG"
    BY <1>1, <2>2 DEF ResultsTold, OutcomeFor, WinState
  <2>3. CASE state = "GAME_OVER_DRAW"
    <3>1. x \cup OutcomeFor(state) = x
      BY <2>3 DEF OutcomeFor
    <3> QED BY <1>1, <2>3, <3>1 DEF ResultsTold, WinState
  <2> QED BY <1>1, <2>1, <2>2, <2>3 DEF TellsLast, OverStates, WinState
<1>2. ASSUME TellsLast(state, 2), ResultsTold(state, 2, x, o)
      PROVE  ResultsTold(state, 0, x, o \cup OutcomeFor(state))
  <2>1. CASE state = "GAME_OVER_P1_WIN"
    BY <1>2, <2>1 DEF ResultsTold, OutcomeFor, WinState
  <2>2. CASE state = "GAME_OVER_DRAW_AGG"
    BY <1>2, <2>2 DEF ResultsTold, OutcomeFor, WinState
  <2>3. CASE state = "GAME_OVER_DRAW"
    <3>1. o \cup OutcomeFor(state) = o
      BY <2>3 DEF OutcomeFor
    <3> QED BY <1>2, <2>3, <3>1 DEF ResultsTold, WinState
  <2> QED BY <1>2, <2>1, <2>2, <2>3 DEF TellsLast, OverStates, WinState
<1> QED BY <1>1, <1>2

LEMMA ToldStep ==
  Leavers = {} /\ TypeOK /\ RetireUnreachable /\ SeatInv /\ ToldInv /\ [Next]_vars => ToldInv'
<1> SUFFICES ASSUME Leavers = {}, TypeOK, RetireUnreachable, SeatInv, ToldInv, [Next]_vars
             PROVE  ToldInv'
  OBVIOUS
<1> USE DEF TypeOK, ToldInv
<1>1. CASE UNCHANGED vars
  BY <1>1 DEF vars, gameVars, threadVars, clientVars, NobodyLeft, LoserIsOwed,
            NothingYet, VerdictsAgree, Seated
<1>2. ASSUME NEW t \in Threads,
             \/ Connect(t) \/ Client(t) \/ ChooseGame(t) \/ OutOfBounds(t)
             \/ Poll(t) \/ Recv(t) \/ RecordLoss(t) \/ Proc(t)
      PROVE  ToldInv'
  <2>1. CASE Connect(t)
    BY <2>1, ToldKept DEF Connect, GoTo, gameVars, clientVars
  <2>2. CASE ClientClose(t)
    BY <2>2 DEF ClientClose
  <2>3. CASE ClientReset(t)
    BY <2>3 DEF ClientReset
  <2>4. CASE ChooseGame(t)
    <3>1. player[t] = 0
      BY <2>4 DEF ChooseGame, SeatInv
    <3>2. \A s \in Threads : s # t => currentGame'[s] = currentGame[s]
      BY <2>4 DEF ChooseGame
    <3> QED BY <2>4, <3>1, <3>2, ToldKept DEF ChooseGame, GoTo, gameVars, clientVars
  <2>5. CASE OutOfBounds(t)
    BY <2>5, ToldKept DEF OutOfBounds, NobodyLeft, gameVars, threadVars, clientVars
  <2>6. CASE TellMove(t)
    <3>1. gameState[currentGame[t]] \notin OverStates
      BY <2>6 DEF TellMove, TellsMove, MoveState, OverStates
    <3> QED BY <2>6, <3>1, ToldKept DEF TellMove, Handled, Polling, GoTo, clientVars
  <2>7. CASE TellDraw(t)
    <3>1. gameState[currentGame[t]] \notin OverStates
      BY <2>7 DEF TellDraw, TellsOffer, TellsRejection, ConfState, OverStates
    <3> QED BY <2>7, <3>1, ToldKept DEF TellDraw, Handled, Polling, GoTo, clientVars
  <2>8. CASE TellBegin(t)
    <3>1. gameState[currentGame[t]] \notin OverStates
      BY <2>8 DEF TellBegin, TellsBegin, OverStates
    <3> QED BY <2>8, <3>1, ToldKept DEF TellBegin, Handled, Polling, GoTo, clientVars
  <2>9. CASE TellOver(t)
    <3> DEFINE g == currentGame[t]
               p == player[t]
               state == gameState[g]
    <3>1. /\ UNCHANGED <<gameState, player, currentGame, peer>>
          /\ pc' = [pc EXCEPT ![t] = "exit"]
          /\ playerUnhandled' = [playerUnhandled EXCEPT ![g] = 0]
          /\ told' = [told EXCEPT ![t] = told[t] \cup OutcomeFor(state)]
      BY <2>9 DEF TellOver, Handled, GoTo
    <3>2. /\ g \in AllSlots /\ playerUnhandled[g] = p /\ state \in OverStates
          /\ state \notin {"GAME_OVER_P1_RESIGN", "GAME_OVER_P2_RESIGN"}
      BY <2>9 DEF TellOver, TellsOver, Alerted, NobodyLeft
    <3>3. p \in {1, 2}
      BY <2>9, <3>2 DEF TellOver, Polling, RetireUnreachable, Over
    <3>4. TellsLast(state, p)
      BY <3>2, <3>3 DEF LoserIsOwed, TellsLast
    <3>5. NobodyLeft' /\ LoserIsOwed'
      BY <3>1 DEF NobodyLeft, LoserIsOwed
    <3>6. NothingYet'
      BY <3>1, <3>2, <3>3 DEF NothingYet
    <3>7. ASSUME NEW s \in Threads, NEW r \in Threads, NEW h \in AllSlots,
                 currentGame[s] = h, player[s] = 1, currentGame[r] = h, player[r] = 2
          PROVE  ResultsTold(gameState[h], playerUnhandled'[h], told'[s], told'[r])
      <4>1. ResultsTold(gameState[h], playerUnhandled[h], told[s], told[r])
        BY <3>7 DEF VerdictsAgree, Seated
      <4>2. CASE h # g
        <5>1. playerUnhandled'[h] = playerUnhandled[h] /\ told'[s] = told[s] /\ told'[r] = told[r]
          BY <3>1, <3>7, <4>2
        <5> QED BY <4>1, <5>1
      <4>3. CASE h = g /\ p = 1
        <5>1. s = t /\ r # t
          BY <3>7, <4>3 DEF SeatInv, SeatsUnique
        <5>2. told'[s] = told[s] \cup OutcomeFor(state) /\ told'[r] = told[r]
          BY <3>1, <5>1
        <5>3. playerUnhandled'[h] = 0 /\ playerUnhandled[h] = 1
          BY <3>1, <3>2, <4>3
        <5>4. TellsLast(state, 1) /\ ResultsTold(state, 1, told[s], told[r])
          BY <3>4, <4>1, <4>3, <5>3
        <5>5. ResultsTold(state, 0, told[s] \cup OutcomeFor(state), told[r])
          BY <5>4, AlertCompletes, Zenon
        <5> QED BY <4>3, <5>2, <5>3, <5>5
      <4>4. CASE h = g /\ p = 2
        <5>1. r = t /\ s # t
          BY <3>7, <4>4 DEF SeatInv, SeatsUnique
        <5>2. told'[r] = told[r] \cup OutcomeFor(state) /\ told'[s] = told[s]
          BY <3>1, <5>1
        <5>3. playerUnhandled'[h] = 0 /\ playerUnhandled[h] = 2
          BY <3>1, <3>2, <4>4
        <5>4. TellsLast(state, 2) /\ ResultsTold(state, 2, told[s], told[r])
          BY <3>4, <4>1, <4>4, <5>3
        <5>5. ResultsTold(state, 0, told[s], told[r] \cup OutcomeFor(state))
          BY <5>4, AlertCompletes, Zenon
        <5> QED BY <4>4, <5>2, <5>3, <5>5
      <4> QED BY <3>3, <4>2, <4>3, <4>4
    <3>8. VerdictsAgree'
      BY <3>1, <3>7 DEF VerdictsAgree, Seated
    <3> QED BY <3>5, <3>6, <3>8 DEF ToldInv
  <2>10. CASE PollQuietly(t)
    <3>1. ~(gameState[currentGame[t]] \in OverStates /\ playerUnhandled[currentGame[t]] = 0)
      BY <2>10 DEF PollQuietly, Polling, RetireUnreachable, Over
    <3> QED BY <2>10, <3>1, ToldKept DEF PollQuietly, Polling, GoTo, clientVars
  <2>11. CASE RecvNothing(t)
    BY <2>11, ToldKept DEF RecvNothing, GoTo, gameVars, clientVars
  <2>12. CASE RecvMessage(t)
    BY <2>12, ToldKept DEF RecvMessage, GoTo, gameVars, clientVars
  <2>13. CASE RecvEof(t)
    BY <2>13 DEF RecvEof, NobodyLeft
  <2>14. CASE RecvError(t)
    BY <2>14 DEF RecvError, NobodyLeft
  <2>15. CASE RecordLoss(t)
    BY <2>15 DEF RecordLoss, NobodyLeft
  <2>16. CASE JoinFirst(t)
    <3> DEFINE g == currentGame[t]
    <3>1. /\ player[t] = 0 /\ g \in AllSlots /\ gameState[g] = "WAITING_P1"
          /\ gameState' = [gameState EXCEPT ![g] = "WAITING_P2"]
      BY <2>16 DEF JoinFirst, MayJoin, SetGame
    <3>2. gameState[g] \notin OverStates /\ gameState'[g] \notin OverStates
      BY <3>1 DEF OverStates
    <3>3. \A h \in AllSlots : h # g => /\ gameState'[h] = gameState[h]
                                      /\ playerUnhandled'[h] = playerUnhandled[h]
      BY <2>16 DEF JoinFirst, SetGame
    <3>4. /\ UNCHANGED <<told, peer, currentGame>> /\ pc[t] # "exit" /\ pc'[t] # "lost"
          /\ \A s \in Threads : s # t => pc'[s] = pc[s] /\ player'[s] = player[s]
      BY <2>16 DEF JoinFirst, Processing, GoTo, clientVars
    <3> QED BY <3>1, <3>2, <3>3, <3>4, ToldKept
  <2>17. CASE JoinSecond(t)
    <3> DEFINE g == currentGame[t]
    <3>1. /\ player[t] = 0 /\ g \in AllSlots /\ gameState[g] = "WAITING_P2"
          /\ gameState' = [gameState EXCEPT ![g] = "BEGN"]
      BY <2>17 DEF JoinSecond, MayJoin, SetGame
    <3>2. gameState[g] \notin OverStates /\ gameState'[g] \notin OverStates
      BY <3>1 DEF OverStates
    <3>3. \A h \in AllSlots : h # g => /\ gameState'[h] = gameState[h]
                                      /\ playerUnhandled'[h] = playerUnhandled[h]
      BY <2>17 DEF JoinSecond, SetGame
    <3>4. /\ UNCHANGED <<told, peer, currentGame>> /\ pc[t] # "exit" /\ pc'[t] # "lost"
          /\ \A s \in Threads : s # t => pc'[s] = pc[s] /\ player'[s] = player[s]
      BY <2>17 DEF JoinSecond, Processing, GoTo, clientVars
    <3> QED BY <3>1, <3>2, <3>3, <3>4, ToldKept
  <2>18. CASE Move(t)
    <3> DEFINE g == currentGame[t]
               p == player[t]
               over == IsGameOver(board'[g])
    <3>1. p \in {1, 2} /\ g \in AllSlots /\ gameState[g] \in TurnStates(p) /\ pc[t] = "proc"
      BY <2>18 DEF Move, MayMove, OnTurn, Processing
    <3>2. /\ UNCHANGED <<player, currentGame, peer>> /\ pc' = [pc EXCEPT ![t] = "poll"]
          /\ gameState' = [gameState EXCEPT ![g] = AfterMove(over, p)]
          /\ playerUnhandled' = [playerUnhandled EXCEPT ![g] = Opponent(p)]
      BY <2>18 DEF Move, SetGame, GoTo
    <3>3. gameState[g] \notin OverStates
      BY <3>1 DEF TurnStates, OverStates
    <3>4. CASE over \notin {p, 0}
      <4>1. told' = told
        BY <2>18, <3>4 DEF Move
      <4>2. gameState' = [gameState EXCEPT ![g] = MoveState(Opponent(p))]
        BY <3>2, <3>4 DEF AfterMove
      <4>3. MoveState(Opponent(p)) \notin OverStates
        BY DEF MoveState, OverStates
      <4> QED BY <3>1, <3>2, <3>3, <4>1, <4>2, <4>3, ToldKept
    <3>5. CASE over = p
      <4>1. told' = [told EXCEPT ![t] = told[t] \cup {"W"}] /\ AfterMove(over, p) = WinState(p)
        BY <2>18, <3>5 DEF Move, AfterMove
      <4>2. EndsWith(WinState(p), "W", p)
        BY <3>1 DEF EndsWith, ResultsTold, OverStates, WinState, Opponent
      <4> QED BY <3>1, <3>2, <3>3, <4>1, <4>2, ToldVerdict DEF SeatInv
    <3>6. CASE over = 0 /\ over # p
      <4>1. /\ told' = [told EXCEPT ![t] = told[t] \cup {"D"}]
            /\ AfterMove(over, p) = "GAME_OVER_DRAW"
        BY <2>18, <3>6 DEF Move, AfterMove
      <4>2. EndsWith("GAME_OVER_DRAW", "D", p)
        BY <3>1 DEF EndsWith, ResultsTold, OverStates, WinState, Opponent
      <4> QED BY <3>1, <3>2, <3>3, <4>1, <4>2, ToldVerdict DEF SeatInv
    <3> QED BY <3>4, <3>5, <3>6
  <2>19. CASE OfferDraw(t)
    <3>1. player[t] \in {1, 2} /\ gameState[currentGame[t]] \in TurnStates(player[t])
      BY <2>19 DEF OfferDraw, MayOffer, OnTurn
    <3> QED BY <2>19, <3>1, ToldKept
            DEF OfferDraw, Processing, GoTo, SetGame, ConfState, Opponent, TurnStates, OverStates,
                clientVars
  <2>20. CASE RejectDraw(t)
    BY <2>20, ToldKept DEF RejectDraw, Processing, MayAnswer, ConfState, SetGame, GoTo, NothingYet, OverStates, clientVars
  <2>21. CASE AcceptDraw(t)
    <3> DEFINE g == currentGame[t]
               p == player[t]
    <3>1. p \in {1, 2} /\ g \in AllSlots /\ gameState[g] \notin OverStates
      BY <2>21 DEF AcceptDraw, MayAnswer, ConfState, OverStates
    <3>2. /\ UNCHANGED <<player, currentGame, peer>> /\ pc' = [pc EXCEPT ![t] = "poll"]
          /\ gameState' = [gameState EXCEPT ![g] = "GAME_OVER_DRAW_AGG"]
          /\ playerUnhandled' = [playerUnhandled EXCEPT ![g] = Opponent(p)]
          /\ told' = [told EXCEPT ![t] = told[t] \cup {"D"}]
      BY <2>21 DEF AcceptDraw, SetGame, GoTo, Tell
    <3>3. EndsWith("GAME_OVER_DRAW_AGG", "D", p)
      BY <3>1 DEF EndsWith, ResultsTold, OverStates, WinState, Opponent
    <3> QED BY <2>21, <3>1, <3>2, <3>3, ToldVerdict DEF AcceptDraw, Processing, SeatInv
  <2>22. CASE AnswerInvalid(t)
    BY <2>22, ToldKept DEF AnswerInvalid, Processing, GoTo, gameVars, threadVars, clientVars
  <2>23. CASE Overrun(t)
    BY <2>23, ToldKept DEF Overrun, Processing, GoTo, gameVars, threadVars, clientVars
  <2> QED
    BY <1>2, <2>1, <2>2, <2>3, <2>4, <2>5, <2>6, <2>7, <2>8, <2>9, <2>10, <2>11,
       <2>12, <2>13, <2>14, <2>15, <2>16, <2>17, <2>18, <2>19, <2>20, <2>21, <2>22, <2>23
       DEF Client, Poll, Recv, Proc
<1> QED BY <1>1, <1>2 DEF Next

\* While no client leaves, both players of a game that is won or drawn by agreement
\* are told its result, each of them once, and nobody is told one before; after a
\* full grid only one of them is.
THEOREM ResultsAgree == Leavers = {} => (Spec => []VerdictsAgree)
<1>1. /\ Leavers = {} /\ TypeOK /\ RetireUnreachable /\ SeatInv /\ ToldInv /\ [Next]_vars
           => TypeOK' /\ RetireUnreachable' /\ SeatInv' /\ ToldInv'
      /\ ToldInv => VerdictsAgree
  BY TypeStep, RetireStep, SeatStep, ToldStep DEF ToldInv
<1>2. ASSUME Leavers = {} PROVE Spec => []VerdictsAgree
  BY <1>2, TypeInit, RetireInit, SeatInit, ToldInit, <1>1, PTL DEF Spec
<1> QED BY <1>2
=============================================================================
