------------------------ MODULE TTTServerGamesProofs ------------------------
(***************************************************************************)
(* The server implements TTTGames for any number of threads and slots and  *)
(* any set of messages: every step of a thread is one step of one game, or *)
(* of none.                                                                *)
(***************************************************************************)
EXTENDS TTTServerGames, TTTServerProofs

-----------------------------------------------------------------------------
(* The refinement mapping.                                                 *)

\* The games have the board of the server.
LEMMA SameBoard ==
  /\ Abstract!Cells = Cells /\ Abstract!Marks = Marks /\ Abstract!Blank = Blank
  /\ Abstract!EmptyBoard = EmptyBoard
  /\ \A b : Abstract!Full(b) <=> Full(b)
  /\ \A m, b : Abstract!CheckWin(m, b) <=> CheckWin(m, b)
<1>1. /\ Abstract!Index = Index /\ Abstract!Marks = Marks /\ Abstract!Blank = Blank
  BY DEF Index, Marks, Blank, Abstract!Index, Abstract!Marks, Abstract!Blank
<1>2. Abstract!Cells = Cells
  BY <1>1 DEF Cells, Abstract!Cells
<1>3. Abstract!EmptyBoard = EmptyBoard
  BY <1>1, <1>2 DEF EmptyBoard, Abstract!EmptyBoard
<1>4. \A b : Abstract!Full(b) <=> Full(b)
  BY <1>1, <1>2 DEF Full, Abstract!Full
<1>5. \A m, b : Abstract!CheckWin(m, b) <=> CheckWin(m, b)
  BY <1>1 DEF CheckWin, Abstract!CheckWin
<1> QED BY <1>1, <1>2, <1>3, <1>4, <1>5

LEMMA StatusFacts ==
  /\ StatusOf("WAITING_P1") = "empty"
  /\ StatusOf("WAITING_P2") = "waiting for O"
  /\ StatusOf("BEGN") = Abstract!ToPlay("X")
  /\ StatusOf("DRAW_REJ") = Abstract!ToPlay("X")
  /\ StatusOf("GAME_OVER_DRAW") = "draw"
  /\ StatusOf("GAME_OVER_DRAW_AGG") = "draw agreed"
  /\ StatusOf("OVER_READY_FOR_NEW") = "withdrawn"
  BY DEF StatusOf, TurnStates, ConfState, WinState, ResignState, Abstract!ToPlay

LEMMA StatusOfPlayers ==
  ASSUME NEW p \in {1, 2}
  PROVE  /\ MarkOf(p) \in Marks
         /\ MarkOf(Opponent(p)) = Abstract!Other(MarkOf(p))
         /\ \A s \in TurnStates(p) : StatusOf(s) = Abstract!ToPlay(MarkOf(p))
         /\ StatusOf(MoveState(p)) = Abstract!ToPlay(MarkOf(p))
         /\ StatusOf(ConfState(p)) = Abstract!Offered(MarkOf(Opponent(p)))
         /\ StatusOf(WinState(p)) = Abstract!Won(MarkOf(p))
         /\ StatusOf(ResignState(p)) = Abstract!Left(MarkOf(p))
<1> USE DEF StatusOf, TurnStates, ConfState, WinState, ResignState
<1>1. CASE p = 1
  <2>1. /\ MarkOf(p) = "X" /\ Opponent(p) = 2 /\ MarkOf(Opponent(p)) = "O"
        /\ MoveState(p) = "WAITING_FOR_P1_MOVE"
    BY <1>1 DEF MarkOf, Opponent, MoveState
  <2>2. /\ StatusOf(WinState(p)) = "X has won" /\ StatusOf(ResignState(p)) = "X has left"
        /\ StatusOf(ConfState(p)) = "O offers a draw"
        /\ StatusOf("WAITING_FOR_P1_MOVE") = "X to play"
    BY <1>1
  <2>3. \A s \in TurnStates(p) : StatusOf(s) = "X to play"
    BY <1>1
  <2> HIDE DEF StatusOf, TurnStates, ConfState, WinState, ResignState
  <2> QED BY <2>1, <2>2, <2>3 DEF Marks, Abstract!Other, Abstract!ToPlay,
                                  Abstract!Offered, Abstract!Won, Abstract!Left
<1>2. CASE p = 2
  <2>1. /\ MarkOf(p) = "O" /\ Opponent(p) = 1 /\ MarkOf(Opponent(p)) = "X"
        /\ MoveState(p) = "WAITING_FOR_P2_MOVE"
    BY <1>2 DEF MarkOf, Opponent, MoveState
  <2>2. /\ StatusOf(WinState(p)) = "O has won" /\ StatusOf(ResignState(p)) = "O has left"
        /\ StatusOf(ConfState(p)) = "X offers a draw"
        /\ StatusOf("WAITING_FOR_P2_MOVE") = "O to play"
    BY <1>2
  <2>3. \A s \in TurnStates(p) : StatusOf(s) = "O to play"
    BY <1>2
  <2> HIDE DEF StatusOf, TurnStates, ConfState, WinState, ResignState
  <2> QED BY <2>1, <2>2, <2>3 DEF Marks, Abstract!Other, Abstract!ToPlay,
                                  Abstract!Offered, Abstract!Won, Abstract!Left
<1> QED BY <1>1, <1>2

LEMMA OnlyWaiting ==
  ASSUME NEW s \in States, StatusOf(s) = "waiting for O"
  PROVE  s = "WAITING_P2"
  BY DEF StatusOf, States, TurnStates, ConfState, WinState, ResignState

\* What does not touch the states and boards of the slots is no step of a game.
LEMMA NoStep ==
  ASSUME \A g \in Slots : gameState'[g] = gameState[g] /\ board'[g] = board[g]
  PROVE  UNCHANGED Abstract!gamesVars
  BY DEF Abstract!gamesVars

\* What changes the state of one slot is a step of that game.
LEMMA OneStep ==
  ASSUME TypeOK, NEW g \in Slots, NEW s, gameState' = [gameState EXCEPT ![g] = s]
  PROVE  Abstract!Becomes(g, StatusOf(s))
<1>1. \A h \in Slots : gameState'[h] = IF h = g THEN s ELSE gameState[h]
  BY SlotFacts DEF TypeOK
<1>2. \A h \in Slots : StatusOf(gameState'[h]) =
        IF h = g THEN StatusOf(s) ELSE StatusOf(gameState[h])
  BY <1>1
<1>3. [h \in Slots |-> StatusOf(gameState'[h])]
        = [[h \in Slots |-> StatusOf(gameState[h])] EXCEPT ![g] = StatusOf(s)]
  BY <1>2
<1> QED BY <1>3 DEF Abstract!Becomes

-----------------------------------------------------------------------------
(* Steps.                                                                  *)

LEMMA AbstractInit == Init => Abstract!GamesInit
<1> SUFFICES ASSUME Init PROVE Abstract!GamesInit
  OBVIOUS
<1>1. \A g \in Slots : StatusOf(gameState[g]) = "empty" /\ board[g] = EmptyBoard
  BY StatusFacts, SlotFacts DEF Init
<1> QED BY <1>1, SameBoard DEF Abstract!GamesInit

\* The branches of proc_msg that write on no board, and the record of a loss: each
\* brings one slot to a new state.
LEMMA SlotStep ==
  ASSUME TypeOK, NEW g \in AllSlots, NEW s, UNCHANGED board,
         gameState' = [gameState EXCEPT ![g] = s],
         g \in Slots =>
           \/ gameState[g] = "WAITING_P1" /\ s = "WAITING_P2"
           \/ gameState[g] = "WAITING_P2" /\ s \in {"BEGN", "OVER_READY_FOR_NEW"}
           \/ \E p \in {1, 2} :
                \/ gameState[g] \in TurnStates(p) /\ s = ConfState(Opponent(p))
                \/ gameState[g] = ConfState(p) /\ s \in {"DRAW_REJ", "GAME_OVER_DRAW_AGG"}
                \/ gameState[g] # "WAITING_P2" /\ s = ResignState(p)
  PROVE  [Abstract!GamesNext]_(Abstract!gamesVars)
<1>1. CASE g \notin Slots
  <2>1. \A h \in Slots : gameState'[h] = gameState[h] /\ board'[h] = board[h]
    BY <1>1, SlotFacts DEF TypeOK
  <2> QED BY <2>1, NoStep
<1>2. CASE g \in Slots
  <2>1. Abstract!Becomes(g, StatusOf(s))
    BY <1>2, OneStep
  <2>2. UNCHANGED [h \in Slots |-> board[h]]
    OBVIOUS
  <2>3. [h \in Slots |-> StatusOf(gameState[h])][g] = StatusOf(gameState[g])
    BY <1>2
  <2>4. CASE gameState[g] = "WAITING_P1" /\ s = "WAITING_P2"
    <3>1. Abstract!TakeX(g)
      BY <2>1, <2>2, <2>3, <2>4, StatusFacts DEF Abstract!TakeX
    <3> QED BY <1>2, <3>1 DEF Abstract!GamesNext
  <2>5. CASE gameState[g] = "WAITING_P2" /\ s = "BEGN"
    <3>1. Abstract!TakeO(g)
      BY <2>1, <2>2, <2>3, <2>5, StatusFacts DEF Abstract!TakeO
    <3> QED BY <1>2, <3>1 DEF Abstract!GamesNext
  <2>6. CASE gameState[g] = "WAITING_P2" /\ s = "OVER_READY_FOR_NEW"
    <3>1. Abstract!Withdraw(g)
      BY <2>1, <2>2, <2>3, <2>6, StatusFacts DEF Abstract!Withdraw
    <3> QED BY <1>2, <3>1 DEF Abstract!GamesNext
  <2>7. ASSUME NEW p \in {1, 2}, gameState[g] \in TurnStates(p), s = ConfState(Opponent(p))
        PROVE  Abstract!GamesNext
    <3>1. Opponent(p) \in {1, 2} /\ Opponent(Opponent(p)) = p
      BY DEF Opponent
    <3>2. /\ StatusOf(gameState[g]) = Abstract!ToPlay(MarkOf(p))
          /\ StatusOf(s) = Abstract!Offered(MarkOf(p)) /\ MarkOf(p) \in Marks
      BY <2>7, <3>1, StatusOfPlayers
    <3>3. Abstract!Offer(g, MarkOf(p))
      BY <2>1, <2>2, <2>3, <3>2 DEF Abstract!Offer
    <3> QED BY <1>2, <3>2, <3>3, SameBoard DEF Abstract!GamesNext
  <2>8. ASSUME NEW p \in {1, 2}, gameState[g] = ConfState(p),
               s \in {"DRAW_REJ", "GAME_OVER_DRAW_AGG"}
        PROVE  Abstract!GamesNext
    <3>1. /\ StatusOf(gameState[g]) = Abstract!Offered(Abstract!Other(MarkOf(p)))
          /\ MarkOf(p) \in Marks
      BY <2>8, StatusOfPlayers
    <3>2. Abstract!Reject(g, MarkOf(p)) \/ Abstract!Agree(g, MarkOf(p))
      BY <2>1, <2>2, <2>3, <2>8, <3>1, StatusFacts DEF Abstract!Reject, Abstract!Agree
    <3> QED BY <1>2, <3>1, <3>2, SameBoard DEF Abstract!GamesNext
  <2>9. ASSUME NEW p \in {1, 2}, gameState[g] # "WAITING_P2", s = ResignState(p)
        PROVE  Abstract!GamesNext
    <3>1. StatusOf(s) = Abstract!Left(MarkOf(p)) /\ MarkOf(p) \in Marks
      BY <2>9, StatusOfPlayers
    <3>2. gameState[g] \in States
      BY DEF TypeOK
    <3>3. StatusOf(gameState[g]) # "waiting for O"
      BY <2>9, <3>2, OnlyWaiting
    <3>4. Abstract!Leave(g, MarkOf(p))
      BY <2>1, <2>2, <2>3, <3>1, <3>3 DEF Abstract!Leave
    <3> QED BY <1>2, <3>1, <3>4, SameBoard DEF Abstract!GamesNext
  <2> QED BY <1>2, <2>4, <2>5, <2>6, <2>7, <2>8, <2>9
<1> QED BY <1>1, <1>2

\* A move is the move of the player to play, and it ends the game as it should: the
\* verdict, which looks for X's line first, is never the other player's.
LEMMA MoveStep ==
  ASSUME TypeOK, BoardInv, NEW t \in Threads, Move(t)
  PROVE  [Abstract!GamesNext]_(Abstract!gamesVars)
<1> PICK g \in AllSlots : g = currentGame[t]
  BY DEF TypeOK
<1> PICK p : p = player[t]
  OBVIOUS
<1>1. PICK m \in Messages : /\ MayMove(t, m)
                            /\ board' = [board EXCEPT ![g][m.position] = MarkOf(p)]
  BY DEF Move
<1>2. /\ p \in {1, 2} /\ m.position \in Cells /\ g \in AllSlots
      /\ gameState[g] \in TurnStates(p) /\ board[g][m.position] = Blank
  BY <1>1 DEF MayMove, OnTurn, TypeOK
<1>3. gameState' = [gameState EXCEPT ![g] = AfterMove(IsGameOver(board'[g]), p)]
  BY DEF Move, SetGame
<1>4. board' = [board EXCEPT ![g] = [board[g] EXCEPT ![m.position] = MarkOf(p)]]
  BY <1>1
<1>5. CASE g \notin Slots
  <2>1. \A h \in Slots : gameState'[h] = gameState[h] /\ board'[h] = board[h]
    BY <1>2, <1>3, <1>4, <1>5, SlotFacts DEF TypeOK
  <2> QED BY <2>1, NoStep
<1>6. CASE g \in Slots
  <2> PICK mark : mark = MarkOf(p)
    OBVIOUS
  <2> DEFINE after == board'[g]
             over == IsGameOver(after)
  <2>1. /\ StatusOf(gameState[g]) = Abstract!ToPlay(mark) /\ mark \in Marks
        /\ MarkOf(Opponent(p)) = Abstract!Other(mark)
        /\ StatusOf(WinState(p)) = Abstract!Won(mark)
    BY <1>2, StatusOfPlayers
  <2>2. StatusOf(MoveState(Opponent(p))) = Abstract!ToPlay(Abstract!Other(mark))
    <3>1. Opponent(p) \in {1, 2}
      BY <1>2 DEF Opponent
    <3> QED BY <2>1, <3>1, StatusOfPlayers
  <2>3. /\ board[g] \in Boards /\ IsGameOver(board[g]) = -1
        /\ after = [board[g] EXCEPT ![m.position] = mark]
    <3>1. Running(g)
      BY <1>2 DEF TurnStates, Running, RunningStates
    <3> QED BY <1>2, <1>4, <3>1 DEF TypeOK, BoardInv, RunningUndecided
  <2>4. over \in {-1, 0, p} /\ (over = p => CheckWin(mark, after))
        /\ (over = 0 => Full(after) /\ ~CheckWin(mark, after))
    BY <1>2, <2>3, VerdictAfterMove DEF MarkOf
  <2>5. over = -1 => ~Full(after) /\ ~CheckWin(mark, after)
    BY <1>2 DEF IsGameOver, MarkOf
  <2>6. StatusOf(AfterMove(over, p)) = Abstract!AfterMark(mark, after)
    <3> HIDE DEF after, over
    <3> QED BY <1>2, <2>1, <2>2, <2>4, <2>5, StatusFacts, SameBoard
            DEF AfterMove, Abstract!AfterMark
  <2>7. Abstract!Becomes(g, StatusOf(AfterMove(over, p)))
    BY <1>3, <1>6, OneStep
  <2>8. /\ [h \in Slots |-> board[h]][g] = board[g]
        /\ [h \in Slots |-> board'[h]][g] = board'[g]
        /\ [h \in Slots |-> StatusOf(gameState[h])][g] = StatusOf(gameState[g])
    BY <1>6
  <2>9. [h \in Slots |-> board'[h]] =
          [[h \in Slots |-> board[h]] EXCEPT ![g] = [board[g] EXCEPT ![m.position] = mark]]
    <3>1. \A h \in Slots : board'[h] = IF h = g THEN [board[g] EXCEPT ![m.position] = mark]
                                                ELSE board[h]
      BY <1>2, <1>4, SlotFacts DEF TypeOK
    <3> QED BY <3>1
  <2>10. Abstract!Mark(g, mark)
    <3> HIDE DEF after, over
    <3>1. [h \in Slots |-> StatusOf(gameState[h])][g] = Abstract!ToPlay(mark)
      BY <2>1, <2>8
    <3>2. \E c \in Cells :
            /\ [h \in Slots |-> board[h]][g][c] = Blank
            /\ [h \in Slots |-> board'[h]] =
                 [[h \in Slots |-> board[h]] EXCEPT
                    ![g] = [[h \in Slots |-> board[h]][g] EXCEPT ![c] = mark]]
      BY <1>2, <2>8, <2>9
    <3>3. Abstract!Becomes(g, Abstract!AfterMark(mark, [h \in Slots |-> board'[h]][g]))
      BY <2>6, <2>7, <2>8 DEF after
    <3> QED BY <3>1, <3>2, <3>3, SameBoard DEF Abstract!Mark
  <2>11. mark \in Abstract!Marks
    BY <2>1, SameBoard
  <2> HIDE DEF after, over
  <2>12. Abstract!GamesNext
    BY <1>6, <2>10, <2>11 DEF Abstract!GamesNext
  <2> QED BY <2>12
<1> QED BY <1>5, <1>6

LEMMA AbstractStep ==
  TypeOK /\ RetireUnreachable /\ BoardInv /\ [Next]_vars
    => [Abstract!GamesNext]_(Abstract!gamesVars)
<1> SUFFICES ASSUME TypeOK, RetireUnreachable, BoardInv, [Next]_vars
             PROVE  [Abstract!GamesNext]_(Abstract!gamesVars)
  OBVIOUS
<1> DEFINE Kept == \A g \in Slots : gameState'[g] = gameState[g] /\ board'[g] = board[g]
<1>1. CASE UNCHANGED vars
  <2>1. Kept
    BY <1>1 DEF vars, gameVars
  <2> QED BY <2>1, NoStep
<1>2. ASSUME NEW t \in Threads,
             \/ Connect(t) \/ Client(t) \/ ChooseGame(t) \/ OutOfBounds(t)
             \/ Poll(t) \/ Recv(t) \/ RecordLoss(t) \/ Proc(t)
      PROVE  [Abstract!GamesNext]_(Abstract!gamesVars)
  <2>1. CASE \/ Connect(t) \/ Client(t) \/ ChooseGame(t) \/ OutOfBounds(t) \/ Recv(t)
             \/ AnswerInvalid(t) \/ Overrun(t)
    <3>1. Kept
      BY <2>1 DEF Connect, Client, ClientClose, ClientReset, ChooseGame, OutOfBounds,
                  Recv, RecvNothing, RecvMessage, RecvEof, RecvError, AnswerInvalid,
                  Overrun, gameVars
    <3> QED BY <3>1, NoStep
  <2>2. CASE TellMove(t) \/ TellDraw(t) \/ TellBegin(t) \/ TellOver(t)
    <3>1. Kept
      BY <2>2 DEF TellMove, TellDraw, TellBegin, TellOver, Handled
    <3> QED BY <3>1, NoStep
  <2>3. CASE PollQuietly(t)
    <3>1. ~(gameState[currentGame[t]] \in OverStates /\ playerUnhandled[currentGame[t]] = 0)
      BY <2>3 DEF PollQuietly, Polling, RetireUnreachable, Over, TypeOK
    <3>2. Kept
      BY <2>3, <3>1 DEF PollQuietly
    <3> QED BY <3>2, NoStep
  <2>4. CASE RecordLoss(t)
    <3> PICK g \in AllSlots : g = currentGame[t]
      BY DEF TypeOK
    <3>1. PICK s : /\ gameState' = [gameState EXCEPT ![g] = s]
                   /\ \/ gameState[g] = "WAITING_P2" /\ s = "OVER_READY_FOR_NEW"
                      \/ gameState[g] # "WAITING_P2" /\ \E p \in {1, 2} : s = ResignState(p)
      BY <2>4 DEF RecordLoss, SetGame
    <3>2. UNCHANGED board
      BY <2>4 DEF RecordLoss
    <3> QED BY <3>1, <3>2, SlotStep
  <2>5. CASE JoinFirst(t) \/ JoinSecond(t)
    <3> PICK g \in AllSlots : g = currentGame[t]
      BY DEF TypeOK
    <3>1. PICK s : /\ gameState' = [gameState EXCEPT ![g] = s]
                   /\ \/ gameState[g] = "WAITING_P1" /\ s = "WAITING_P2"
                      \/ gameState[g] = "WAITING_P2" /\ s = "BEGN"
      BY <2>5 DEF JoinFirst, JoinSecond, MayJoin, SetGame
    <3>2. UNCHANGED board
      BY <2>5 DEF JoinFirst, JoinSecond
    <3> QED BY <3>1, <3>2, SlotStep
  <2>6. CASE Move(t)
    BY <2>6, MoveStep
  <2>7. CASE OfferDraw(t)
    <3> PICK g \in AllSlots : g = currentGame[t]
      BY DEF TypeOK
    <3>1. \E p \in {1, 2} : /\ gameState[g] \in TurnStates(p)
                           /\ gameState' = [gameState EXCEPT ![g] = ConfState(Opponent(p))]
      BY <2>7 DEF OfferDraw, MayOffer, OnTurn, SetGame
    <3>2. UNCHANGED board
      BY <2>7 DEF OfferDraw
    <3> QED BY <3>1, <3>2, SlotStep
  <2>8. CASE RejectDraw(t) \/ AcceptDraw(t)
    <3> PICK g \in AllSlots : g = currentGame[t]
      BY DEF TypeOK
    <3>1. \E p \in {1, 2}, s \in {"DRAW_REJ", "GAME_OVER_DRAW_AGG"} :
            gameState[g] = ConfState(p) /\ gameState' = [gameState EXCEPT ![g] = s]
      BY <2>8 DEF RejectDraw, AcceptDraw, MayAnswer, SetGame
    <3>2. UNCHANGED board
      BY <2>8 DEF RejectDraw, AcceptDraw
    <3> QED BY <3>1, <3>2, SlotStep
  <2> QED BY <1>2, <2>1, <2>2, <2>3, <2>4, <2>5, <2>6, <2>7, <2>8 DEF Poll, Proc
<1> QED BY <1>1, <1>2 DEF Next

\* The slots of ttts.c, with their threads, their mutex and their alerts, are games
\* played by the rules, for any number of threads and slots.
THEOREM ServerPlaysByTheRules == Spec => RefinesGames
<1>1. /\ Init => TypeOK /\ RetireUnreachable /\ BoardInv
      /\ TypeOK /\ RetireUnreachable /\ BoardInv /\ [Next]_vars
           => TypeOK' /\ RetireUnreachable' /\ BoardInv'
  BY TypeInit, TypeStep, RetireInit, RetireStep, BoardInit, BoardStep
<1> QED BY <1>1, AbstractInit, AbstractStep, PTL DEF Spec, RefinesGames, Abstract!GamesSpec
=============================================================================
