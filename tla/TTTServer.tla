------------------------------ MODULE TTTServer -----------------------------
(***************************************************************************)
(* The tic-tac-toe server of tic-tac-toe/ttts.c: the shared array `games', *)
(* the mutex `games_lock' and one thread (thread_function) per connection. *)
(*                                                                         *)
(* What a thread does between pthread_mutex_lock and pthread_mutex_unlock  *)
(* is one action, enabled when the mutex is free.  A thread that breaks    *)
(* out of its loop before the unlock leaves `lock' set to itself.  recv    *)
(* runs without the mutex, so it is an action of its own between two of    *)
(* these.  The content of a message is read only by proc_msg and is        *)
(* therefore chosen there; recv only tells which kind of result it had.    *)
(*                                                                         *)
(* A definition named X__Y is X with the mistake Y in it.  No other        *)
(* definition uses it; it shows that a property depends on X being right.  *)
(***************************************************************************)
EXTENDS TTTBoard, FiniteSets

CONSTANTS
  Threads,    \* connection threads, one per accepted client
  NoThread,   \* value of `lock' when games_lock is free
  NGames,     \* length of the array `games' (100 in the code)
  Messages,   \* the messages clients may send, as tokenize decodes them
  Leavers     \* threads whose client may close or reset its connection

(***************************************************************************)
(* A decoded message: the type and the fields proc_msg looks at.  "BAD" is *)
(* what tokenize rejects with -1, "OTHER" any type proc_msg has no branch  *)
(* for: RSGN, and what only a server sends (WAIT, BEGN, MOVD, INVL, OVER). *)
(* "WILD" are bytes with which tokenize writes outside its arrays.         *)
(***************************************************************************)
IsMessage(m) ==
  \/ m.type \in {"PLAY", "OTHER", "BAD", "WILD"}
  \/ m.type = "MOVE" /\ m.role \in {"X", "O", "?"} /\ m.position \in Int \X Int
  \/ m.type = "DRAW" /\ m.message \in {"S", "A", "R", "?"}

ASSUME ThreadsAssumption == NoThread \notin Threads
ASSUME NGamesAssumption == NGames \in Nat \ {0}
ASSUME LeaversAssumption == Leavers \subseteq Threads
ASSUME MessagesAssumption == \A m \in Messages : IsMessage(m)

(***************************************************************************)
(* The slots of `games'.  findOpenGame returns -1 when none is open and    *)
(* thread_function only prints a message: it then uses games[-1], the zero *)
(* bytes in front of the array, unless the sanitizer of the build stops it.*)
(***************************************************************************)
Slots == 0..NGames - 1
NoGame == -1
AllSlots == Slots \cup {NoGame}

States == {"WAITING_P1", "WAITING_P2", "WAITING_FOR_P1_MOVE",
           "WAITING_FOR_P2_MOVE", "WAITING_FOR_P1_DRAW_CONF",
           "WAITING_FOR_P2_DRAW_CONF", "GAME_OVER_P1_WIN",
           "GAME_OVER_P2_WIN", "GAME_OVER_DRAW", "GAME_OVER_P1_RESIGN",
           "GAME_OVER_P2_RESIGN", "GAME_OVER_DRAW_AGG", "BEGN", "DRAW_REJ",
           "OVER_READY_FOR_NEW"}

OverStates == {"GAME_OVER_P1_WIN", "GAME_OVER_P2_WIN", "GAME_OVER_DRAW",
               "GAME_OVER_P1_RESIGN", "GAME_OVER_P2_RESIGN",
               "GAME_OVER_DRAW_AGG"}

RunningStates == {"BEGN", "DRAW_REJ", "WAITING_FOR_P1_MOVE", "WAITING_FOR_P2_MOVE",
                  "WAITING_FOR_P1_DRAW_CONF", "WAITING_FOR_P2_DRAW_CONF"}

OpenStates == {"WAITING_P1", "WAITING_P2", "OVER_READY_FOR_NEW"}

TurnStates__RejectedForBoth(p) ==
  IF p = 1 THEN {"WAITING_FOR_P1_MOVE", "BEGN", "DRAW_REJ"}
           ELSE {"WAITING_FOR_P2_MOVE", "DRAW_REJ"}

\* The states in which player p may move or offer a draw.
TurnStates(p) ==
  IF p = 1 THEN {"WAITING_FOR_P1_MOVE", "BEGN", "DRAW_REJ"}
           ELSE {"WAITING_FOR_P2_MOVE"}

MoveState(p) == IF p = 1 THEN "WAITING_FOR_P1_MOVE" ELSE "WAITING_FOR_P2_MOVE"
ConfState(p) == IF p = 1 THEN "WAITING_FOR_P1_DRAW_CONF"
                         ELSE "WAITING_FOR_P2_DRAW_CONF"
WinState(p) == IF p = 1 THEN "GAME_OVER_P1_WIN" ELSE "GAME_OVER_P2_WIN"
ResignState(p) == IF p = 1 THEN "GAME_OVER_P1_RESIGN" ELSE "GAME_OVER_P2_RESIGN"
MarkOf(p) == IF p = 1 THEN "X" ELSE "O"
Opponent__Next(p) == p + 1
Opponent(p) == 3 - p

VARIABLES
  gameState, playerUnhandled, board,
  lastBoard,      \* lastProtInfo.board, what the next MOVD will show
  lock,           \* the holder of games_lock
  serverUp,       \* FALSE once the process has died
  pc,             \* where each thread is in thread_function
  currentGame, player, errno,
  peer,           \* the client's end of each connection
  view,           \* the board the client was last shown in MOVD
  told            \* the outcomes the client was told in OVER

gameVars == <<gameState, playerUnhandled, board, lastBoard>>
threadVars == <<pc, currentGame, player, errno>>
clientVars == <<view, told>>
vars == <<gameVars, lock, serverUp, threadVars, peer, clientVars>>

Init ==
  /\ gameState = [g \in AllSlots |-> "WAITING_P1"]
  /\ playerUnhandled = [g \in AllSlots |-> 0]
  /\ board = [g \in AllSlots |-> EmptyBoard]
  /\ lastBoard = [g \in AllSlots |-> EmptyBoard]
  /\ lock = NoThread
  /\ serverUp = TRUE
  /\ pc = [t \in Threads |-> "none"]
  /\ currentGame = [t \in Threads |-> NoGame]
  /\ player = [t \in Threads |-> 0]
  /\ errno = [t \in Threads |-> "0"]
  /\ peer = [t \in Threads |-> "open"]
  /\ view = [t \in Threads |-> EmptyBoard]
  /\ told = [t \in Threads |-> {}]

-----------------------------------------------------------------------------
GoTo(t, label) == pc' = [pc EXCEPT ![t] = label]

SetGame(g, state, alerted) ==
  /\ gameState' = [gameState EXCEPT ![g] = state]
  /\ playerUnhandled' = [playerUnhandled EXCEPT ![g] = alerted]

\* send_resp: writing to a connection the peer has reset raises SIGPIPE, which
\* nothing in the process handles (and any other error ends in exit(1)).
Send(t) == serverUp' = (peer[t] \notin {"reset", "broken"})

Tell(t, outcome) == told' = [told EXCEPT ![t] = @ \cup {outcome}]

-----------------------------------------------------------------------------
(* Clients, and the main thread's accept and pthread_create.               *)

Connect(t) ==
  /\ serverUp /\ pc[t] = "none"
  /\ GoTo(t, "find")
  /\ UNCHANGED <<gameVars, lock, serverUp, currentGame, player, errno, peer,
                 clientVars>>

ClientClose(t) ==
  /\ t \in Leavers /\ pc[t] \notin {"none", "exit"} /\ peer[t] = "open"
  /\ peer' = [peer EXCEPT ![t] = "closed"]
  /\ UNCHANGED <<gameVars, lock, serverUp, threadVars, clientVars>>

\* A connection that is reset after its orderly close keeps returning 0.
ClientReset(t) ==
  /\ t \in Leavers /\ pc[t] \notin {"none", "exit"}
  /\ peer[t] \in {"open", "closed", "eof"}
  /\ peer' = [peer EXCEPT ![t] = IF @ = "open" THEN "reset" ELSE "broken"]
  /\ UNCHANGED <<gameVars, lock, serverUp, threadVars, clientVars>>

-----------------------------------------------------------------------------
(* thread_function: choosing a game when the thread starts.                *)

FirstOpen(g) ==
  /\ g \in Slots /\ gameState[g] \in OpenStates
  /\ \A h \in Slots : gameState[h] \in OpenStates => g <= h

FindOpenGame(g) ==
  \/ FirstOpen(g)
  \/ g = NoGame /\ \A h \in Slots : gameState[h] \notin OpenStates

ChooseGame(t) ==
  /\ serverUp /\ pc[t] = "find" /\ lock = NoThread
  /\ \E g \in AllSlots :
       /\ FindOpenGame(g)
       /\ currentGame' = [currentGame EXCEPT ![t] = g]
  /\ GoTo(t, "poll")
  /\ UNCHANGED <<gameVars, lock, serverUp, player, errno, peer, clientVars>>

\* The build runs under AddressSanitizer, which may stop an access to games[-1].
OutOfBounds(t) ==
  /\ serverUp /\ pc[t] \notin {"none", "find", "exit"}
  /\ currentGame[t] = NoGame
  /\ serverUp' = FALSE
  /\ UNCHANGED <<gameVars, lock, threadVars, peer, clientVars>>

-----------------------------------------------------------------------------
(* thread_function: the first half of the loop, under the mutex.  A thread *)
(* whose player is the one in playerUnhandled tells its client what        *)
(* changed.  A thread that has no seat compares its 0 with "nobody".       *)

Polling(t) == serverUp /\ pc[t] = "poll" /\ lock = NoThread

Alerted(t) == playerUnhandled[currentGame[t]] = player[t]

\* The alerts after which the thread goes on with its loop.
TellsMove(t) == /\ Alerted(t) /\ player[t] \in {1, 2}
                /\ gameState[currentGame[t]] = MoveState(player[t])
TellsOffer(t) == /\ Alerted(t) /\ player[t] \in {1, 2}
                 /\ gameState[currentGame[t]] = ConfState(player[t])
TellsBegin(t) == Alerted(t) /\ gameState[currentGame[t]] = "BEGN"
TellsRejection__OnlyTwo(t) ==
  Alerted(t) /\ player[t] = 2 /\ gameState[currentGame[t]] = "DRAW_REJ"
TellsRejection(t) == Alerted(t) /\ gameState[currentGame[t]] = "DRAW_REJ"
TellsOver(t) == Alerted(t) /\ gameState[currentGame[t]] \in OverStates

Handled(t) ==
  /\ playerUnhandled' = [playerUnhandled EXCEPT ![currentGame[t]] = 0]
  /\ UNCHANGED <<gameState, board, lastBoard, currentGame, player, errno, peer>>

TellMove(t) ==
  /\ Polling(t) /\ TellsMove(t)
  /\ Send(t) /\ Handled(t) /\ GoTo(t, "recv")
  /\ view' = [view EXCEPT ![t] = lastBoard[currentGame[t]]]
  /\ UNCHANGED <<lock, told>>

TellDraw(t) ==
  /\ Polling(t) /\ (TellsOffer(t) \/ TellsRejection(t))
  /\ Send(t) /\ Handled(t) /\ GoTo(t, "recv")
  /\ UNCHANGED <<lock, clientVars>>

TellBegin(t) ==
  /\ Polling(t) /\ TellsBegin(t)
  /\ Send(t) /\ Handled(t) /\ GoTo(t, "recv")
  /\ UNCHANGED <<lock, clientVars>>

OutcomeFor__WinnerPasted(state) ==
  CASE state = "GAME_OVER_P1_WIN" -> {"L"}
    [] state \in {"GAME_OVER_P2_WIN", "GAME_OVER_P1_RESIGN", "GAME_OVER_P2_RESIGN"} -> {"W"}
    [] state = "GAME_OVER_DRAW_AGG" -> {"D"}
    [] OTHER -> {}

\* The outcome in the OVER message.  After a full grid the code sends a DRAW
\* message instead (654), an offer to its client: it carries no outcome.
OutcomeFor(state) ==
  CASE state \in {"GAME_OVER_P1_WIN", "GAME_OVER_P2_WIN"} -> {"L"}
    [] state \in {"GAME_OVER_P1_RESIGN", "GAME_OVER_P2_RESIGN"} -> {"W"}
    [] state = "GAME_OVER_DRAW_AGG" -> {"D"}
    [] OTHER -> {}

\* Every game-over branch ends in `break', past the pthread_mutex_unlock.
TellOver(t) ==
  /\ Polling(t) /\ TellsOver(t)
  /\ Send(t) /\ Handled(t) /\ GoTo(t, "exit")
  /\ lock' = t
  /\ told' = [told EXCEPT ![t] = @ \cup OutcomeFor(gameState[currentGame[t]])]
  /\ UNCHANGED view

\* Nothing to tell.  The test that would make a finished slot ready for a new
\* game comes after the alerts, and its break also keeps the mutex.
PollQuietly(t) ==
  LET g == currentGame[t]
      retire == gameState[g] \in OverStates /\ playerUnhandled[g] = 0
  IN  /\ Polling(t)
      /\ ~(TellsMove(t) \/ TellsOffer(t) \/ TellsBegin(t)
             \/ TellsRejection(t) \/ TellsOver(t))
      /\ gameState' = IF retire THEN [gameState EXCEPT ![g] = "OVER_READY_FOR_NEW"]
                                ELSE gameState
      /\ lock' = IF retire THEN t ELSE NoThread
      /\ GoTo(t, IF retire THEN "exit" ELSE "recv")
      /\ UNCHANGED <<playerUnhandled, board, lastBoard, serverUp, currentGame,
                     player, errno, peer, clientVars>>

-----------------------------------------------------------------------------
(* thread_function: recv with MSG_DONTWAIT, outside the mutex.  A result   *)
(* of 0 or less is a disconnect unless errno says EAGAIN, but a result of  *)
(* 0 leaves errno as an earlier call set it.                               *)

RecvNothing(t) ==
  /\ serverUp /\ pc[t] = "recv" /\ peer[t] = "open"
  /\ errno' = [errno EXCEPT ![t] = "EAGAIN"]
  /\ GoTo(t, "poll")
  /\ UNCHANGED <<gameVars, lock, serverUp, currentGame, player, peer, clientVars>>

\* What the client sent before it left is delivered first.
RecvMessage(t) ==
  /\ serverUp /\ pc[t] = "recv" /\ peer[t] \in {"open", "closed", "reset"}
  /\ GoTo(t, "proc")
  /\ UNCHANGED <<gameVars, lock, serverUp, currentGame, player, errno, peer,
                 clientVars>>

RecvEof(t) ==
  /\ serverUp /\ pc[t] = "recv" /\ peer[t] \in {"closed", "eof", "broken"}
  /\ peer' = [peer EXCEPT ![t] = IF @ = "broken" THEN @ ELSE "eof"]
  /\ GoTo(t, IF errno[t] = "EAGAIN" THEN "poll" ELSE "lost")
  /\ UNCHANGED <<gameVars, lock, serverUp, currentGame, player, errno, clientVars>>

RecvError(t) ==
  /\ serverUp /\ pc[t] = "recv" /\ peer[t] = "reset"
  /\ errno' = [errno EXCEPT ![t] = "ECONNRESET"]
  /\ GoTo(t, "lost")
  /\ UNCHANGED <<gameVars, lock, serverUp, currentGame, player, peer, clientVars>>

RecordLoss__Unrecorded(t) ==
  /\ serverUp /\ pc[t] = "lost" /\ lock = NoThread
  /\ GoTo(t, "exit")
  /\ UNCHANGED <<gameVars, lock, serverUp, currentGame, player, errno, peer, clientVars>>

RecordLoss__Unalerted(t) ==
  LET g == currentGame[t]
  IN  /\ serverUp /\ pc[t] = "lost" /\ lock = NoThread
      /\ IF gameState[g] = "WAITING_P2"
           THEN SetGame(g, "OVER_READY_FOR_NEW", playerUnhandled[g])
           ELSE SetGame(g, ResignState(IF player[t] = 1 THEN 1 ELSE 2), playerUnhandled[g])
      /\ GoTo(t, "exit")
      /\ UNCHANGED <<board, lastBoard, lock, serverUp, currentGame, player, errno,
                     peer, clientVars>>

\* The disconnect branch: whoever is not player 1 resigns as player 2.
RecordLoss(t) ==
  LET g == currentGame[t]
      loser == IF player[t] = 1 THEN 1 ELSE 2
  IN  /\ serverUp /\ pc[t] = "lost" /\ lock = NoThread
      /\ IF gameState[g] = "WAITING_P2"
           THEN SetGame(g, "OVER_READY_FOR_NEW", playerUnhandled[g])
           ELSE SetGame(g, ResignState(loser), Opponent(loser))
      /\ GoTo(t, "exit")
      /\ UNCHANGED <<board, lastBoard, lock, serverUp, currentGame, player, errno,
                     peer, clientVars>>

-----------------------------------------------------------------------------
(* proc_msg, one action per branch, under the mutex.                       *)

Processing(t) == serverUp /\ pc[t] = "proc" /\ lock = NoThread

MayJoin__AnyOpen(t, m, state) ==
  m.type = "PLAY" /\ player[t] = 0 /\ gameState[currentGame[t]] \in OpenStates
MayJoin__Twice(t, m, state) ==
  m.type = "PLAY" /\ gameState[currentGame[t]] = state

MayJoin(t, m, state) ==
  /\ m.type = "PLAY" /\ player[t] = 0 /\ gameState[currentGame[t]] = state

OnTurn(t) == /\ player[t] \in {1, 2}
             /\ gameState[currentGame[t]] \in TurnStates(player[t])

MayMove__Occupied(t, m) ==
  /\ m.type = "MOVE" /\ OnTurn(t)
  /\ ~(m.role = "X" /\ player[t] # 1) /\ ~(m.role = "O" /\ player[t] # 2)
  /\ m.position \in Cells

\* maybeCommitBoardMove and the role test in front of it.
MayMove(t, m) ==
  /\ m.type = "MOVE" /\ OnTurn(t)
  /\ ~(m.role = "X" /\ player[t] # 1) /\ ~(m.role = "O" /\ player[t] # 2)
  /\ m.position \in Cells
  /\ board[currentGame[t]][m.position] = Blank

MayOffer(t, m) == m.type = "DRAW" /\ m.message = "S" /\ OnTurn(t)

MayAnswer__AnyTime(t, m, answer) ==
  m.type = "DRAW" /\ m.message = answer /\ player[t] \in {1, 2}

MayAnswer(t, m, answer) ==
  /\ m.type = "DRAW" /\ m.message = answer /\ player[t] \in {1, 2}
  /\ gameState[currentGame[t]] = ConfState(player[t])

JoinFirst(t) ==
  /\ Processing(t) /\ \E m \in Messages : MayJoin(t, m, "WAITING_P1")
  /\ SetGame(currentGame[t], "WAITING_P2", playerUnhandled[currentGame[t]])
  /\ player' = [player EXCEPT ![t] = 1]
  /\ Send(t) /\ GoTo(t, "poll")
  /\ UNCHANGED <<board, lastBoard, lock, currentGame, errno, peer, clientVars>>

JoinSecond(t) ==
  /\ Processing(t) /\ \E m \in Messages : MayJoin(t, m, "WAITING_P2")
  /\ SetGame(currentGame[t], "BEGN", 1)
  /\ player' = [player EXCEPT ![t] = 2]
  /\ Send(t) /\ GoTo(t, "poll")
  /\ UNCHANGED <<board, lastBoard, lock, currentGame, errno, peer, clientVars>>

AfterMove__DrawForgotten(over, p) ==
  IF over = p THEN WinState(p) ELSE MoveState(Opponent(p))
AfterMove__OtherWins(over, p) ==
  IF over = p THEN WinState(Opponent(p))
  ELSE IF over = 0 THEN "GAME_OVER_DRAW" ELSE MoveState(Opponent(p))

\* isGameOver's verdict, read for the player who moved.
AfterMove(over, p) ==
  IF over = p THEN WinState(p)
  ELSE IF over = 0 THEN "GAME_OVER_DRAW" ELSE MoveState(Opponent(p))

BoardSaved__BeforeMove(g) == lastBoard' = [lastBoard EXCEPT ![g] = board[g]]

\* lastProtInfo.board: what the thread of the opponent will show.
BoardSaved(g) == lastBoard' = [lastBoard EXCEPT ![g] = board'[g]]

\* The mover is told the result at once, the opponent by its own thread.
Move(t) ==
  LET g == currentGame[t]
      p == player[t]
  IN  /\ Processing(t)
      /\ \E m \in Messages :
           /\ MayMove(t, m)
           /\ board' = [board EXCEPT ![g][m.position] = MarkOf(p)]
      /\ LET over == IsGameOver(board'[g])
             goesOn == over \notin {p, 0}
         IN  /\ SetGame(g, AfterMove(over, p), Opponent(p))
             /\ IF goesOn THEN BoardSaved(g) ELSE UNCHANGED lastBoard
             /\ view' = IF goesOn THEN [view EXCEPT ![t] = board'[g]] ELSE view
             /\ told' = IF goesOn THEN told
                        ELSE [told EXCEPT ![t] = @ \cup {IF over = p THEN "W" ELSE "D"}]
      /\ Send(t) /\ GoTo(t, "poll")
      /\ UNCHANGED <<lock, currentGame, player, errno, peer>>

\* Neither a draw offer nor its rejection is answered to the client that sent it.
OfferDraw(t) ==
  /\ Processing(t) /\ \E m \in Messages : MayOffer(t, m)
  /\ SetGame(currentGame[t], ConfState(Opponent(player[t])), Opponent(player[t]))
  /\ GoTo(t, "poll")
  /\ UNCHANGED <<board, lastBoard, lock, serverUp, currentGame, player, errno,
                 peer, clientVars>>

RejectDraw(t) ==
  /\ Processing(t) /\ \E m \in Messages : MayAnswer(t, m, "R")
  /\ SetGame(currentGame[t], "DRAW_REJ", Opponent(player[t]))
  /\ GoTo(t, "poll")
  /\ UNCHANGED <<board, lastBoard, lock, serverUp, currentGame, player, errno,
                 peer, clientVars>>

AcceptDraw(t) ==
  /\ Processing(t) /\ \E m \in Messages : MayAnswer(t, m, "A")
  /\ SetGame(currentGame[t], "GAME_OVER_DRAW_AGG", Opponent(player[t]))
  /\ Tell(t, "D")
  /\ Send(t) /\ GoTo(t, "poll")
  /\ UNCHANGED <<board, lastBoard, lock, currentGame, player, errno, peer, view>>

Accepts(t, m) ==
  \/ MayJoin(t, m, "WAITING_P1") \/ MayJoin(t, m, "WAITING_P2")
  \/ MayMove(t, m) \/ MayOffer(t, m)
  \/ MayAnswer(t, m, "A") \/ MayAnswer(t, m, "R")

\* All the branches that answer INVL and change nothing; RSGN has no other.
AnswerInvalid(t) ==
  /\ Processing(t)
  /\ \E m \in Messages : m.type # "WILD" /\ ~Accepts(t, m)
  /\ Send(t) /\ GoTo(t, "poll")
  /\ UNCHANGED <<gameVars, lock, currentGame, player, errno, peer, clientVars>>

\* A write outside an array ends the process: the build runs under AddressSanitizer.
Overrun(t) ==
  /\ Processing(t) /\ \E m \in Messages : m.type = "WILD"
  /\ serverUp' = FALSE
  /\ UNCHANGED <<gameVars, lock, threadVars, peer, clientVars>>

-----------------------------------------------------------------------------
Client(t) == ClientClose(t) \/ ClientReset(t)
Poll(t) == \/ TellMove(t) \/ TellDraw(t) \/ TellBegin(t) \/ TellOver(t)
           \/ PollQuietly(t)
Recv(t) == RecvNothing(t) \/ RecvMessage(t) \/ RecvEof(t) \/ RecvError(t)
Proc(t) == \/ JoinFirst(t) \/ JoinSecond(t) \/ Move(t) \/ OfferDraw(t)
           \/ RejectDraw(t) \/ AcceptDraw(t) \/ AnswerInvalid(t) \/ Overrun(t)

Next == \E t \in Threads :
          \/ Connect(t) \/ Client(t) \/ ChooseGame(t) \/ OutOfBounds(t)
          \/ Poll(t) \/ Recv(t) \/ RecordLoss(t) \/ Proc(t)

Spec == Init /\ [][Next]_vars

\* What a thread does of itself: at any time one of these at the most is enabled.
Runs(t) == ChooseGame(t) \/ Poll(t) \/ Recv(t) \/ Proc(t) \/ RecordLoss(t)

(***************************************************************************)
(* The operating system runs every thread again and again, and a mutex     *)
(* that stays free is obtained in the end.  Clients owe nothing, except    *)
(* that what a client sent before it left is finite, so recv reports the   *)
(* end or the error sooner or later.                                       *)
(***************************************************************************)
Fairness ==
  /\ \A t \in Threads : WF_vars(Runs(t))
  /\ \A t \in Leavers : SF_vars(RecvEof(t)) /\ SF_vars(RecvError(t))

FairSpec == Spec /\ Fairness

-----------------------------------------------------------------------------
(* What the server should guarantee.                                       *)

Seated(t, g, p) == currentGame[t] = g /\ player[t] = p
Running(g) == gameState[g] \in RunningStates
Over(g) == gameState[g] \in OverStates
Count(mark, g) == Cardinality({c \in Cells : board[g][c] = mark})

\* The type of every variable.
TypeOK ==
  /\ gameState \in [AllSlots -> States]
  /\ playerUnhandled \in [AllSlots -> 0..2]
  /\ board \in [AllSlots -> Boards]
  /\ lastBoard \in [AllSlots -> Boards]
  /\ lock \in Threads \cup {NoThread}
  /\ serverUp \in BOOLEAN
  /\ pc \in [Threads -> {"none", "find", "poll", "recv", "proc", "lost", "exit"}]
  /\ currentGame \in [Threads -> AllSlots]
  /\ player \in [Threads -> 0..2]
  /\ errno \in [Threads -> {"0", "EAGAIN", "ECONNRESET"}]
  /\ peer \in [Threads -> {"open", "closed", "eof", "reset", "broken"}]
  /\ view \in [Threads -> Boards]
  /\ told \in [Threads -> SUBSET {"W", "L", "D"}]

\* Several threads may wait on one slot, each having found it open, but no two
\* of them ever hold the same seat: PLAY is accepted under the mutex, by the
\* state of the game at that moment and not by what findOpenGame saw.
SeatsUnique ==
  \A s, t \in Threads :
    s # t /\ currentGame[s] = currentGame[t] /\ player[s] # 0 => player[s] # player[t]

\* A game that is being played has a thread in each seat that has not left its
\* loop, so both players can still be told and heard: every way out of the loop
\* takes the game out of the running states first.
RunningHasBothPlayers ==
  \A g \in AllSlots : Running(g) =>
    \A p \in {1, 2} : \E t \in Threads :
      Seated(t, g, p) /\ pc[t] \in {"poll", "recv", "proc", "lost"}

\* As long as a game is being played nobody has a line and a cell is free: the
\* test after a move is for the mover's line only, and still misses no end.
RunningUndecided ==
  \A g \in AllSlots : Running(g) => IsGameOver(board[g]) = -1

\* A win or a full grid is announced only with the board to show for it.
VerdictSound ==
  \A g \in AllSlots :
    /\ gameState[g] = "GAME_OVER_P1_WIN" =>
         CheckWin("X", board[g]) /\ ~CheckWin("O", board[g])
    /\ gameState[g] = "GAME_OVER_P2_WIN" =>
         CheckWin("O", board[g]) /\ ~CheckWin("X", board[g])
    /\ gameState[g] = "GAME_OVER_DRAW" =>
         Full(board[g]) /\ ~CheckWin("X", board[g]) /\ ~CheckWin("O", board[g])

\* O never gets ahead: through draw offers, answers and rejections player 2 has
\* never written more marks than player 1, and fewer when it is to move.
OTrailsX ==
  \A g \in AllSlots :
    /\ Count("O", g) <= Count("X", g)
    /\ gameState[g] \in {"WAITING_FOR_P2_MOVE", "WAITING_FOR_P1_DRAW_CONF"} =>
         Count("O", g) < Count("X", g)

\* What players 1 and 2 have been told, x and o, in a state and with an alert.  Who
\* ends a game is told at once, the other one when the alert is gone.  The other
\* one of a full grid is not told at all: it gets the DRAW message.
ResultsTold(state, alerted, x, o) ==
  CASE state = WinState(1) -> x = {"W"} /\ o = IF alerted = 2 THEN {} ELSE {"L"}
    [] state = WinState(2) -> o = {"W"} /\ x = IF alerted = 1 THEN {} ELSE {"L"}
    [] state = "GAME_OVER_DRAW_AGG" -> /\ x = IF alerted = 1 THEN {} ELSE {"D"}
                                       /\ o = IF alerted = 2 THEN {} ELSE {"D"}
    [] state = "GAME_OVER_DRAW" -> {x, o} = {{}, {"D"}}
    [] OTHER -> x = {} /\ o = {}

\* While nobody leaves, a win or an agreed draw is told to both players, to each
\* once and matching, by the time no alert stands: the player that ends the game is
\* told by proc_msg, the other one later and by its own thread.  After a full grid
\* only the player that filled it is ever told; nothing is told before the end.
VerdictsAgree ==
  \A s, t \in Threads, g \in AllSlots :
    Seated(s, g, 1) /\ Seated(t, g, 2) =>
      ResultsTold(gameState[g], playerUnhandled[g], told[s], told[t])

\* When a player is to move and is not waiting for its alert any more, the board
\* its client was last shown is the board of the game, whoever moved last.
MoverSawBoard ==
  \A t \in Threads : \A p \in {1, 2} :
    LET g == currentGame[t] IN
      player[t] = p /\ gameState[g] = MoveState(p) /\ playerUnhandled[g] # p
        => view[t] = board[g]

\* The test that would hand a finished slot to a new game never succeeds when a
\* thread holds the mutex: the alert that clears playerUnhandled leaves the loop
\* without giving the mutex back.  Finished slots are therefore never reused.
RetireUnreachable ==
  \A g \in AllSlots : Over(g) /\ playerUnhandled[g] = 0 => lock # NoThread

StaysOver == \A g \in AllSlots : Over(g) => Over(g)' /\ board'[g] = board[g]

\* A game that is over stays over, with the board it ended on: no late move, draw
\* answer or disconnect of the other thread brings it back.
OverIsFinal == [][StaysOver]_vars

\* The marks a step writes: one, on a free cell, by the seated player on turn.
OneMarkOnTurn ==
  \A g \in AllSlots : board'[g] # board[g] =>
    \E p \in {1, 2}, c \in Cells :
      /\ gameState[g] \in TurnStates(p)
      /\ \E t \in Threads : Seated(t, g, p) /\ pc[t] = "proc"
      /\ board[g][c] = Blank
      /\ board'[g] = [board[g] EXCEPT ![c] = MarkOf(p)]

\* A mark is never erased or overwritten, marks appear one at a time, and only
\* the seated player whose turn it is writes its own mark.
MarksPermanent == [][OneMarkOnTurn]_vars

\* A thread that told the end of some other game has left with the mutex: nothing
\* happens in game g from then on.
LostToOther(g) == lock # NoThread /\ pc[lock] = "exit" /\ currentGame[lock] # g

Owed(g, p) ==
  /\ playerUnhandled[g] = p
  /\ \E t \in Threads : Seated(t, g, p) /\ pc[t] # "exit"

\* An alert for a player whose thread is still in its loop is not left standing,
\* whatever other games do: it is told, or superseded, or the thread leaves because
\* the client is gone, unless another game ends first and takes the mutex with it.
AlertsDelivered ==
  \A g \in Slots, p \in {1, 2} :
    Owed(g, p) ~> ~Owed(g, p) \/ LostToOther(g) \/ ~serverUp

\* A connection error of a player in a running game ends that game, or the
\* process, unless another game ends first and takes the mutex with it: the thread
\* reads to the error and records the loss between the steps of other threads.
ResetForfeits ==
  \A g \in Slots :
    (\E t \in Threads : peer[t] = "reset" /\ player[t] # 0 /\ currentGame[t] = g /\ Running(g))
      ~> ~Running(g) \/ LostToOther(g) \/ ~serverUp
=============================================================================
