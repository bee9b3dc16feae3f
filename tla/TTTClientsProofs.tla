-------------------------- MODULE TTTClientsProofs --------------------------
(***************************************************************************)
(* Proofs about the server with its clients, for any number of threads and *)
(* games, any lines the clients send and any order in which they are sent, *)
(* joined and received.                                                    *)
(*                                                                         *)
(* The composed system implements the server: what is proved about Spec    *)
(* holds for ClientsSpec too.  On top of it LoopInv says where in its loop *)
(* each client is, relative to the game its thread plays.                  *)
(***************************************************************************)
EXTENDS TTTClients, TTTServerPlayProofs

-----------------------------------------------------------------------------
(* The composed system implements the server.                              *)

LEMMA ServerStep == [ClientsNext]_allVars => [Next]_vars
<1> SUFFICES ASSUME [ClientsNext]_allVars PROVE [Next]_vars
  OBVIOUS
<1>1. CASE UNCHANGED allVars
  BY <1>1 DEF allVars
<1>2. ASSUME NEW t \in Threads,
             \/ Starting(t) \/ ServerPoll(t) \/ ServerRecv(t) \/ ServerProc(t)
             \/ Enter(t) \/ Receive(t) \/ ReceiveEnd(t) \/ Quit(t) \/ LateReset(t)
      PROVE  [Next]_vars
  <2>1. CASE Starting(t)
    BY <2>1 DEF Starting, Next
  <2>2. CASE ServerPoll(t)
    BY <2>2 DEF ServerPoll, Next, Poll
  <2>3. CASE ServerRecv(t)
    BY <2>3 DEF ServerRecv, Next, Recv
  <2>4. CASE ServerProc(t)
    BY <2>4 DEF ServerProc, Process, Next, Proc
  <2>5. CASE Enter(t) \/ Receive(t) \/ ReceiveEnd(t)
    BY <2>5 DEF Enter, Receive, ReceiveEnd
  <2>6. CASE Quit(t) \/ LateReset(t)
    BY <2>6 DEF Quit, LateReset, Next, Client
  <2> QED BY <1>2, <2>1, <2>2, <2>3, <2>4, <2>5, <2>6
<1> QED BY <1>1, <1>2 DEF ClientsNext

\* Whatever the clients send and however the connections join it, the server behaves
\* as TTTServer says: recv, tokenize and proc_msg of a connection, poll by poll, take
\* only steps of a thread there, so every theorem about Spec is one about ClientsSpec.
THEOREM ClientsRunTheServer == ClientsSpec => Spec
<1>1. ClientsInit => Init
  BY DEF ClientsInit
<1> QED BY <1>1, ServerStep, PTL DEF ClientsSpec, Spec

-----------------------------------------------------------------------------
(* Types.                                                                  *)

Kinds == {"WAIT", "BEGN", "MOVD", "INVL", "DRAW", "OVER"}

ClientsTypeOK ==
  /\ session \in Sessions
  /\ client \in [Threads -> {"prompt", "recv", "gone"}]
  /\ waiting \in [Threads -> BOOLEAN]
  /\ line \in [Threads -> Nat \ {0}]
  /\ wire \in [Threads -> Seq(RawMessages)]
  /\ answers \in [Threads -> Seq(Kinds)]
  /\ swallowed \in [Threads -> BOOLEAN]
  /\ unanswered \in [Threads -> BOOLEAN]

\* What is left of a queue when the first k have been received.
LEMMA RestOfQueue ==
  ASSUME NEW S, NEW s \in Seq(S), NEW k \in 1..Len(s)
  PROVE  /\ SubSeq(s, k + 1, Len(s)) \in Seq(S)
         /\ Len(SubSeq(s, k + 1, Len(s))) = Len(s) - k
         /\ \A i \in 1..Len(s) - k : SubSeq(s, k + 1, Len(s))[i] = s[k + i]
  OBVIOUS

LEMMA OneMore ==
  ASSUME NEW S, NEW s \in Seq(S), NEW e \in S
  PROVE  /\ s \o <<e>> \in Seq(S) /\ s \o <<e>> # <<>>
         /\ Len(s \o <<e>>) = Len(s) + 1 /\ (s \o <<e>>)[Len(s) + 1] = e
         /\ \A i \in 1..Len(s) : (s \o <<e>>)[i] = s[i]
  OBVIOUS

LEMMA TwoMore ==
  ASSUME NEW S, NEW s \in Seq(S), NEW d \in S, NEW e \in S
  PROVE  /\ s \o <<d, e>> \in Seq(S) /\ s \o <<d, e>> # <<>>
         /\ Len(s \o <<d, e>>) = Len(s) + 2
  OBVIOUS

LEMMA ClientsTypeInit == ClientsInit => ClientsTypeOK
<1> SUFFICES ASSUME ClientsInit PROVE ClientsTypeOK
  OBVIOUS
<1>1. \A S : <<>> \in Seq(S)
  OBVIOUS
<1> QED BY <1>1 DEF ClientsInit, ClientsTypeOK

\* What the server sends for a message, and in a round.
LEMMA ProcessAnswers ==
  ASSUME ClientsTypeOK, NEW t \in Threads, NEW m, Process(t, m)
  PROVE  \/ /\ UNCHANGED unanswered
            /\ \/ \E e \in Kinds \ {"WAIT", "BEGN"} : Answers(t, <<e>>)
               \/ JoinFirst(t) /\ Answers(t, <<"WAIT">>)
               \/ JoinSecond(t) /\ Answers(t, <<"WAIT", "BEGN">>)
         \/ UNCHANGED answers /\ NoAnswerTo(t)
  BY DEF Process, Kinds, Silent

LEMMA PollAnswers ==
  ASSUME NEW t \in Threads, ServerPoll(t)
  PROVE  /\ UNCHANGED <<session, clientSide, wire, inbox, history>>
         /\ \/ UNCHANGED answers
            \/ \E e \in Kinds \ {"WAIT"} : Answers(t, <<e>>)
  BY DEF ServerPoll, Kinds, OverKind, Silent

LEMMA ClientsTypeStep == ClientsTypeOK /\ [ClientsNext]_allVars => ClientsTypeOK'
<1> SUFFICES ASSUME ClientsTypeOK, [ClientsNext]_allVars PROVE ClientsTypeOK'
  OBVIOUS
<1>1. CASE UNCHANGED allVars
  BY <1>1 DEF allVars, clientSide, history, ClientsTypeOK
<1>2. ASSUME NEW t \in Threads,
             \/ Starting(t) \/ ServerPoll(t) \/ ServerRecv(t) \/ ServerProc(t)
             \/ Enter(t) \/ Receive(t) \/ ReceiveEnd(t) \/ Quit(t) \/ LateReset(t)
      PROVE  ClientsTypeOK'
  <2>0. <<>> \in Seq(Kinds)
    OBVIOUS
  <2>01. answers[t] \in Seq(Kinds) /\ wire[t] \in Seq(RawMessages)
    BY DEF ClientsTypeOK
  <2>1. CASE Starting(t)
    BY <2>1 DEF Starting, clientSide, history, ClientsTypeOK
  <2>2. CASE ServerPoll(t)
    <3>1. CASE UNCHANGED answers
      BY <2>2, <3>1, PollAnswers DEF clientSide, history, ClientsTypeOK
    <3>2. CASE \E e \in Kinds : Answers(t, <<e>>)
      <4>1. answers' \in [Threads -> Seq(Kinds)]
        BY <2>01, <3>2, OneMore DEF Answers, ClientsTypeOK
      <4> QED BY <2>2, <4>1, PollAnswers DEF clientSide, history, ClientsTypeOK
    <3> QED BY <2>2, <3>1, <3>2, PollAnswers
  <2>3. CASE ServerRecv(t)
    <3>1. \/ UNCHANGED wire
          \/ \E k \in 1..Len(wire[t]) :
               wire' = [wire EXCEPT ![t] = SubSeq(wire[t], k + 1, Len(wire[t]))]
      BY <2>3 DEF ServerRecv
    <3>2. \A k \in 1..Len(wire[t]) :
            SubSeq(wire[t], k + 1, Len(wire[t])) \in Seq(RawMessages)
      BY <2>01, RestOfQueue
    <3>3. wire' \in [Threads -> Seq(RawMessages)]
      BY <3>1, <3>2 DEF ClientsTypeOK
    <3> QED BY <2>3, <3>3 DEF ServerRecv, clientSide, history, ClientsTypeOK
  <2>4. CASE ServerProc(t)
    <3>1. answers' \in [Threads -> Seq(Kinds)] /\ unanswered' \in [Threads -> BOOLEAN]
      <4>1. CASE UNCHANGED <<answers, unanswered>>
        BY <4>1 DEF ClientsTypeOK
      <4>2. CASE \E m : Process(t, m)
        <5> PICK m : Process(t, m)
          BY <4>2
        <5>1. CASE UNCHANGED answers /\ NoAnswerTo(t)
          BY <5>1 DEF NoAnswerTo, ClientsTypeOK
        <5>2. CASE UNCHANGED unanswered /\ \E e \in Kinds : Answers(t, <<e>>)
          BY <2>01, <5>2, OneMore DEF Answers, ClientsTypeOK
        <5>3. CASE UNCHANGED unanswered /\ Answers(t, <<"WAIT", "BEGN">>)
          <6>1. answers[t] \o <<"WAIT", "BEGN">> \in Seq(Kinds)
            BY <2>01, TwoMore DEF Kinds
          <6> QED BY <5>3, <6>1 DEF Answers, ClientsTypeOK
        <5>4. "WAIT" \in Kinds
          BY DEF Kinds
        <5> QED BY <5>1, <5>2, <5>3, <5>4, ProcessAnswers
      <4> QED BY <2>4, <4>1, <4>2 DEF ServerProc
    <3> QED BY <2>4, <3>1 DEF ServerProc, clientSide, ClientsTypeOK
  <2>5. CASE Enter(t)
    <3>1. wire' \in [Threads -> Seq(RawMessages)] /\ line' \in [Threads -> Nat \ {0}]
          /\ unanswered' \in [Threads -> BOOLEAN]
      <4>1. CASE NextLine(t)
        <5>1. line[t] \in 1..Len(Lines(t)) /\ Lines(t) \in Seq(RawMessages)
          BY <4>1, SessionsAssumption DEF NextLine, Lines, ClientsTypeOK
        <5>2. Lines(t)[line[t]] \in RawMessages
          BY <5>1
        <5> QED BY <2>01, <4>1, <5>2 DEF NextLine, SendLine, ClientsTypeOK
      <4>2. CASE EmptyLine(t)
        BY <4>2 DEF EmptyLine, NoAnswerTo, ClientsTypeOK
      <4> QED BY <2>5, <4>1, <4>2 DEF Enter
    <3> QED BY <2>5, <3>1 DEF Enter, ClientsTypeOK
  <2>6. CASE Receive(t)
    <3>1. answers' \in [Threads -> Seq(Kinds)]
      BY <2>01, <2>6, RestOfQueue DEF Receive, ClientsTypeOK
    <3>2. waiting' \in [Threads -> BOOLEAN] /\ swallowed' \in [Threads -> BOOLEAN]
      BY <2>6 DEF Receive, WaitsAfter, ClientsTypeOK
    <3>3. client' \in [Threads -> {"prompt", "recv", "gone"}]
      BY <2>6 DEF Receive, ClientsTypeOK
    <3> QED BY <2>6, <3>1, <3>2, <3>3 DEF Receive, ClientsTypeOK
  <2>7. CASE ReceiveEnd(t)
    BY <2>7 DEF ReceiveEnd, history, ClientsTypeOK
  <2>8. CASE Quit(t)
    BY <2>0, <2>8 DEF Quit, history, ClientsTypeOK
  <2>9. CASE LateReset(t)
    BY <2>0, <2>9 DEF LateReset, clientSide, history, ClientsTypeOK
  <2> QED BY <1>2, <2>1, <2>2, <2>3, <2>4, <2>5, <2>6, <2>7, <2>8, <2>9
<1> QED BY <1>1, <1>2 DEF ClientsNext

-----------------------------------------------------------------------------
(* What a step of the server does to one game, and to the seats.           *)

Finished(g) == Over(g) \/ gameState[g] = "OVER_READY_FOR_NEW"

\* Thread s, if it plays game g, clears its own alert, takes a seat that is free,
\* hands the turn to its opponent or rejects its offer.
GoesOn(s, g) ==
  \/ gameState'[g] = gameState[g] /\ playerUnhandled'[g] = playerUnhandled[g]
  \/ /\ currentGame[s] = g /\ gameState'[g] = gameState[g]
     /\ playerUnhandled[g] = player[s] /\ playerUnhandled'[g] = 0
  \/ gameState[g] = "WAITING_P1" /\ gameState'[g] = "WAITING_P2"
  \/ gameState[g] = "WAITING_P2" /\ gameState'[g] = "BEGN" /\ playerUnhandled'[g] = 1
  \/ \E p \in {1, 2} :
       /\ currentGame[s] = g /\ player[s] = p /\ playerUnhandled'[g] = Opponent(p)
       /\ \/ gameState[g] \in TurnStates(p)
             /\ gameState'[g] \in {MoveState(Opponent(p)), ConfState(Opponent(p))}
          \/ gameState[g] = ConfState(p) /\ gameState'[g] = "DRAW_REJ"

\* The steps that leave the games as they are, or only clear the alert of s.
LEMMA OnlyCleared ==
  ASSUME TypeOK, NEW s \in Threads, NEW g \in AllSlots, UNCHANGED gameState,
         \/ UNCHANGED playerUnhandled
         \/ /\ playerUnhandled[currentGame[s]] = player[s]
            /\ playerUnhandled' = [playerUnhandled EXCEPT ![currentGame[s]] = 0]
  PROVE  GoesOn(s, g) /\ (Finished(g) => Finished(g)')
  BY DEF GoesOn, Finished, Over, TypeOK

\* The steps that change the game of s.
LEMMA OneGameChanges ==
  ASSUME TypeOK, NEW s \in Threads, NEW g \in AllSlots, NEW state, NEW alerted,
         SetGame(currentGame[s], state, alerted),
         g = currentGame[s] => GoesOn(s, g) \/ Finished(g)',
         g = currentGame[s] => (Finished(g) => Finished(g)')
  PROVE  (GoesOn(s, g) \/ Finished(g)') /\ (Finished(g) => Finished(g)')
  BY DEF GoesOn, SetGame, Finished, Over, TypeOK

LEMMA AfterMoveCases ==
  ASSUME NEW p \in {1, 2}, NEW over \in {-1, 0, 1, 2}
  PROVE  AfterMove(over, p) \in {MoveState(Opponent(p))} \cup OverStates
  BY DEF AfterMove, WinState, OverStates

LEMMA GameStep ==
  ASSUME TypeOK, RetireUnreachable, NEW s \in Threads, NEW g \in AllSlots,
         \/ Connect(s) \/ Client(s) \/ ChooseGame(s) \/ OutOfBounds(s)
         \/ Poll(s) \/ Recv(s) \/ RecordLoss(s) \/ Proc(s)
  PROVE  (GoesOn(s, g) \/ Finished(g)') /\ (Finished(g) => Finished(g)')
<1>0. PICK h \in AllSlots : h = currentGame[s]
  BY DEF TypeOK
<1>1. CASE \/ Connect(s) \/ Client(s) \/ ChooseGame(s) \/ OutOfBounds(s) \/ Recv(s)
           \/ AnswerInvalid(s) \/ Overrun(s)
  <2>1. UNCHANGED <<gameState, playerUnhandled>>
    BY <1>1 DEF Connect, Client, ClientClose, ClientReset, ChooseGame, OutOfBounds, Recv,
                RecvNothing, RecvMessage, RecvEof, RecvError, AnswerInvalid, Overrun,
                gameVars
  <2> QED BY <2>1, OnlyCleared
<1>2. CASE TellMove(s) \/ TellDraw(s) \/ TellBegin(s) \/ TellOver(s)
  <2>1. playerUnhandled[h] = player[s]
    BY <1>0, <1>2 DEF TellMove, TellDraw, TellBegin, TellOver, TellsMove, TellsOffer,
                TellsRejection, TellsBegin, TellsOver, Alerted
  <2>2. UNCHANGED gameState /\ playerUnhandled' = [playerUnhandled EXCEPT ![h] = 0]
    BY <1>0, <1>2 DEF TellMove, TellDraw, TellBegin, TellOver, Handled
  <2> QED BY <1>0, <2>1, <2>2, OnlyCleared
<1>3. CASE PollQuietly(s)
  <2>1. ~(gameState[h] \in OverStates /\ playerUnhandled[h] = 0)
    BY <1>0, <1>3 DEF PollQuietly, Polling, RetireUnreachable, Over
  <2>2. UNCHANGED <<gameState, playerUnhandled>>
    BY <1>0, <1>3, <2>1 DEF PollQuietly
  <2> QED BY <2>2, OnlyCleared
<1>4. CASE RecordLoss(s)
  <2>1. \E state, alerted : SetGame(h, state, alerted)
                            /\ state \in OverStates \cup {"OVER_READY_FOR_NEW"}
    BY <1>0, <1>4 DEF RecordLoss, ResignState, OverStates
  <2>2. PICK state, alerted : SetGame(h, state, alerted)
                              /\ state \in OverStates \cup {"OVER_READY_FOR_NEW"}
    BY <2>1
  <2>3. gameState'[h] = state
    BY <1>0, <2>2 DEF SetGame, TypeOK
  <2>4. Finished(h)'
    BY <2>2, <2>3 DEF Finished, Over
  <2> QED BY <2>2, <2>4, <1>0, OneGameChanges
<1>5. CASE JoinFirst(s)
  <2>1. SetGame(h, "WAITING_P2", playerUnhandled[h]) /\ gameState[h] = "WAITING_P1"
    BY <1>0, <1>5 DEF JoinFirst, MayJoin
  <2>2. gameState'[h] = "WAITING_P2"
    BY <1>0, <2>1 DEF SetGame, TypeOK
  <2>3. GoesOn(s, h) /\ ~Finished(h)
    BY <2>1, <2>2 DEF GoesOn, Finished, Over, OverStates
  <2> QED BY <2>1, <2>3, <1>0, OneGameChanges
<1>6. CASE JoinSecond(s)
  <2>1. SetGame(h, "BEGN", 1) /\ gameState[h] = "WAITING_P2"
    BY <1>0, <1>6 DEF JoinSecond, MayJoin
  <2>2. gameState'[h] = "BEGN" /\ playerUnhandled'[h] = 1
    BY <1>0, <2>1 DEF SetGame, TypeOK
  <2>3. GoesOn(s, h) /\ ~Finished(h)
    BY <2>1, <2>2 DEF GoesOn, Finished, Over, OverStates
  <2> QED BY <2>1, <2>3, <1>0, OneGameChanges
<1>7. CASE Move(s) \/ OfferDraw(s)
  <2>0. PICK p \in 0..2 : p = player[s]
    BY DEF TypeOK
  <2>1. p \in {1, 2} /\ gameState[h] \in TurnStates(p)
    BY <1>0, <2>0, <1>7 DEF Move, MayMove, OfferDraw, MayOffer, OnTurn
  <2>2. PICK state : /\ SetGame(h, state, Opponent(p))
                     /\ state \in {MoveState(Opponent(p)), ConfState(Opponent(p))}
                                    \cup OverStates
    <3>1. CASE Move(s)
      <4>1. SetGame(h, AfterMove(IsGameOver(board'[h]), p), Opponent(p))
        BY <1>0, <2>0, <3>1 DEF Move
      <4> QED BY <2>1, <4>1, AfterMoveCases, IsGameOverType
    <3>2. CASE OfferDraw(s)
      BY <1>0, <2>0, <3>2 DEF OfferDraw
    <3> QED BY <1>0, <1>7, <3>1, <3>2
  <2>3. gameState'[h] = state /\ playerUnhandled'[h] = Opponent(p)
    BY <1>0, <2>2 DEF SetGame, TypeOK
  <2>4. GoesOn(s, h) \/ Finished(h)'
    BY <1>0, <2>0, <2>1, <2>2, <2>3 DEF GoesOn, Finished, Over
  <2>5. ~Finished(h)
    BY <2>1 DEF TurnStates, Finished, Over, OverStates
  <2> QED BY <2>2, <2>4, <2>5, <1>0, OneGameChanges
<1>8. CASE RejectDraw(s) \/ AcceptDraw(s)
  <2>0. PICK p \in 0..2 : p = player[s]
    BY DEF TypeOK
  <2>1. p \in {1, 2} /\ gameState[h] = ConfState(p)
    BY <1>0, <2>0, <1>8 DEF RejectDraw, AcceptDraw, MayAnswer
  <2>2. PICK state : /\ SetGame(h, state, Opponent(p))
                     /\ state \in {"DRAW_REJ", "GAME_OVER_DRAW_AGG"}
    BY <1>0, <2>0, <1>8 DEF RejectDraw, AcceptDraw
  <2>3. gameState'[h] = state /\ playerUnhandled'[h] = Opponent(p)
    BY <1>0, <2>2 DEF SetGame, TypeOK
  <2>4. GoesOn(s, h) \/ Finished(h)'
    BY <1>0, <2>0, <2>1, <2>2, <2>3 DEF GoesOn, Finished, Over, OverStates
  <2>5. ~Finished(h)
    BY <2>1 DEF ConfState, Finished, Over, OverStates
  <2> QED BY <2>2, <2>4, <2>5, <1>0, OneGameChanges
<1> QED BY <1>1, <1>2, <1>3, <1>4, <1>5, <1>6, <1>7, <1>8 DEF Poll, Proc

-----------------------------------------------------------------------------
(* Where the clients are in their loops.                                   *)

StateOf(t) == gameState[currentGame[t]]
AlertOf(t) == playerUnhandled[currentGame[t]]

\* The server has everything the client sent behind it.
Quiet(t) == wire[t] = <<>> /\ pc[t] # "proc"

\* A client that waits has an answer to come.
Pending(t) == client[t] = "recv" =>
  wire[t] # <<>> \/ pc[t] = "proc" \/ answers[t] # <<>> \/ unanswered[t]

\* Until its thread has a seat, tttx.c has one message on its way at the most.
BeforeSeat(t) ==
  /\ player[t] = 0 /\ ~waiting[t] /\ ~swallowed[t]
  /\ pc[t] \in {"none", "find"} \/ StateOf(t) \in {"WAITING_P1", "WAITING_P2"}
  /\ client[t] = "prompt" => Quiet(t) /\ answers[t] = <<>>
  /\ client[t] = "recv" =>
       \/ pc[t] # "proc" /\ Len(wire[t]) = 1 /\ answers[t] = <<>>
       \/ pc[t] = "proc" /\ wire[t] = <<>> /\ answers[t] = <<>>
       \/ Quiet(t) /\ answers[t] = <<"INVL">>
       \/ Quiet(t) /\ answers[t] = <<>> /\ unanswered[t]

\* Player 1 has its seat, and its BEGN is not sent.
BeforeBegin(t) ==
  /\ player[t] = 1 /\ Quiet(t) /\ client[t] = "recv" /\ ~swallowed[t]
  /\ StateOf(t) = "WAITING_P2" \/ (StateOf(t) = "BEGN" /\ AlertOf(t) = 1)
  /\ IF waiting[t] THEN answers[t] = <<>> ELSE answers[t] = <<"WAIT">>

\* After n messages the client has at most one alert to receive, the first of the
\* game after BEGN: neither player has got further than that.
NextAlert(t, n) ==
  /\ Len(answers[t]) \in {n, n + 1}
  /\ \/ player[t] = 1 /\ StateOf(t) = "BEGN" /\ AlertOf(t) # 1 /\ Len(answers[t]) = n
     \/ player[t] = 2 /\ StateOf(t) = "BEGN" /\ AlertOf(t) # 2 /\ Len(answers[t]) = n
     \/ /\ player[t] = 2 /\ StateOf(t) = "WAITING_FOR_P2_MOVE"
        /\ Len(answers[t]) = n + 1 => AlertOf(t) # 2 /\ answers[t][n + 1] = "MOVD"
     \/ /\ player[t] = 2 /\ StateOf(t) = "WAITING_FOR_P2_DRAW_CONF"
        /\ Len(answers[t]) = n + 1 => AlertOf(t) # 2 /\ answers[t][n + 1] = "DRAW"

\* BEGN is sent and tttx.c has not received it.
BeginSent(t) ==
  /\ Quiet(t) /\ client[t] = "recv" /\ ~swallowed[t]
  /\ \/ waiting[t] /\ NextAlert(t, 1) /\ answers[t][1] = "BEGN"
     \/ /\ ~waiting[t] /\ NextAlert(t, 2)
        /\ answers[t][1] = "WAIT" /\ answers[t][2] = "BEGN"

\* tttx.c took BEGN together with WAIT.  It waits, for MOVD at best; a draw offer
\* does not wake it.
BeginMissed(t) ==
  /\ Quiet(t) /\ client[t] = "recv" /\ waiting[t] /\ NextAlert(t, 0)
  /\ swallowed[t] \/ StateOf(t) = "WAITING_FOR_P2_DRAW_CONF"

Playing(t) ==
  /\ player[t] # 0 /\ ~waiting[t] /\ ~swallowed[t]
  /\ \A i \in 1..Len(answers[t]) : answers[t][i] # "WAIT"
  /\ Pending(t)

\* The game is over, or belongs to two others.
NotPlaying(t) ==
  /\ pc[t] \notin {"none", "find"}
  /\ \/ Finished(currentGame[t])
     \/ player[t] = 0 /\ StateOf(t) \notin {"WAITING_P1", "WAITING_P2"}

LoopOf(t) ==
  IF Program(t) = "ttt" THEN ~waiting[t] /\ Pending(t)
  ELSE \/ BeforeSeat(t) \/ BeforeBegin(t) \/ BeginSent(t) \/ BeginMissed(t)
       \/ Playing(t) \/ NotPlaying(t)

\* As long as the process runs, every client that is there is at one of these points.
LoopInv == serverUp => \A t \in Threads : client[t] # "gone" => LoopOf(t)

ServerInv == TypeOK /\ RetireUnreachable /\ SeatInv

LEMMA LoopInit == ClientsInit => LoopInv
<1> SUFFICES ASSUME ClientsInit, NEW t \in Threads PROVE LoopOf(t)
  BY DEF LoopInv
<1>1. Pending(t)
  BY DEF ClientsInit, Pending
<1>2. BeforeSeat(t)
  BY DEF ClientsInit, Init, BeforeSeat, Quiet
<1> QED BY <1>1, <1>2 DEF LoopOf, ClientsInit

\* What happens to the game of t in a step that t does not take, or in which its
\* thread finds nothing to do.
GameOf(t) ==
  \/ Finished(currentGame[t])'
  \/ StateOf(t)' = StateOf(t) /\ AlertOf(t)' \in {0, AlertOf(t)}
     /\ (AlertOf(t)' = AlertOf(t) \/ AlertOf(t) # player[t])
  \/ StateOf(t) = "WAITING_P1" /\ StateOf(t)' = "WAITING_P2"
  \/ StateOf(t) = "WAITING_P2" /\ StateOf(t)' = "BEGN" /\ AlertOf(t)' = 1
  \/ \E p \in {1, 2} \ {player[t]} :
       /\ AlertOf(t)' = Opponent(p)
       /\ \/ StateOf(t) \in TurnStates(p)
             /\ StateOf(t)' \in {MoveState(Opponent(p)), ConfState(Opponent(p))}
          \/ StateOf(t) = ConfState(p) /\ StateOf(t)' = "DRAW_REJ"

SameClient(t) ==
  /\ session' = session /\ client'[t] = client[t] /\ waiting'[t] = waiting[t]
  /\ wire'[t] = wire[t] /\ answers'[t] = answers[t] /\ swallowed'[t] = swallowed[t]
  /\ unanswered'[t] = unanswered[t]

SameThread(t) ==
  /\ player'[t] = player[t] /\ currentGame'[t] = currentGame[t]
  /\ pc'[t] = "proc" <=> pc[t] = "proc"
  /\ pc'[t] \in {"none", "find"} <=> pc[t] \in {"none", "find"}

LEMMA LoopKept ==
  ASSUME ServerInv, ClientsTypeOK, NEW t \in Threads, LoopOf(t), client[t] # "gone",
         SameClient(t), SameThread(t), GameOf(t),
         Finished(currentGame[t]) => Finished(currentGame[t])'
  PROVE  LoopOf(t)'
<1> USE DEF SameClient, SameThread
<1>0. /\ Program(t)' = Program(t) /\ (Quiet(t)' <=> Quiet(t))
      /\ (Pending(t)' <=> Pending(t)) /\ player[t] \in 0..2
      /\ (player[t] # 0 => pc[t] \notin {"none", "find"})
  BY DEF Program, Quiet, Pending, ServerInv, TypeOK, SeatInv
<1>1. CASE Program(t) = "ttt"
  BY <1>0, <1>1 DEF LoopOf
<1>2. CASE Program(t) # "ttt" /\ pc[t] \notin {"none", "find"} /\ Finished(currentGame[t])'
  <2>1. NotPlaying(t)'
    BY <1>2 DEF NotPlaying
  <2> QED BY <1>0, <1>2, <2>1 DEF LoopOf
<1>3. CASE Program(t) # "ttt" /\ BeforeSeat(t)
  <2>1. StateOf(t) \in {"WAITING_P1", "WAITING_P2"} =>
          \/ StateOf(t)' \in {"WAITING_P1", "WAITING_P2"} \/ StateOf(t)' = "BEGN"
          \/ Finished(currentGame[t])'
    BY DEF GameOf, TurnStates, ConfState
  <2>2. BeforeSeat(t)' \/ NotPlaying(t)'
    BY <1>0, <1>3, <2>1 DEF BeforeSeat, NotPlaying
  <2> QED BY <1>0, <1>3, <2>2 DEF LoopOf
<1>4. CASE Program(t) # "ttt" /\ BeforeBegin(t) /\ ~Finished(currentGame[t])'
  <2>1. StateOf(t)' = "WAITING_P2" \/ (StateOf(t)' = "BEGN" /\ AlertOf(t)' = 1)
    BY <1>4 DEF GameOf, BeforeBegin, TurnStates, ConfState
  <2>2. BeforeBegin(t)'
    BY <1>0, <1>4, <2>1 DEF BeforeBegin
  <2> QED BY <1>0, <1>4, <2>2 DEF LoopOf
<1>5. ASSUME NEW n \in {0, 1, 2}, NextAlert(t, n), ~Finished(currentGame[t])'
      PROVE  NextAlert(t, n)'
             /\ (StateOf(t) = "WAITING_FOR_P2_DRAW_CONF" => StateOf(t)' = StateOf(t))
  <2>0. Len(answers[t]) \in Nat
    BY DEF ClientsTypeOK
  <2>1. CASE player[t] = 1
    BY <1>0, <1>5, <2>0, <2>1 DEF GameOf, NextAlert, TurnStates, ConfState
  <2>2. CASE player[t] = 2
    BY <1>0, <1>5, <2>0, <2>2
       DEF GameOf, NextAlert, TurnStates, ConfState, MoveState, Opponent
  <2> QED BY <1>5, <2>1, <2>2 DEF NextAlert
<1>6. CASE Program(t) # "ttt" /\ BeginSent(t) /\ ~Finished(currentGame[t])'
  <2>1. BeginSent(t)'
    BY <1>0, <1>5, <1>6 DEF BeginSent
  <2> QED BY <1>0, <1>6, <2>1 DEF LoopOf
<1>7. CASE Program(t) # "ttt" /\ BeginMissed(t) /\ ~Finished(currentGame[t])'
  <2>1. BeginMissed(t)'
    BY <1>0, <1>5, <1>7 DEF BeginMissed
  <2> QED BY <1>0, <1>7, <2>1 DEF LoopOf
<1>8. CASE Program(t) # "ttt" /\ Playing(t)
  <2>1. Playing(t)'
    BY <1>0, <1>8 DEF Playing
  <2> QED BY <1>0, <1>8, <2>1 DEF LoopOf
<1>9. CASE Program(t) # "ttt" /\ NotPlaying(t)
  <2>1. StateOf(t) \notin {"WAITING_P1", "WAITING_P2"} =>
          StateOf(t)' \notin {"WAITING_P1", "WAITING_P2"}
    BY DEF GameOf, MoveState, ConfState, Finished, Over, OverStates, StateOf
  <2>2. NotPlaying(t)'
    BY <1>9, <2>1 DEF NotPlaying
  <2> QED BY <1>0, <1>9, <2>2 DEF LoopOf
<1>10. BeforeBegin(t) \/ BeginSent(t) \/ BeginMissed(t) => pc[t] \notin {"none", "find"}
  BY <1>0 DEF BeforeBegin, BeginSent, BeginMissed, NextAlert
<1> QED BY <1>1, <1>2, <1>3, <1>4, <1>6, <1>7, <1>8, <1>9, <1>10 DEF LoopOf

-----------------------------------------------------------------------------
(* The steps of others.                                                    *)

LEMMA OthersThread ==
  ASSUME TypeOK, NEW s \in Threads, NEW t \in Threads, s # t,
         \/ Connect(s) \/ Client(s) \/ ChooseGame(s) \/ OutOfBounds(s)
         \/ Poll(s) \/ Recv(s) \/ RecordLoss(s) \/ Proc(s)
  PROVE  SameThread(t)
<1> USE DEF TypeOK, GoTo, SameThread
<1>1. CASE Connect(s) \/ Client(s) \/ ChooseGame(s) \/ OutOfBounds(s) \/ RecordLoss(s)
  BY <1>1 DEF Connect, Client, ClientClose, ClientReset, ChooseGame, OutOfBounds,
              RecordLoss, threadVars
<1>2. CASE Poll(s)
  BY <1>2 DEF Poll, TellMove, TellDraw, TellBegin, TellOver, PollQuietly, Handled
<1>3. CASE Recv(s)
  BY <1>3 DEF Recv, RecvNothing, RecvMessage, RecvEof, RecvError
<1>4. CASE Proc(s)
  BY <1>4 DEF Proc, JoinFirst, JoinSecond, Move, OfferDraw, RejectDraw, AcceptDraw,
              AnswerInvalid, Overrun, threadVars
<1> QED BY <1>1, <1>2, <1>3, <1>4

LEMMA OthersClient ==
  ASSUME ClientsTypeOK, NEW s \in Threads, NEW t \in Threads, s # t,
         \/ Starting(s) \/ ServerPoll(s) \/ ServerRecv(s) \/ ServerProc(s)
         \/ Enter(s) \/ Receive(s) \/ ReceiveEnd(s) \/ Quit(s) \/ LateReset(s)
  PROVE  SameClient(t)
<1> USE DEF ClientsTypeOK, SameClient, clientSide, history, Answers, NoAnswerTo, Silent
<1>1. CASE Starting(s) \/ ServerPoll(s)
  BY <1>1 DEF Starting, ServerPoll
<1>2. CASE ServerRecv(s)
  BY <1>2 DEF ServerRecv
<1>3. CASE ServerProc(s)
  <2>1. answers'[t] = answers[t] /\ unanswered'[t] = unanswered[t]
    BY <1>3 DEF ServerProc, Process
  <2> QED BY <1>3, <2>1 DEF ServerProc
<1>4. CASE Enter(s)
  BY <1>4 DEF Enter, NextLine, SendLine, EmptyLine
<1>5. CASE Receive(s)
  BY <1>5 DEF Receive
<1>6. CASE ReceiveEnd(s) \/ Quit(s) \/ LateReset(s)
  BY <1>6 DEF ReceiveEnd, Quit, LateReset
<1> QED BY <1>1, <1>2, <1>3, <1>4, <1>5, <1>6

\* The server's part of a step of the composed system.
LEMMA ThreadStep ==
  ASSUME NEW s \in Threads,
         \/ Starting(s) \/ ServerPoll(s) \/ ServerRecv(s) \/ ServerProc(s)
         \/ Enter(s) \/ Receive(s) \/ ReceiveEnd(s) \/ Quit(s) \/ LateReset(s)
  PROVE  \/ UNCHANGED vars
         \/ Connect(s) \/ Client(s) \/ ChooseGame(s) \/ OutOfBounds(s)
         \/ Poll(s) \/ Recv(s) \/ RecordLoss(s) \/ Proc(s)
<1>1. CASE Starting(s) \/ ServerPoll(s)
  BY <1>1 DEF Starting, ServerPoll, Poll
<1>2. CASE ServerRecv(s)
  BY <1>2 DEF ServerRecv, Recv
<1>3. CASE ServerProc(s)
  BY <1>3 DEF ServerProc, Process, Proc
<1>4. CASE Enter(s) \/ Receive(s) \/ ReceiveEnd(s) \/ Quit(s) \/ LateReset(s)
  BY <1>4 DEF Enter, Receive, ReceiveEnd, Quit, LateReset, Client
<1> QED BY <1>1, <1>2, <1>3, <1>4

\* The game of t goes on as GameOf says when s is another thread, or when t itself
\* does nothing but wait.
LEMMA GameOfOthers ==
  ASSUME ServerInv, NEW s \in Threads, NEW t \in Threads, s # t,
         currentGame'[t] = currentGame[t], GoesOn(s, currentGame[t])
  PROVE  GameOf(t)
<1> PICK g \in AllSlots : g = currentGame[t]
  BY DEF ServerInv, TypeOK
<1>1. /\ StateOf(t) = gameState[g] /\ StateOf(t)' = gameState'[g]
      /\ AlertOf(t) = playerUnhandled[g] /\ AlertOf(t)' = playerUnhandled'[g]
  BY DEF StateOf, AlertOf
<1>2. /\ playerUnhandled[g] \in 0..2 /\ player[s] \in 0..2
      /\ currentGame[s] = g /\ player[s] # 0 => player[s] # player[t]
  BY DEF ServerInv, TypeOK, SeatInv, SeatsUnique
<1>3. CASE gameState'[g] = gameState[g] /\ playerUnhandled'[g] = playerUnhandled[g]
  BY <1>1, <1>3 DEF GameOf
<1>4. CASE /\ currentGame[s] = g /\ gameState'[g] = gameState[g]
           /\ playerUnhandled[g] = player[s] /\ playerUnhandled'[g] = 0
  BY <1>1, <1>2, <1>4 DEF GameOf
<1>5. CASE \E p \in {1, 2} :
       /\ currentGame[s] = g /\ player[s] = p /\ playerUnhandled'[g] = Opponent(p)
       /\ \/ gameState[g] \in TurnStates(p)
             /\ gameState'[g] \in {MoveState(Opponent(p)), ConfState(Opponent(p))}
          \/ gameState[g] = ConfState(p) /\ gameState'[g] = "DRAW_REJ"
  BY <1>1, <1>2, <1>5 DEF GameOf
<1> QED BY <1>1, <1>3, <1>4, <1>5 DEF GoesOn, GameOf

LEMMA LoopOthers ==
  ASSUME ServerInv, ClientsTypeOK, NEW s \in Threads, NEW t \in Threads, s # t,
         LoopOf(t), client[t] # "gone",
         \/ Starting(s) \/ ServerPoll(s) \/ ServerRecv(s) \/ ServerProc(s)
         \/ Enter(s) \/ Receive(s) \/ ReceiveEnd(s) \/ Quit(s) \/ LateReset(s)
  PROVE  LoopOf(t)'
<1>1. SameClient(t)
  BY OthersClient
<1>2. PICK g \in AllSlots : g = currentGame[t]
  BY DEF ServerInv, TypeOK
<1>3. CASE UNCHANGED vars
  <2>1. /\ SameThread(t) /\ GameOf(t)
        /\ Finished(currentGame[t]) => Finished(currentGame[t])'
    BY <1>3 DEF vars, gameVars, threadVars, SameThread, GameOf, StateOf, AlertOf, Finished,
                Over
  <2> QED BY <1>1, <1>2, <2>1, LoopKept
<1>4. CASE \/ Connect(s) \/ Client(s) \/ ChooseGame(s) \/ OutOfBounds(s)
           \/ Poll(s) \/ Recv(s) \/ RecordLoss(s) \/ Proc(s)
  <2>1. SameThread(t)
    BY <1>4, OthersThread DEF ServerInv
  <2>2. (GoesOn(s, g) \/ Finished(g)') /\ (Finished(g) => Finished(g)')
    BY <1>4, GameStep DEF ServerInv
  <2>3. currentGame'[t] = g
    BY <1>2, <2>1 DEF SameThread
  <2>4. GameOf(t)
    <3>1. CASE GoesOn(s, g)
      BY <1>2, <2>3, <3>1, GameOfOthers
    <3>2. CASE Finished(g)'
      BY <2>3, <3>2 DEF GameOf, Finished, Over
    <3> QED BY <2>2, <3>1, <3>2
  <2>5. Finished(currentGame[t]) => Finished(currentGame[t])'
    BY <1>2, <2>2, <2>3 DEF Finished, Over
  <2> QED BY <1>1, <2>1, <2>4, <2>5, LoopKept
<1> QED BY <1>3, <1>4, ThreadStep

-----------------------------------------------------------------------------
(* The steps of a thread.                                                  *)

\* A round in which the thread finds nothing, or leaves.
LEMMA LoopQuietRound ==
  ASSUME ServerInv, ClientsTypeOK, NEW t \in Threads, LoopOf(t), client[t] # "gone",
         SameClient(t),
         \/ Connect(t) \/ RecordLoss(t) \/ PollQuietly(t) \/ RecvNothing(t) \/ RecvEof(t)
         \/ RecvError(t)
  PROVE  LoopOf(t)'
<1> PICK g \in AllSlots : g = currentGame[t]
  BY DEF ServerInv, TypeOK
<1>1. SameThread(t)
  BY DEF ServerInv, TypeOK, SameThread, GoTo, Connect, RecordLoss, PollQuietly, RecvNothing,
         RecvEof, RecvError, Polling
<1>2. currentGame'[t] = g
  BY <1>1 DEF SameThread
<1>3. (GoesOn(t, g) \/ Finished(g)') /\ (Finished(g) => Finished(g)')
  BY GameStep DEF ServerInv, Poll, Recv
<1>4. CASE RecordLoss(t)
  <2>1. \E state, alerted : SetGame(g, state, alerted)
                            /\ state \in OverStates \cup {"OVER_READY_FOR_NEW"}
    BY <1>4 DEF RecordLoss, ResignState, OverStates
  <2>2. Finished(g)'
    BY <2>1 DEF SetGame, ServerInv, TypeOK, Finished, Over
  <2>3. GameOf(t) /\ Finished(currentGame[t])'
    BY <1>2, <2>2 DEF GameOf, Finished, Over
  <2> QED BY <1>1, <2>3, LoopKept
<1>5. CASE Connect(t) \/ PollQuietly(t) \/ RecvNothing(t) \/ RecvEof(t) \/ RecvError(t)
  <2>1. UNCHANGED <<gameState, playerUnhandled>>
    <3>1. CASE PollQuietly(t)
      <4>1. ~(gameState[g] \in OverStates /\ playerUnhandled[g] = 0)
        BY <3>1 DEF PollQuietly, Polling, ServerInv, RetireUnreachable, Over
      <4> QED BY <3>1, <4>1 DEF PollQuietly
    <3> QED BY <1>5, <3>1 DEF Connect, RecvNothing, RecvEof, RecvError, gameVars
  <2>2. GameOf(t) /\ (Finished(currentGame[t]) => Finished(currentGame[t])')
    BY <1>2, <2>1 DEF GameOf, StateOf, AlertOf, Finished, Over
  <2> QED BY <1>1, <2>2, LoopKept
<1> QED BY <1>4, <1>5

LEMMA LoopChooses ==
  ASSUME ServerInv, NEW t \in Threads, LoopOf(t), SameClient(t), ChooseGame(t)
  PROVE  LoopOf(t)'
<1>1. /\ pc[t] = "find" /\ pc'[t] = "poll" /\ player[t] = 0 /\ player'[t] = 0
  BY DEF ChooseGame, GoTo, ServerInv, TypeOK, SeatInv
<1>2. Program(t)' = Program(t) /\ (Quiet(t)' <=> Quiet(t)) /\ (Pending(t)' <=> Pending(t))
  BY <1>1 DEF SameClient, Program, Quiet, Pending
<1>3. CASE Program(t) = "ttt"
  BY <1>2, <1>3 DEF LoopOf, SameClient
<1>4. CASE Program(t) # "ttt"
  <2>1. BeforeSeat(t)
    BY <1>1, <1>4 DEF LoopOf, BeforeBegin, BeginSent, BeginMissed, NextAlert, Playing, NotPlaying
  <2>2. BeforeSeat(t)' \/ NotPlaying(t)'
    BY <1>1, <1>2, <2>1 DEF BeforeSeat, NotPlaying, SameClient
  <2> QED BY <1>2, <1>4, <2>2 DEF LoopOf
<1> QED BY <1>3, <1>4

\* A round in which the thread tells its client something.
LEMMA LoopTold ==
  ASSUME ServerInv, ClientsTypeOK, NEW t \in Threads, LoopOf(t), client[t] # "gone",
         UNCHANGED <<session, clientSide, wire, history>>,
         NEW e \in Kinds \ {"WAIT"}, Answers(t, <<e>>),
         pc[t] = "poll", pc'[t] \in {"recv", "exit"},
         UNCHANGED <<player, currentGame, gameState>>,
         AlertOf(t) = player[t], AlertOf(t)' = 0,
         \/ StateOf(t) = "BEGN" /\ e = "BEGN"
         \/ player[t] = 2 /\ StateOf(t) = "WAITING_FOR_P2_MOVE" /\ e = "MOVD"
         \/ player[t] = 2 /\ StateOf(t) = "WAITING_FOR_P2_DRAW_CONF" /\ e = "DRAW"
         \/ StateOf(t) \notin {"WAITING_P1", "WAITING_P2", "BEGN", "WAITING_FOR_P2_MOVE",
                               "WAITING_FOR_P2_DRAW_CONF"}
  PROVE  LoopOf(t)'
<1> DEFINE q == answers[t]
<1>0. q \in Seq(Kinds) /\ Len(q) \in Nat
  BY DEF ClientsTypeOK
<1>1. /\ answers'[t] \in Seq(Kinds) /\ answers'[t] # <<>>
      /\ Len(answers'[t]) = Len(q) + 1 /\ answers'[t][Len(q) + 1] = e
      /\ \A i \in 1..Len(q) : answers'[t][i] = q[i]
  BY <1>0, OneMore DEF Answers, ClientsTypeOK
<1>2. /\ Program(t)' = Program(t) /\ client'[t] = client[t] /\ waiting'[t] = waiting[t]
      /\ wire'[t] = wire[t] /\ swallowed'[t] = swallowed[t] /\ player'[t] = player[t]
      /\ (Quiet(t)' <=> Quiet(t)) /\ Pending(t)' /\ StateOf(t)' = StateOf(t)
  BY <1>1 DEF Program, clientSide, history, Quiet, Pending, StateOf
<1>3. CASE Program(t) = "ttt"
  BY <1>2, <1>3 DEF LoopOf
<1>4. CASE Program(t) # "ttt" /\ BeforeBegin(t)
  <2>1. StateOf(t) = "BEGN" /\ e = "BEGN"
    BY <1>4 DEF BeforeBegin
  <2>2. /\ player'[t] = 1 /\ AlertOf(t)' = 0 /\ StateOf(t)' = "BEGN"
        /\ Quiet(t)' /\ client'[t] = "recv" /\ ~swallowed'[t]
    BY <1>2, <1>4, <2>1 DEF BeforeBegin
  <2>3. CASE waiting[t]
    <3>1. q = <<>>
      BY <1>4, <2>3 DEF BeforeBegin
    <3>2. Len(q) = 0
      BY <3>1
    <3>3. Len(answers'[t]) = 1 /\ answers'[t][1] = "BEGN"
      BY <1>1, <2>1, <3>2
    <3>4. NextAlert(t, 1)'
      BY <2>2, <3>3 DEF NextAlert
    <3>5. BeginSent(t)'
      BY <1>2, <2>2, <2>3, <3>3, <3>4 DEF BeginSent
    <3> QED BY <1>2, <1>4, <3>5 DEF LoopOf
  <2>4. CASE ~waiting[t]
    <3>1. q = <<"WAIT">>
      BY <1>4, <2>4 DEF BeforeBegin
    <3>2. Len(q) = 1 /\ q[1] = "WAIT"
      BY <3>1
    <3>3. Len(answers'[t]) = 2 /\ answers'[t][1] = "WAIT" /\ answers'[t][2] = "BEGN"
      BY <1>1, <2>1, <3>2
    <3>4. NextAlert(t, 2)'
      BY <2>2, <3>3 DEF NextAlert
    <3>5. BeginSent(t)'
      BY <1>2, <2>2, <2>4, <3>3, <3>4 DEF BeginSent
    <3> QED BY <1>2, <1>4, <3>5 DEF LoopOf
  <2> QED BY <2>3, <2>4
<1>5. ASSUME NEW n \in {0, 1, 2}, NextAlert(t, n)
      PROVE  NextAlert(t, n)' /\ Len(q) = n
  BY <1>0, <1>1, <1>2, <1>5 DEF NextAlert
<1>6. CASE Program(t) # "ttt" /\ BeginSent(t)
  <2>1. CASE waiting[t]
    <3>1. NextAlert(t, 1)' /\ Len(q) = 1 /\ q[1] = "BEGN"
      BY <1>5, <1>6, <2>1 DEF BeginSent
    <3>2. answers'[t][1] = "BEGN"
      BY <1>1, <3>1
    <3>3. BeginSent(t)'
      BY <1>2, <1>6, <2>1, <3>1, <3>2 DEF BeginSent
    <3> QED BY <1>2, <1>6, <3>3 DEF LoopOf
  <2>2. CASE ~waiting[t]
    <3>1. NextAlert(t, 2)' /\ Len(q) = 2 /\ q[1] = "WAIT" /\ q[2] = "BEGN"
      BY <1>5, <1>6, <2>2 DEF BeginSent
    <3>2. answers'[t][1] = "WAIT" /\ answers'[t][2] = "BEGN"
      BY <1>1, <3>1
    <3>3. BeginSent(t)'
      BY <1>2, <1>6, <2>2, <3>1, <3>2 DEF BeginSent
    <3> QED BY <1>2, <1>6, <3>3 DEF LoopOf
  <2> QED BY <2>1, <2>2
<1>7. CASE Program(t) # "ttt" /\ BeginMissed(t)
  <2>1. BeginMissed(t)'
    BY <1>2, <1>5, <1>7 DEF BeginMissed
  <2> QED BY <1>2, <1>7, <2>1 DEF LoopOf
<1>8. CASE Program(t) # "ttt" /\ Playing(t)
  <2>1. \A i \in 1..Len(answers'[t]) : answers'[t][i] # "WAIT"
    BY <1>0, <1>1, <1>8, SMTT(60) DEF Playing
  <2>2. Playing(t)'
    BY <1>2, <1>8, <2>1 DEF Playing
  <2> QED BY <1>2, <1>8, <2>2 DEF LoopOf
<1>9. CASE Program(t) # "ttt" /\ NotPlaying(t)
  <2>1. NotPlaying(t)'
    BY <1>2, <1>9 DEF NotPlaying, Finished, Over, StateOf
  <2> QED BY <1>2, <1>9, <2>1 DEF LoopOf
<1>10. ~BeforeSeat(t)
  BY DEF BeforeSeat
<1> QED BY <1>3, <1>4, <1>6, <1>7, <1>8, <1>9, <1>10 DEF LoopOf

LEMMA LoopPoll ==
  ASSUME ServerInv, ClientsTypeOK, NEW t \in Threads, LoopOf(t), client[t] # "gone",
         ServerPoll(t)
  PROVE  LoopOf(t)'
<1> PICK g \in AllSlots : g = currentGame[t]
  BY DEF ServerInv, TypeOK
<1>0. /\ pc \in [Threads -> {"none", "find", "poll", "recv", "proc", "lost", "exit"}]
      /\ playerUnhandled \in [AllSlots -> 0..2] /\ player[t] \in 0..2
  BY DEF ServerInv, TypeOK
<1>1. UNCHANGED <<session, clientSide, wire, history>>
  BY DEF ServerPoll
<1> USE <1>0 DEF Kinds, GoTo, StateOf, AlertOf, Alerted, Handled, Polling
<1>2. CASE TellMove(t) /\ Answers(t, <<"MOVD">>)
  <2>1. /\ pc[t] = "poll" /\ pc'[t] = "recv" /\ UNCHANGED <<player, currentGame, gameState>>
        /\ AlertOf(t) = player[t] /\ AlertOf(t)' = 0
    BY <1>2 DEF TellMove, TellsMove
  <2>2. \/ player[t] = 2 /\ StateOf(t) = "WAITING_FOR_P2_MOVE"
        \/ StateOf(t) = "WAITING_FOR_P1_MOVE"
    BY <1>2 DEF TellMove, TellsMove, MoveState
  <2> QED BY <1>1, <1>2, <2>1, <2>2, LoopTold
<1>3. CASE TellDraw(t) /\ Answers(t, <<"DRAW">>)
  <2>1. /\ pc[t] = "poll" /\ pc'[t] = "recv" /\ UNCHANGED <<player, currentGame, gameState>>
        /\ AlertOf(t) = player[t] /\ AlertOf(t)' = 0
    BY <1>3 DEF TellDraw, TellsOffer, TellsRejection
  <2>2. \/ player[t] = 2 /\ StateOf(t) = "WAITING_FOR_P2_DRAW_CONF"
        \/ StateOf(t) \in {"WAITING_FOR_P1_DRAW_CONF", "DRAW_REJ"}
    BY <1>3 DEF TellDraw, TellsOffer, TellsRejection, ConfState
  <2> QED BY <1>1, <1>3, <2>1, <2>2, LoopTold
<1>4. CASE TellBegin(t) /\ Answers(t, <<"BEGN">>)
  <2>1. /\ pc[t] = "poll" /\ pc'[t] = "recv" /\ UNCHANGED <<player, currentGame, gameState>>
        /\ AlertOf(t) = player[t] /\ AlertOf(t)' = 0
    BY <1>4 DEF TellBegin, TellsBegin
  <2>2. StateOf(t) = "BEGN"
    BY <1>4 DEF TellBegin, TellsBegin
  <2> QED BY <1>1, <1>4, <2>1, <2>2, LoopTold
<1>5. CASE TellOver(t) /\ Answers(t, <<OverKind(gameState[currentGame[t]])>>)
  <2>1. /\ pc[t] = "poll" /\ pc'[t] = "exit" /\ UNCHANGED <<player, currentGame, gameState>>
        /\ AlertOf(t) = player[t] /\ AlertOf(t)' = 0
    BY <1>5 DEF TellOver, TellsOver
  <2>2. StateOf(t) \in OverStates
    BY <1>5 DEF TellOver, TellsOver
  <2>3. /\ OverKind(gameState[currentGame[t]]) \in Kinds \ {"WAIT"}
        /\ StateOf(t) \notin {"WAITING_P1", "WAITING_P2", "BEGN", "WAITING_FOR_P2_MOVE",
                              "WAITING_FOR_P2_DRAW_CONF"}
    BY <2>2 DEF OverKind, OverStates
  <2> QED BY <1>1, <1>5, <2>1, <2>3, LoopTold
<1>6. CASE PollQuietly(t) /\ Silent(t)
  <2>1. SameClient(t)
    BY <1>1, <1>6 DEF Silent, SameClient, clientSide, history
  <2> QED BY <1>6, <2>1, LoopQuietRound
<1> QED BY <1>2, <1>3, <1>4, <1>5, <1>6 DEF ServerPoll

\* A round in which the thread receives bytes of its client.
LEMMA LoopReceived ==
  ASSUME ServerInv, ClientsTypeOK, NEW t \in Threads, LoopOf(t), client[t] # "gone",
         RecvMessage(t), NEW k \in 1..Len(wire[t]),
         wire' = [wire EXCEPT ![t] = SubSeq(@, k + 1, Len(@))],
         UNCHANGED <<session, clientSide, answers, history>>
  PROVE  LoopOf(t)'
<1>0. pc'[t] = "proc" /\ UNCHANGED <<gameState, playerUnhandled, player, currentGame>>
  BY DEF RecvMessage, GoTo, gameVars, ServerInv, TypeOK
<1>1. /\ Program(t)' = Program(t) /\ client'[t] = client[t] /\ waiting'[t] = waiting[t]
      /\ answers'[t] = answers[t] /\ swallowed'[t] = swallowed[t] /\ player'[t] = player[t]
      /\ Pending(t)' /\ StateOf(t)' = StateOf(t)
  BY <1>0 DEF Program, clientSide, history, Pending, StateOf
<1>2. wire[t] \in Seq(RawMessages) /\ Len(wire[t]) \in Nat /\ wire[t] # <<>> /\ ~Quiet(t)
  BY DEF ClientsTypeOK, Quiet
<1>3. CASE Program(t) = "ttt"
  BY <1>1, <1>3 DEF LoopOf
<1>4. CASE Program(t) # "ttt" /\ BeforeSeat(t)
  <2>1. Len(wire[t]) = 1 /\ client[t] = "recv" /\ answers[t] = <<>>
    BY <1>2, <1>4 DEF BeforeSeat, Quiet, LoopOf, ClientsTypeOK
  <2>2. k = 1
    BY <2>1
  <2>3. wire'[t] = SubSeq(wire[t], k + 1, Len(wire[t]))
    BY DEF ClientsTypeOK
  <2>4. wire'[t] = <<>>
    BY <1>2, <2>1, <2>2, <2>3
  <2>5. pc[t] \notin {"none", "find"}
    BY DEF RecvMessage
  <2>6. BeforeSeat(t)'
    BY <1>0, <1>1, <1>4, <2>1, <2>4, <2>5 DEF BeforeSeat
  <2> QED BY <1>1, <1>4, <2>6 DEF LoopOf
<1>5. CASE Program(t) # "ttt" /\ Playing(t)
  <2>1. Playing(t)'
    BY <1>1, <1>5 DEF Playing
  <2> QED BY <1>1, <1>5, <2>1 DEF LoopOf
<1>6. CASE Program(t) # "ttt" /\ NotPlaying(t)
  <2>1. NotPlaying(t)'
    BY <1>0, <1>1, <1>6 DEF NotPlaying, Finished, Over, StateOf
  <2> QED BY <1>1, <1>6, <2>1 DEF LoopOf
<1> QED BY <1>2, <1>3, <1>4, <1>5, <1>6 DEF LoopOf, BeforeBegin, BeginSent, BeginMissed

LEMMA LoopRecv ==
  ASSUME ServerInv, ClientsTypeOK, NEW t \in Threads, LoopOf(t), client[t] # "gone",
         ServerRecv(t)
  PROVE  LoopOf(t)'
<1>1. CASE (RecvNothing(t) \/ RecvEof(t) \/ RecvError(t)) /\ UNCHANGED wire
  <2>1. SameClient(t)
    BY <1>1 DEF ServerRecv, SameClient, clientSide, history
  <2> QED BY <1>1, <2>1, LoopQuietRound
<1>2. CASE /\ RecvMessage(t)
           /\ \E k \in 1..Len(wire[t]) :
                wire' = [wire EXCEPT ![t] = SubSeq(@, k + 1, Len(@))]
  BY <1>2, LoopReceived DEF ServerRecv
<1> QED BY <1>1, <1>2 DEF ServerRecv

\* proc_msg runs on what the client sent.
LEMMA LoopProcess ==
  ASSUME ServerInv, ClientsTypeOK, NEW t \in Threads, LoopOf(t), client[t] # "gone",
         NEW m, Process(t, m), UNCHANGED <<session, clientSide, wire, swallowed>>
  PROVE  LoopOf(t)'
<1> DEFINE q == answers[t]
<1>0. /\ q \in Seq(Kinds) /\ Len(q) \in Nat
      /\ player \in [Threads -> 0..2] /\ currentGame[t] \in AllSlots
      /\ pc \in [Threads -> {"none", "find", "poll", "recv", "proc", "lost", "exit"}]
  BY DEF ClientsTypeOK, ServerInv, TypeOK
<1>1. pc[t] = "proc" /\ pc'[t] = "poll" /\ UNCHANGED currentGame
  BY <1>0 DEF Process, GoTo, Processing, JoinFirst, JoinSecond, Move, OfferDraw, RejectDraw,
              AcceptDraw, AnswerInvalid
<1>2. /\ Program(t)' = Program(t) /\ client'[t] = client[t] /\ waiting'[t] = waiting[t]
      /\ wire'[t] = wire[t] /\ swallowed'[t] = swallowed[t] /\ ~Quiet(t)
  BY <1>1 DEF Program, clientSide, Quiet
<1>3. /\ answers'[t] # <<>> \/ unanswered'[t]
      /\ \A e \in Kinds : Answers(t, <<e>>) =>
           /\ Len(answers'[t]) = Len(q) + 1 /\ answers'[t][Len(q) + 1] = e
           /\ \A i \in 1..Len(q) : answers'[t][i] = q[i]
  <2>1. \A e \in Kinds : Answers(t, <<e>>) =>
          /\ answers'[t] # <<>>
          /\ Len(answers'[t]) = Len(q) + 1 /\ answers'[t][Len(q) + 1] = e
          /\ \A i \in 1..Len(q) : answers'[t][i] = q[i]
    BY <1>0, OneMore DEF Answers, ClientsTypeOK
  <2>2. Answers(t, <<"WAIT", "BEGN">>) => answers'[t] # <<>>
    BY <1>0, TwoMore DEF Answers, ClientsTypeOK, Kinds
  <2>3. NoAnswerTo(t) => unanswered'[t]
    BY DEF NoAnswerTo, ClientsTypeOK
  <2>4. "WAIT" \in Kinds
    BY DEF Kinds
  <2> QED BY <2>1, <2>2, <2>3, <2>4, ProcessAnswers
<1>4. Pending(t)'
  BY <1>3 DEF Pending
<1>5. CASE Program(t) = "ttt"
  BY <1>2, <1>4, <1>5 DEF LoopOf
<1>6. CASE Program(t) # "ttt" /\ BeforeSeat(t)
  <2>1. /\ client[t] = "recv" /\ wire[t] = <<>> /\ q = <<>> /\ player[t] = 0
        /\ ~waiting[t] /\ ~swallowed[t] /\ StateOf(t) \in {"WAITING_P1", "WAITING_P2"}
    BY <1>1, <1>2, <1>6 DEF BeforeSeat, Quiet, LoopOf, ClientsTypeOK
  <2>2. Quiet(t)'
    BY <1>1, <1>2, <2>1 DEF Quiet
  <2>3. CASE JoinFirst(t) /\ Answers(t, <<"WAIT">>)
    <3>1. player'[t] = 1 /\ StateOf(t)' = "WAITING_P2"
      BY <1>0, <1>1, <2>3 DEF JoinFirst, SetGame, StateOf, ServerInv, TypeOK
    <3>2. answers'[t] = <<"WAIT">>
      BY <2>1, <2>3 DEF Answers, ClientsTypeOK
    <3>3. BeforeBegin(t)'
      BY <1>2, <2>1, <2>2, <3>1, <3>2 DEF BeforeBegin
    <3> QED BY <1>2, <1>6, <3>3 DEF LoopOf
  <2>4. CASE JoinSecond(t) /\ Answers(t, <<"WAIT", "BEGN">>)
    <3>1. player'[t] = 2 /\ StateOf(t)' = "BEGN" /\ AlertOf(t)' = 1
      BY <1>0, <1>1, <2>4 DEF JoinSecond, SetGame, StateOf, AlertOf, ServerInv, TypeOK
    <3>2. answers'[t] = <<"WAIT", "BEGN">>
      BY <2>1, <2>4 DEF Answers, ClientsTypeOK
    <3>3. NextAlert(t, 2)' /\ answers'[t][1] = "WAIT" /\ answers'[t][2] = "BEGN"
      BY <3>1, <3>2 DEF NextAlert
    <3>4. BeginSent(t)'
      BY <1>2, <2>1, <2>2, <3>3 DEF BeginSent
    <3> QED BY <1>2, <1>6, <3>4 DEF LoopOf
  <2>5. CASE AnswerInvalid(t) /\ Answers(t, <<"INVL">>)
    <3>1. player'[t] = 0 /\ StateOf(t)' = StateOf(t)
      BY <1>1, <2>1, <2>5 DEF AnswerInvalid, StateOf, gameVars
    <3>2. answers'[t] = <<"INVL">>
      BY <2>1, <2>5 DEF Answers, ClientsTypeOK
    <3>3. BeforeSeat(t)'
      BY <1>2, <2>1, <2>2, <3>1, <3>2 DEF BeforeSeat
    <3> QED BY <1>2, <1>6, <3>3 DEF LoopOf
  <2>6. ~(Move(t) \/ OfferDraw(t) \/ RejectDraw(t) \/ AcceptDraw(t))
    BY <2>1 DEF Move, OfferDraw, RejectDraw, AcceptDraw, MayMove, MayOffer, MayAnswer, OnTurn
  <2> QED BY <2>3, <2>4, <2>5, <2>6 DEF Process
<1>7. CASE Program(t) # "ttt" /\ Playing(t)
  <2>1. player[t] # 0 /\ ~JoinFirst(t) /\ ~JoinSecond(t)
    BY <1>7 DEF Playing, JoinFirst, JoinSecond, MayJoin
  <2>2. player'[t] = player[t]
    BY <2>1 DEF Process, Move, OfferDraw, RejectDraw, AcceptDraw, AnswerInvalid
  <2>3. UNCHANGED answers \/ \E e \in Kinds \ {"WAIT"} : Answers(t, <<e>>)
    BY <2>1, ProcessAnswers
  <2>4. \A i \in 1..Len(answers'[t]) : answers'[t][i] # "WAIT"
    <3>1. \A i \in 1..Len(q) : q[i] # "WAIT"
      BY <1>7 DEF Playing
    <3>2. CASE \E e \in Kinds \ {"WAIT"} : Answers(t, <<e>>)
      <4> PICK e \in Kinds \ {"WAIT"} : Answers(t, <<e>>)
        BY <3>2
      <4>1. /\ Len(answers'[t]) = Len(q) + 1 /\ answers'[t][Len(q) + 1] = e
            /\ \A i \in 1..Len(q) : answers'[t][i] = q[i]
        BY <1>3
      <4>2. \A i \in 1..Len(q) + 1 : i \in 1..Len(q) \/ i = Len(q) + 1
        BY <1>0
      <4> QED BY <3>1, <4>1, <4>2
    <3> QED BY <2>3, <3>1, <3>2
  <2>5. Playing(t)'
    BY <1>2, <1>4, <1>7, <2>2, <2>4 DEF Playing
  <2> QED BY <1>2, <1>7, <2>5 DEF LoopOf
<1>8. CASE Program(t) # "ttt" /\ NotPlaying(t)
  <2>1. Proc(t)
    BY DEF Process, Proc
  <2>2. PICK g \in AllSlots : g = currentGame[t]
    BY <1>0
  <2>3. Finished(g) => Finished(g)'
    BY <2>1, GameStep DEF ServerInv
  <2>4. CASE Finished(g)
    BY <1>1, <1>2, <1>8, <2>2, <2>3, <2>4 DEF LoopOf, NotPlaying, Finished, Over
  <2>5. CASE player[t] = 0 /\ StateOf(t) \notin {"WAITING_P1", "WAITING_P2"}
    <3>1. AnswerInvalid(t)
      BY <2>5 DEF Process, Move, OfferDraw, RejectDraw, AcceptDraw, MayMove, MayOffer,
                  MayAnswer, OnTurn, JoinFirst, JoinSecond, MayJoin, StateOf
    <3>2. player'[t] = 0 /\ StateOf(t)' = StateOf(t)
      BY <1>1, <2>5, <3>1 DEF AnswerInvalid, StateOf, gameVars
    <3>3. NotPlaying(t)'
      BY <1>1, <2>5, <3>2 DEF NotPlaying
    <3> QED BY <1>2, <1>8, <3>3 DEF LoopOf
  <2> QED BY <1>8, <2>2, <2>4, <2>5 DEF NotPlaying, Finished, Over
<1> QED BY <1>2, <1>5, <1>6, <1>7, <1>8 DEF LoopOf, BeforeBegin, BeginSent, BeginMissed

-----------------------------------------------------------------------------
(* The steps of a client.                                                  *)

LEMMA LoopEnters ==
  ASSUME ServerInv, ClientsTypeOK, NEW t \in Threads, LoopOf(t), Enter(t)
  PROVE  LoopOf(t)'
<1>0. /\ client[t] = "prompt" /\ client'[t] = "recv"
      /\ UNCHANGED <<vars, session, waiting, answers, swallowed>>
  BY DEF Enter, ClientsTypeOK
<1>1. /\ Program(t)' = Program(t) /\ waiting'[t] = waiting[t] /\ pc'[t] = pc[t]
      /\ answers'[t] = answers[t] /\ swallowed'[t] = swallowed[t] /\ player'[t] = player[t]
      /\ StateOf(t)' = StateOf(t)
  BY <1>0 DEF Program, StateOf, vars, gameVars, threadVars
<1>2. \/ \E raw \in RawMessages : wire'[t] = Append(wire[t], raw)
      \/ unanswered'[t] /\ wire'[t] = wire[t]
  <2>1. CASE NextLine(t)
    <3>1. line[t] \in 1..Len(Lines(t)) /\ Lines(t) \in Seq(RawMessages)
      BY <2>1, SessionsAssumption DEF NextLine, Lines, ClientsTypeOK
    <3>2. Lines(t)[line[t]] \in RawMessages
      BY <3>1
    <3> QED BY <2>1, <3>2 DEF NextLine, SendLine, ClientsTypeOK
  <2>2. CASE EmptyLine(t)
    BY <2>2 DEF EmptyLine, NoAnswerTo, ClientsTypeOK
  <2> QED BY <2>1, <2>2 DEF Enter
<1>3. wire[t] \in Seq(RawMessages)
  BY DEF ClientsTypeOK
<1>4. Pending(t)'
  <2>1. ASSUME NEW raw \in RawMessages PROVE Append(wire[t], raw) # <<>>
    BY <1>3
  <2> QED BY <1>2, <2>1 DEF Pending
<1>5. CASE Program(t) = "ttt"
  BY <1>1, <1>4, <1>5 DEF LoopOf
<1>6. CASE Program(t) # "ttt" /\ BeforeSeat(t)
  <2>1. pc[t] # "proc" /\ wire[t] = <<>> /\ answers[t] = <<>>
    BY <1>0, <1>6 DEF BeforeSeat, Quiet
  <2>2. ASSUME NEW raw \in RawMessages PROVE Len(Append(wire[t], raw)) = 1
    BY <2>1
  <2>3. Len(wire'[t]) = 1 \/ (unanswered'[t] /\ wire'[t] = <<>>)
    BY <1>2, <2>1, <2>2
  <2>4. BeforeSeat(t)'
    BY <1>0, <1>1, <1>6, <2>1, <2>3 DEF BeforeSeat, Quiet
  <2> QED BY <1>1, <1>6, <2>4 DEF LoopOf
<1>7. CASE Program(t) # "ttt" /\ Playing(t)
  <2>1. Playing(t)'
    BY <1>1, <1>4, <1>7 DEF Playing
  <2> QED BY <1>1, <1>7, <2>1 DEF LoopOf
<1>8. CASE Program(t) # "ttt" /\ NotPlaying(t)
  <2>1. NotPlaying(t)'
    BY <1>0, <1>1, <1>8 DEF NotPlaying, Finished, Over, StateOf, vars, gameVars, threadVars
  <2> QED BY <1>1, <1>8, <2>1 DEF LoopOf
<1> QED BY <1>0, <1>5, <1>6, <1>7, <1>8 DEF LoopOf, BeforeBegin, BeginSent, BeginMissed

\* What NextAlert says once k of the answers have been received.
LEMMA NextAlertLater ==
  ASSUME ClientsTypeOK, NEW t \in Threads, NEW n \in {0, 1, 2}, NextAlert(t, n),
         UNCHANGED vars, NEW k \in 1..Len(answers[t]),
         answers' = [answers EXCEPT ![t] = SubSeq(@, k + 1, Len(@))]
  PROVE  /\ k \in 1..n => NextAlert(t, n - k)'
         /\ k = n + 1 => NextAlert(t, 0)' /\ answers'[t] = <<>>
<1> DEFINE q == answers[t]
           r == SubSeq(q, k + 1, Len(q))
<1>1. q \in Seq(Kinds) /\ Len(q) \in {n, n + 1} /\ answers'[t] = r
  BY DEF ClientsTypeOK, NextAlert
<1>2. r \in Seq(Kinds) /\ Len(r) = Len(q) - k /\ \A i \in 1..Len(q) - k : r[i] = q[k + i]
  BY <1>1, RestOfQueue
<1>3. StateOf(t)' = StateOf(t) /\ AlertOf(t)' = AlertOf(t) /\ player'[t] = player[t]
  BY DEF vars, gameVars, threadVars, StateOf, AlertOf
<1> HIDE DEF r
<1>4. CASE k \in 1..n
  <2> DEFINE m == n - k
  <2>1. /\ m \in {0, 1, 2} /\ k + (m + 1) = n + 1
        /\ Len(q) = n => Len(r) = m
        /\ Len(q) = n + 1 => Len(r) = m + 1 /\ r[m + 1] = q[n + 1]
    <3>1. m \in {0, 1, 2} /\ k + (m + 1) = n + 1
      BY <1>4
    <3>2. Len(q) = n + 1 => m + 1 \in 1..Len(q) - k
      BY <1>4
    <3>3. Len(q) = n + 1 => r[m + 1] = q[n + 1]
      <4> HIDE DEF m
      <4>1. Len(q) = n + 1 => r[m + 1] = q[k + (m + 1)]
        BY <1>2, <3>2
      <4> QED BY <3>1, <4>1
    <3> QED BY <1>2, <3>1, <3>3
  <2>2. Len(r) = m + 1 => Len(q) = n + 1
    BY <1>1, <1>2, <1>4
  <2> HIDE DEF m
  <2>3. Len(r) \in {m, m + 1}
    BY <1>1, <2>1
  <2>4. NextAlert(t, m)'
    <3>1. CASE Len(q) = n
      BY <1>1, <1>3, <2>1, <2>3, <3>1 DEF NextAlert
    <3>2. CASE Len(q) = n + 1
      BY <1>1, <1>3, <2>1, <2>3, <3>2 DEF NextAlert
    <3> QED BY <1>1, <3>1, <3>2
  <2> QED BY <1>4, <2>4 DEF m
<1>5. CASE k = n + 1
  <2>1. Len(q) = n + 1
    BY <1>1, <1>5
  <2>2. Len(r) = 0
    BY <1>2, <1>5, <2>1
  <2>3. r = <<>>
    BY <1>2, <2>2
  <2>4. NextAlert(t, 0)'
    BY <1>1, <1>3, <2>1, <2>2 DEF NextAlert
  <2> QED BY <1>1, <1>5, <2>3, <2>4
<1> QED BY <1>4, <1>5

LEMMA LoopReceives ==
  ASSUME ServerInv, ClientsTypeOK, NEW t \in Threads, LoopOf(t), Receive(t)
  PROVE  LoopOf(t)'
<1> DEFINE q == answers[t]
           wait == WaitsAfter(t, Head(q))
           begun(k) == \E i \in 2..k : q[i] = "BEGN"
<1>0. PICK k \in 1..Len(q) :
        /\ answers' = [answers EXCEPT ![t] = SubSeq(@, k + 1, Len(@))]
        /\ swallowed' = [swallowed EXCEPT ![t] = wait /\ begun(k)]
  BY DEF Receive
<1>1. /\ client[t] = "recv" /\ q # <<>> /\ q \in Seq(Kinds) /\ Head(q) = q[1]
      /\ Len(q) \in Nat \ {0}
  BY DEF Receive, ClientsTypeOK
<1>2. /\ waiting'[t] = wait /\ client'[t] = IF wait THEN "recv" ELSE "prompt"
      /\ swallowed'[t] = (wait /\ begun(k))
      /\ UNCHANGED <<vars, session, wire>>
  BY <1>0 DEF Receive, ClientsTypeOK
<1>3. /\ answers'[t] \in Seq(Kinds) /\ Len(answers'[t]) = Len(q) - k
      /\ \A i \in 1..Len(q) - k : answers'[t][i] = q[k + i]
  <2>1. answers'[t] = SubSeq(q, k + 1, Len(q))
    BY <1>0 DEF ClientsTypeOK
  <2> QED BY <1>1, <2>1, RestOfQueue, SMTT(60)
<1>4. /\ Program(t)' = Program(t) /\ player'[t] = player[t] /\ StateOf(t)' = StateOf(t)
      /\ AlertOf(t)' = AlertOf(t) /\ (Quiet(t)' <=> Quiet(t)) /\ pc'[t] = pc[t]
  BY <1>2 DEF Program, StateOf, AlertOf, Quiet, vars, gameVars, threadVars
<1>5. ~wait => ~waiting'[t] /\ ~swallowed'[t] /\ client'[t] = "prompt" /\ Pending(t)'
  BY <1>2 DEF Pending
<1>5b. /\ k = 1 => ~begun(k)
       /\ k \in {2, 3} /\ q[2] = "BEGN" => begun(k)
  <2>1. k = 1 => 2..k = {}
    OBVIOUS
  <2>2. k \in {2, 3} => 2 \in 2..k
    OBVIOUS
  <2> QED BY <2>1, <2>2
<1> HIDE DEF wait, begun
<1>6. CASE Program(t) = "ttt"
  <2>1. ~wait
    BY <1>6 DEF wait, WaitsAfter
  <2> QED BY <1>4, <1>5, <1>6, <2>1 DEF LoopOf
<1>7. CASE Program(t) # "ttt" /\ BeforeSeat(t)
  <2>1. q = <<"INVL">> /\ ~waiting[t] /\ Quiet(t)
    BY <1>1, <1>7 DEF BeforeSeat
  <2>2. ~wait
    BY <1>1, <2>1 DEF wait, WaitsAfter
  <2>3. k = 1 /\ Len(q) = 1
    BY <2>1
  <2>4. answers'[t] = <<>>
    BY <1>3, <2>3
  <2>5. BeforeSeat(t)'
    BY <1>4, <1>5, <1>7, <2>1, <2>2, <2>4 DEF BeforeSeat
  <2> QED BY <1>4, <1>7, <2>5 DEF LoopOf
<1>8. CASE Program(t) # "ttt" /\ BeforeBegin(t)
  <2>1. q = <<"WAIT">> /\ Quiet(t)
    BY <1>1, <1>8 DEF BeforeBegin
  <2>2. Program(t) = "tttx"
    BY <1>8, SessionsAssumption DEF Program, ClientsTypeOK
  <2>3. wait
    BY <1>1, <2>1, <2>2 DEF wait, WaitsAfter
  <2>4. k = 1 /\ Len(q) = 1
    BY <2>1
  <2>5. answers'[t] = <<>>
    BY <1>3, <2>4
  <2>6. ~swallowed'[t] /\ client'[t] = "recv" /\ waiting'[t]
    BY <1>2, <1>5b, <2>3, <2>4
  <2>7. BeforeBegin(t)'
    BY <1>4, <1>8, <2>1, <2>5, <2>6 DEF BeforeBegin
  <2> QED BY <1>4, <1>8, <2>7 DEF LoopOf
<1>9. ASSUME NEW n \in {0, 1, 2}, NextAlert(t, n)
      PROVE  /\ k \in 1..n => NextAlert(t, n - k)'
             /\ k = n + 1 => NextAlert(t, 0)' /\ answers'[t] = <<>>
             /\ k \in 1..n + 1 /\ player[t] # 0
             /\ Len(q) = n + 1 => q[n + 1] \in {"MOVD", "DRAW"}
  <2>1. UNCHANGED vars
    BY <1>2
  <2>2. k \in 1..n + 1 /\ player[t] # 0 /\ (Len(q) = n + 1 => q[n + 1] \in {"MOVD", "DRAW"})
    BY <1>1, <1>9 DEF NextAlert
  <2> QED BY <1>0, <1>9, <2>1, <2>2, NextAlertLater
<1>10. CASE Program(t) # "ttt" /\ BeginSent(t) /\ waiting[t]
  <2>1. NextAlert(t, 1) /\ q[1] = "BEGN"
    BY <1>10 DEF BeginSent
  <2>2. ~wait
    BY <1>1, <2>1 DEF wait, WaitsAfter
  <2>3. player[t] # 0 /\ Len(q) \in {1, 2} /\ (Len(q) = 2 => q[2] \in {"MOVD", "DRAW"})
    BY <1>9, <2>1 DEF NextAlert
  <2>4. ASSUME NEW i \in 1..Len(answers'[t]) PROVE answers'[t][i] # "WAIT"
    <3>1. i \in 1..Len(q) - k /\ answers'[t][i] = q[k + i]
      BY <1>3
    <3>2. k + i = 2 /\ Len(q) = 2
      BY <2>3, <3>1
    <3> QED BY <2>3, <3>1, <3>2
  <2>5. Playing(t)'
    BY <1>4, <1>5, <2>2, <2>3, <2>4 DEF Playing
  <2> QED BY <1>4, <1>10, <2>5 DEF LoopOf
<1>11. CASE Program(t) # "ttt" /\ BeginSent(t) /\ ~waiting[t]
  <2>1. NextAlert(t, 2) /\ q[1] = "WAIT" /\ q[2] = "BEGN" /\ Quiet(t)
    BY <1>11 DEF BeginSent
  <2>2. Program(t) = "tttx"
    BY <1>11, SessionsAssumption DEF Program, ClientsTypeOK
  <2>3. wait
    BY <1>1, <2>1, <2>2 DEF wait, WaitsAfter
  <2>4. client'[t] = "recv" /\ waiting'[t] /\ Quiet(t)'
    BY <1>2, <1>4, <2>1, <2>3
  <2>5. CASE k = 1
    <3>1. NextAlert(t, 1)'
      BY <1>9, <2>1, <2>5
    <3>2. ~swallowed'[t]
      BY <1>2, <1>5b, <2>5
    <3>3. 1 \in 1..Len(q) - k
      BY <1>1, <2>1, <2>5 DEF NextAlert
    <3>4. answers'[t][1] = "BEGN"
      BY <1>3, <2>1, <2>5, <3>3
    <3>5. BeginSent(t)'
      BY <2>4, <3>1, <3>2, <3>4 DEF BeginSent
    <3> QED BY <1>4, <1>11, <3>5 DEF LoopOf
  <2>6. CASE k \in {2, 3}
    <3>1. NextAlert(t, 0)'
      BY <1>9, <2>1, <2>6
    <3>2. swallowed'[t]
      BY <1>2, <1>5b, <2>1, <2>3, <2>6
    <3>3. BeginMissed(t)'
      BY <2>4, <3>1, <3>2 DEF BeginMissed
    <3> QED BY <1>4, <1>11, <3>3 DEF LoopOf
  <2>7. k \in 1..3
    BY <1>9, <2>1
  <2> QED BY <2>5, <2>6, <2>7
<1>12. CASE Program(t) # "ttt" /\ BeginMissed(t)
  <2>1. NextAlert(t, 0) /\ waiting[t] /\ Quiet(t)
    BY <1>12 DEF BeginMissed
  <2>2. k = 1 /\ Len(q) = 1 /\ player[t] = 2
    <3>1. Len(q) \in {0, 1} /\ Len(q) # 0
      BY <1>1, <2>1 DEF NextAlert
    <3>2. Len(q) = 1
      BY <3>1
    <3>3. player[t] = 2
      BY <2>1, <3>2 DEF NextAlert
    <3> QED BY <3>2, <3>3
  <2>3. answers'[t] = <<>>
    BY <1>3, <2>2
  <2>4. CASE q[1] = "MOVD"
    <3>1. ~wait
      BY <1>1, <2>4 DEF wait, WaitsAfter
    <3>2. Playing(t)'
      BY <1>4, <1>5, <2>2, <2>3, <3>1 DEF Playing
    <3> QED BY <1>4, <1>12, <3>2 DEF LoopOf
  <2>5. CASE q[1] = "DRAW"
    <3>1. Program(t) = "tttx"
      BY <1>12, SessionsAssumption DEF Program, ClientsTypeOK
    <3>2. wait
      BY <1>1, <2>1, <2>5, <3>1 DEF wait, WaitsAfter
    <3>3. StateOf(t) = "WAITING_FOR_P2_DRAW_CONF"
      BY <2>1, <2>2, <2>5 DEF NextAlert
    <3>4. NextAlert(t, 0)'
      BY <1>9, <2>1, <2>2
    <3>5. BeginMissed(t)'
      BY <1>2, <1>4, <2>1, <3>2, <3>3, <3>4 DEF BeginMissed
    <3> QED BY <1>4, <1>12, <3>5 DEF LoopOf
  <2> QED BY <1>9, <2>1, <2>2, <2>4, <2>5
<1>13. CASE Program(t) # "ttt" /\ Playing(t)
  <2>1. ~wait
    BY <1>1, <1>13 DEF wait, WaitsAfter, Playing
  <2>2. ASSUME NEW i \in 1..Len(answers'[t]) PROVE answers'[t][i] # "WAIT"
    <3>1. i \in 1..Len(q) - k /\ answers'[t][i] = q[k + i] /\ k + i \in 1..Len(q)
      BY <1>1, <1>3
    <3> QED BY <1>13, <3>1 DEF Playing
  <2>3. Playing(t)'
    BY <1>4, <1>5, <1>13, <2>1, <2>2 DEF Playing
  <2> QED BY <1>4, <1>13, <2>3 DEF LoopOf
<1>14. CASE Program(t) # "ttt" /\ NotPlaying(t)
  <2>1. NotPlaying(t)'
    BY <1>2, <1>4, <1>14 DEF NotPlaying, Finished, Over, StateOf, vars, gameVars, threadVars
  <2> QED BY <1>4, <1>14, <2>1 DEF LoopOf
<1> QED BY <1>6, <1>7, <1>8, <1>10, <1>11, <1>12, <1>13, <1>14 DEF LoopOf

-----------------------------------------------------------------------------
(* Every step.                                                             *)

LEMMA LoopOwn ==
  ASSUME ServerInv, ClientsTypeOK, NEW t \in Threads, LoopOf(t),
         client[t] # "gone", client'[t] # "gone", serverUp',
         \/ Starting(t) \/ ServerPoll(t) \/ ServerRecv(t) \/ ServerProc(t)
         \/ Enter(t) \/ Receive(t) \/ ReceiveEnd(t) \/ Quit(t) \/ LateReset(t)
  PROVE  LoopOf(t)'
<1>1. CASE Starting(t)
  <2>1. SameClient(t)
    BY <1>1 DEF Starting, SameClient, clientSide, history
  <2> QED BY <1>1, <2>1, LoopQuietRound, LoopChooses DEF Starting
<1>2. CASE ServerPoll(t) \/ ServerRecv(t)
  BY <1>2, LoopPoll, LoopRecv
<1>3. CASE ServerProc(t)
  <2>1. ~Overrun(t)
    BY DEF Overrun
  <2>2. \E m : Process(t, m)
    BY <1>3, <2>1 DEF ServerProc
  <2>3. UNCHANGED <<session, clientSide, wire, swallowed>>
    BY <1>3 DEF ServerProc
  <2> QED BY <2>2, <2>3, LoopProcess
<1>4. CASE Enter(t) \/ Receive(t)
  BY <1>4, LoopEnters, LoopReceives
<1>5. ~ReceiveEnd(t) /\ ~Quit(t) /\ ~LateReset(t)
  BY DEF ReceiveEnd, Quit, LateReset, ClientsTypeOK
<1> QED BY <1>1, <1>2, <1>3, <1>4, <1>5

\* A client does not come back, nor does the process.
LEMMA StaysGone ==
  ASSUME ClientsTypeOK, NEW s \in Threads, NEW t \in Threads, serverUp',
         client'[t] # "gone",
         \/ Starting(s) \/ ServerPoll(s) \/ ServerRecv(s) \/ ServerProc(s)
         \/ Enter(s) \/ Receive(s) \/ ReceiveEnd(s) \/ Quit(s) \/ LateReset(s)
  PROVE  serverUp /\ client[t] # "gone"
<1>1. serverUp
  <2>1. CASE UNCHANGED vars
    BY <2>1 DEF vars
  <2>2. CASE Connect(s) \/ ChooseGame(s) \/ RecordLoss(s) \/ OutOfBounds(s)
    BY <2>2 DEF Connect, ChooseGame, RecordLoss, OutOfBounds
  <2>3. CASE Client(s)
    BY <2>3 DEF Client, ClientClose, ClientReset
  <2>4. CASE Poll(s) \/ Recv(s)
    BY <2>4 DEF Poll, Recv, Polling, TellMove, TellDraw, TellBegin, TellOver, PollQuietly,
                RecvNothing, RecvMessage, RecvEof, RecvError
  <2>5. CASE Proc(s)
    BY <2>5 DEF Proc, Processing, JoinFirst, JoinSecond, Move, OfferDraw, RejectDraw,
                AcceptDraw, AnswerInvalid, Overrun
  <2> QED BY <2>1, <2>2, <2>3, <2>4, <2>5, ThreadStep
<1>2. client[t] # "gone"
  <2>1. CASE s # t
    BY <2>1, OthersClient DEF SameClient
  <2>2. CASE s = t /\ (Starting(t) \/ ServerPoll(t) \/ ServerRecv(t) \/ ServerProc(t))
    BY <2>2 DEF Starting, ServerPoll, ServerRecv, ServerProc, clientSide
  <2>3. CASE s = t /\ (Enter(t) \/ Receive(t) \/ ReceiveEnd(t) \/ Quit(t) \/ LateReset(t))
    BY <2>3 DEF Enter, Receive, ReceiveEnd, Quit, LateReset, clientSide
  <2> QED BY <2>1, <2>2, <2>3
<1> QED BY <1>1, <1>2

LEMMA LoopStep ==
  ServerInv /\ ClientsTypeOK /\ LoopInv /\ [ClientsNext]_allVars => LoopInv'
<1> SUFFICES ASSUME ServerInv, ClientsTypeOK, LoopInv, [ClientsNext]_allVars,
                    serverUp', NEW t \in Threads, client'[t] # "gone"
             PROVE  LoopOf(t)'
  BY DEF LoopInv
<1>1. CASE UNCHANGED allVars
  <2>1. LoopOf(t)
    BY <1>1 DEF LoopInv, allVars, vars, clientSide
  <2>2. SameClient(t) /\ SameThread(t) /\ GameOf(t)
        /\ (Finished(currentGame[t]) => Finished(currentGame[t])') /\ client[t] # "gone"
    BY <1>1 DEF allVars, vars, gameVars, threadVars, clientSide, history, SameClient,
                SameThread, GameOf, StateOf, AlertOf, Finished, Over
  <2> QED BY <2>1, <2>2, LoopKept
<1>2. CASE ClientsNext
  <2>1. PICK s \in Threads :
          \/ Starting(s) \/ ServerPoll(s) \/ ServerRecv(s) \/ ServerProc(s)
          \/ Enter(s) \/ Receive(s) \/ ReceiveEnd(s) \/ Quit(s) \/ LateReset(s)
    BY <1>2 DEF ClientsNext
  <2>2. serverUp /\ client[t] # "gone"
    BY <2>1, StaysGone
  <2>3. LoopOf(t)
    BY <2>2 DEF LoopInv
  <2> QED BY <2>1, <2>2, <2>3, LoopOwn, LoopOthers
<1> QED BY <1>1, <1>2

LEMMA LoopAsks == ServerInv /\ ClientsTypeOK /\ LoopInv => MoverIsAsked
<1> SUFFICES ASSUME ServerInv, ClientsTypeOK, LoopInv, NEW t \in Threads, serverUp,
                    OnTurn(t), playerUnhandled[currentGame[t]] # player[t],
                    pc[t] \in {"poll", "recv"}, wire[t] = <<>>, answers[t] = <<>>,
                    client[t] \notin {"prompt", "gone"}
             PROVE  swallowed[t] \/ unanswered[t]
  BY DEF MoverIsAsked
<1>1. client[t] = "recv" /\ LoopOf(t)
  BY DEF LoopInv, ClientsTypeOK
<1>2. CASE Pending(t)
  BY <1>1, <1>2 DEF Pending
<1>3. /\ player[t] \in {1, 2}
      /\ StateOf(t) \in {"WAITING_FOR_P1_MOVE", "BEGN", "DRAW_REJ", "WAITING_FOR_P2_MOVE"}
  BY DEF OnTurn, TurnStates, StateOf
<1>4. ~BeforeSeat(t) /\ ~BeforeBegin(t)
  BY <1>3 DEF BeforeSeat, BeforeBegin, AlertOf
<1>5. Len(answers[t]) = 0
  OBVIOUS
<1>6. ~BeginSent(t)
  BY <1>5 DEF BeginSent, NextAlert
<1>7. ~NotPlaying(t)
  BY <1>3 DEF NotPlaying, Finished, Over, OverStates, StateOf
<1>8. BeginMissed(t) => swallowed[t]
  BY <1>3 DEF BeginMissed
<1> QED BY <1>1, <1>2, <1>4, <1>6, <1>7, <1>8 DEF LoopOf, Playing

\* Whatever the users send, however the connections join it and whoever leaves: the
\* player on turn that has been told everything is asked for its move, unless tttx.c
\* took BEGN together with WAIT, or its user sent something the server never answers.
THEOREM MoverAlwaysAsked == ClientsSpec => []MoverIsAsked
<1>1. ClientsInit => ServerInv
  BY TypeInit, RetireInit, SeatInit DEF ClientsInit, ServerInv
<1>2. ServerInv /\ [ClientsNext]_allVars => ServerInv'
  <2>1. TypeOK /\ RetireUnreachable /\ SeatInv /\ [Next]_vars
          => TypeOK' /\ RetireUnreachable' /\ SeatInv'
    BY TypeStep, RetireStep, SeatStep
  <2> QED BY <2>1, ServerStep DEF ServerInv
<1> QED BY <1>1, <1>2, ClientsTypeInit, ClientsTypeStep, LoopInit, LoopStep, LoopAsks, PTL
        DEF ClientsSpec
=============================================================================
