----------------------------- MODULE TTTClients -----------------------------
(***************************************************************************)
(* The server of TTTServer with the programs its users run: ttt.c, which   *)
(* sends the lines they type, and tttx.c, which sends the next line of a   *)
(* file when they press ENTER.  Both are one loop: prompt, send, then wait *)
(* for one recv.  The connection carries the bytes of TTTFraming towards   *)
(* the server and its answers back; either side may find what several      *)
(* sends have sent in one recv.  A send of less than a hundred bytes is    *)
(* taken not to be split.                                                  *)
(*                                                                         *)
(* A step of the server is the action of TTTServer, with the message that  *)
(* was received and the answers that are sent.                             *)
(***************************************************************************)
EXTENDS TTTServer, TTTFraming

(***************************************************************************)
(* What the users do: the program of each and the lines of its file or of  *)
(* its user; the order in which patient users press ENTER and the results  *)
(* they expect; and who may leave.  Impatient users press it whenever they *)
(* are asked to.                                                           *)
(***************************************************************************)
CONSTANT Sessions

ASSUME SessionsAssumption ==
  \A s \in Sessions : /\ s.program \in [Threads -> {"ttt", "tttx"}]
                      /\ s.lines \in [Threads -> Seq(RawMessages)]

VARIABLES
  session,
  client,     \* where each client is in its loop
  waiting,    \* tttx.c: the variable of that name
  line,       \* the number of the client's next line
  presses,    \* how often patient users have pressed ENTER
  wire,       \* lines sent to the server and not yet received
  inbox,      \* what the thread has received and not yet processed
  answers,    \* messages sent to the client and not yet received
  swallowed,  \* the client took WAIT and BEGN in one recv and saw only WAIT
  unanswered  \* the server does not answer what the client sent last

clientSide == <<client, waiting, line, presses>>
history == <<swallowed, unanswered>>
allVars == <<vars, session, clientSide, wire, inbox, answers, history>>

ClientsInit ==
  /\ Init
  /\ session \in Sessions
  /\ client = [t \in Threads |-> "prompt"]
  /\ waiting = [t \in Threads |-> FALSE]
  /\ line = [t \in Threads |-> 1]
  /\ presses = 0
  /\ wire = [t \in Threads |-> <<>>]
  /\ inbox = [t \in Threads |-> <<>>]
  /\ answers = [t \in Threads |-> <<>>]
  /\ swallowed = [t \in Threads |-> FALSE]
  /\ unanswered = [t \in Threads |-> FALSE]

-----------------------------------------------------------------------------
(* The server.                                                             *)

Answers(t, kinds) == answers' = [answers EXCEPT ![t] = @ \o kinds]
Silent(t) == answers' = answers
NoAnswerTo(t) == unanswered' = [unanswered EXCEPT ![t] = TRUE]

\* The bytes of the first k lines in flight.
Received(t, k) ==
  LET bytes[i \in 1..k] ==
        IF i = 1 THEN wire[t][1] ELSE Joined(bytes[i - 1], wire[t][i])
  IN  bytes[k]

ServerRecv(t) ==
  /\ \/ /\ wire[t] = <<>> /\ (RecvNothing(t) \/ RecvEof(t)) /\ UNCHANGED <<wire, inbox>>
     \/ RecvError(t) /\ UNCHANGED <<wire, inbox>>
     \/ /\ RecvMessage(t)
        /\ \E k \in 1..Len(wire[t]) :
             /\ inbox' = [inbox EXCEPT ![t] = Received(t, k)]
             /\ wire' = [wire EXCEPT ![t] = SubSeq(@, k + 1, Len(@))]
  /\ UNCHANGED <<session, clientSide, answers, history>>

\* What proc_msg reads of the fields tokenize copies; sscanf finds a position in a
\* whole field only.
CellText(c) == <<"1", "2", "3">>[c[1]] \o "," \o <<"1", "2", "3">>[c[2]]

Position(text) ==
  IF \E c \in Cells : CellText(c) = text THEN CHOOSE c \in Cells : CellText(c) = text
                                         ELSE <<0, 0>>

Known(text, set) == IF text \in set THEN text ELSE "?"

MessageOf(tokens) ==
  IF tokens = Rejected THEN [type |-> "BAD"]
  ELSE CASE tokens[1].text = "PLAY" -> [type |-> "PLAY"]
         [] tokens[1].text = "MOVE" ->
              [type |-> "MOVE", role |-> Known(tokens[3].text, {"X", "O"}),
               position |-> Position(tokens[4].text)]
         [] tokens[1].text = "DRAW" ->
              [type |-> "DRAW", message |-> Known(tokens[3].text, {"S", "A", "R"})]
         [] OTHER -> [type |-> "OTHER"]

Process(t, m) ==
  LET g == currentGame[t]
      is(cell) == board'[g] = [board[g] EXCEPT ![cell] = MarkOf(player[t])]
  IN  \/ /\ \/ JoinFirst(t) /\ MayJoin(t, m, "WAITING_P1") /\ Answers(t, <<"WAIT">>)
            \/ /\ JoinSecond(t) /\ MayJoin(t, m, "WAITING_P2")
               /\ Answers(t, <<"WAIT", "BEGN">>)
            \/ /\ Move(t) /\ MayMove(t, m) /\ is(m.position)
               /\ Answers(t, <<IF gameState'[g] \in OverStates THEN "OVER" ELSE "MOVD">>)
            \/ AcceptDraw(t) /\ MayAnswer(t, m, "A") /\ Answers(t, <<"OVER">>)
            \/ AnswerInvalid(t) /\ ~Accepts(t, m) /\ Answers(t, <<"INVL">>)
         /\ UNCHANGED unanswered
      \/ /\ \/ OfferDraw(t) /\ MayOffer(t, m)
            \/ RejectDraw(t) /\ MayAnswer(t, m, "R")
         /\ Silent(t) /\ NoAnswerTo(t)

ServerProc(t) ==
  /\ \/ Overrun(t) /\ Wild \in Decode(inbox[t]) /\ UNCHANGED <<answers, unanswered>>
     \/ \E tokens \in Decode(inbox[t]) \ {Wild} : Process(t, MessageOf(tokens))
  /\ inbox' = [inbox EXCEPT ![t] = <<>>]
  /\ UNCHANGED <<session, clientSide, wire, swallowed>>

OverKind(state) == IF state = "GAME_OVER_DRAW" THEN "DRAW" ELSE "OVER"

ServerPoll(t) ==
  /\ \/ TellMove(t) /\ Answers(t, <<"MOVD">>)
     \/ TellDraw(t) /\ Answers(t, <<"DRAW">>)
     \/ TellBegin(t) /\ Answers(t, <<"BEGN">>)
     \/ TellOver(t) /\ Answers(t, <<OverKind(gameState[currentGame[t]])>>)
     \/ PollQuietly(t) /\ Silent(t)
  /\ UNCHANGED <<session, clientSide, wire, inbox, history>>

Starting(t) ==
  /\ Connect(t) \/ ChooseGame(t) \/ RecordLoss(t)
  /\ UNCHANGED <<session, clientSide, wire, inbox, answers, history>>

-----------------------------------------------------------------------------
(* The clients.                                                            *)

Program(t) == session.program[t]
Lines(t) == session.lines[t]

SendLine(t, raw) ==
  /\ wire' = [wire EXCEPT ![t] = Append(@, raw)]
  /\ unanswered' = [unanswered EXCEPT ![t] = FALSE]

\* Patient users wait until the clients have shown all there is to show.
Settled ==
  \A t \in Threads :
    /\ pc[t] \in {"poll", "recv"} /\ wire[t] = <<>>
    /\ playerUnhandled[currentGame[t]] = 0
    /\ client[t] = "prompt" \/ answers[t] = <<>>

MayPress(t) ==
  session.patient =>
    /\ presses < Len(session.order) /\ session.order[presses + 1] = t
    /\ Settled

\* The next line: of the file, when the user of tttx.c presses ENTER, or the one
\* the user of ttt.c types, which is sent without its newline.
NextLine(t) ==
  /\ line[t] <= Len(Lines(t))
  /\ SendLine(t, Lines(t)[line[t]])
  /\ line' = [line EXCEPT ![t] = @ + 1]

\* ENTER alone: ttt.c sends nothing, and waits once it has sent a line; tttx.c
\* sends nothing at the end of its file, and waits.
EmptyLine(t) ==
  /\ IF Program(t) = "ttt" THEN line[t] > 1 ELSE line[t] > Len(Lines(t))
  /\ NoAnswerTo(t)
  /\ UNCHANGED <<wire, line>>

Enter(t) ==
  /\ serverUp /\ client[t] = "prompt" /\ MayPress(t)
  /\ NextLine(t) \/ EmptyLine(t)
  /\ client' = [client EXCEPT ![t] = "recv"]
  /\ presses' = IF session.patient THEN presses + 1 ELSE presses
  /\ UNCHANGED <<vars, session, waiting, inbox, answers, swallowed>>

WaitsAfter__UntilBegin(t, first) ==
  /\ Program(t) = "tttx"
  /\ first = "WAIT" \/ (waiting[t] /\ first # "BEGN")

\* What the first four bytes of its recv mean to tttx.c.
WaitsAfter(t, first) ==
  /\ Program(t) = "tttx"
  /\ first = "WAIT" \/ (waiting[t] /\ first \notin {"BEGN", "MOVD"})

Receive(t) ==
  /\ client[t] = "recv" /\ answers[t] # <<>>
  /\ LET wait == WaitsAfter(t, Head(answers[t]))
     IN  /\ waiting' = [waiting EXCEPT ![t] = wait]
         /\ client' = [client EXCEPT ![t] = IF wait THEN "recv" ELSE "prompt"]
         /\ \E k \in 1..Len(answers[t]) :
              /\ answers' = [answers EXCEPT ![t] = SubSeq(@, k + 1, Len(@))]
              /\ swallowed' = [swallowed EXCEPT ![t] =
                                 wait /\ \E i \in 2..k : answers[t][i] = "BEGN"]
  /\ UNCHANGED <<vars, session, line, presses, wire, inbox, unanswered>>

\* The thread has closed the connection: recv returns 0.
ReceiveEnd(t) ==
  /\ client[t] = "recv" /\ answers[t] = <<>> /\ pc[t] = "exit"
  /\ client' = [client EXCEPT ![t] = "gone"]
  /\ UNCHANGED <<vars, session, waiting, line, presses, wire, inbox, answers, history>>

\* `q', or the end of the program by other means.  Closing a connection with
\* answers unread in it resets it; so does the server's next send to it.
Quit(t) ==
  /\ serverUp /\ client[t] \in {"prompt", "recv"} /\ t \in session.leavers
  /\ client' = [client EXCEPT ![t] = "gone"]
  /\ answers' = [answers EXCEPT ![t] = <<>>]
  /\ IF answers[t] = <<>> THEN ClientClose(t) ELSE ClientReset(t) /\ peer[t] = "open"
  /\ UNCHANGED <<session, waiting, line, presses, wire, inbox, history>>

LateReset(t) ==
  /\ serverUp /\ client[t] = "gone" /\ answers[t] # <<>> /\ ClientReset(t)
  /\ answers' = [answers EXCEPT ![t] = <<>>]
  /\ UNCHANGED <<session, clientSide, wire, inbox, history>>

-----------------------------------------------------------------------------
ClientsNext ==
  \E t \in Threads :
    \/ Starting(t) \/ ServerPoll(t) \/ ServerRecv(t) \/ ServerProc(t)
    \/ Enter(t) \/ Receive(t) \/ ReceiveEnd(t) \/ Quit(t) \/ LateReset(t)

(***************************************************************************)
(* Threads and clients run on, and users who follow the instructions press *)
(* ENTER in the end.  Where users are impatient nothing is assumed, and    *)
(* only what is safe is asked.                                             *)
(***************************************************************************)
ClientsFairness ==
  \A t \in Threads :
    /\ WF_allVars(session.patient /\ Starting(t))
    /\ WF_allVars(session.patient /\ ServerPoll(t))
    /\ WF_allVars(session.patient /\ ServerRecv(t))
    /\ WF_allVars(session.patient /\ ServerProc(t))
    /\ WF_allVars(session.patient /\ Receive(t))
    /\ WF_allVars(session.patient /\ Enter(t))

ClientsSpec == ClientsInit /\ [][ClientsNext]_allVars /\ ClientsFairness

-----------------------------------------------------------------------------
\* The instructions of tic-tac-toe/README.md do what it says: users that follow
\* the order of a matchup see its game to the end, with its result, though the
\* clients lag behind the server and either side may receive messages joined.
EndsAsDocumented ==
  session.patient ~> \A t \in Threads : told[t] = {session.result[t]}

\* The player on turn, once everything the server has for it is received, has a
\* client that asks for its move.  It does not in two cases only: tttx.c took WAIT
\* and BEGN in one recv and reads no further than WAIT, or the client waits for an
\* answer to something that the server never answers.
MoverIsAsked ==
  \A t \in Threads :
    /\ serverUp /\ OnTurn(t) /\ playerUnhandled[currentGame[t]] # player[t]
    /\ pc[t] \in {"poll", "recv"} /\ wire[t] = <<>> /\ answers[t] = <<>>
    => client[t] \in {"prompt", "gone"} \/ swallowed[t] \/ unanswered[t]
=============================================================================
