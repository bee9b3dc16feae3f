---------------------------- MODULE MCFunctions ----------------------------
(***************************************************************************)
(* What the programs compute from their inputs alone, on all inputs of a   *)
(* bounded kind.  Three machines share the module and one of them runs:    *)
(* one writes marks in any order, whoever's turn it is, and so makes all   *)
(* 3^9 boards; one receives one message; one types a text into the shell.  *)
(***************************************************************************)
EXTENDS TTTBoard, TTTFraming, MyShellLines

VARIABLES board, sent, raw

vars == <<board, sent, raw, lineVars>>

Write == \E c \in Cells, m \in Marks :
           /\ board[c] = Blank
           /\ board' = [board EXCEPT ![c] = m]
           /\ sent = <<>> /\ text = <<>>
           /\ UNCHANGED <<sent, raw, lineVars>>

-----------------------------------------------------------------------------
(* Messages: the arguments of each type clients send and some the server   *)
(* sends, with declared lengths on both sides of 10 and of 100.            *)

Line(type, args) == [type |-> type, args |-> args]

Lines ==
  {Line("RSGN", <<>>), Line("DRAW", <<Field("S", 1)>>),
   Line("MOVE", <<Field("X", 1), Field("2,2", 3)>>),
   Line("MOVD", <<Field("X", 1), Field("2,2", 3), Field("board", 9)>>),
   Line("BEGN", <<Field("O", 1), Field("JACK", 4)>>),
   Line("JUNK", <<Field("A", 1), Field("B", 1)>>)}
  \cup {Line("PLAY", <<Field("name", len)>>) : len \in {4, 8, 9, 10, 97, 98, 99}}

ArgsLen(line) ==
  LET total[i \in 0..Len(line.args)] ==
        IF i = 0 THEN 0 ELSE total[i - 1] + line.args[i].len + 1
  IN  total[Len(line.args)]

Raw(line, declared, tail) ==
  <<Field(line.type, 4), Number(declared)>> \o line.args \o tail

NextLine == Line("DRAW", <<Field("S", 1)>>)

\* What follows the last bar: nothing, the newline of the client's line, a bar,
\* other bytes with and without bars, the line of the next send.
Tails ==
  {<<Nothing>>, <<Newline>>, <<Nothing, Nothing>>, <<Field("garbage", 7)>>,
   <<Field("garbage", 7), Newline>>, <<Field("a", 1), Field("b", 1)>>,
   Joined(<<Newline>>, Raw(NextLine, ArgsLen(NextLine), <<Newline>>)),
   Joined(<<Newline>>, Raw(Line("RSGN", <<>>), 0, <<Newline>>))}

Declared(line) ==
  {n \in {ArgsLen(line) + d : d \in -3..3} \cup {-8, -7, 0, 1, 9, 10, 13} : n < 1000}

(* A message is received whole or up to any of its bytes.                  *)
Receive ==
  /\ sent = <<>> /\ board = EmptyBoard /\ text = <<>>
  /\ \E line \in Lines, tail \in Tails : \E declared \in Declared(line) :
       LET whole == Raw(line, declared, tail)
       IN  \E k \in 1..Strlen(whole) :
             /\ sent' = <<[line |-> line, declared |-> declared, tail |-> tail]>>
             /\ raw' = Terminated(whole, k)
  /\ UNCHANGED <<board, lineVars>>

-----------------------------------------------------------------------------
(* Texts: all of up to MaxText bytes, so that a line is up to three times  *)
(* as long as what one read returns.                                       *)
MaxText == 6
MCTexts == UNION {[1..n -> Regular \cup {"|", Space, NL}] : n \in 0..MaxText}

Type == LinesNext /\ UNCHANGED <<board, sent, raw>>

Init == board = EmptyBoard /\ sent = <<>> /\ raw = <<>> /\ LinesInit
Next == Write \/ Receive \/ Type
Spec == Init /\ [][Next]_vars

-----------------------------------------------------------------------------
(***************************************************************************)
(* Reference: a line is any three cells of the grid one constant step      *)
(* apart, whatever its direction.                                          *)
(***************************************************************************)
GridLines ==
  {L \in {{<<r + k * d, c + k * e>> : k \in 0..2} :
            r \in Index, c \in Index, d \in -1..1, e \in -1..1} :
     L \subseteq Cells /\ Cardinality(L) = 3}

HasLine(mark) == \E L \in GridLines : \A c \in L : board[c] = mark

\* checkWin finds a completed line exactly when there is one, in any of the
\* eight directions, and never for the other player.
CheckWinFindsLines == \A m \in Marks : CheckWin(m, board) <=> HasLine(m)

\* isGameOver's verdict: a winner only with a line, a draw only when the grid is
\* full and nobody has a line, "not over" (-1) only while a cell is free.
VerdictMatchesBoard ==
  LET free == {c \in Cells : board[c] = Blank}
      v    == IsGameOver(board)
  IN  /\ v = 1 <=> HasLine("X")
      /\ v = 2 <=> HasLine("O") /\ ~HasLine("X")
      /\ v = 0 <=> free = {} /\ ~HasLine("X") /\ ~HasLine("O")
      /\ v = -1 => free # {}

(***************************************************************************)
(* Reference for the framing, by bytes: TYPE|LENGTH| is 6 bytes and the   *)
(* digits of the length, and the message ends with its last argument's bar.*)
(***************************************************************************)
Bytes(s) == 6 + Digits(s.declared) + ArgsLen(s.line)

\* A line of a known type with the right length is acted on as soon as recv returns
\* all of it and the start of something else, its newline, garbage or the next line;
\* up to its last bar it is not.  Half a line is therefore never acted on, and a
\* whole one is lost when recv returns it without its newline.
WellDeclaredRead ==
  \A i \in DOMAIN sent :
    LET s == sent[i]
        beyond == Len(s.line.args) + 3
    IN  s.declared = ArgsLen(s.line) /\ s.line.type # "JUNK" /\ ~TooManyTokens(raw) =>
          \A result \in Decode(raw) :
            /\ Strlen(raw) <= Bytes(s) => ~Accepted(result)
            /\ Strlen(raw) > Bytes(s) /\ raw[beyond].len > 0 => Accepted(result)

\* Whatever the length says and wherever recv broke off, a message that is acted
\* on is the one the client wrote first: its type and all of its arguments, of
\* which a wrong length shortens the last one at most.
ActedOnAsSent ==
  \A i \in DOMAIN sent : \A result \in Decode(raw) :
    Accepted(result) =>
      LET line == sent[i].line
          n == Len(line.args)
      IN  /\ result[1].text = line.type
          /\ Len(result) >= n + 2
          /\ \A k \in 1..n :
               \/ result[k + 2] = line.args[k]
               \/ k = n /\ result[k + 2].len < line.args[k].len
=============================================================================
