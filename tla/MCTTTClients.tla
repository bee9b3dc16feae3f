---------------------------- MODULE MCTTTClients ----------------------------
(***************************************************************************)
(* The three matchups of tic-tac-toe/README.md with the files c1.txt to    *)
(* c6.txt, played by patient and by impatient users, and two users of      *)
(* ttt.c who type what they like.                                          *)
(***************************************************************************)
EXTENDS TTTClients

CONSTANTS t1, t2

Line(type, declared, args, tail) ==
  <<Field(type, 4), Number(declared)>> \o args \o <<tail>>

Cell(r, c) == Field(CellText(<<r, c>>), 3)
PlayLine(declared, name, tail) == Line("PLAY", declared, <<name>>, tail)
MoveLine(mark, r, c) == Line("MOVE", 6, <<Field(mark, 1), Cell(r, c)>>, Newline)
DrawLine(message) == Line("DRAW", 2, <<Field(message, 1)>>, Newline)

c1 == <<PlayLine(5, Field("JACK", 4), Newline), MoveLine("X", 1, 1), MoveLine("X", 1, 3),
        MoveLine("X", 3, 2), MoveLine("X", 2, 1), MoveLine("X", 3, 1)>>
c2 == <<PlayLine(5, Field("JILL", 4), Newline), MoveLine("O", 2, 2), MoveLine("O", 1, 2),
        MoveLine("O", 2, 3), MoveLine("O", 3, 3)>>
c3 == <<PlayLine(3, Field("BO", 2), Newline), MoveLine("O", 1, 1), MoveLine("X", 1, 1),
        MoveLine("X", 1, 3), DrawLine("S"), MoveLine("X", 2, 2), <<Newline>>,
        <<Field(" ", 1)>>>>
c4 == <<PlayLine(3, Field("JO", 2), Newline), MoveLine("O", 3, 3), MoveLine("O", 3, 1),
        DrawLine("R"), MoveLine("O", 3, 2)>>
c5 == <<PlayLine(6, Field("ARUSH", 5), Field("RHFBRHF newline", 8)),
        Line("MOVE", 13, <<Field("X", 1), Cell(2, 2)>>, Newline),
        Line("MOVE", 6, <<Field("X", 1), Cell(2, 2)>>, Field(" EROFIJEF newline", 10)),
        MoveLine("X", 1, 3), MoveLine("X", 3, 3), MoveLine("X", 1, 2), DrawLine("S")>>
c6 == <<PlayLine(6, Field("SMAIL", 5), Newline), MoveLine("O", 3, 2), MoveLine("O", 3, 1),
        MoveLine("O", 2, 3), MoveLine("O", 1, 1), DrawLine("A")>>

Matchup(file1, file2, order, result1, result2) ==
  [program |-> [t \in Threads |-> "tttx"], patient |-> TRUE, leavers |-> {},
   lines |-> [t \in Threads |-> IF t = t1 THEN file1 ELSE file2], order |-> order,
   result |-> [t \in Threads |-> IF t = t1 THEN result1 ELSE result2]]

Alternating == <<t1, t2, t1, t2, t1, t2, t1, t2, t1, t2, t1>>
Order2 == <<t1, t2, t1, t1, t2, t1, t2, t1, t2, t1, t2>>
Order3 == <<t1, t2, t1, t2, t1, t1, t2, t1, t2, t1, t2, t1, t2>>

Documented ==
  {Matchup(c1, c2, Alternating, "W", "L"),
   Matchup(c3, c4, Order2, "L", "W"),
   Matchup(c5, c6, Order3, "D", "D")}

Impatient(program, lines1, lines2, leavers) ==
  [program |-> [t \in Threads |-> program], patient |-> FALSE,
   leavers |-> leavers,
   lines |-> [t \in Threads |-> IF t = t1 THEN lines1 ELSE lines2],
   order |-> <<>>, result |-> [t \in Threads |-> "D"]]

\* A typed line needs a byte of the user's after its last bar.
TypedPlay == PlayLine(5, Field("JACK", 4), Field("!", 1))
TypedMove(r, c) == Line("MOVE", 6, <<Field("?", 1), Cell(r, c)>>, Field("!", 1))
TypedDraw(message) == Line("DRAW", 2, <<Field(message, 1)>>, Field("!", 1))

Hasty ==
  {Impatient("tttx", SubSeq(c1, 1, 2), SubSeq(c2, 1, 2), {t1}),
   Impatient("ttt", <<TypedPlay, TypedMove(1, 1), TypedDraw("R")>>,
                    <<TypedPlay, TypedDraw("S")>>, {}),
   Impatient("ttt", <<TypedPlay, TypedDraw("S")>>, <<TypedPlay, TypedDraw("A")>>, {t2})}

MCSessions == Documented \cup Hasty

\* All that the lines decode to, alone or joined.
MCMessages ==
  {[type |-> "PLAY"], [type |-> "BAD"], [type |-> "WILD"]}
    \cup {[type |-> "MOVE", role |-> r, position |-> c] : r \in {"X", "O", "?"}, c \in Cells}
    \cup {[type |-> "DRAW", message |-> d] : d \in {"S", "A", "R"}}
=============================================================================
