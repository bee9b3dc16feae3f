---------------------------- MODULE MCTTTServer ----------------------------
(***************************************************************************)
(* Small instances of the server: the sets of messages its clients send.   *)
(***************************************************************************)
EXTENDS TTTServerClaims, TTTServerGames, TLC

Play == [type |-> "PLAY"]
Mv(mark, r, c) == [type |-> "MOVE", role |-> mark, position |-> <<r, c>>]
Dr(message) == [type |-> "DRAW", message |-> message]

\* Whole games on the full grid.  Each player has some cells the other never
\* asks for, which leaves wins for both, full grids without a line and moves to
\* occupied cells; a mark in the wrong hands is a wrong role, and two positions
\* are outside the grid.  A draw may be offered and accepted.
MatchMessages ==
  {Play, Dr("S"), Dr("A")} \cup {Mv("?", 0, 2), Mv("?", 2, 4)}
    \cup {Mv("X", c[1], c[2]) : c \in Cells \ {<<2, 2>>, <<2, 3>>, <<3, 1>>}}
    \cup {Mv("O", c[1], c[2]) : c \in Cells \ {<<1, 1>>, <<3, 2>>, <<3, 3>>}}

\* Draw offers and their answers, with moves that let either player win.
DrawMessages ==
  {Play, Dr("S"), Dr("A"), Dr("R"), Dr("?")}
    \cup {Mv("?", c[1], c[2]) : c \in {<<1, 1>>, <<1, 2>>, <<1, 3>>, <<2, 1>>, <<3, 1>>}}

\* A short game that X can win, one cell of which both players may ask for, with
\* draw offers, for the runs in which a client leaves.
ShortMessages ==
  {Play, Dr("S"), Dr("A"), Dr("R")}
    \cup {Mv("X", 1, c) : c \in 1..3} \cup {Mv("O", 1, 3), Mv("O", 2, 1)}

\* Two cells and no way to win, for the run about a client that closes: a game there
\* ends because a client leaves, the process because a message overruns its arrays.
TwoCellMessages ==
  {Play, Mv("X", 1, 1), Mv("O", 1, 2), Dr("S"), Dr("R"), [type |-> "WILD"]}

\* Threads are interchangeable as long as those whose client may leave are mapped
\* to one another.
ThreadSymmetry ==
  {f \in Permutations(Threads) : \A t \in Leavers : f[t] \in Leavers}
=============================================================================
