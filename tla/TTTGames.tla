------------------------------ MODULE TTTGames ------------------------------
(***************************************************************************)
(* What a server of tic-tac-toe games owes its players, with no threads,   *)
(* no mutex, no messages and no alerts in it: the rules of the game, one   *)
(* game after the other.  TTTServerGames shows that ttts.c keeps to them.  *)
(***************************************************************************)
EXTENDS TTTBoard

CONSTANT Games

VARIABLES
  status,  \* how far the game is
  grid

gamesVars == <<status, grid>>

ToPlay(m) == IF m = "X" THEN "X to play" ELSE "O to play"
Offered(m) == IF m = "X" THEN "X offers a draw" ELSE "O offers a draw"
Won(m) == IF m = "X" THEN "X has won" ELSE "O has won"
Left(m) == IF m = "X" THEN "X has left" ELSE "O has left"

Other(m) == IF m = "X" THEN "O" ELSE "X"

GamesInit ==
  /\ status = [g \in Games |-> "empty"]
  /\ grid = [g \in Games |-> EmptyBoard]

Becomes(g, s) == status' = [status EXCEPT ![g] = s]

TakeX(g) == status[g] = "empty" /\ Becomes(g, "waiting for O") /\ UNCHANGED grid

TakeO(g) == status[g] = "waiting for O" /\ Becomes(g, ToPlay("X")) /\ UNCHANGED grid

AfterMark(m, b) ==
  IF CheckWin(m, b) THEN Won(m) ELSE IF Full(b) THEN "draw" ELSE ToPlay(Other(m))

\* The player to play writes its mark on a free cell, and with it the game is won,
\* drawn, or the other player's to play.
Mark(g, m) ==
  /\ status[g] = ToPlay(m)
  /\ \E c \in Cells : /\ grid[g][c] = Blank
                      /\ grid' = [grid EXCEPT ![g] = [grid[g] EXCEPT ![c] = m]]
  /\ Becomes(g, AfterMark(m, grid'[g]))

\* Instead of playing it may offer a draw.  A rejection makes it X's turn, whoever
\* made the offer: O that offers a draw in vain has lost its turn.
Offer(g, m) == status[g] = ToPlay(m) /\ Becomes(g, Offered(m)) /\ UNCHANGED grid

Reject(g, m) ==
  status[g] = Offered(Other(m)) /\ Becomes(g, ToPlay("X")) /\ UNCHANGED grid

Agree(g, m) ==
  status[g] = Offered(Other(m)) /\ Becomes(g, "draw agreed") /\ UNCHANGED grid

\* A client that goes loses its game: also one that is over, and one that has not
\* begun, but for that whose X waits for O.
Leave(g, m) == status[g] # "waiting for O" /\ Becomes(g, Left(m)) /\ UNCHANGED grid

Withdraw(g) == status[g] = "waiting for O" /\ Becomes(g, "withdrawn") /\ UNCHANGED grid

GamesNext ==
  \E g \in Games :
    \/ TakeX(g) \/ TakeO(g) \/ Withdraw(g)
    \/ \E m \in Marks :
         Mark(g, m) \/ Offer(g, m) \/ Reject(g, m) \/ Agree(g, m) \/ Leave(g, m)

GamesSpec == GamesInit /\ [][GamesNext]_gamesVars
=============================================================================
