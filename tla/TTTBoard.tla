------------------------------ MODULE TTTBoard ------------------------------
(***************************************************************************)
(* The board of one tic-tac-toe game and the functions of ttts.c that read *)
(* it: checkWin and isGameOver.  Rows and columns are numbered 1..3 as in  *)
(* the MOVE message; the code subtracts one to index its 3x3 array.        *)
(***************************************************************************)
EXTENDS Integers

Index == 1..3
Cells == Index \X Index

\* A cell is 0 in the code until maybeCommitBoardMove writes 'X' or 'O'.
Blank == "."
Marks == {"X", "O"}
Boards == [Cells -> Marks \cup {Blank}]

EmptyBoard == [c \in Cells |-> Blank]

\* (A definition X__Y is X with the mistake Y: it shows what a property rests on.)
CheckWin__OneDiagonal(mark, board) ==
  \/ \E i \in Index : \A j \in Index : board[<<i, j>>] = mark
  \/ \E i \in Index : \A j \in Index : board[<<j, i>>] = mark
  \/ \A i \in Index : board[<<i, i>>] = mark

\* checkWin: a row, a column or one of the two diagonals holds only `mark'.
CheckWin(mark, board) ==
  \/ \E i \in Index : \A j \in Index : board[<<i, j>>] = mark
  \/ \E i \in Index : \A j \in Index : board[<<j, i>>] = mark
  \/ \A i \in Index : board[<<i, i>>] = mark
  \/ \A i \in Index : board[<<i, 4 - i>>] = mark

Full(board) == \A c \in Cells : board[c] # Blank

IsGameOver__DrawFirst(board) ==
  IF Full(board) THEN 0
  ELSE IF CheckWin("X", board) THEN 1
  ELSE IF CheckWin("O", board) THEN 2
  ELSE -1

\* isGameOver: -1 if not over, 0 is a draw, 1 and 2 name the winner.
IsGameOver(board) ==
  IF CheckWin("X", board) THEN 1
  ELSE IF CheckWin("O", board) THEN 2
  ELSE IF Full(board) THEN 0
  ELSE -1
=============================================================================
