--------------------------- MODULE TTTServerGames ---------------------------
(***************************************************************************)
(* The server of TTTServer implements the games of TTTGames: its slots are *)
(* the games, whatever the threads do to them and in whatever order.       *)
(***************************************************************************)
EXTENDS TTTServer

StatusOf(state) ==
  CASE state = "WAITING_P1" -> "empty"
    [] state = "WAITING_P2" -> "waiting for O"
    [] state \in TurnStates(1) -> "X to play"
    [] state \in TurnStates(2) -> "O to play"
    [] state = ConfState(2) -> "X offers a draw"
    [] state = ConfState(1) -> "O offers a draw"
    [] state = WinState(1) -> "X has won"
    [] state = WinState(2) -> "O has won"
    [] state = "GAME_OVER_DRAW" -> "draw"
    [] state = "GAME_OVER_DRAW_AGG" -> "draw agreed"
    [] state = ResignState(1) -> "X has left"
    [] state = ResignState(2) -> "O has left"
    [] OTHER -> "withdrawn"

Abstract == INSTANCE TTTGames WITH
  Games <- Slots,
  status <- [g \in Slots |-> StatusOf(gameState[g])],
  grid <- [g \in Slots |-> board[g]]

\* Every slot goes through a game by the rules: O takes its seat after X, marks are
\* written in turn on free cells until one of them makes a line or the grid is full,
\* a draw is agreed on only after an offer, and what is over comes back by no step
\* of any thread.
RefinesGames == Abstract!GamesSpec
=============================================================================
