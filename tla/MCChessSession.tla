--------------------------- MODULE MCChessSession ---------------------------
(***************************************************************************)
(* ChessSession where a promotion can be rejected because of a check: the  *)
(* users have few moves to send, and Games is what these moves lead to.    *)
(***************************************************************************)
EXTENDS ChessSession

\* Where the game is taken up: 1.h4 e5 2.h5 e4 3.h6 e3 4.hxg7, played on both
\* boards.
Opening == <<<<220, 156>>, <<48, 112>>, <<156, 124>>, <<112, 144>>,
             <<124, 92>>, <<144, 176>>, <<92, 56>>>>
AfterOpening ==
  FoldLeft(LAMBDA g, w : MakeMove(g, ApiGetMove(w)).game, NewGame, Opening)

\* What the users may send from there: a capture that promotes, with a piece and
\* with none, a check by a pawn, and moves to go on with.
ChessSubmissions == {
  <<58, 31>>,     \* g7h8=Q, takes
  <<56, 28>>,     \* g7h8 without a promotion
  <<240, 212>>,   \* e1f2, takes
  <<176, 212>>,   \* e3f2, takes and checks
  <<32, 64>>      \* a7a6
}

\* All the games that these moves lead to.
RECURSIVE Reached(_, _)
Reached(games, front) ==
  IF front = {} THEN games
  ELSE LET next == {MakeMove(g, ApiGetMove(w)).game :
                      g \in front, w \in ChessSubmissions} \ games
       IN  Reached(games \cup next, next)
ChessGames == Reached({AfterOpening}, {AfterOpening})
=============================================================================
