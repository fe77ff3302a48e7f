----------------------------- MODULE MCSession -----------------------------
(***************************************************************************)
(* Session with an engine small enough to explore: a game is the sequence  *)
(* of moves played so far, so any divergence of the two boards shows.      *)
(* Every return code of make_move() occurs: a draw offer on ply 2, a win   *)
(* from any position, and a forced draw on ply Plies.                      *)
(***************************************************************************)
EXTENDS Session

CONSTANT Plies   \* bound: length of a game

\* Wire moves, by what the engine makes of their destination column.
Left  == <<0, 0>>
Mate  == <<0, 8>>
Wrong == <<0, 12>>
Push  == <<0, 16>>   \* a pawn to the last rank, promotion not given
Crown == <<2, 19>>   \* the same with a queen

MCSubmissions == {Left, Mate, Wrong, Push, Crown}

MCGames ==
  UNION {[1 .. n -> {ApiGetMove(w) : w \in MCSubmissions}] : n \in 0 .. Plies}

MCStartGame == <<>>

MCPlayerOf(g) == IF Len(g) % 2 = 0 THEN WHITE ELSE BLACK

\* The code alone; Len(g) = Plies is past the end of any game.
MCCode(g, m) ==
  IF m.c_f = 4 /\ m.promotion = EMPTY THEN MISSING_PROMOTION
  ELSE IF m.c_f = 3 \/ Len(g) = Plies THEN ILLEGAL_MOVE
  ELSE IF m.c_f = 2
         THEN IF MCPlayerOf(g) = WHITE THEN WHITE_WIN ELSE BLACK_WIN
  ELSE IF Len(g) + 1 = Plies THEN FORCED_DRAW
  ELSE IF Len(g) + 1 = 2 THEN DRAW_OFFER
  ELSE OK

MCEngineMove(g, m) ==
  LET code == MCCode(g, m)
  IN  [code |-> code, game |-> IF code \in NonFatal THEN g ELSE Append(g, m)]
=============================================================================
