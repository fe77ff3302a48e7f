----------------------------- MODULE ValidMoves -----------------------------
(***************************************************************************)
(* What the API front end (src/client/api.c) answers a user who asks for   *)
(* the valid moves.  The promotion of the moves that are tried is memory   *)
(* that nobody has written: it is an argument here, and the property       *)
(* quantifies over it.                                                     *)
(***************************************************************************)
EXTENDS Rulebook

\* Mutant of ListedMoves: a move that lacks its promotion is left out.
ListedWithPromotion(g, promotion) ==
  {WriteMove(m) : m \in
     {t \in {MoveOf(s, d, promotion) : s \in DOMAIN g.board, d \in Squares} :
        MakeMoveNoCheckmate(g, t).code \notin {ILLEGAL_MOVE, MISSING_PROMOTION}}}

(* count_valid_moves(): the two bytes of each move that make_move() does     *)
(* not call illegal.  Squares without a man are left out: is_illegal()      *)
(* rejects them first thing.  512 moves fit; no position has as many.       *)
ListedMoves(g, promotion) ==
  {WriteMove(m) : m \in
     {t \in {MoveOf(s, d, promotion) : s \in DOMAIN g.board, d \in Squares} :
        MakeMove(g, t).code # ILLEGAL_MOVE}}

-----------------------------------------------------------------------------
\* GET_VALID_MOVES: every legal move is listed, whatever the unwritten
\* promotion is.  A move that is not legal is listed only where a pawn on its
\* last step would uncover its king and the promotion is none: make_move()
\* asks for the promotion before it looks for check.
LegalMovesAreListed ==
  Agrees => \A promotion \in {EMPTY, QUEEN} :
    LET listed == ListedMoves(game, promotion)
    IN  \A s \in DOMAIN game.board, d \in Squares :
          LET m == MoveOf(s, d, QUEEN)
              lastStep == /\ game.board[s].type = PAWN
                          /\ d[1] = LastRow(game.board[s].player)
                          /\ game.board[s].player = pos.turn
                          /\ d \in Rules!Reachable(pos, s)
                          /\ Occupied(game.board, d) =>
                               game.board[d].player # pos.turn
          IN  WriteMove(m) \in listed <=>
                Rules!Legal(pos, m) \/ (promotion = EMPTY /\ lastStep)
=============================================================================
