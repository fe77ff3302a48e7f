----------------------------- MODULE MCRulebook -----------------------------
(***************************************************************************)
(* Rulebook on the full board with few men: endings in which castling, en  *)
(* passant, pins, promotions, mate and stalemate are one or two moves      *)
(* away.  Each game is far enough from its start for its men to have gone  *)
(* where they are.                                                         *)
(***************************************************************************)
EXTENDS Queries, Perft, TLC

\* A man that has moved, and one that has not.
Man(type, player) ==
  [type |-> type, player |-> player, moves |-> 5, last_move |-> 60]
Fresh(type, player) ==
  [type |-> type, player |-> player, moves |-> 0, last_move |-> 0]

Ending(board, duration) ==
  [board |-> board, duration |-> duration, last_big_move |-> 75]

Men(s) == <<s[1], s[2]>> :> s[3]
Setup(men) == FoldSet(LAMBDA s, b : Men(s) @@ b, <<>>, men)

\* White may castle on both sides: only b1 is under attack.  The black king has
\* not moved either, as init_game() would have it.
Castling == Setup({
  <<7, 4, Fresh(KING, WHITE)>>, <<7, 0, Fresh(ROOK, WHITE)>>,
  <<7, 7, Fresh(ROOK, WHITE)>>, <<0, 2, Fresh(KING, BLACK)>>,
  <<1, 1, Man(ROOK, BLACK)>>})

\* White is kept from it by the pawn beside its last row, which the rejected
\* castling makes a queen.
Kept == Setup({
  <<7, 4, Fresh(KING, WHITE)>>, <<7, 7, Fresh(ROOK, WHITE)>>,
  <<0, 2, Man(KING, BLACK)>>, <<6, 6, Man(PAWN, BLACK)>>})

\* A pinned pawn that would promote, and one that may.
Promotion == Setup({
  <<1, 6, Man(KING, WHITE)>>, <<1, 3, Man(PAWN, WHITE)>>,
  <<1, 0, Man(ROOK, BLACK)>>, <<5, 7, Man(KING, BLACK)>>,
  <<6, 1, Man(PAWN, BLACK)>>})

\* A double step beside an enemy pawn, which may take it in passing.
Passing == Setup({
  <<6, 0, Man(KING, WHITE)>>, <<6, 4, Fresh(PAWN, WHITE)>>,
  <<4, 3, Man(PAWN, BLACK)>>, <<0, 7, Man(KING, BLACK)>>})

\* The same, where taking it would uncover the king on the same row.
PassingPinned == Setup({
  <<7, 7, Man(KING, WHITE)>>, <<6, 4, Fresh(PAWN, WHITE)>>,
  <<4, 7, Man(ROOK, WHITE)>>,
  <<4, 3, Man(PAWN, BLACK)>>, <<4, 1, Man(KING, BLACK)>>})

\* The same for White, beside a pawn that it may not take in passing.
PassingTwo == Setup({
  <<6, 0, Man(KING, WHITE)>>, <<3, 4, Man(PAWN, WHITE)>>,
  <<1, 3, Fresh(PAWN, BLACK)>>, <<3, 5, Man(PAWN, BLACK)>>,
  <<0, 7, Man(KING, BLACK)>>})

\* Mate in one, stalemate in one.
Mating == Setup({
  <<2, 1, Man(KING, WHITE)>>, <<2, 7, Man(QUEEN, WHITE)>>,
  <<0, 0, Man(KING, BLACK)>>})

\* Mate in one by a pawn that gets to the row beside its last one.
PawnMating == Setup({
  <<2, 0, Man(KING, WHITE)>>, <<2, 1, Man(PAWN, WHITE)>>,
  <<6, 7, Man(BISHOP, WHITE)>>, <<0, 0, Man(KING, BLACK)>>})

AllEndings ==
  {Ending(b, 80) : b \in {Castling, Kept, Promotion, Passing, PassingPinned,
                          Mating, PawnMating}}
    \cup {Ending(PassingTwo, 81)}

\* The same mate with the draw clock about to run out.
LateMate == {[board |-> Mating, duration |-> 180, last_big_move |-> 81]}

\* A black pawn that may step beside a white one, where another one stands.
PawnEnding == {Ending(PassingTwo, 81)}
=============================================================================
