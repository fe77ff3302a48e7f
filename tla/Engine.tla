------------------------------- MODULE Engine -------------------------------
(***************************************************************************)
(* The rules of chess as src/client/chess.c implements them: what          *)
(* make_move() returns, and the game it leaves behind, also where it       *)
(* rejects the move.                                                       *)
(*                                                                         *)
(* A board is a function from the occupied squares <<row, column>> to      *)
(* pieces; an EMPTY square is one outside its domain.  (The C array keeps  *)
(* stale data in EMPTY squares, which no rule reads.)  Row 0 is rank 8.    *)
(***************************************************************************)
EXTENDS Moves, FiniteSetsExt

Squares == Coord \X Coord

Pieces == [type: PieceTypes, player: Players, moves: Nat, last_move: Nat]

\* "no square" and "no move" (a NULL `captured`, a `castle` full of -1)
None == <<>>

GetPlayer(g) == IF g.duration % 2 = 0 THEN WHITE ELSE BLACK

Occupied(b, s) == s \in DOMAIN b
HeldBy(b, player) == {s \in DOMAIN b : b[s].player = player}

From(m) == <<m.r_i, m.c_i>>
To(m) == <<m.r_f, m.c_f>>
RowDiff(m) == m.r_f - m.r_i
ColDiff(m) == m.c_f - m.c_i

MoveOf(s, d, promotion) ==
  [r_i |-> s[1], c_i |-> s[2], r_f |-> d[1], c_f |-> d[2],
   promotion |-> promotion]

Abs(n) == IF n < 0 THEN -n ELSE n
Sign(n) == IF n < 0 THEN -1 ELSE IF n > 0 THEN 1 ELSE 0

Without(b, squares) == [s \in DOMAIN b \ squares |-> b[s]]
With(b, square, piece) ==
  [s \in DOMAIN b \cup {square} |-> IF s = square THEN piece ELSE b[s]]

(* new_game() *)
BackRank == <<ROOK, KNIGHT, BISHOP, QUEEN, KING, BISHOP, KNIGHT, ROOK>>
NewBoard ==
  [s \in {0, 1, 6, 7} \X Coord |->
     [type |-> IF s[1] \in {0, 7} THEN BackRank[s[2] + 1] ELSE PAWN,
      player |-> IF s[1] < 2 THEN BLACK ELSE WHITE,
      moves |-> 0, last_move |-> 0]]
NewGame == [board |-> NewBoard, duration |-> 0, last_big_move |-> 0]

\* A Game of chess.h, with no big move in its future.
IsGame(g) ==
  /\ DOMAIN g.board \subseteq Squares
  /\ g \in [board: [DOMAIN g.board -> Pieces], duration: Nat,
            last_big_move: 0 .. g.duration]

\* Where a man that has not moved yet may stand.
HomeRow(player) == IF player = WHITE THEN 7 ELSE 0
Home(man) ==
  CASE man.type = ROOK -> {HomeRow(man.player)} \X {0, 7}
    [] man.type = KING -> {HomeRow(man.player)} \X {4}
    [] man.type = PAWN -> {IF man.player = WHITE THEN 6 ELSE 1} \X Coord
    [] OTHER -> Squares
\* init_game() puts kings anywhere, and none of them has moved: away from home
\* a king has no rook that counts as unmoved.
MayNotCastle(b, s) ==
  /\ b[s].type = KING
  /\ \A t \in HeldBy(b, b[s].player) : b[t].type = ROOK => b[t].moves # 0
AtHome(b) ==
  \A s \in DOMAIN b : b[s].moves = 0 => s \in Home(b[s]) \/ MayNotCastle(b, s)

-----------------------------------------------------------------------------
(* What is_illegal() and the functions under it report: the code, the       *)
(* extra casualty, the rook's move of a castling, and the board, which a    *)
(* pawn on its last step has already changed.                              *)
Report(code, b, captured, castle) ==
  [code |-> code, board |-> b, captured |-> captured, castle |-> castle]
Rejected(code, b) == Report(code, b, None, None)

\* The squares strictly between the two ends of a straight move.
Between(m) ==
  LET n == Max({Abs(RowDiff(m)), Abs(ColDiff(m))})
  IN  {<<m.r_i + k * Sign(RowDiff(m)), m.c_i + k * Sign(ColDiff(m))>> :
         k \in 1 .. n - 1}
Clear(b, m) == \A s \in Between(m) : ~Occupied(b, s)

RookReaches(b, m) == RowDiff(m) * ColDiff(m) = 0 /\ Clear(b, m)
BishopReaches(b, m) == Abs(RowDiff(m)) = Abs(ColDiff(m)) /\ Clear(b, m)
KnightReaches(m) == {Abs(RowDiff(m)), Abs(ColDiff(m))} = {1, 2}
KingSteps(m) == Abs(RowDiff(m)) <= 1 /\ Abs(ColDiff(m)) <= 1

\* The pieces that just go where they reach.
Reaches(b, m) ==
  LET type == b[From(m)].type
  IN  \/ type \in {ROOK, QUEEN} /\ RookReaches(b, m)
      \/ type \in {BISHOP, QUEEN} /\ BishopReaches(b, m)
      \/ type = KNIGHT /\ KnightReaches(m)
      \/ type = KING /\ KingSteps(m)

Direction(player) == IF player = WHITE THEN -1 ELSE 1
LastRow(player) == IF player = WHITE THEN 0 ELSE 7

\* Board c is board b, but that pawns one step from their last row may have
\* become something else.
MayPromote(s, man) ==
  man.type = PAWN /\ s[1] + Direction(man.player) = LastRow(man.player)
OnlyPromotes(b, c) ==
  /\ DOMAIN c = DOMAIN b /\ c = [s \in DOMAIN b |-> c[s]]
  /\ \A s \in DOMAIN b :
       c[s] # b[s] => /\ MayPromote(s, b[s])
                      /\ c[s].type \in Promotions
                      /\ c[s] = [b[s] EXCEPT !.type = c[s].type]

PawnAdvances(b, m) ==
  LET dir == Direction(b[From(m)].player)
      Ahead(n) == <<m.r_i + n * dir, m.c_i>>
  IN  /\ ColDiff(m) = 0
      /\ ~Occupied(b, Ahead(1))
      /\ \/ RowDiff(m) = dir
         \/ /\ RowDiff(m) = 2 * dir
            /\ ~Occupied(b, Ahead(2))
            /\ b[From(m)].moves = 0

\* The square of the pawn that is taken by moving beside it.
Pessant(m) == <<m.r_i, m.c_f>>

EnPessant(g, m) ==
  LET b == g.board
      player == b[From(m)].player
      p == Pessant(m)
  IN  /\ ~Occupied(b, To(m))
      /\ Occupied(b, p)
      /\ b[p].type = PAWN /\ b[p].player # player /\ b[p].moves = 1
      /\ m.r_i = (IF player = WHITE THEN 3 ELSE 4)
      /\ b[p].last_move = g.duration

PawnTakes(g, m) ==
  /\ Abs(ColDiff(m)) = 1
  /\ RowDiff(m) = Direction(g.board[From(m)].player)
  /\ Occupied(g.board, To(m)) \/ EnPessant(g, m)

(* pawn_is_illegal(): the promotion is written into the piece at once. *)
PawnReport(g, m) ==
  LET b == g.board
      pawn == b[From(m)]
      captured == IF ColDiff(m) # 0 /\ ~Occupied(b, To(m))
                    THEN Pessant(m) ELSE None
  IN  IF ~PawnAdvances(b, m) /\ ~PawnTakes(g, m)
        THEN Rejected(ILLEGAL_MOVE, b)
      ELSE IF m.r_f # LastRow(pawn.player)
        THEN Report(OK, b, captured, None)
      ELSE IF m.promotion \notin Promotions
        THEN Rejected(MISSING_PROMOTION, b)
      ELSE Report(OK, [b EXCEPT ![From(m)].type = m.promotion], captured, None)

\* The tests at the top of is_illegal().
MayTry(b, m, player) ==
  /\ {m.r_i, m.c_i, m.r_f, m.c_f} \subseteq Coord
  /\ Occupied(b, From(m)) /\ b[From(m)].player = player
  /\ Occupied(b, To(m)) => b[To(m)].player # player

(* is_illegal() without castling.  This is all an attack can need: for a   *)
(* king two squares away king_is_illegal() would have to find an unmoved   *)
(* rook on the way to the attacked square, and there is none while unmoved *)
(* men are at home (EngineProofs!CastlingIsNoAttack).                      *)
StepReport(g, m, player) ==
  IF ~MayTry(g.board, m, player)
    THEN Rejected(ILLEGAL_MOVE, g.board)
  ELSE IF g.board[From(m)].type = PAWN
    THEN PawnReport(g, m)
  ELSE IF Reaches(g.board, m)
    THEN Report(OK, g.board, None, None)
  ELSE Rejected(ILLEGAL_MOVE, g.board)

\* The order in which the loops over the board visit the squares.
Before(s, t) == s[1] < t[1] \/ (s[1] = t[1] /\ s[2] <= t[2])
FirstOf(squares) == CHOOSE s \in squares : \A t \in squares : Before(s, t)

\* An empty square gets a pawn of player's for the time of a question.
Asked(g, square, player) ==
  IF Occupied(g.board, square) THEN g
  ELSE [g EXCEPT !.board =
          With(@, square, [type |-> PAWN, player |-> player,
                           moves |-> 0, last_move |-> 0])]

(* piece_is_attacked(): each question asks for a queen, so that a pawn one *)
(* step from its last row that is found to attack has become one.          *)
Attack(g, square, player) ==
  LET b == g.board
      Answer(s) == StepReport(Asked(g, square, player),
                              MoveOf(s, square, QUEEN), Opponent(player))
      attackers ==
        {s \in HeldBy(b, Opponent(player)) : Answer(s).code >= 0}
  IN  IF attackers = {}
        THEN [attacked |-> FALSE, board |-> b]
        ELSE [attacked |-> TRUE,
              board |-> LET after == Answer(FirstOf(attackers)).board
                        IN  IF Occupied(b, square) THEN after
                            ELSE Without(after, {square})]

\* The column at which the scan for the castling rook stops: the nearest man's,
\* or one outside the row.  The scan reads as far as column 8, which is no square
\* of the row; past says whether what is there looks like a man.
ScanEnd(b, m, past) ==
  LET cc == Sign(ColDiff(m))
      stops == {-1, 9} \cup {c \in Coord : Occupied(b, <<m.r_i, c>>)}
                 \cup IF past THEN {8} ELSE {}
      ahead == {c \in stops : (c - m.c_i) * cc > 0}
  IN  CHOOSE c \in ahead : \A d \in ahead : (d - c) * cc >= 0

\* The first piece beyond the king in the direction of a castling, whatever is
\* read past the row: there is none where the scan has left it.
RookFor(b, m) ==
  LET found == {ScanEnd(b, m, past) : past \in BOOLEAN} \cap Coord
  IN  IF found = {} THEN None ELSE <<m.r_i, CHOOSE c \in found : TRUE>>

\* Mutant of KingReport: the square that the king crosses is not looked at.
KingCrosses(g, m) ==
  LET b == g.board
      king == b[From(m)]
      rook == RookFor(b, m)
      cc == Sign(ColDiff(m))
      path == [i \in 0 .. 2 |-> <<m.r_i, m.c_i + i * cc>>]
  IN  IF KingSteps(m)
        THEN Report(OK, b, None, None)
      ELSE IF \/ king.moves # 0 \/ RowDiff(m) # 0 \/ Abs(ColDiff(m)) # 2
              \/ rook = None
              \/ b[rook].type # ROOK \/ b[rook].moves # 0
              \/ \E i \in {0, 2} : Attack(g, path[i], king.player).attacked
        THEN Rejected(ILLEGAL_MOVE, b)
      ELSE Report(OK, b, None, MoveOf(rook, path[1], EMPTY))

(* king_is_illegal() *)
KingReport(g, m) ==
  LET b == g.board
      king == b[From(m)]
      rook == RookFor(b, m)
      cc == Sign(ColDiff(m))
      path == [i \in 0 .. 2 |-> <<m.r_i, m.c_i + i * cc>>]
      attacked == {i \in 0 .. 2 : Attack(g, path[i], king.player).attacked}
  IN  IF KingSteps(m)
        THEN Report(OK, b, None, None)
      ELSE IF \/ king.moves # 0 \/ RowDiff(m) # 0 \/ Abs(ColDiff(m)) # 2
              \/ rook = None
              \/ b[rook].type # ROOK \/ b[rook].moves # 0
        THEN Rejected(ILLEGAL_MOVE, b)
      ELSE IF attacked # {}
        THEN Rejected(ILLEGAL_MOVE,
                      Attack(g, path[Min(attacked)], king.player).board)
      ELSE Report(OK, b, None, MoveOf(rook, path[1], EMPTY))

(* is_illegal() *)
IsIllegal(g, m, player) ==
  IF MayTry(g.board, m, player) /\ g.board[From(m)].type = KING
    THEN KingReport(g, m)
    ELSE StepReport(g, m, player)

-----------------------------------------------------------------------------
\* The man of m on his target, the squares in lost emptied, and the clock at
\* now; a capture counts as a big move.
Moved(g, m, captured, lost, count, now) ==
  LET b == g.board
      piece == [b[From(m)] EXCEPT !.moves = @ + count, !.last_move = now]
      big == Occupied(b, To(m)) \/ captured # None
  IN  [board |-> With(Without(b, {From(m)} \cup lost), To(m), piece),
       duration |-> now,
       last_big_move |-> IF big THEN now ELSE g.last_big_move]
Ticked(g, should_advance_clock) ==
  IF should_advance_clock THEN g.duration + 1 ELSE g.duration

\* Mutants of MoveUnchecked: the pawn taken in passing stays, the rook of a
\* castling counts as unmoved, the clock is advanced for the
\* men only.
MoveLeavesPessant(g, m, captured, should_advance_clock) ==
  Moved(g, m, captured, {}, 1, Ticked(g, should_advance_clock))

MoveCountsMover(g, m, captured, should_advance_clock) ==
  Moved(g, m, captured, {captured}, IF should_advance_clock THEN 1 ELSE 0,
        Ticked(g, should_advance_clock))

MoveForgetsClock(g, m, captured, should_advance_clock) ==
  [Moved(g, m, captured, {captured}, 1, Ticked(g, should_advance_clock))
     EXCEPT !.duration = g.duration]

(* move_unchecked() *)
MoveUnchecked(g, m, captured, should_advance_clock) ==
  Moved(g, m, captured, {captured}, 1, Ticked(g, should_advance_clock))

(* is_in_check(): a player without a king is in check. *)
CheckOn(g, player) ==
  LET kings == {s \in HeldBy(g.board, player) : g.board[s].type = KING}
  IN  IF kings = {} THEN [attacked |-> TRUE, board |-> g.board]
      ELSE Attack(g, FirstOf(kings), player)

\* The move, and the rook's move of a castling, as report has them.
Executed(g, m, report) ==
  LET moved == MoveUnchecked(g, m, report.captured, TRUE)
  IN  IF report.castle = None THEN moved
      ELSE MoveUnchecked(moved, report.castle, None, FALSE)

\* Mutant of UnlessInCheck: of a move into check only the clock is taken back.
UnlessInCheckKept(backup, played) ==
  IF CheckOn(played, GetPlayer(backup)).attacked
    THEN [code |-> ILLEGAL_MOVE,
          game |-> [backup EXCEPT !.board = played.board]]
    ELSE [code |-> OK, game |-> played]

\* A move that leaves one's own king in check is taken back.
UnlessInCheck(backup, played) ==
  IF CheckOn(played, GetPlayer(backup)).attacked
    THEN [code |-> ILLEGAL_MOVE, game |-> backup]
    ELSE [code |-> OK, game |-> played]

\* What becomes of m after is_illegal(): the backup is taken only here.
AfterReport(g, m, report) ==
  LET backup == [g EXCEPT !.board = report.board]
  IN  IF report.code < 0
        THEN [code |-> report.code, game |-> backup]
        ELSE UnlessInCheck(backup, Executed(backup, m, report))

(* make_move_no_checkmate() *)
MakeMoveNoCheckmate(g, m) ==
  AfterReport(g, m, IsIllegal(g, m, GetPlayer(g)))

(* can_make_move(): each try works on a scratch copy. *)
CanMakeMove(g, player) ==
  \E s \in HeldBy(g.board, player), d \in Squares :
    MakeMoveNoCheckmate(g, MoveOf(s, d, QUEEN)).code >= 0

\* Mutant of Outcome: a player who cannot move has lost.
OutcomeOfStalemate(player, g, check) ==
  IF CanMakeMove(g, Opponent(player)) THEN [code |-> OK, game |-> g]
  ELSE [code |-> IF player = WHITE THEN WHITE_WIN ELSE BLACK_WIN, game |-> g]

\* After player's move: can the opponent go on?  check answers is_in_check(),
\* which is only asked where the game ends.
Outcome(player, g, check) ==
  IF CanMakeMove(g, Opponent(player)) THEN [code |-> OK, game |-> g]
  ELSE [code |-> IF ~check.attacked THEN FORCED_DRAW
                 ELSE IF player = WHITE THEN WHITE_WIN ELSE BLACK_WIN,
        game |-> [g EXCEPT !.board = check.board]]

\* What becomes of a move that make_move_no_checkmate() has judged: the draw
\* clock comes first, then mate and stalemate.
Judged(player, r) ==
  LET clock == r.game.duration - r.game.last_big_move
  IN  IF r.code \in NonFatal THEN r
      ELSE IF clock >= 150 THEN [r EXCEPT !.code = FORCED_DRAW]
      ELSE IF clock >= 100 THEN [r EXCEPT !.code = DRAW_OFFER]
      ELSE Outcome(player, r.game, CheckOn(r.game, Opponent(player)))

(* make_move() *)
MakeMove(g, m) == Judged(GetPlayer(g), MakeMoveNoCheckmate(g, m))
=============================================================================
