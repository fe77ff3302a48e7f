------------------------- MODULE ChessSessionProofs -------------------------
(***************************************************************************)
(* Proofs about ChessSession, for every set of games that the engine does  *)
(* not lead out of: what two clients that play with chess.c can differ in. *)
(***************************************************************************)
EXTENDS ChessSession, SessionProofs, LegalityProofs

-----------------------------------------------------------------------------
(* Boards that show the same men. *)
LEMMA SameBoardIsSymmetric ==
  ASSUME NEW b, NEW c, SameBoard(b, c)
  PROVE  SameBoard(c, b)
  BY DEF SameBoard, PromotedApart

\* Boards that are equal show the same men.
LEMMA SameBoardIsReflexive == \A b : SameBoard(b, b)
  BY DEF SameBoard

\* A pawn that becomes something else beside its last row is the same man.
LEMMA PromotionIsSame ==
  ASSUME NEW b \in Boards, NEW c, NEW d, OnlyPromotes(b, d), SameBoard(b, c)
  PROVE  SameBoard(d, c)
<1>1. DOMAIN d = DOMAIN b /\ b \in [DOMAIN b -> Pieces] /\ DOMAIN b = DOMAIN c
  BY BoardIs DEF OnlyPromotes, SameBoard
<1>2. ASSUME NEW s \in DOMAIN b
      PROVE  /\ d[s].player = c[s].player /\ d[s].moves = c[s].moves
             /\ d[s].last_move = c[s].last_move
             /\ d[s].type # c[s].type => PromotedApart(s, d[s], c[s])
  <2>1. CASE d[s] = b[s]
    BY <2>1 DEF SameBoard
  <2>2. CASE d[s] # b[s]
    <3>1. /\ MayPromote(s, b[s]) /\ d[s].type \in Promotions
          /\ d[s] = [b[s] EXCEPT !.type = d[s].type] /\ b[s] \in Pieces
      BY <1>1, <2>2 DEF OnlyPromotes
    <3>2. /\ d[s].player = b[s].player /\ d[s].moves = b[s].moves
          /\ d[s].last_move = b[s].last_move
      BY <3>1 DEF Pieces
    <3>3. c[s].type = b[s].type => MayPromote(s, c[s])
      BY <3>1 DEF MayPromote, SameBoard
    <3>4. c[s].type # b[s].type => c[s].type \in Promotions \/ MayPromote(s, c[s])
      BY DEF SameBoard, PromotedApart
    <3> QED
      BY <3>1, <3>2, <3>3, <3>4 DEF SameBoard, PromotedApart
  <2> QED
    BY <2>1, <2>2
<1> QED
  BY <1>1, <1>2 DEF SameBoard

\* The same on both sides.
LEMMA PromotionsAreSame ==
  ASSUME NEW b \in Boards, NEW c \in Boards, SameBoard(b, c),
         NEW d, OnlyPromotes(b, d), NEW e, OnlyPromotes(c, e)
  PROVE  SameBoard(d, e)
<1>1. SameBoard(c, d)
  BY PromotionIsSame, SameBoardIsSymmetric
<1> QED
  BY <1>1, PromotionIsSame, SameBoardIsSymmetric

-----------------------------------------------------------------------------
(* What is_illegal() finds out, on two boards that show the same men. *)

\* A move of a man that is let through.  A pawn beside its last row goes to it,
\* and takes nothing in passing.
LEMMA StepTakes ==
  ASSUME NEW g \in EngineGames, NEW m \in MoveSet, NEW player,
         StepReport(g, m, player).code >= 0
  PROVE  LET r   == StepReport(g, m, player)
             man == g.board[From(m)]
         IN  /\ From(m) \in DOMAIN g.board
             /\ r.castle = None
             /\ man.type # PAWN => r.captured = None /\ r.board = g.board
             /\ man.type = PAWN =>
                  /\ r.captured = IF ColDiff(m) # 0 /\ ~Occupied(g.board, To(m))
                                    THEN Pessant(m) ELSE None
                  /\ r.board[From(m)].type =
                       IF m.r_f = LastRow(man.player) THEN m.promotion ELSE PAWN
                  /\ m.r_f = LastRow(man.player) => m.promotion \in Promotions
             /\ MayPromote(From(m), man) =>
                  /\ m.r_f = LastRow(man.player)
                  /\ r.captured = None
<1> DEFINE b == g.board
           r == StepReport(g, m, player)
           man == b[From(m)]
<1>1. ~(Rejected(ILLEGAL_MOVE, b).code >= 0) /\ ~(Rejected(MISSING_PROMOTION, b).code >= 0)
  BY Numbers DEF Rejected, Report
<1>2. MayTry(b, m, player)
  BY <1>1 DEF StepReport
<1>3. From(m) \in DOMAIN b /\ man \in Pieces
  BY <1>2, BoardIs DEF MayTry, Occupied, EngineGames
<1>4. CASE man.type # PAWN
  <2>1. r = Report(OK, b, None, None)
    BY <1>1, <1>2, <1>4 DEF StepReport
  <2> QED
    BY <1>3, <1>4, <2>1 DEF Report, MayPromote
<1>5. CASE man.type = PAWN
  <2>1. r = PawnReport(g, m)
    BY <1>2, <1>5 DEF StepReport
  <2> DEFINE captured == IF ColDiff(m) # 0 /\ ~Occupied(b, To(m))
                           THEN Pessant(m) ELSE None
             last == m.r_f = LastRow(man.player)
             board == IF last THEN [b EXCEPT ![From(m)].type = m.promotion] ELSE b
  <2>2. /\ PawnAdvances(b, m) \/ PawnTakes(g, m)
        /\ last => m.promotion \in Promotions
        /\ r = Report(OK, board, captured, None)
    BY <1>1, <2>1 DEF PawnReport
  <2>3. board[From(m)].type = IF last THEN m.promotion ELSE PAWN
    BY <1>3, <1>5 DEF Pieces
  <2>4. MayPromote(From(m), man) => last /\ captured = None
    <3> SUFFICES ASSUME MayPromote(From(m), man)
                 PROVE  last /\ captured = None
      OBVIOUS
    <3>1. /\ man.player \in Players /\ m.r_i \in 0 .. 7 /\ m.r_f \in 0 .. 7
          /\ m.r_i = IF man.player = WHITE THEN 1 ELSE 6
      BY <1>3 DEF MayPromote, Direction, LastRow, From, Pieces, MoveSet, Coord
    <3>2. RowDiff(m) \in {Direction(man.player), 2 * Direction(man.player)}
      BY <2>2 DEF PawnAdvances, PawnTakes
    <3>3. last
      BY <3>1, <3>2 DEF RowDiff, Direction, LastRow
    <3>4. ~EnPessant(g, m)
      BY <3>1 DEF EnPessant
    <3>5. captured = None
      BY <2>2, <3>4 DEF PawnAdvances, PawnTakes
    <3> QED
      BY <3>3, <3>5
  <2> HIDE DEF captured, last, board
  <2>5. r.board = board /\ r.captured = captured /\ r.castle = None
    BY <2>2 DEF Report
  <2> QED
    BY <1>3, <1>5, <2>2, <2>3, <2>4, <2>5 DEF captured, last
<1> QED
  BY <1>4, <1>5

\* A king castles with the first man in the way, whoever that is taken for.
LEMMA KingTakes ==
  ASSUME NEW g \in EngineGames, NEW m \in MoveSet, KingReport(g, m).code >= 0
  PROVE  LET r    == KingReport(g, m)
             rook == RookFor(g.board, m)
         IN  /\ r.board = g.board /\ r.captured = None
             /\ KingSteps(m) => r.castle = None
             /\ ~KingSteps(m) =>
                  /\ r.castle = MoveOf(rook, <<m.r_i, m.c_i + Sign(ColDiff(m))>>, EMPTY)
                  /\ rook \in DOMAIN g.board /\ g.board[rook].type = ROOK
<1> DEFINE b == g.board
           king == b[From(m)]
           rook == RookFor(b, m)
           cc == Sign(ColDiff(m))
           path == [i \in 0 .. 2 |-> <<m.r_i, m.c_i + i * cc>>]
<1>1. \A c : ~(Rejected(ILLEGAL_MOVE, c).code >= 0)
  BY Numbers DEF Rejected, Report
<1>2. CASE KingSteps(m)
  BY <1>2 DEF KingReport, Report
<1>3. CASE ~KingSteps(m)
  <2>1. /\ rook # None /\ b[rook].type = ROOK /\ Abs(ColDiff(m)) = 2
        /\ KingReport(g, m) = Report(OK, b, None, MoveOf(rook, path[1], EMPTY))
    BY <1>1, <1>3 DEF KingReport
  <2>2. path[1] = <<m.r_i, m.c_i + cc>>
    <3>1. m.c_i \in Int /\ cc \in Int
      BY DEF MoveSet, Coord, Sign
    <3> QED
      BY <3>1
  <2>3. rook \in DOMAIN b
    BY <2>1, BoardIs, RookForFinds DEF EngineGames, MoveSet
  <2> HIDE DEF path, rook
  <2> QED
    BY <1>3, <2>1, <2>2, <2>3 DEF Report, rook
<1> QED
  BY <1>2, <1>3

\* Two clients that both let a move through take the same man for it and make
\* the same castling of it; and where they take its man for two different
\* ones, these are pieces by now.
LEMMA ReportsAgree ==
  ASSUME NEW g \in EngineGames, NEW h \in EngineGames,
         SameBoard(g.board, h.board),
         NEW m \in MoveSet, NEW player \in Players,
         IsIllegal(g, m, player).code >= 0, IsIllegal(h, m, player).code >= 0
  PROVE  LET r == IsIllegal(g, m, player)
             q == IsIllegal(h, m, player)
         IN  /\ r.captured = q.captured /\ r.castle = q.castle
             /\ SameBoard(r.board, q.board)
             /\ LET a == r.board[From(m)].type
                    b == q.board[From(m)].type
                IN  a # b => {a, b} \subseteq Promotions
             /\ r.castle # None =>
                  r.board[From(r.castle)].type = q.board[From(r.castle)].type
<1> DEFINE r == IsIllegal(g, m, player)
           q == IsIllegal(h, m, player)
           man == g.board[From(m)]
           twin == h.board[From(m)]
<1>1. /\ OnlyPromotes(g.board, r.board) /\ OnlyPromotes(h.board, q.board)
      /\ From(m) \in DOMAIN g.board /\ From(m) \in DOMAIN h.board
      /\ g.board \in Boards /\ h.board \in Boards
  BY IsIllegalPromotes DEF EngineGames
<1>2. SameBoard(r.board, q.board)
  BY <1>1, PromotionsAreSame
<1>3. /\ man.player = twin.player
      /\ man.type # twin.type => PromotedApart(From(m), man, twin)
      /\ DOMAIN g.board = DOMAIN h.board
  BY <1>1 DEF SameBoard
<1>4. /\ MayTry(g.board, m, player) /\ man.type = KING => r = KingReport(g, m)
      /\ ~(MayTry(g.board, m, player) /\ man.type = KING) => r = StepReport(g, m, player)
      /\ MayTry(h.board, m, player) /\ twin.type = KING => q = KingReport(h, m)
      /\ ~(MayTry(h.board, m, player) /\ twin.type = KING) => q = StepReport(h, m, player)
  BY DEF IsIllegal
<1>5. /\ MayTry(g.board, m, player) /\ MayTry(h.board, m, player)
  <2>1. \A b : ~(Rejected(ILLEGAL_MOVE, b).code >= 0)
    BY Numbers DEF Rejected, Report
  <2> QED
    BY <1>4, <2>1 DEF StepReport
<1> HIDE DEF r, q
<1>6. CASE man.type = KING
  <2>1. twin.type = KING
    BY <1>3, <1>6, Numbers DEF PromotedApart, MayPromote
  <2>2. r = KingReport(g, m) /\ q = KingReport(h, m)
    BY <1>4, <1>5, <1>6, <2>1
  <2>3. /\ r.board = g.board /\ r.captured = None
        /\ KingSteps(m) => r.castle = None
        /\ ~KingSteps(m) =>
             /\ r.castle = MoveOf(RookFor(g.board, m), <<m.r_i, m.c_i + Sign(ColDiff(m))>>, EMPTY)
             /\ RookFor(g.board, m) \in DOMAIN g.board
             /\ g.board[RookFor(g.board, m)].type = ROOK
    BY <2>2, KingTakes DEF r
  <2>4. /\ q.board = h.board /\ q.captured = None
        /\ KingSteps(m) => q.castle = None
        /\ ~KingSteps(m) =>
             /\ q.castle = MoveOf(RookFor(h.board, m), <<m.r_i, m.c_i + Sign(ColDiff(m))>>, EMPTY)
             /\ h.board[RookFor(h.board, m)].type = ROOK
    BY <2>2, KingTakes DEF q
  <2>5. RookFor(g.board, m) = RookFor(h.board, m)
    <3> DEFINE Found(b) == {ScanEnd(b, m, past) : past \in BOOLEAN} \cap Coord
               Rook(S) == IF S = {} THEN None ELSE <<m.r_i, CHOOSE c \in S : TRUE>>
    <3>1. \A past : ScanEnd(g.board, m, past) = ScanEnd(h.board, m, past)
      BY <1>3 DEF ScanEnd, Occupied
    <3>2. Found(g.board) = Found(h.board)
      BY <3>1
    <3>3. RookFor(g.board, m) = Rook(Found(g.board)) /\ RookFor(h.board, m) = Rook(Found(h.board))
      BY DEF RookFor
    <3> HIDE DEF Found, Rook
    <3> QED
      BY <3>2, <3>3
  <2>6. ~KingSteps(m) => From(r.castle) = RookFor(g.board, m)
    <3> SUFFICES ASSUME ~KingSteps(m) PROVE From(r.castle) = RookFor(g.board, m)
      OBVIOUS
    <3> DEFINE rook == RookFor(g.board, m)
    <3>1. rook \in Squares
      BY <1>1, <2>3, BoardIs
    <3>2. rook = <<rook[1], rook[2]>>
      BY <3>1 DEF Squares
    <3> QED
      BY <2>3, <3>2 DEF From, MoveOf
  <2> QED
    BY <1>2, <1>6, <2>1, <2>3, <2>4, <2>5, <2>6 DEF r, q
<1>7. CASE man.type # KING
  <2>1. twin.type # KING
    BY <1>3, <1>7, Numbers DEF PromotedApart, MayPromote
  <2>2. r = StepReport(g, m, player) /\ q = StepReport(h, m, player)
    BY <1>4, <1>7, <2>1
  <2>3. /\ r.castle = None
        /\ man.type # PAWN => r.captured = None /\ r.board = g.board
        /\ man.type = PAWN =>
             /\ r.captured = IF ColDiff(m) # 0 /\ ~Occupied(g.board, To(m))
                               THEN Pessant(m) ELSE None
             /\ r.board[From(m)].type =
                  IF m.r_f = LastRow(man.player) THEN m.promotion ELSE PAWN
             /\ m.r_f = LastRow(man.player) => m.promotion \in Promotions
        /\ MayPromote(From(m), man) => m.r_f = LastRow(man.player) /\ r.captured = None
    BY <2>2, StepTakes DEF r
  <2>4. /\ q.castle = None
        /\ twin.type # PAWN => q.captured = None /\ q.board = h.board
        /\ twin.type = PAWN =>
             /\ q.captured = IF ColDiff(m) # 0 /\ ~Occupied(h.board, To(m))
                               THEN Pessant(m) ELSE None
             /\ q.board[From(m)].type =
                  IF m.r_f = LastRow(twin.player) THEN m.promotion ELSE PAWN
             /\ m.r_f = LastRow(twin.player) => m.promotion \in Promotions
        /\ MayPromote(From(m), twin) => m.r_f = LastRow(twin.player) /\ q.captured = None
    BY <2>2, StepTakes DEF q
  <2>5. Occupied(g.board, To(m)) <=> Occupied(h.board, To(m))
    BY <1>3 DEF Occupied
  <2>6. CASE man.type = twin.type
    BY <1>2, <1>3, <2>3, <2>4, <2>5, <2>6 DEF r, q
  <2>7. CASE man.type # twin.type
    <3>1. /\ man.type \in Promotions \/ MayPromote(From(m), man)
          /\ twin.type \in Promotions \/ MayPromote(From(m), twin)
      BY <1>3, <2>7 DEF PromotedApart
    <3>2. PAWN \notin Promotions
      BY Numbers
    <3>3. r.captured = None /\ r.board[From(m)].type \in Promotions
      BY <2>3, <3>1, <3>2 DEF MayPromote
    <3>4. q.captured = None /\ q.board[From(m)].type \in Promotions
      BY <2>4, <3>1, <3>2 DEF MayPromote
    <3> QED
      BY <1>2, <2>3, <2>4, <3>3, <3>4 DEF r, q
  <2> QED
    BY <2>6, <2>7
<1> QED
  BY <1>6, <1>7

-----------------------------------------------------------------------------
(* What make_move() makes of two boards that show the same men. *)

\* The same man is moved, and the same squares are emptied.
LEMMA MovedSame ==
  ASSUME NEW g \in EngineGames, NEW h \in EngineGames,
         SameBoard(g.board, h.board),
         NEW m, From(m) \in DOMAIN g.board,
         LET a == g.board[From(m)].type
             b == h.board[From(m)].type
         IN  a # b => {a, b} \subseteq Promotions,
         NEW captured, NEW lost, NEW count \in Nat \ {0}, NEW now \in Nat
  PROVE  SameBoard(Moved(g, m, captured, lost, count, now).board,
                   Moved(h, m, captured, lost, count, now).board)
<1> DEFINE man == g.board[From(m)]
           twin == h.board[From(m)]
           piece == [man EXCEPT !.moves = @ + count, !.last_move = now]
           double == [twin EXCEPT !.moves = @ + count, !.last_move = now]
           left == Without(g.board, {From(m)} \cup lost)
           rest == Without(h.board, {From(m)} \cup lost)
           b == With(left, To(m), piece)
           c == With(rest, To(m), double)
<1>1. /\ man \in Pieces /\ twin \in Pieces /\ DOMAIN g.board = DOMAIN h.board
      /\ man.player = twin.player /\ man.moves = twin.moves
  BY BoardIs DEF EngineGames, SameBoard
<1>2. /\ piece.type = man.type /\ piece.player = man.player
      /\ piece.moves = man.moves + count /\ piece.last_move = now
      /\ double.type = twin.type /\ double.player = twin.player
      /\ double.moves = twin.moves + count /\ double.last_move = now
  BY <1>1 DEF Pieces
<1>3. /\ DOMAIN left = DOMAIN rest
      /\ \A s \in DOMAIN left :
           s \in DOMAIN g.board /\ left[s] = g.board[s] /\ rest[s] = h.board[s]
  BY <1>1 DEF Without
<1> HIDE DEF piece, double, left, rest
<1>4. /\ DOMAIN b = DOMAIN left \cup {To(m)} /\ DOMAIN c = DOMAIN b
      /\ \A s \in DOMAIN b :
           /\ b[s] = IF s = To(m) THEN piece ELSE left[s]
           /\ c[s] = IF s = To(m) THEN double ELSE rest[s]
  BY <1>3 DEF With
<1>5. /\ Moved(g, m, captured, lost, count, now).board = b
      /\ Moved(h, m, captured, lost, count, now).board = c
  BY DEF Moved, piece, double, left, rest
<1> HIDE DEF b, c
<1>6. ASSUME NEW s \in DOMAIN b
      PROVE  /\ b[s].player = c[s].player /\ b[s].moves = c[s].moves
             /\ b[s].last_move = c[s].last_move
             /\ b[s].type # c[s].type => PromotedApart(s, b[s], c[s])
  <2>1. CASE s = To(m)
    <3>1. b[s] = piece /\ c[s] = double
      BY <1>4, <2>1
    <3>2. man.type # twin.type => {man.type, twin.type} \subseteq Promotions
      OBVIOUS
    <3> HIDE DEF man, twin
    <3> QED
      BY <1>1, <1>2, <3>1, <3>2 DEF PromotedApart
  <2>2. CASE s # To(m)
    <3>1. s \in DOMAIN g.board /\ b[s] = g.board[s] /\ c[s] = h.board[s]
      BY <1>3, <1>4, <2>2
    <3> QED
      BY <3>1 DEF SameBoard
  <2> QED
    BY <2>1, <2>2
<1>7. SameBoard(b, c)
  BY <1>4, <1>6 DEF SameBoard
<1> QED
  BY <1>5, <1>7

\* move_unchecked() on both sides.
LEMMA MoveUncheckedSame ==
  ASSUME NEW g \in EngineGames, NEW h \in EngineGames, SameMen(g, h),
         NEW m, From(m) \in DOMAIN g.board,
         LET a == g.board[From(m)].type
             b == h.board[From(m)].type
         IN  a # b => {a, b} \subseteq Promotions,
         NEW captured, NEW advance \in BOOLEAN
  PROVE  SameMen(MoveUnchecked(g, m, captured, advance),
                 MoveUnchecked(h, m, captured, advance))
<1> DEFINE lost == {captured}
           now == Ticked(g, advance)
           count == 1
<1>1. /\ now \in Nat /\ count \in Nat \ {0} /\ Ticked(h, advance) = now
      /\ SameBoard(g.board, h.board)
  BY DEF Ticked, EngineGames, SameMen
<1>2. /\ MoveUnchecked(g, m, captured, advance) = Moved(g, m, captured, lost, count, now)
      /\ MoveUnchecked(h, m, captured, advance) = Moved(h, m, captured, lost, count, now)
  BY <1>1 DEF MoveUnchecked
<1> HIDE DEF lost, now, count
<1>3. SameBoard(Moved(g, m, captured, lost, count, now).board,
                Moved(h, m, captured, lost, count, now).board)
  BY <1>1, MovedSame
<1>4. Moved(g, m, captured, lost, count, now).duration =
        Moved(h, m, captured, lost, count, now).duration
  BY DEF Moved
<1> QED
  BY <1>2, <1>3, <1>4 DEF SameMen

\* The move as a whole, with that of a rook.
LEMMA ExecutedSame ==
  ASSUME NEW g \in EngineGames, NEW h \in EngineGames, SameMen(g, h),
         NEW m \in MoveSet, From(m) \in DOMAIN g.board,
         LET a == g.board[From(m)].type
             b == h.board[From(m)].type
         IN  a # b => {a, b} \subseteq Promotions,
         NEW r, NEW q, r.captured = q.captured, r.castle = q.castle,
         r.captured = None \/ r.castle = None,
         r.castle # None =>
           /\ From(r.castle) \in DOMAIN g.board \ {From(m)}
           /\ To(r.castle) \in Squares
           /\ g.board[From(r.castle)].type = h.board[From(r.castle)].type
  PROVE  SameMen(Executed(g, m, r), Executed(h, m, q))
<1> DEFINE gm == MoveUnchecked(g, m, r.captured, TRUE)
           hm == MoveUnchecked(h, m, r.captured, TRUE)
<1>1. To(m) \in Squares /\ From(m) \in DOMAIN h.board /\ None \notin Squares
      /\ DOMAIN g.board \subseteq Squares
  <2>1. \A s \in Squares : s # <<>>
    BY DEF Squares
  <2> QED
    BY <2>1, BoardIs
    DEF To, MoveSet, Squares, SameMen, SameBoard, None, EngineGames
<1>2. gm \in EngineGames /\ hm \in EngineGames /\ SameMen(gm, hm)
  BY <1>1, MoveUncheckedIsGame, MoveUncheckedSame
<1>3. /\ Executed(g, m, r) = IF r.castle = None THEN gm
                             ELSE MoveUnchecked(gm, r.castle, None, FALSE)
      /\ Executed(h, m, q) = IF r.castle = None THEN hm
                             ELSE MoveUnchecked(hm, r.castle, None, FALSE)
  BY DEF Executed
<1>4. CASE r.castle = None
  BY <1>2, <1>3, <1>4
<1>5. CASE r.castle # None
  <2> DEFINE s == From(r.castle)
  <2>1. /\ s \in DOMAIN g.board \ {From(m)} /\ r.captured = None
        /\ s \in DOMAIN h.board
        /\ g.board[From(m)] \in Pieces /\ h.board[From(m)] \in Pieces
    BY <1>1, <1>5, BoardIs DEF SameMen, SameBoard, EngineGames
  <2>2. /\ DOMAIN gm.board = (DOMAIN g.board \ ({From(m)} \cup {r.captured})) \cup {To(m)}
        /\ DOMAIN hm.board = (DOMAIN h.board \ ({From(m)} \cup {r.captured})) \cup {To(m)}
    <3>1. DOMAIN gm.board = (DOMAIN g.board \ ({From(m)} \cup {r.captured})) \cup {To(m)}
      BY <1>1, MoveUncheckedIsGame, ZenonT(30)
    <3>2. DOMAIN hm.board = (DOMAIN h.board \ ({From(m)} \cup {r.captured})) \cup {To(m)}
      BY <1>1, MoveUncheckedIsGame, ZenonT(30)
    <3> HIDE DEF gm, hm
    <3> QED
      BY <3>1, <3>2
  <2>3. LET a == gm.board[s].type
            b == hm.board[s].type
        IN  a # b => {a, b} \subseteq Promotions
    <3>1. CASE s = To(m)
      <4>1. /\ gm.board[s].type = g.board[From(m)].type
            /\ hm.board[s].type = h.board[From(m)].type
        BY <2>1, <3>1 DEF MoveUnchecked, Moved, With, Pieces
      <4> QED
        BY <4>1
    <3>2. CASE s # To(m)
      <4>1. gm.board[s] = g.board[s] /\ hm.board[s] = h.board[s]
        BY <1>1, <2>1, <3>2 DEF MoveUnchecked, Moved, With, Without, None
      <4> QED
        BY <1>5, <4>1
    <3> QED
      BY <3>1, <3>2
  <2>4. s \in DOMAIN gm.board
    BY <1>1, <2>1, <2>2
  <2> HIDE DEF gm, hm
  <2>5. SameMen(MoveUnchecked(gm, r.castle, None, FALSE),
                MoveUnchecked(hm, r.castle, None, FALSE))
    BY <1>2, <1>5, <2>3, <2>4, MoveUncheckedSame
  <2> QED
    BY <1>3, <1>5, <2>5
<1> QED
  BY <1>4, <1>5

\* What an accepted move comes to: the men move as is_illegal() has reported,
\* and at the end of a game a pawn may be promoted by the question for check.
LEMMA AcceptedIsExecuted ==
  ASSUME NEW g \in EngineGames, NEW m \in MoveSet,
         MakeMove(g, m).code \notin NonFatal
  PROVE  LET r      == IsIllegal(g, m, GetPlayer(g))
             played == Executed([g EXCEPT !.board = r.board], m, r)
         IN  /\ r.code >= 0
             /\ played \in EngineGames
             /\ MakeMove(g, m).game.duration = played.duration
             /\ OnlyPromotes(played.board, MakeMove(g, m).game.board)
<1> DEFINE p == GetPlayer(g)
           r == IsIllegal(g, m, p)
           played == Executed([g EXCEPT !.board = r.board], m, r)
           n == MakeMoveNoCheckmate(g, m)
           check == CheckOn(n.game, Opponent(p))
<1>1. MakeMove(g, m) = Judged(p, n)
  BY DEF MakeMove
<1>2. n.game \in EngineGames /\ n.code \notin NonFatal /\ n.code \in ReportCodes
  BY <1>1, NoCheckmateKeepsGame DEF Judged
<1>3. r.code \in ReportCodes
  <2>1. p \in Players
    BY DEF GetPlayer, Players
  <2> QED
    BY <2>1, IsIllegalPromotes
<1>4. n = AfterReport(g, m, r)
  BY DEF MakeMoveNoCheckmate
<1> HIDE DEF r, n
<1>5. r.code >= 0 /\ n.game = played
  BY <1>2, <1>3, <1>4, Numbers DEF AfterReport, UnlessInCheck, ReportCodes
<1>6. OnlyPromotes(n.game.board, check.board)
  BY <1>2, CheckPromotes
<1>7. Judged(p, n).game \in {n.game, [n.game EXCEPT !.board = check.board]}
  BY <1>2 DEF Judged, Outcome
<1>8. OnlyPromotes(n.game.board, n.game.board)
  BY <1>2, NothingPromotes DEF EngineGames
<1>9. /\ [n.game EXCEPT !.board = check.board].board = check.board
      /\ [n.game EXCEPT !.board = check.board].duration = n.game.duration
  BY <1>2 DEF EngineGames
<1> HIDE DEF played, check
<1>10. /\ MakeMove(g, m).game.duration = played.duration
       /\ OnlyPromotes(played.board, MakeMove(g, m).game.board)
  BY <1>1, <1>5, <1>6, <1>7, <1>8, <1>9
<1> QED
  BY <1>2, <1>5, <1>10 DEF played, r

\* A move that two clients accept, one after the other, leaves them with the
\* same men again, whatever each of them had rejected before.
THEOREM AcceptedMoveKeepsSameMen ==
  ASSUME NEW g \in EngineGames, NEW h \in EngineGames, SameMen(g, h),
         NEW m \in MoveSet,
         MakeMove(g, m).code \notin NonFatal, MakeMove(h, m).code \notin NonFatal
  PROVE  SameMen(MakeMove(g, m).game, MakeMove(h, m).game)
<1> DEFINE p == GetPlayer(g)
           r == IsIllegal(g, m, p)
           q == IsIllegal(h, m, p)
           gr == [g EXCEPT !.board = r.board]
           hq == [h EXCEPT !.board = q.board]
           gx == Executed(gr, m, r)
           hx == Executed(hq, m, q)
<1>1. p \in Players /\ GetPlayer(h) = p
  BY DEF GetPlayer, Players, SameMen
<1>2. /\ r.code >= 0 /\ gx \in EngineGames
      /\ MakeMove(g, m).game.duration = gx.duration
      /\ OnlyPromotes(gx.board, MakeMove(g, m).game.board)
  BY AcceptedIsExecuted
<1>3. /\ q.code >= 0 /\ hx \in EngineGames
      /\ MakeMove(h, m).game.duration = hx.duration
      /\ OnlyPromotes(hx.board, MakeMove(h, m).game.board)
  BY <1>1, AcceptedIsExecuted
<1>4. /\ r.captured = q.captured /\ r.castle = q.castle
      /\ SameBoard(r.board, q.board)
      /\ LET a == r.board[From(m)].type
             b == q.board[From(m)].type
         IN  a # b => {a, b} \subseteq Promotions
      /\ r.castle # None =>
           r.board[From(r.castle)].type = q.board[From(r.castle)].type
  BY <1>1, <1>2, <1>3, ReportsAgree DEF SameMen
<1>5. /\ From(m) \in DOMAIN g.board
      /\ OnlyPromotes(g.board, r.board) /\ OnlyPromotes(h.board, q.board)
      /\ r.castle # None => /\ From(r.castle) \in DOMAIN g.board \ {From(m)}
                            /\ To(r.castle) \in Squares
  BY <1>1, <1>2, IsIllegalPromotes
<1>6. r.captured = None \/ r.castle = None
  BY DEF IsIllegal, KingReport, StepReport, PawnReport, Rejected, Report
<1> HIDE DEF p, r, q
<1>8. /\ gr \in EngineGames /\ gr.board = r.board /\ gr.duration = g.duration
      /\ hq \in EngineGames /\ hq.board = q.board /\ hq.duration = h.duration
      /\ DOMAIN r.board = DOMAIN g.board
  <2>1. r.board \in Boards /\ q.board \in Boards
    BY <1>5, PromotionIsBoard DEF EngineGames
  <2> QED
    BY <1>5, <2>1 DEF EngineGames, OnlyPromotes
<1>9. SameMen(gr, hq)
  BY <1>4, <1>8 DEF SameMen
<1> HIDE DEF gr, hq
<1>10. SameMen(gx, hx)
  BY <1>4, <1>5, <1>6, <1>8, <1>9, ExecutedSame
<1> HIDE DEF gx, hx
<1>11. SameBoard(MakeMove(g, m).game.board, MakeMove(h, m).game.board)
  BY <1>2, <1>3, <1>10, PromotionsAreSame DEF SameMen, EngineGames
<1> QED
  BY <1>2, <1>3, <1>10, <1>11 DEF SameMen

-----------------------------------------------------------------------------
(* The two clients. *)

\* What a client may hold is a game of the Engine, and what it plays of a text
\* is what make_move() does with the move in it.
LEMMA ClientsPlayChess ==
  ASSUME NEW g \in Games, NEW w \in Submissions
  PROVE  /\ g \in EngineGames
         /\ ApiGetMove(w) \in MoveSet
         /\ PlayText(g, TextOf[w]) = MakeMove(g, ApiGetMove(w))
<1>1. IsGame(g) /\ AtHome(g.board)
  BY ChessAssumption
<1>2. PlayText(g, TextOf[w]) = MakeMove(g, ApiGetMove(w))
  BY PlayTextIsEngineMove, ChessAssumption
<1> QED
  BY <1>1, <1>2, IsGameIsEngineGame, EngineAssumption, WireMovesDecode

\* A move that is rejected leaves the same men.
LEMMA RejectionKeepsSameMen ==
  ASSUME NEW g \in EngineGames, NEW h, SameMen(g, h), NEW m \in MoveSet,
         MakeMove(g, m).code \in NonFatal
  PROVE  SameMen(MakeMove(g, m).game, h)
<1> DEFINE r == MakeMove(g, m)
<1>1. r.game.duration = g.duration /\ OnlyPromotes(g.board, r.game.board)
  BY MakeMoveKeepsGame
<1>2. g.board \in Boards
  BY DEF EngineGames
<1> HIDE DEF r
<1>3. SameBoard(r.game.board, h.board)
  BY <1>1, <1>2, PromotionIsSame DEF SameMen
<1>4. SameMen(r.game, h)
  BY <1>1, <1>3 DEF SameMen
<1> QED
  BY <1>4 DEF r

\* The inductive invariant: the partner of whoever is asked for a move shows
\* the same men, and if the reader of a text accepts it, it will show the
\* men of the sender.
SameMenInPlay ==
  \A p \in Players :
    LET q == Opponent(p)
    IN  /\ At(p) = "user" => SameMen(game[p], game[q])
        /\ pipe[q] # <<>> =>
             LET r == PlayText(game[q], Head(pipe[q]))
             IN  r.code \notin NonFatal => SameMen(r.game, game[p])

\* Both clients begin with new_game().
LEMMA SameMenInitially == Init => SameMenInPlay
<1> SUFFICES ASSUME Init PROVE SameMenInPlay
  OBVIOUS
<1>1. \A p \in Players : SameMen(game[p], game[Opponent(p)])
  BY TwoPlayers, SameBoardIsReflexive DEF Init, SameMen
<1> QED
  BY <1>1, TwoPlayers DEF Init, SameMenInPlay

\* Once nobody is asked for a move and nothing is under way, there is nothing
\* left to compare.
LEMMA NobodyMoves ==
  ASSUME \A x \in Players : At(x)' # "user" /\ pipe'[x] = <<>>
  PROVE  SameMenInPlay'
  BY TwoPlayers DEF SameMenInPlay

\* A client that leaves with nothing under way leaves nothing to compare.
LEMMA LeavingKeepsSameMen ==
  ASSUME TypeOK, NEW p \in Players, NEW code, EndWith(p, code),
         At(Opponent(p)) # "user", \A q \in Players \ {p} : game'[q] = game[q],
         \A q \in Players : pipe'[q] = <<>>
  PROVE  SameMenInPlay'
<1>1. At(p)' \in {"ending", "exited"}
  BY EndWithPlace DEF At, TypeOK
<1>2. \A q \in Players \ {p} : At(q)' = At(q)
  BY EndWithPlace DEF At, WaitsFor, TypeOK
<1> QED
  BY <1>1, <1>2, TwoPlayers, NobodyMoves

\* get_player_move(): a rejection may promote a pawn of this client only, an
\* accepted move goes to the other one.
LEMMA SubmitMoveSameMen ==
  ASSUME TypeOK, Lockstep, SameMenInPlay, NEW p \in Players, SubmitMove(p)
  PROVE  SameMenInPlay'
<1> DEFINE q == Opponent(p)
           w == Head(inbox[p]).move
           m == ApiGetMove(w)
           text == TextOf[w]
           r == PlayText(game[p], text)
           o == PlayText(game[q], text)
<1>1. q \in Players /\ q # p /\ Opponent(q) = p /\ \A x \in Players : x = p \/ x = q
  BY TwoPlayers
<1>2. pc[p] = "user" /\ At(p) = "user"
  BY DEF SubmitMove, Reads, At
<1>3. /\ At(q) # "user" /\ SameMen(game[p], game[q]) /\ PlayerOf(game[p]) = p
      /\ \A x \in Players : pipe[x] = <<>>
  BY <1>2, MoverHasEmptyPipes
  DEF Lockstep, MoverHasReader, SameMenInPlay, BoardsTellTurns
<1>4. w \in Submissions
  BY ReadsType DEF SubmitMove, Reads, Commands
<1>5. /\ game[p] \in EngineGames /\ game[q] \in EngineGames /\ m \in MoveSet
      /\ r = MakeMove(game[p], m) /\ o = MakeMove(game[q], m)
  BY <1>1, <1>4, ClientsPlayChess DEF TypeOK
<1>6. r.code \in Accepted => PlayerOf(r.game) = q
  BY <1>3, <1>4, PlayTextFacts DEF TypeOK, TextOf, Range
<1>7. /\ game' = [game EXCEPT ![p] = r.game]
      /\ Reject(p, r) \/ Conclude(p, r) \/ Send(p, r, text) \/ SendFails(p, r)
  BY DEF SubmitMove
<1>8. o = PlayText(game[q], text)
  OBVIOUS
<1>9. r.code \in NonFatal => SameMen(r.game, game[q])
  BY <1>3, <1>5, RejectionKeepsSameMen
<1>10. r.code \notin NonFatal /\ o.code \notin NonFatal => SameMen(o.game, r.game)
  <2>1. SameMen(game[q], game[p])
    BY <1>3, SameBoardIsSymmetric DEF SameMen
  <2> QED
    BY <1>5, <2>1, AcceptedMoveKeepsSameMen
<1> HIDE DEF q, w, text, r, o, m
<1>11. game'[p] = r.game /\ \A x \in Players \ {p} : game'[x] = game[x]
  BY <1>7 DEF TypeOK
<1>12. CASE Reject(p, r)
  <2>1. SameMen(game'[p], game'[q])
    BY <1>1, <1>9, <1>11, <1>12 DEF Reject
  <2>2. pipe' = pipe /\ pc'[q] = pc[q]
    BY <1>1, <1>12 DEF Reject, AfterOutput, TypeOK
  <2>3. At(q)' # "user" /\ \A x \in Players : pipe'[x] = <<>>
    BY <1>1, <1>3, <1>11, <2>2 DEF At, WaitsFor
  <2> QED
    BY <1>1, <2>1, <2>3 DEF SameMenInPlay, q
<1>13. CASE Conclude(p, r)
  <2>1. EndWith(p, r.code) /\ pipe' = pipe
    BY <1>13 DEF Conclude
  <2>2. At(Opponent(p)) # "user" /\ \A x \in Players : pipe'[x] = <<>>
    BY <1>3, <2>1 DEF q
  <2> QED
    BY <1>11, <2>1, <2>2, LeavingKeepsSameMen
<1>14. CASE Send(p, r, text)
  <2>1. pc'[p] = "peer" /\ pc'[q] = pc[q] /\ r.code \notin NonFatal
    BY <1>1, <1>6, <1>14, CodeValues DEF Send, WaitsFor, TypeOK
  <2>2. At(p)' # "user" /\ At(q)' # "user"
    BY <1>1, <1>3, <1>11, <2>1 DEF At, WaitsFor
  <2>3. pipe'[q] = <<text>> /\ pipe'[p] = <<>>
    <3>1. pipe' = [pipe EXCEPT ![q] = Append(@, text)]
      BY <1>14 DEF Send, q
    <3>2. Append(<<>>, text) = <<text>>
      OBVIOUS
    <3> QED
      BY <1>1, <1>3, <3>1, <3>2 DEF TypeOK
  <2>4. game'[q] = game[q] /\ game'[p] = r.game
    BY <1>1, <1>11
  <2>5. PlayText(game'[q], Head(pipe'[q])) = o
    BY <1>8, <2>3, <2>4
  <2> QED
    BY <1>1, <1>10, <2>1, <2>2, <2>3, <2>4, <2>5 DEF SameMenInPlay, q
<1>15. CASE SendFails(p, r)
  <2>1. pc[q] = "exited" /\ pipe' = pipe
    BY <1>15 DEF SendFails, Gone, q
  <2>2. \A x \in Players : pipe'[x] = <<>>
    BY <1>3, <2>1
  <2>3. CASE EndWith(p, IO_ERROR)
    <3>1. At(Opponent(p)) # "user"
      BY <1>3 DEF q
    <3> QED
      BY <1>11, <2>2, <2>3, <3>1, LeavingKeepsSameMen
  <2>4. CASE pc' = [pc EXCEPT ![p] = "exited"]
    <3>1. \A x \in Players : At(x)' = "exited"
      BY <1>1, <2>1, <2>4 DEF At, TypeOK
    <3> QED
      BY <2>2, <3>1, NobodyMoves
  <2> QED
    BY <1>15, <2>3, <2>4 DEF SendFails
<1> QED
  BY <1>7, <1>12, <1>13, <1>14, <1>15

\* parse_op_move(): a move that is accepted takes the reader to the sender's
\* men, one that is refused ends its game.
LEMMA ReadMoveSameMen ==
  ASSUME TypeOK, Lockstep, SameMenInPlay, NEW p \in Players, ReadMove(p)
  PROVE  SameMenInPlay'
<1> DEFINE q == Opponent(p)
           r == PlayText(game[p], Head(pipe[p]))
<1>1. q \in Players /\ q # p /\ Opponent(q) = p /\ \A x \in Players : x = p \/ x = q
  BY TwoPlayers
<1>2. At(p) = "peer" /\ pipe[p] # <<>>
  BY DEF ReadMove, At
<1>3. pipe[q] = <<>> /\ At(q) # "user"
  BY <1>2 DEF Lockstep, NothingToLose
<1>4. \A x \in Players : pipe'[x] = <<>>
  BY <1>1, <1>3 DEF ReadMove, TypeOK
<1>5. r.code \notin NonFatal => SameMen(r.game, game[q])
  BY <1>1, <1>2 DEF SameMenInPlay
<1>6. /\ game' = [game EXCEPT ![p] = r.game]
      /\ \/ r.code < 0 /\ EndWith(p, r.code)
         \/ /\ r.code >= 0
            /\ \E place \in AfterOutput(p, WaitsFor(p, r.game)) :
                 pc' = [pc EXCEPT ![p] = place]
  BY DEF ReadMove
<1> HIDE DEF r
<1>7. game'[p] = r.game /\ game'[q] = game[q]
  BY <1>1, <1>6 DEF TypeOK
<1>8. CASE EndWith(p, r.code)
  <2>1. At(Opponent(p)) # "user" /\ \A x \in Players \ {p} : game'[x] = game[x]
    BY <1>1, <1>3, <1>7
  <2> QED
    BY <1>4, <1>8, <2>1, LeavingKeepsSameMen
<1>9. CASE /\ r.code >= 0
           /\ \E place \in AfterOutput(p, WaitsFor(p, r.game)) :
                pc' = [pc EXCEPT ![p] = place]
  <2>1. r.code \notin NonFatal
    BY <1>9, CodeValues
  <2>2. pc'[q] = pc[q]
    BY <1>1, <1>9 DEF TypeOK
  <2>3. At(q)' # "user"
    BY <1>3, <1>7, <2>2 DEF At, WaitsFor
  <2>4. SameMen(game'[p], game'[q])
    BY <1>5, <1>7, <2>1
  <2> QED
    BY <1>1, <1>4, <2>3, <2>4 DEF SameMenInPlay
<1> QED
  BY <1>6, <1>8, <1>9

\* Every step.
LEMMA NextSameMen ==
  ASSUME TypeOK, Lockstep, SameMenInPlay, [Next]_vars
  PROVE  SameMenInPlay'
<1>1. CASE Fading
  BY <1>1 DEF SameMenInPlay, Fading
<1>2. ASSUME NEW p \in Players, BadCommand(p) \/ Eof(p)
      PROVE  SameMenInPlay'
  <2>1. At(p) = "user" /\ EndWith(p, IO_ERROR) /\ game' = game /\ pipe' = pipe
    BY <1>2 DEF BadCommand, Eof, Reads, At
  <2>2. At(Opponent(p)) # "user" /\ \A x \in Players : pipe'[x] = <<>>
    BY <2>1, MoverHasEmptyPipes DEF Lockstep, MoverHasReader
  <2> QED
    BY <2>1, <2>2, LeavingKeepsSameMen
<1>3. ASSUME NEW p \in Players, SubmitMove(p)
      PROVE  SameMenInPlay'
  BY <1>3, SubmitMoveSameMen
<1>4. ASSUME NEW p \in Players, ReadMove(p)
      PROVE  SameMenInPlay'
  BY <1>4, ReadMoveSameMen
<1>5. ASSUME NEW p \in Players, PeerGone(p)
      PROVE  SameMenInPlay'
  <2>1. /\ EndWith(p, IO_ERROR) /\ At(Opponent(p)) = "exited"
        /\ game' = game /\ pipe' = pipe /\ pipe[p] = <<>> /\ pc[p] = "peer"
    BY <1>5 DEF PeerGone, Gone, At
  <2>2. \A x \in Players : At(x)' # "user"
    <3>1. pc'[p] \in {"ending", "exited"} /\ pc'[Opponent(p)] = pc[Opponent(p)]
      BY <2>1, TwoPlayers, EndWithPlace DEF TypeOK
    <3> QED
      BY <2>1, <3>1, TwoPlayers DEF At, WaitsFor
  <2> QED
    BY <2>1, <2>2 DEF SameMenInPlay
<1> QED
  BY <1>1, <1>2, <1>3, <1>4, <1>5, StepsByEffect

\* Whatever two users send their clients, in any order and out of turn: the
\* one who is asked for a move sees the men that the other one sees, but for
\* promotions that were rejected.
THEOREM BoardsShowTheSameMen == Spec => []BoardsDifferOnlyInPromotion
<1>1. Init => TypeOK /\ Lockstep /\ SameMenInPlay
  BY InitTypeOK, InitLockstep, SameMenInitially
<1>2. TypeOK /\ Lockstep /\ SameMenInPlay /\ [Next]_vars =>
        (TypeOK /\ Lockstep /\ SameMenInPlay)'
  BY NextTypeOK, NextLockstep, NextSameMen
<1>3. SameMenInPlay => BoardsDifferOnlyInPromotion
  BY DEF SameMenInPlay, BoardsDifferOnlyInPromotion, At
<1> QED
  BY <1>1, <1>2, <1>3, PTL DEF Spec
-----------------------------------------------------------------------------
(* When the boards are the same. *)

\* On neither board a pawn stands beside its last row.
NobodyMayPromote ==
  \A p \in Players : \A s \in DOMAIN game[p].board : ~MayPromote(s, game[p].board[s])

\* Then make_move() finds no pawn to promote, and what it rejects leaves its
\* game alone.
LEMMA NothingToSpoil ==
  ASSUME TypeOK, NobodyMayPromote
  PROVE  RejectionSpares
<1> SUFFICES ASSUME NEW p \in Players, Reads(p, "MAKE_MOVE"),
                    PlayText(game[p], TextOf[Head(inbox[p]).move]).code \in NonFatal
             PROVE  PlayText(game[p], TextOf[Head(inbox[p]).move]).game = game[p]
  BY DEF RejectionSpares
<1> DEFINE w == Head(inbox[p]).move
           g == game[p]
           h == MakeMove(g, ApiGetMove(w)).game
<1>1. w \in Submissions
  BY ReadsType DEF Reads, Commands
<1>2. g \in EngineGames /\ ApiGetMove(w) \in MoveSet
      /\ PlayText(g, TextOf[w]) = MakeMove(g, ApiGetMove(w))
  BY <1>1, ClientsPlayChess DEF TypeOK
<1>3. /\ h \in EngineGames /\ h.duration = g.duration
      /\ h.last_big_move = g.last_big_move /\ OnlyPromotes(g.board, h.board)
  BY <1>2, MakeMoveKeepsGame
<1> HIDE DEF h, w
<1>4. \A s \in DOMAIN g.board : ~MayPromote(s, g.board[s])
  BY DEF NobodyMayPromote
<1>5. h.board = g.board
  <2>1. /\ h.board = [s \in DOMAIN g.board |-> h.board[s]]
        /\ \A s \in DOMAIN g.board : h.board[s] = g.board[s]
    BY <1>3, <1>4 DEF OnlyPromotes
  <2>2. g.board = [s \in DOMAIN g.board |-> g.board[s]]
    BY <1>2, NothingPromotes DEF EngineGames, OnlyPromotes
  <2> QED
    BY <2>1, <2>2
<1>6. h = g
  BY <1>2, <1>3, <1>5 DEF EngineGames
<1> QED
  BY <1>2, <1>6 DEF h, w

\* Two clients that play with chess.c show the same board, but for the move in
\* flight, and accept each other's moves, as long as no pawn stands beside its
\* last row: only there a rejection leaves a trace (chess.c:471).
THEOREM BoardsAgreeBeforePromotions ==
  Init /\ [][Next]_vars /\ []NobodyMayPromote => [](BoardsAgree /\ NoUnknownError)
<1>1. Init /\ [][Next]_vars => []TypeOK
  BY InitTypeOK, NextTypeOK, PTL
<1>2. TypeOK /\ NobodyMayPromote => [RejectionSpares]_vars
  BY NothingToSpoil
<1> QED
  BY <1>1, <1>2, BoardsAgreeWhileSpared, PTL

\* And up to there they play one game: Session implements Game with the rules
\* of chess.c as they are.
THEOREM OneGameBeforePromotions ==
  Init /\ [][Next]_vars /\ []NobodyMayPromote => PlaysOneGame
<1>1. Init /\ [][Next]_vars => []TypeOK
  BY InitTypeOK, NextTypeOK, PTL
<1>2. TypeOK /\ NobodyMayPromote => [RejectionSpares]_vars
  BY NothingToSpoil
<1> QED
  BY <1>1, <1>2, OneGameWhileSpared, PTL
-----------------------------------------------------------------------------
(* Chess on each of the two boards. *)
\* The inductive invariant: every board mirrors the position that it shows, so
\* that make_move() judges it as the rules do.
BoardsMirror == \A p \in Players : Mirrors(game[p], PositionOf(game[p]))

\* What becomes of a board in a step.
GoesOnAsChess(p) ==
  \/ game'[p].duration = game[p].duration /\ OnlyPromotes(game[p].board, game'[p].board)
  \/ \E w \in Submissions : PlaysLegally(game[p], ApiGetMove(w), game'[p])

\* Both clients begin with a position of chess.
LEMMA BoardsMirrorInitially == Init => BoardsMirror
  BY ChessAssumption, StartMirrors DEF Init, BoardsMirror

\* A step leaves the board of a client alone, or has it play the text of a move
\* that was submitted: by its own user, or by the other one at some time.
LEMMA BoardsAreSubmitted ==
  ASSUME TypeOK, [Next]_vars, NEW p \in Players
  PROVE  \/ game'[p] = game[p]
         \/ \E w \in Submissions : game'[p] = PlayText(game[p], TextOf[w]).game
<1>1. ASSUME NEW q \in Players, SubmitMove(q)
      PROVE  \/ game'[p] = game[p]
             \/ \E w \in Submissions : game'[p] = PlayText(game[p], TextOf[w]).game
  <2> DEFINE w == Head(inbox[q]).move
  <2>1. w \in Submissions
    BY <1>1, ReadsType DEF SubmitMove, Reads, Commands
  <2>2. game' = [game EXCEPT ![q] = PlayText(game[q], TextOf[w]).game]
    BY <1>1 DEF SubmitMove
  <2> HIDE DEF w
  <2> QED
    BY <2>1, <2>2 DEF TypeOK
<1>2. ASSUME NEW q \in Players, ReadMove(q)
      PROVE  \/ game'[p] = game[p]
             \/ \E w \in Submissions : game'[p] = PlayText(game[p], TextOf[w]).game
  <2>1. Head(pipe[q]) \in Range(TextOf)
    BY <1>2 DEF ReadMove, TypeOK
  <2>2. PICK w \in Submissions : Head(pipe[q]) = TextOf[w]
    BY <2>1 DEF Range, TextOf
  <2>3. game' = [game EXCEPT ![q] = PlayText(game[q], TextOf[w]).game]
    BY <1>2, <2>2 DEF ReadMove
  <2> QED
    BY <2>3 DEF TypeOK
<1>3. CASE game' = game
  BY <1>3
<1>4. ASSUME NEW q \in Players, BadCommand(q) \/ Eof(q) \/ PeerGone(q)
      PROVE  game' = game
  BY <1>4 DEF BadCommand, Eof, PeerGone
<1>5. Fading => game' = game
  BY DEF Fading
<1> QED
  BY <1>1, <1>2, <1>3, <1>4, <1>5, StepsByEffect

\* make_move() makes a move of chess of it.
LEMMA SubmittedPlaysChess ==
  ASSUME NEW g \in Games, Mirrors(g, PositionOf(g)), NEW w \in Submissions
  PROVE  LET h == PlayText(g, TextOf[w]).game
         IN  /\ Mirrors(h, PositionOf(h))
             /\ \/ h.duration = g.duration /\ OnlyPromotes(g.board, h.board)
                \/ PlaysLegally(g, ApiGetMove(w), h)
<1> DEFINE m == ApiGetMove(w)
           r == MakeMove(g, m)
<1>1. g \in EngineGames /\ m \in MoveSet /\ PlayText(g, TextOf[w]) = r
  BY ClientsPlayChess
<1>2. /\ Mirrors(r.game, PositionOf(r.game))
      /\ r.code \notin NonFatal => PlaysLegally(g, m, r.game)
  BY <1>1, MakeMovePlaysChess
<1>3. r.code \in NonFatal =>
        r.game.duration = g.duration /\ OnlyPromotes(g.board, r.game.board)
  BY <1>1, MakeMoveKeepsGame
<1> HIDE DEF r, m
<1> QED
  BY <1>1, <1>2, <1>3 DEF m

\* Every step, for both boards.
LEMMA NextPlaysChess ==
  ASSUME TypeOK, BoardsMirror, [Next]_vars
  PROVE  BoardsMirror' /\ \A p \in Players : GoesOnAsChess(p)
<1>1. ASSUME NEW p \in Players
      PROVE  Mirrors(game'[p], PositionOf(game'[p])) /\ GoesOnAsChess(p)
  <2>1. game[p] \in Games /\ Mirrors(game[p], PositionOf(game[p]))
    BY DEF TypeOK, BoardsMirror
  <2>2. CASE game'[p] = game[p]
    <3>1. game[p].board \in Boards
      BY <2>1, ClientsPlayChess, ChessAssumption, IsGameIsEngineGame DEF EngineGames
    <3>2. OnlyPromotes(game[p].board, game[p].board)
      BY <3>1, NothingPromotes
    <3> QED
      BY <2>1, <2>2, <3>2 DEF GoesOnAsChess
  <2>3. CASE \E w \in Submissions : game'[p] = PlayText(game[p], TextOf[w]).game
    <3>1. PICK w \in Submissions : game'[p] = PlayText(game[p], TextOf[w]).game
      BY <2>3
    <3>2. /\ Mirrors(game'[p], PositionOf(game'[p]))
          /\ \/ /\ game'[p].duration = game[p].duration
                /\ OnlyPromotes(game[p].board, game'[p].board)
             \/ PlaysLegally(game[p], ApiGetMove(w), game'[p])
      BY <2>1, <3>1, SubmittedPlaysChess
    <3> QED
      BY <3>2 DEF GoesOnAsChess
  <2> QED
    BY <2>2, <2>3, BoardsAreSubmitted
<1> QED
  BY <1>1 DEF BoardsMirror

\* Two processes, two pipes and no referee: whatever the users send, when they
\* hang up and which process is killed, each of the two boards sees nothing but
\* legal moves of chess, and between them the promotions of rejected moves.
THEOREM ClientsPlayByTheRules == Spec => EveryBoardPlaysChess
<1> DEFINE Chess ==
             \A p \in Players :
               \/ /\ game'[p].duration = game[p].duration
                  /\ OnlyPromotes(game[p].board, game'[p].board)
               \/ \E w \in Submissions :
                    PlaysLegally(game[p], ApiGetMove(w), game'[p])
<1>1. Init => TypeOK /\ BoardsMirror
  BY InitTypeOK, BoardsMirrorInitially
<1>2. TypeOK /\ BoardsMirror /\ [Next]_vars => (TypeOK /\ BoardsMirror)' /\ [Chess]_vars
  BY NextTypeOK, NextPlaysChess DEF GoesOnAsChess
<1> HIDE DEF Chess
<1>3. Spec => [][Chess]_vars
  BY <1>1, <1>2, PTL DEF Spec
<1> QED
  BY <1>3 DEF Chess, EveryBoardPlaysChess
=============================================================================
