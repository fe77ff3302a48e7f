--------------------------- MODULE ChessGameProofs ---------------------------
(***************************************************************************)
(* Two clients that play chess from new_game() on: the theorems about      *)
(* Session and ChessSession without an assumption on the engine, for all   *)
(* that chess.c makes of all the moves two bytes can say.                  *)
(***************************************************************************)
EXTENDS LegalityProofs

CONSTANT InboxLimit   \* bound: commands of a user not yet read by getchar()

VARIABLES pc, game, pipe, inbox, hungup, verdict, held   \* as in Session

S == INSTANCE ChessSessionProofs WITH
  Games <- EngineGames,
  StartGame <- NewGame,
  EngineMove <- MakeMove,
  PlayerOf <- GetPlayer,
  Submissions <- WireMoves

-----------------------------------------------------------------------------
(* ChessSession's copy of the Engine is the Engine: its definitions are the *)
(* same, from the numbers of the pieces up to make_move().                 *)
LEMMA SameNumbers ==
  /\ S!ROOK = ROOK /\ S!KNIGHT = KNIGHT /\ S!BISHOP = BISHOP
  /\ S!QUEEN = QUEEN /\ S!KING = KING /\ S!PAWN = PAWN /\ S!EMPTY = EMPTY
  /\ S!Promotions = Promotions /\ S!Coord = Coord /\ S!Squares = Squares
  /\ S!None = None /\ S!OK = OK /\ S!ILLEGAL_MOVE = ILLEGAL_MOVE
  /\ S!MISSING_PROMOTION = MISSING_PROMOTION /\ S!WHITE_WIN = WHITE_WIN
  /\ S!BLACK_WIN = BLACK_WIN /\ S!FORCED_DRAW = FORCED_DRAW
  /\ S!DRAW_OFFER = DRAW_OFFER /\ S!NonFatal = NonFatal
  /\ S!WHITE = WHITE /\ S!BLACK = BLACK
  BY DEF S!ROOK, ROOK, S!KNIGHT, KNIGHT, S!BISHOP, BISHOP, S!QUEEN, QUEEN,
         S!KING, KING, S!PAWN, PAWN, S!EMPTY, EMPTY, S!Promotions, Promotions,
         S!Coord, Coord, S!Squares, Squares, S!None, None, S!OK, OK,
         S!ILLEGAL_MOVE, ILLEGAL_MOVE, S!MISSING_PROMOTION, MISSING_PROMOTION,
         S!WHITE_WIN, WHITE_WIN, S!BLACK_WIN, BLACK_WIN, S!FORCED_DRAW,
         FORCED_DRAW, S!DRAW_OFFER, DRAW_OFFER, S!NonFatal, NonFatal,
         S!WHITE, WHITE, S!BLACK, BLACK

\* Whose turn it is, and which way the pawns go.
LEMMA SamePlayers ==
  /\ \A p : S!Opponent(p) = Opponent(p) /\ S!Direction(p) = Direction(p)
  /\ \A p : S!LastRow(p) = LastRow(p)
  /\ \A g : S!GetPlayer(g) = GetPlayer(g)
  BY DEF S!Opponent, Opponent, S!Direction, Direction, S!LastRow, LastRow,
         S!GetPlayer, GetPlayer, S!WHITE, WHITE, S!BLACK, BLACK

\* From where to where a move goes.
LEMMA SameSquares ==
  /\ \A m : S!From(m) = From(m) /\ S!To(m) = To(m) /\ S!Pessant(m) = Pessant(m)
  /\ \A m : S!RowDiff(m) = RowDiff(m) /\ S!ColDiff(m) = ColDiff(m)
  /\ \A n : S!Abs(n) = Abs(n) /\ S!Sign(n) = Sign(n)
  /\ \A s, d, t : S!MoveOf(s, d, t) = MoveOf(s, d, t)
  /\ \A b, s : S!Occupied(b, s) = Occupied(b, s)
  /\ \A squares : S!FirstOf(squares) = FirstOf(squares)
  BY DEF S!From, From, S!To, To, S!Pessant, Pessant, S!RowDiff, RowDiff,
         S!ColDiff, ColDiff, S!Abs, Abs, S!Sign, Sign, S!MoveOf, MoveOf,
         S!Occupied, Occupied, S!FirstOf, FirstOf, S!Before, Before

\* Who stands where.
LEMMA SameBoards ==
  /\ \A b, p : S!HeldBy(b, p) = HeldBy(b, p)
  /\ \A b, squares : S!Without(b, squares) = Without(b, squares)
  /\ \A b, s, man : S!With(b, s, man) = With(b, s, man)
  BY DEF S!HeldBy, HeldBy, S!Without, Without, S!With, With

\* What the checks of a move hand on.
LEMMA SameReports ==
  /\ \A c, b, x, y : S!Report(c, b, x, y) = Report(c, b, x, y)
  /\ \A c, b : S!Rejected(c, b) = Rejected(c, b)
  BY DEF S!Report, Report, S!Rejected, Rejected, S!None, None

\* What a man can reach.
LEMMA SameReach ==
  /\ \A b, m : S!Reaches(b, m) = Reaches(b, m)
  /\ \A m : S!KingSteps(m) = KingSteps(m)
<1>1. \A m : S!Between(m) = Between(m)
  BY DEF S!Between, Between, S!Max, Max, S!RowDiff, RowDiff, S!ColDiff,
         ColDiff, S!Abs, Abs, S!Sign, Sign
<1>2. \A b, m : S!Clear(b, m) = Clear(b, m)
  BY <1>1, SameSquares DEF S!Clear, Clear
<1>3. \A m : S!KingSteps(m) = KingSteps(m) /\ S!KnightReaches(m) = KnightReaches(m)
  BY SameSquares DEF S!KingSteps, KingSteps, S!KnightReaches, KnightReaches
<1>4. \A b, m : /\ S!RookReaches(b, m) = RookReaches(b, m)
                /\ S!BishopReaches(b, m) = BishopReaches(b, m)
  BY <1>2, SameSquares
  DEF S!RookReaches, RookReaches, S!BishopReaches, BishopReaches
<1> QED
  BY <1>3, <1>4, SameNumbers, SameSquares DEF S!Reaches, Reaches

\* pawn_is_illegal()
LEMMA SamePawn == \A g, m : S!PawnReport(g, m) = PawnReport(g, m)
<1>1. \A b, m : S!PawnAdvances(b, m) = PawnAdvances(b, m)
  BY SameSquares, SamePlayers DEF S!PawnAdvances, PawnAdvances
<1>2. \A g, m : S!EnPessant(g, m) = EnPessant(g, m)
  BY SameNumbers, SameSquares DEF S!EnPessant, EnPessant
<1>3. \A g, m : S!PawnTakes(g, m) = PawnTakes(g, m)
  BY <1>2, SameSquares, SamePlayers DEF S!PawnTakes, PawnTakes
<1> QED
  BY <1>1, <1>3, SameNumbers, SameSquares, SamePlayers, SameReports
  DEF S!PawnReport, PawnReport

\* is_illegal(), but for castling.
LEMMA SameStep ==
  /\ \A b, m, p : S!MayTry(b, m, p) = MayTry(b, m, p)
  /\ \A g, m, p : S!StepReport(g, m, p) = StepReport(g, m, p)
<1>1. \A b, m, p : S!MayTry(b, m, p) = MayTry(b, m, p)
  BY SameNumbers, SameSquares DEF S!MayTry, MayTry
<1> QED
  BY <1>1, SameNumbers, SameSquares, SameReports, SameReach, SamePawn
  DEF S!StepReport, StepReport

\* piece_is_attacked(): the same men answer.
LEMMA SameAttack ==
  ASSUME NEW g, NEW square, NEW player
  PROVE  S!Attack(g, square, player) = Attack(g, square, player)
<1> DEFINE b == g.board
           Answer(s) == StepReport(Asked(g, square, player),
                                   MoveOf(s, square, QUEEN), Opponent(player))
           SAnswer(s) == S!StepReport(S!Asked(g, square, player),
                                      S!MoveOf(s, square, S!QUEEN),
                                      S!Opponent(player))
           attackers == {s \in HeldBy(b, Opponent(player)) : Answer(s).code >= 0}
           sattackers ==
             {s \in S!HeldBy(b, S!Opponent(player)) : SAnswer(s).code >= 0}
           after == Answer(FirstOf(attackers)).board
           safter == SAnswer(S!FirstOf(sattackers)).board
<1>1. Asked(g, square, player) = S!Asked(g, square, player)
  BY SameNumbers, SameSquares, SameBoards DEF S!Asked, Asked
<1>2. \A s : SAnswer(s) = Answer(s)
  BY <1>1, SameNumbers, SameSquares, SamePlayers, SameStep
<1>3. Attack(g, square, player) =
        IF attackers = {} THEN [attacked |-> FALSE, board |-> b]
        ELSE [attacked |-> TRUE,
              board |-> IF Occupied(b, square) THEN after
                        ELSE Without(after, {square})]
  BY DEF Attack
<1>4. S!Attack(g, square, player) =
        IF sattackers = {} THEN [attacked |-> FALSE, board |-> b]
        ELSE [attacked |-> TRUE,
              board |-> IF S!Occupied(b, square) THEN safter
                        ELSE S!Without(safter, {square})]
  BY DEF S!Attack
<1> HIDE DEF Answer, SAnswer
<1>5. sattackers = attackers
  BY <1>2, SamePlayers, SameBoards
<1>6. safter = after
  BY <1>2, <1>5, SameSquares
<1>7. S!Without(after, {square}) = Without(after, {square})
  BY SameBoards
<1>8. S!Occupied(b, square) <=> Occupied(b, square)
  BY DEF S!Occupied, Occupied
<1> HIDE DEF attackers, sattackers, after, safter, b
<1>9. CASE attackers = {}
  BY <1>3, <1>4, <1>5, <1>9
<1>10. CASE attackers # {}
  <2>1. CASE Occupied(b, square)
    BY <1>3, <1>4, <1>5, <1>6, <1>8, <1>10, <2>1
  <2>2. CASE ~Occupied(b, square)
    BY <1>3, <1>4, <1>5, <1>6, <1>7, <1>8, <1>10, <2>2
  <2> QED
    BY <2>1, <2>2
<1> QED
  BY <1>9, <1>10

\* is_in_check()
LEMMA SameCheck == \A g, p : S!CheckOn(g, p) = CheckOn(g, p)
<1> SUFFICES ASSUME NEW g, NEW p
             PROVE  S!CheckOn(g, p) = CheckOn(g, p)
  OBVIOUS
<1> DEFINE kings == {s \in HeldBy(g.board, p) : g.board[s].type = KING}
           skings == {s \in S!HeldBy(g.board, p) : g.board[s].type = S!KING}
<1>1. skings = kings
  BY SameNumbers, SameBoards
<1>2. CheckOn(g, p) = IF kings = {} THEN [attacked |-> TRUE, board |-> g.board]
                      ELSE Attack(g, FirstOf(kings), p)
  BY DEF CheckOn
<1>3. S!CheckOn(g, p) = IF skings = {} THEN [attacked |-> TRUE, board |-> g.board]
                        ELSE S!Attack(g, S!FirstOf(skings), p)
  BY DEF S!CheckOn
<1> HIDE DEF kings, skings
<1> QED
  BY <1>1, <1>2, <1>3, SameSquares, SameAttack

\* king_is_illegal()
LEMMA SameKing == \A g, m : S!KingReport(g, m) = KingReport(g, m)
<1> SUFFICES ASSUME NEW g, NEW m
             PROVE  S!KingReport(g, m) = KingReport(g, m)
  OBVIOUS
<1> DEFINE b == g.board
           king == b[From(m)]
           rook == RookFor(b, m)
           path == [i \in 0 .. 2 |-> <<m.r_i, m.c_i + i * Sign(ColDiff(m))>>]
           spath == [i \in 0 .. 2 |-> <<m.r_i, m.c_i + i * S!Sign(S!ColDiff(m))>>]
           attacked == {i \in 0 .. 2 : Attack(g, path[i], king.player).attacked}
           sattacked ==
             {i \in 0 .. 2 : S!Attack(g, spath[i], b[S!From(m)].player).attacked}
<1>1. S!RookFor(b, m) = rook
  <2>1. \A past : S!ScanEnd(b, m, past) = ScanEnd(b, m, past)
    BY DEF S!ScanEnd, ScanEnd, S!Occupied, Occupied, S!Coord, Coord, S!Sign, Sign,
           S!ColDiff, ColDiff
  <2> DEFINE found == {ScanEnd(b, m, past) : past \in BOOLEAN} \cap Coord
             sfound == {S!ScanEnd(b, m, past) : past \in BOOLEAN} \cap S!Coord
             Rook(set) == IF set = {} THEN None ELSE <<m.r_i, CHOOSE c \in set : TRUE>>
  <2>2. found = sfound
    BY <2>1 DEF S!Coord, Coord
  <2>3. S!RookFor(b, m) = Rook(sfound) /\ RookFor(b, m) = Rook(found)
    BY DEF S!RookFor, RookFor, S!None, None
  <2> HIDE DEF found, sfound, Rook
  <2> QED
    BY <2>2, <2>3
<1>2. spath = path /\ S!From(m) = From(m)
  BY SameSquares
<1>3. \A set : S!Min(set) = Min(set)
  BY DEF S!Min, Min
<1>4. KingReport(g, m) =
        IF KingSteps(m) THEN Report(OK, b, None, None)
        ELSE IF \/ king.moves # 0 \/ RowDiff(m) # 0 \/ Abs(ColDiff(m)) # 2
                \/ rook = None
                \/ b[rook].type # ROOK \/ b[rook].moves # 0
          THEN Rejected(ILLEGAL_MOVE, b)
        ELSE IF attacked # {}
          THEN Rejected(ILLEGAL_MOVE,
                        Attack(g, path[Min(attacked)], king.player).board)
        ELSE Report(OK, b, None, MoveOf(rook, path[1], EMPTY))
  BY DEF KingReport
<1>5. S!KingReport(g, m) =
        IF S!KingSteps(m) THEN S!Report(S!OK, b, S!None, S!None)
        ELSE IF \/ b[S!From(m)].moves # 0 \/ S!RowDiff(m) # 0
                \/ S!Abs(S!ColDiff(m)) # 2
                \/ S!RookFor(b, m) = S!None
                \/ b[S!RookFor(b, m)].type # S!ROOK
                \/ b[S!RookFor(b, m)].moves # 0
          THEN S!Rejected(S!ILLEGAL_MOVE, b)
        ELSE IF sattacked # {}
          THEN S!Rejected(S!ILLEGAL_MOVE,
                 S!Attack(g, spath[S!Min(sattacked)], b[S!From(m)].player).board)
        ELSE S!Report(S!OK, b, S!None, S!MoveOf(S!RookFor(b, m), spath[1], S!EMPTY))
  BY DEF S!KingReport
<1> HIDE DEF path, spath, rook
<1>6. sattacked = attacked
  BY <1>2, SameAttack
<1> HIDE DEF attacked, sattacked
<1> QED
  BY <1>1, <1>2, <1>3, <1>4, <1>5, <1>6, SameNumbers, SameSquares, SameReports,
     SameReach, SameAttack

\* is_illegal()
LEMMA SameIllegal == \A g, m, p : S!IsIllegal(g, m, p) = IsIllegal(g, m, p)
  BY SameNumbers, SameSquares, SameStep, SameKing DEF S!IsIllegal, IsIllegal

\* The move itself.
LEMMA SameMove == \A g, m, r : S!Executed(g, m, r) = Executed(g, m, r)
<1>1. \A g, m, captured, lost, count, now :
        S!Moved(g, m, captured, lost, count, now) =
          Moved(g, m, captured, lost, count, now)
  BY DEF S!Moved, Moved, S!With, With, S!Without, Without, S!From, From, S!To,
         To, S!Occupied, Occupied, S!None, None
<1>2. \A g, m, captured, advance :
        S!MoveUnchecked(g, m, captured, advance) =
          MoveUnchecked(g, m, captured, advance)
  BY <1>1 DEF S!MoveUnchecked, MoveUnchecked, S!Ticked, Ticked
<1> QED
  BY <1>2, SameNumbers DEF S!Executed, Executed

\* make_move_no_checkmate()
LEMMA SameNoCheckmate ==
  \A g, m : S!MakeMoveNoCheckmate(g, m) = MakeMoveNoCheckmate(g, m)
<1>1. \A backup, played : S!UnlessInCheck(backup, played) = UnlessInCheck(backup, played)
  BY SameNumbers, SamePlayers, SameCheck DEF S!UnlessInCheck, UnlessInCheck
<1>2. \A g, m, r : S!AfterReport(g, m, r) = AfterReport(g, m, r)
  BY <1>1, SameMove DEF S!AfterReport, AfterReport
<1> QED
  BY <1>2, SamePlayers, SameIllegal
  DEF S!MakeMoveNoCheckmate, MakeMoveNoCheckmate

\* make_move()
LEMMA SameEngine == \A g, m : S!MakeMove(g, m) = MakeMove(g, m)
<1>1. \A g, p : S!CanMakeMove(g, p) = CanMakeMove(g, p)
  BY SameNumbers, SameSquares, SameBoards, SameNoCheckmate
  DEF S!CanMakeMove, CanMakeMove
<1>2. \A p, g, check : S!Outcome(p, g, check) = Outcome(p, g, check)
  BY <1>1, SameNumbers, SamePlayers DEF S!Outcome, Outcome
<1>3. \A p, r : S!Judged(p, r) = Judged(p, r)
  BY <1>2, SameNumbers, SamePlayers, SameCheck DEF S!Judged, Judged
<1> QED
  BY <1>3, SamePlayers, SameNoCheckmate DEF S!MakeMove, MakeMove

\* So are its moves, games and players.
LEMMA SameMoves ==
  /\ S!WireMoves = WireMoves /\ S!NonFatal = NonFatal
  /\ S!MoveCodes = MoveCodes /\ S!Accepted = Accepted
  /\ \A w : S!ApiGetMove(w) = ApiGetMove(w)
  BY DEF S!WireMoves, WireMoves, S!Byte, Byte, S!NonFatal, NonFatal,
         S!GameOver, GameOver, S!Accepted, Accepted, S!MoveCodes, MoveCodes,
         S!ILLEGAL_MOVE, ILLEGAL_MOVE, S!WHITE_WIN, WHITE_WIN, S!BLACK_WIN,
         BLACK_WIN, S!FORCED_DRAW, FORCED_DRAW, S!MISSING_PROMOTION,
         MISSING_PROMOTION, S!OK, OK, S!DRAW_OFFER, DRAW_OFFER,
         S!ApiGetMove, ApiGetMove, S!Bits, Bits, S!EMPTY, EMPTY

\* A game, and a man that may count as unmoved.
LEMMA SameGames ==
  /\ \A g : S!IsGame(g) = IsGame(g) /\ S!GetPlayer(g) = GetPlayer(g)
  /\ \A b : S!AtHome(b) = AtHome(b)
  /\ S!Players = Players /\ \A p : S!Opponent(p) = Opponent(p)
  BY DEF S!IsGame, IsGame, S!AtHome, AtHome, S!MayNotCastle, MayNotCastle,
         S!HeldBy, HeldBy, S!Home, Home, S!HomeRow, HomeRow,
         S!Pieces, Pieces,
         S!PieceTypes, PieceTypes, S!Players, Players, S!Squares, Squares,
         S!Coord, Coord, S!GetPlayer, GetPlayer, S!Opponent, Opponent,
         S!WHITE, WHITE, S!BLACK, BLACK, S!ROOK, ROOK, S!KING, KING,
         S!PAWN, PAWN

\* The rules that ChessSession goes by are the rules of Chess.
LEMMA SameAttacks == \A men, s : S!Rules!Attacks(men, s) = Rules!Attacks(men, s)
<1>1. /\ \A s, d, k : S!Rules!Plus(s, d, k) = Rules!Plus(s, d, k)
      /\ S!Rules!Straight = Rules!Straight /\ S!Rules!Diagonal = Rules!Diagonal
      /\ S!Rules!Board = Rules!Board
      /\ \A p : S!Rules!Forward(p) = Rules!Forward(p)
  BY DEF S!Rules!Plus, Rules!Plus, S!Rules!Straight, Rules!Straight,
         S!Rules!Diagonal, Rules!Diagonal, S!Rules!Board, Rules!Board,
         S!Rules!Coord, Rules!Coord, S!Rules!Forward, Rules!Forward,
         S!Rules!WHITE, Rules!WHITE
<1>2. /\ S!Rules!ROOK = Rules!ROOK /\ S!Rules!BISHOP = Rules!BISHOP
      /\ S!Rules!QUEEN = Rules!QUEEN /\ S!Rules!PAWN = Rules!PAWN
      /\ S!Rules!KNIGHT = Rules!KNIGHT /\ S!Rules!KING = Rules!KING
  BY DEF S!Rules!ROOK, Rules!ROOK, S!Rules!BISHOP, Rules!BISHOP, S!Rules!QUEEN,
         Rules!QUEEN, S!Rules!PAWN, Rules!PAWN, S!Rules!KNIGHT, Rules!KNIGHT,
         S!Rules!KING, Rules!KING
<1>3. \A men, s, d : S!Rules!Ray(men, s, d) = Rules!Ray(men, s, d)
  BY <1>1 DEF S!Rules!Ray, Rules!Ray
<1>4. \A type : S!Rules!Slides(type) = Rules!Slides(type)
  BY <1>1, <1>2, Zenon DEF S!Rules!Slides, Rules!Slides
<1> SUFFICES ASSUME NEW men, NEW s
             PROVE  S!Rules!Attacks(men, s) = Rules!Attacks(men, s)
  OBVIOUS
<1> DEFINE man == men[s]
           pawn == {Rules!Plus(s, <<Rules!Forward(man.player), dc>>, 1) : dc \in {-1, 1}}
           knight ==
             {Rules!Plus(s, <<dr, dc>>, 1) : dr \in {-2, -1, 1, 2}, dc \in {-2, -1, 1, 2}}
               \ {Rules!Plus(s, d, k) : d \in Rules!Diagonal, k \in {1, 2}}
           king == {Rules!Plus(s, d, 1) : d \in Rules!Straight \cup Rules!Diagonal}
           slider == UNION {Rules!Ray(men, s, d) : d \in Rules!Slides(man.type)}
           spawn == {S!Rules!Plus(s, <<S!Rules!Forward(man.player), dc>>, 1) : dc \in {-1, 1}}
           sknight ==
             {S!Rules!Plus(s, <<dr, dc>>, 1) : dr \in {-2, -1, 1, 2}, dc \in {-2, -1, 1, 2}}
               \ {S!Rules!Plus(s, d, k) : d \in S!Rules!Diagonal, k \in {1, 2}}
           sking == {S!Rules!Plus(s, d, 1) : d \in S!Rules!Straight \cup S!Rules!Diagonal}
           sslider == UNION {S!Rules!Ray(men, s, d) : d \in S!Rules!Slides(man.type)}
<1>5. spawn = pawn /\ sknight = knight /\ sking = king
  BY <1>1
<1>6. sslider = slider
  BY <1>3, <1>4
<1>7. Rules!Attacks(men, s) = CASE man.type = Rules!PAWN -> pawn
                                [] man.type = Rules!KNIGHT -> knight
                                [] man.type = Rules!KING -> king
                                [] OTHER -> slider
  BY DEF Rules!Attacks
<1>8. S!Rules!Attacks(men, s) = CASE man.type = S!Rules!PAWN -> spawn
                                  [] man.type = S!Rules!KNIGHT -> sknight
                                  [] man.type = S!Rules!KING -> sking
                                  [] OTHER -> sslider
  BY DEF S!Rules!Attacks
<1> HIDE DEF pawn, knight, king, slider, spawn, sknight, sking, sslider
<1> QED
  BY <1>2, <1>5, <1>6, <1>7, <1>8

\* So are its checks.
LEMMA SameChecks == \A men, p : S!Rules!InCheck(men, p) = Rules!InCheck(men, p)
<1>1. \A men, s, p : S!Rules!Attacked(men, s, p) = Rules!Attacked(men, s, p)
  BY SameAttacks DEF S!Rules!Attacked, Rules!Attacked
<1>2. \A p : S!Rules!Opponent(p) = Rules!Opponent(p)
  BY DEF S!Rules!Opponent, Rules!Opponent, S!Rules!WHITE, Rules!WHITE,
         S!Rules!BLACK, Rules!BLACK
<1>3. S!Rules!KING = Rules!KING
  BY DEF S!Rules!KING, Rules!KING
<1> QED
  BY <1>1, <1>2, <1>3 DEF S!Rules!InCheck, Rules!InCheck

\* And the games that one may begin with.
LEMMA SameStarts == \A g : MayStart(g) => S!MayStart(g)
<1>1. /\ \A b : S!MenOf(b) = MenOf(b)
      /\ \A men, p : S!KingsOf(men, p) = KingsOf(men, p)
  BY SameNumbers DEF S!MenOf, MenOf, S!KingsOf, KingsOf
<1>2. \A men, p : S!KingsAreSafe(men, p) = KingsAreSafe(men, p)
  BY <1>1, SameGames, SameNumbers, SameChecks DEF S!KingsAreSafe, KingsAreSafe
<1>3. \A g : S!PastIsInOrder(g) = PastIsInOrder(g)
  BY SameNumbers DEF S!PastIsInOrder, PastIsInOrder
<1>4. \A g : S!JustPassed(g) = JustPassed(g)
  BY SameNumbers, SamePlayers, SameBoards DEF S!JustPassed, JustPassed
<1> QED
  BY <1>1, <1>2, <1>3, <1>4, SameGames DEF S!MayStart, MayStart

\* Session may rely on chess.c: make_move() leaves a game, of the same turn
\* where it rejects the move and of the other one's where it accepts it.
LEMMA EngineOfSession ==
  ASSUME InboxLimit \in Nat
  PROVE  S!EngineAssumption
<1>1. ASSUME NEW g \in EngineGames, NEW w \in WireMoves
      PROVE  LET r == MakeMove(g, ApiGetMove(w))
             IN  /\ r.code \in MoveCodes /\ r.game \in EngineGames
                 /\ r.code \in NonFatal => GetPlayer(r.game) = GetPlayer(g)
                 /\ r.code \in Accepted => GetPlayer(r.game) = Opponent(GetPlayer(g))
  <2> DEFINE r == MakeMove(g, ApiGetMove(w))
  <2>1. /\ r.game \in EngineGames /\ r.code \in MoveCodes
        /\ r.code \in NonFatal => r.game.duration = g.duration
        /\ r.code \notin NonFatal => r.game.duration = g.duration + 1
    BY WireMovesDecode, MakeMoveKeepsGame
  <2> HIDE DEF r
  <2>2. g.duration \in Nat
    BY DEF EngineGames
  <2>3. r.code \in Accepted => r.code \notin NonFatal
    BY Numbers DEF Accepted, DRAW_OFFER
  <2>4. r.game.duration = g.duration + 1 => GetPlayer(r.game) = Opponent(GetPlayer(g))
    BY <2>2 DEF GetPlayer, Opponent, WHITE, BLACK
  <2> QED
    BY <2>1, <2>3, <2>4 DEF r, GetPlayer
<1>2. \A g \in EngineGames : GetPlayer(g) \in Players
  BY DEF GetPlayer, Players
<1> QED
  BY <1>1, <1>2, NewGameIsGame, SameMoves, SameGames DEF S!EngineAssumption

\* The parameters are the Engine's.
LEMMA EngineOfChessSession == S!ChessAssumption
  BY SameEngine, SameMoves, SameGames, IsGameIsEngineGame, SameStarts,
     NewGameMayStart
  DEF S!ChessAssumption

\* Two clients of chess.c that start with new_game() take turns: there is one
\* mover at a time, they never wait for each other, and no move is lost,
\* whatever their users send, when they hang up and which process is killed.
\* And one who is asked for a move sees what the other one sees, but for
\* promotions that were rejected.
THEOREM ChessClientsPlayTogether ==
  ASSUME InboxLimit \in Nat
  PROVE  S!Spec => [](S!Lockstep /\ S!BoardsDifferOnlyInPromotion)
<1>1. S!Spec => []S!Lockstep
  BY EngineOfSession, EngineOfChessSession, S!LockstepHolds
<1>2. S!Spec => []S!BoardsDifferOnlyInPromotion
  BY EngineOfSession, EngineOfChessSession, S!BoardsShowTheSameMen
<1> QED
  BY <1>1, <1>2, PTL

\* And neither board ever sees a move that the rules of chess forbid in the
\* position on it, from the first move on to mate.
THEOREM ChessClientsPlayChess ==
  ASSUME InboxLimit \in Nat
  PROVE  S!Spec => S!EveryBoardPlaysChess
  BY EngineOfSession, EngineOfChessSession, S!ClientsPlayByTheRules

\* And until a pawn has come to stand beside its last row, the two of them play
\* one game: both boards the same but for the move in flight, no move refused
\* that was accepted, and nobody told of an error but of a failure or departure.
THEOREM ChessClientsPlayOneGame ==
  ASSUME InboxLimit \in Nat
  PROVE  S!Init /\ [][S!Next]_(S!vars) /\ []S!NobodyMayPromote =>
           [](S!BoardsAgree /\ S!NoUnknownError) /\ S!PlaysOneGame
<1>1. S!Init /\ [][S!Next]_(S!vars) /\ []S!NobodyMayPromote =>
        [](S!BoardsAgree /\ S!NoUnknownError)
  BY EngineOfSession, EngineOfChessSession, S!BoardsAgreeBeforePromotions
<1>2. S!Init /\ [][S!Next]_(S!vars) /\ []S!NobodyMayPromote => S!PlaysOneGame
  BY EngineOfSession, EngineOfChessSession, S!OneGameBeforePromotions
<1> QED
  BY <1>1, <1>2
=============================================================================
