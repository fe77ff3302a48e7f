---------------------------- MODULE EngineProofs ----------------------------
(***************************************************************************)
(* Proofs about Engine, for every game that a client may hold and every    *)
(* move: what make_move() keeps of a game, what a rejected move may leave  *)
(* behind, and whose turn it is afterwards; and about the Moves themselves *)
(* what their two encodings preserve.                                      *)
(***************************************************************************)
EXTENDS Engine, TLAPS

-----------------------------------------------------------------------------
(* Moves: the two bytes of a user and the text between the clients. *)
\* A field of three bits is a coordinate, one of two bits a promotion.
LEMMA BitsRange ==
  \A byte \in Byte : /\ \A weight \in {32, 4} : Bits(byte, weight, 8) \in 0 .. 7
                    /\ Bits(byte, 1, 4) \in 0 .. 3
<1> SUFFICES ASSUME NEW byte \in Byte
             PROVE  /\ \A weight \in {32, 4} : Bits(byte, weight, 8) \in 0 .. 7
                    /\ Bits(byte, 1, 4) \in 0 .. 3
  OBVIOUS
<1>1. byte \div 32 \in Int /\ byte \div 4 \in Int /\ byte \div 1 \in Int
  BY DEF Byte
<1> QED
  BY <1>1 DEF Bits

\* Any two bytes a user can send decode to a move on the board: the range
\* check at the top of is_illegal() (chess.c:209) never fires for a player.
THEOREM WireMovesDecode == \A w \in WireMoves : ApiGetMove(w) \in MoveSet
<1> SUFFICES ASSUME NEW w \in WireMoves
             PROVE  ApiGetMove(w) \in MoveSet
  OBVIOUS
<1>1. w[1] \in Byte /\ w[2] \in Byte
  BY DEF WireMoves
<1>2. /\ Bits(w[1], 32, 8) \in Coord
      /\ Bits(w[1], 4, 8) \in Coord
      /\ Bits(w[2], 32, 8) \in Coord
      /\ Bits(w[2], 4, 8) \in Coord
  BY <1>1, BitsRange DEF Coord
<1>3. Bits(w[2], 1, 4) \in Promotions \cup {EMPTY}
  BY <1>1, BitsRange DEF Promotions, ROOK, QUEEN
<1> QED
  BY <1>2, <1>3 DEF ApiGetMove, MoveSet

\* The letters of the promotions are lower case, and no two are the same.
LEMMA PromotionLetters ==
  \A t \in Promotions \cup {EMPTY} :
    /\ ToLower(PieceToChar(t)) = PieceToChar(t)
    /\ PieceToChar(t) \in PromotionChars
    /\ PromotionOf(PieceToChar(t)) = t
<1> SUFFICES ASSUME NEW t \in Promotions \cup {EMPTY}
             PROVE  /\ ToLower(PieceToChar(t)) = PieceToChar(t)
                    /\ PieceToChar(t) \in PromotionChars
                    /\ PromotionOf(PieceToChar(t)) = t
  OBVIOUS
<1>1. Promotions \cup {EMPTY} = {ROOK, KNIGHT, BISHOP, QUEEN, EMPTY}
  BY DEF Promotions, ROOK, KNIGHT, BISHOP, QUEEN, EMPTY
<1>2. /\ PieceToChar(ROOK) = 114
      /\ PieceToChar(KNIGHT) = 110
      /\ PieceToChar(BISHOP) = 98
      /\ PieceToChar(QUEEN) = 113
      /\ PieceToChar(EMPTY) = 0
  BY DEF PieceToChar, ROOK, KNIGHT, BISHOP, QUEEN, KING, PAWN, EMPTY, NUL
<1>3. ToLower(PieceToChar(t)) = PieceToChar(t)
  BY <1>1, <1>2 DEF ToLower
<1>4. PieceToChar(t) \in PromotionChars
  BY DEF PromotionChars
<1>5. \A u \in Promotions \cup {EMPTY} : PieceToChar(u) = PieceToChar(t) => u = t
  BY <1>1, <1>2
<1>6. PromotionOf(PieceToChar(t)) = t
  BY <1>5 DEF PromotionOf
<1> QED
  BY <1>3, <1>4, <1>6

\* parse_move() undoes move_to_string(): the opponent's client reads the very
\* move that was played, promotion included, and never fails to parse it.
THEOREM TextRoundTrip ==
  \A m \in MoveSet : /\ ParseCode(MoveToString(m)) = OK
                     /\ ParsedMove(MoveToString(m)) = m
<1> SUFFICES ASSUME NEW m \in MoveSet
             PROVE  /\ ParseCode(MoveToString(m)) = OK
                    /\ ParsedMove(MoveToString(m)) = m
  OBVIOUS
<1> DEFINE t == MoveToString(m)
<1>1. /\ m.r_i \in 0 .. 7 /\ m.c_i \in 0 .. 7
      /\ m.r_f \in 0 .. 7 /\ m.c_f \in 0 .. 7
      /\ m.promotion \in Promotions \cup {EMPTY}
  BY DEF MoveSet, Coord
<1>2. /\ t[1] = m.c_i + 97 /\ t[2] = 8 - m.r_i + 48
      /\ t[3] = m.c_f + 97 /\ t[4] = 8 - m.r_f + 48
      /\ t[5] = PieceToChar(m.promotion)
  BY DEF MoveToString, CharA, Char0
<1>3. /\ ToLower(t[1]) = t[1] /\ ToLower(t[3]) = t[3]
  BY <1>1, <1>2 DEF ToLower
<1>4. /\ ToLower(t[5]) = t[5]
      /\ t[5] \in PromotionChars
      /\ PromotionOf(t[5]) = m.promotion
  BY <1>1, <1>2, PromotionLetters
<1>5. ParseCode(t) = OK
  <2>1. \A i \in 1 .. 4 : t[i] # NUL
    <3>1. /\ t[1] # 0 /\ t[2] # 0 /\ t[3] # 0 /\ t[4] # 0
      BY <1>1, <1>2
    <3> QED
      BY <3>1 DEF NUL
  <2> QED
    BY <2>1, <1>4 DEF ParseCode
<1>6. ParsedMove(t) = m
  <2>1. /\ 8 - (t[2] - Char0) = m.r_i
        /\ ToLower(t[1]) - CharA = m.c_i
        /\ 8 - (t[4] - Char0) = m.r_f
        /\ ToLower(t[3]) - CharA = m.c_f
    BY <1>1, <1>2, <1>3 DEF Char0, CharA
  <2>2. ParsedMove(t) = [r_i |-> m.r_i, c_i |-> m.c_i, r_f |-> m.r_f,
                         c_f |-> m.c_f, promotion |-> m.promotion]
    BY <2>1, <1>4 DEF ParsedMove
  <2> QED
    BY <2>2 DEF MoveSet
<1> QED
  BY <1>5, <1>6

-----------------------------------------------------------------------------
(* Boards. *)
\* The numbers of the piece types and the codes.
LEMMA Numbers ==
  /\ PieceTypes = 0 .. 5 /\ Promotions = 0 .. 3
  /\ ROOK = 0 /\ QUEEN = 3 /\ KING = 4 /\ PAWN = 5 /\ EMPTY = 6
  /\ OK = 0 /\ ILLEGAL_MOVE = -1 /\ MISSING_PROMOTION = -5
  /\ NonFatal = {-1, -5}
  BY DEF PieceTypes, Promotions, ROOK, QUEEN, KING, PAWN, EMPTY, OK,
         ILLEGAL_MOVE, MISSING_PROMOTION, NonFatal

\* The boards that a client can hold.
Boards == {b \in UNION {[D -> Pieces] : D \in SUBSET Squares} : AtHome(b)}

\* The games that a client can hold.
EngineGames == {g \in [board: Boards, duration: Nat, last_big_move: Nat] :
                  g.last_big_move <= g.duration}

\* A board, square by square.
LEMMA BoardIs ==
  ASSUME NEW b
  PROVE  b \in Boards <=> /\ DOMAIN b \subseteq Squares
                          /\ b \in [DOMAIN b -> Pieces]
                          /\ AtHome(b)
  BY DEF Boards

\* The games that a client can hold, by two predicates.
LEMMA IsGameIsEngineGame ==
  ASSUME NEW g
  PROVE  g \in EngineGames <=> IsGame(g) /\ AtHome(g.board)
<1>1. ASSUME g \in EngineGames
      PROVE  IsGame(g) /\ AtHome(g.board)
  BY <1>1, BoardIs DEF EngineGames, IsGame
<1>2. ASSUME IsGame(g), AtHome(g.board)
      PROVE  g \in EngineGames
  <2>1. g.board \in Boards
    BY <1>2, BoardIs DEF IsGame
  <2> QED
    BY <1>2, <2>1 DEF EngineGames, IsGame
<1> QED
  BY <1>1, <1>2

\* A board that stays is one of them.
LEMMA NothingPromotes == \A b \in Boards : OnlyPromotes(b, b)
  BY DEF Boards, OnlyPromotes

\* Who counts as unmoved is at home, if he is no king.
LEMMA HomeOf ==
  ASSUME NEW b, AtHome(b), NEW s \in DOMAIN b, b[s].moves = 0, b[s].type # KING
  PROVE  s \in Home(b[s])
  BY DEF AtHome, MayNotCastle

\* Where nobody but men of a board counts as unmoved, everybody is at home.
LEMMA HomeIsKept ==
  ASSUME NEW b, AtHome(b), NEW c,
         \A s \in DOMAIN c : c[s].moves = 0 => s \in DOMAIN b /\ c[s] = b[s]
  PROVE  AtHome(c)
<1>1. ASSUME NEW s \in DOMAIN c, c[s].moves = 0, MayNotCastle(b, s)
      PROVE  MayNotCastle(c, s)
  BY <1>1 DEF MayNotCastle, HeldBy
<1> QED
  BY <1>1 DEF AtHome

\* Promoting a pawn beside its last row leaves a board: it has moved before.
LEMMA PromotionIsBoard ==
  ASSUME NEW b \in Boards, NEW c, OnlyPromotes(b, c)
  PROVE  c \in Boards
<1>1. DOMAIN b \subseteq Squares /\ b \in [DOMAIN b -> Pieces] /\ AtHome(b)
  BY BoardIs
<1>2. ASSUME NEW s \in DOMAIN b
      PROVE  c[s] \in Pieces /\ (c[s].moves = 0 => c[s] = b[s])
  <2>1. CASE c[s] = b[s]
    BY <1>1, <2>1
  <2>2. CASE c[s] # b[s]
    <3>1. /\ MayPromote(s, b[s]) /\ c[s].type \in Promotions
          /\ c[s] = [b[s] EXCEPT !.type = c[s].type] /\ b[s] \in Pieces
      BY <1>1, <2>2 DEF OnlyPromotes
    <3>2. c[s] \in Pieces /\ c[s].moves = b[s].moves
      BY <3>1, Numbers DEF Pieces
    <3>3. b[s].moves # 0
      <4>1. b[s].type = PAWN /\ b[s].player \in Players
        BY <3>1 DEF MayPromote, Pieces
      <4>2. s \notin Home(b[s])
        BY <3>1, <4>1, Numbers
        DEF Home, MayPromote, Direction, LastRow, Players, WHITE, BLACK
      <4> QED
        BY <1>1, <4>1, <4>2, HomeOf, Numbers
    <3> QED
      BY <3>2, <3>3
  <2> QED
    BY <2>1, <2>2
<1>3. DOMAIN c = DOMAIN b /\ c = [s \in DOMAIN b |-> c[s]]
  BY DEF OnlyPromotes
<1>4. AtHome(c)
  BY <1>1, <1>2, <1>3, HomeIsKept
<1> QED
  BY <1>1, <1>2, <1>3, <1>4, BoardIs

\* Promotions one after the other are promotions: a man is promoted once.
LEMMA PromotionsAddUp ==
  ASSUME NEW a, NEW b, NEW c, OnlyPromotes(a, b), OnlyPromotes(b, c)
  PROVE  OnlyPromotes(a, c)
  BY Numbers DEF OnlyPromotes, MayPromote

-----------------------------------------------------------------------------
(* What is_illegal() reports. *)
ReportCodes == {OK, ILLEGAL_MOVE, MISSING_PROMOTION}

\* A pawn that gets to its last row comes from the row beside it: a double
\* step starts at home.
LEMMA PawnReportPromotes ==
  ASSUME NEW g, NEW m, g.board = [s \in DOMAIN g.board |-> g.board[s]],
         From(m) \in DOMAIN g.board, g.board[From(m)] \in Pieces,
         g.board[From(m)].type = PAWN,
         g.board[From(m)].moves = 0 => From(m) \in Home(g.board[From(m)]),
         m.r_i \in Coord, m.r_f \in Coord
  PROVE  /\ PawnReport(g, m).code \in ReportCodes
         /\ OnlyPromotes(g.board, PawnReport(g, m).board)
<1> DEFINE b == g.board
           pawn == b[From(m)]
           promoted == [b EXCEPT ![From(m)].type = m.promotion]
<1>1. pawn.player \in Players /\ pawn \in Pieces /\ From(m)[1] = m.r_i
  BY DEF Pieces, From
<1>2. OnlyPromotes(b, b)
  BY DEF OnlyPromotes
<1>3. CASE /\ PawnAdvances(b, m) \/ PawnTakes(g, m)
           /\ m.r_f = LastRow(pawn.player)
           /\ m.promotion \in Promotions
  <2>1. m.r_f = m.r_i + Direction(pawn.player)
    <3>1. RowDiff(m) = Direction(pawn.player) \/
            (RowDiff(m) = 2 * Direction(pawn.player) /\ pawn.moves = 0)
      BY <1>3 DEF PawnAdvances, PawnTakes
    <3>2. CASE RowDiff(m) = 2 * Direction(pawn.player) /\ pawn.moves = 0
      <4>1. m.r_i = IF pawn.player = WHITE THEN 6 ELSE 1
        BY <3>2, <1>1, Numbers DEF Home
      <4> QED
        BY <4>1, <3>2, <1>1, <1>3
        DEF RowDiff, Direction, LastRow, Coord
    <3> QED
      BY <3>1, <3>2 DEF RowDiff, Direction, Coord
  <2>2. MayPromote(From(m), pawn)
    BY <1>1, <1>3, <2>1 DEF MayPromote, LastRow
  <2>3. OnlyPromotes(b, promoted)
    BY <1>1, <1>3, <2>2 DEF OnlyPromotes, Pieces
  <2>4. PawnReport(g, m).code = OK /\ PawnReport(g, m).board = promoted
    BY <1>3 DEF PawnReport, Report
  <2> QED
    BY <2>3, <2>4 DEF ReportCodes
<1>4. CASE ~(/\ PawnAdvances(b, m) \/ PawnTakes(g, m)
             /\ m.r_f = LastRow(pawn.player)
             /\ m.promotion \in Promotions)
  BY <1>2, <1>4 DEF PawnReport, Report, Rejected, ReportCodes
<1> QED
  BY <1>3, <1>4

\* The same for every man but a king that castles.
LEMMA StepReportPromotes ==
  ASSUME NEW g, NEW m, NEW player, g.board = [s \in DOMAIN g.board |-> g.board[s]],
         From(m) \in DOMAIN g.board /\ g.board[From(m)].player = player =>
           /\ g.board[From(m)] \in Pieces
           /\ g.board[From(m)].moves = 0 /\ g.board[From(m)].type # KING =>
                From(m) \in Home(g.board[From(m)])
  PROVE  /\ StepReport(g, m, player).code \in ReportCodes
         /\ OnlyPromotes(g.board, StepReport(g, m, player).board)
         /\ StepReport(g, m, player).code >= 0 => MayTry(g.board, m, player)
         /\ StepReport(g, m, player).castle = None
<1>1. OnlyPromotes(g.board, g.board)
  BY DEF OnlyPromotes
<1>2. CASE ~MayTry(g.board, m, player)
  BY <1>1, <1>2, Numbers DEF StepReport, Rejected, Report, ReportCodes
<1>3. CASE MayTry(g.board, m, player) /\ g.board[From(m)].type = PAWN
  <2>1. StepReport(g, m, player) = PawnReport(g, m)
    BY <1>3 DEF StepReport
  <2>2. PawnReport(g, m).castle = None
    BY DEF PawnReport, Rejected, Report
  <2> QED
    BY <1>3, <2>1, <2>2, PawnReportPromotes, Numbers DEF MayTry, Occupied
<1>4. CASE MayTry(g.board, m, player) /\ g.board[From(m)].type # PAWN
  BY <1>1, <1>4 DEF StepReport, Rejected, Report, ReportCodes
<1> QED
  BY <1>2, <1>3, <1>4

\* A man who is put on an empty square for a question and taken off again.
LEMMA TargetRemoved ==
  ASSUME NEW b, NEW a, NEW c, NEW square, square \notin DOMAIN b,
         DOMAIN a = DOMAIN b \cup {square}, \A t \in DOMAIN b : a[t] = b[t],
         OnlyPromotes(a, c)
  PROVE  OnlyPromotes(b, Without(c, {square}))
<1> DEFINE w == Without(c, {square})
<1>1. DOMAIN c = DOMAIN b \cup {square}
  BY DEF OnlyPromotes
<1>2. DOMAIN w = DOMAIN b /\ w = [t \in DOMAIN b |-> w[t]]
  BY <1>1 DEF Without
<1>3. \A t \in DOMAIN b : w[t] = c[t]
  BY <1>1 DEF Without
<1> HIDE DEF w
<1>4. ASSUME NEW t \in DOMAIN b, w[t] # b[t]
      PROVE  /\ MayPromote(t, b[t]) /\ w[t].type \in Promotions
             /\ w[t] = [b[t] EXCEPT !.type = w[t].type]
  <2>1. c[t] # a[t] /\ t \in DOMAIN a
    BY <1>3, <1>4
  <2>2. /\ MayPromote(t, a[t]) /\ c[t].type \in Promotions
        /\ c[t] = [a[t] EXCEPT !.type = c[t].type]
    BY <2>1 DEF OnlyPromotes
  <2> QED
    BY <1>3, <1>4, <2>2
<1>5. OnlyPromotes(b, w)
  BY <1>2, <1>4 DEF OnlyPromotes
<1> QED
  BY <1>5 DEF w

\* Asking whether a square is attacked promotes pawns at the most.
LEMMA AttackPromotes ==
  ASSUME NEW g \in EngineGames, NEW square, NEW player \in Players
  PROVE  OnlyPromotes(g.board, Attack(g, square, player).board)
<1> DEFINE b == g.board
           asked == Asked(g, square, player)
           target == [type |-> PAWN, player |-> player, moves |-> 0,
                      last_move |-> 0]
           s == FirstOf({t \in HeldBy(b, Opponent(player)) :
                  StepReport(asked, MoveOf(t, square, QUEEN),
                             Opponent(player)).code >= 0})
           after == StepReport(asked, MoveOf(s, square, QUEEN),
                               Opponent(player)).board
<1>1. /\ DOMAIN b \subseteq Squares /\ b \in [DOMAIN b -> Pieces] /\ AtHome(b)
      /\ Opponent(player) # player
  BY BoardIs DEF EngineGames, Players, Opponent, WHITE, BLACK
<1>2. CASE Occupied(b, square)
  <2>1. asked = g
    BY <1>2 DEF Asked
  <2>2. OnlyPromotes(b, after)
    BY <1>1, <2>1, StepReportPromotes, HomeOf
  <2> QED
    BY <1>2, <2>2, NothingPromotes DEF Attack, EngineGames
<1>3. CASE ~Occupied(b, square)
  <2>1. /\ asked.board = With(b, square, target) /\ square \notin DOMAIN b
        /\ DOMAIN asked.board = DOMAIN b \cup {square}
        /\ asked.board[square] = target
        /\ \A t \in DOMAIN b : asked.board[t] = b[t]
    BY <1>3 DEF Asked, With, Occupied, EngineGames
  <2>2. OnlyPromotes(asked.board, after)
    <3>1. asked.board = [t \in DOMAIN asked.board |-> asked.board[t]]
      BY <2>1 DEF With
    <3>2. ASSUME NEW t \in DOMAIN asked.board, asked.board[t].player = Opponent(player)
          PROVE  t \in DOMAIN b
      BY <1>1, <2>1, <3>2
    <3> HIDE DEF asked, s
    <3> QED
      BY <1>1, <2>1, <3>1, <3>2, StepReportPromotes, HomeOf
  <2>3. OnlyPromotes(b, Without(after, {square}))
    <3> HIDE DEF asked, after
    <3> QED
      BY <2>1, <2>2, TargetRemoved
  <2> QED
    BY <1>3, <2>3, NothingPromotes DEF Attack, EngineGames
<1> QED
  BY <1>2, <1>3

-----------------------------------------------------------------------------
(* Castling. *)

\* Among the columns that the scan for the rook gets to there is a first one and
\* a last one to stop at.
LEMMA EndsOfScan ==
  ASSUME NEW S \in SUBSET (-1 .. 9), S # {}
  PROVE  /\ \E x \in S : \A y \in S : x <= y
         /\ \E x \in S : \A y \in S : y <= x
<1>1. \A x \in S : x \in Int /\ -1 <= x /\ x <= 9
  OBVIOUS
<1> DEFINE Columns == {-1, 0, 1, 2, 3, 4, 5, 6, 7, 8, 9}
<1>0. \A x \in S : x \in Columns
  BY <1>1
<1>2. \E x \in S : \A y \in S : x <= y
  <2> SUFFICES ASSUME \A x \in S : \E y \in S : y < x PROVE FALSE
    BY <1>1
  <2>1. -1 \notin S /\ 0 \notin S /\ 1 \notin S
    BY <1>1
  <2>2. 2 \notin S /\ 3 \notin S
    BY <1>1, <2>1
  <2>3. 4 \notin S /\ 5 \notin S
    BY <1>1, <2>1, <2>2
  <2>4. 6 \notin S /\ 7 \notin S
    BY <1>1, <2>1, <2>2, <2>3
  <2>5. 8 \notin S /\ 9 \notin S
    BY <1>1, <2>1, <2>2, <2>3, <2>4
  <2> QED
    BY <1>0, <2>1, <2>2, <2>3, <2>4, <2>5
<1>3. \E x \in S : \A y \in S : y <= x
  <2> SUFFICES ASSUME \A x \in S : \E y \in S : x < y PROVE FALSE
    BY <1>1
  <2>1. 9 \notin S /\ 8 \notin S /\ 7 \notin S
    BY <1>1
  <2>2. 6 \notin S /\ 5 \notin S
    BY <1>1, <2>1
  <2>3. 4 \notin S /\ 3 \notin S
    BY <1>1, <2>1, <2>2
  <2>4. 2 \notin S /\ 1 \notin S
    BY <1>1, <2>1, <2>2, <2>3
  <2>5. 0 \notin S /\ -1 \notin S
    BY <1>1, <2>1, <2>2, <2>3, <2>4
  <2> QED
    BY <1>0, <2>1, <2>2, <2>3, <2>4, <2>5
<1> QED
  BY <1>2, <1>3

\* The scan stops ahead of the king, at a man if it is still in the row, and it
\* passes nobody.
LEMMA ScanStops ==
  ASSUME NEW b, NEW m, m.c_i \in Coord, m.c_f \in Coord, Abs(ColDiff(m)) = 2,
         NEW past \in BOOLEAN
  PROVE  LET end == ScanEnd(b, m, past)
             cc == Sign(ColDiff(m))
         IN  /\ cc \in {-1, 1} /\ ColDiff(m) = 2 * cc
             /\ end \in -1 .. 9 /\ (end - m.c_i) * cc > 0
             /\ end \in Coord => <<m.r_i, end>> \in DOMAIN b
             /\ \A c \in Coord :
                  <<m.r_i, c>> \in DOMAIN b /\ (c - m.c_i) * cc > 0 =>
                    (c - end) * cc >= 0
<1> DEFINE cc == Sign(ColDiff(m))
           stops == {-1, 9} \cup {c \in Coord : Occupied(b, <<m.r_i, c>>)}
                      \cup IF past THEN {8} ELSE {}
           ahead == {c \in stops : (c - m.c_i) * cc > 0}
           end == ScanEnd(b, m, past)
<1>1. cc \in {-1, 1} /\ ColDiff(m) = 2 * cc
  BY DEF Abs, Sign, ColDiff, Coord
<1>2. end = CHOOSE c \in ahead : \A d \in ahead : (d - c) * cc >= 0
  BY DEF ScanEnd
<1>3. /\ stops \subseteq -1 .. 9 /\ -1 \in stops /\ 9 \in stops
      /\ \A c \in Coord : c \in stops <=> <<m.r_i, c>> \in DOMAIN b
  BY DEF Coord, Occupied
<1> HIDE DEF cc, stops, end
<1>4. ahead \in SUBSET (-1 .. 9) /\ ahead # {}
  <2>1. CASE cc = 1
    <3>1. 9 \in ahead
      BY <1>3, <2>1 DEF Coord
    <3> QED
      BY <1>3, <3>1
  <2>2. CASE cc = -1
    <3>1. -1 \in ahead
      BY <1>3, <2>2 DEF Coord
    <3> QED
      BY <1>3, <3>1
  <2> QED
    BY <1>1, <2>1, <2>2
<1>5. \E c \in ahead : \A d \in ahead : (d - c) * cc >= 0
  <2> HIDE DEF ahead
  <2>1. \A c \in ahead : c \in Int
    BY <1>4
  <2>2. CASE cc = 1
    BY <1>4, <2>1, <2>2, EndsOfScan
  <2>3. CASE cc = -1
    BY <1>4, <2>1, <2>3, EndsOfScan
  <2> QED
    BY <1>1, <2>2, <2>3
<1>6. end \in ahead /\ \A d \in ahead : (d - end) * cc >= 0
  <2> HIDE DEF ahead
  <2> QED
    BY <1>2, <1>5
<1> QED
  BY <1>1, <1>3, <1>6 DEF cc, end

\* king_is_illegal() reads a square that its row does not have, but whatever it
\* finds there, it comes to the same rook, or to none.
THEOREM PastTheRowIsNoRook ==
  ASSUME NEW b, NEW m, m.c_i \in Coord, m.c_f \in Coord, Abs(ColDiff(m)) = 2,
         NEW past \in BOOLEAN
  PROVE  RookFor(b, m) = IF ScanEnd(b, m, past) \in Coord
                           THEN <<m.r_i, ScanEnd(b, m, past)>> ELSE None
<1> DEFINE cc == Sign(ColDiff(m))
           End(x) == ScanEnd(b, m, x)
           found == {End(x) : x \in BOOLEAN} \cap Coord
<1>1. ASSUME NEW x \in BOOLEAN, NEW y \in BOOLEAN, End(x) \in Coord
      PROVE  End(y) = End(x)
  <2>1. /\ cc \in {-1, 1} /\ m.c_i \in 0 .. 7
        /\ <<m.r_i, End(x)>> \in DOMAIN b
        /\ (End(x) - m.c_i) * cc > 0 /\ End(x) \in 0 .. 7
    BY <1>1, ScanStops DEF Coord
  <2>2. (End(x) - End(y)) * cc >= 0 /\ End(y) \in -1 .. 9 /\ (End(y) - m.c_i) * cc > 0
    BY <1>1, <2>1, ScanStops DEF Coord
  <2> HIDE DEF End, cc
  <2>3. End(y) \in 0 .. 7
    BY <2>1, <2>2
  <2>4. <<m.r_i, End(y)>> \in DOMAIN b
    BY <2>3, ScanStops DEF End, Coord
  <2>5. (End(y) - End(x)) * cc >= 0
    BY <2>2, <2>3, <2>4, ScanStops DEF End, Coord, cc
  <2> QED
    BY <2>1, <2>2, <2>3, <2>5
<1>2. RookFor(b, m) = IF found = {} THEN None ELSE <<m.r_i, CHOOSE c \in found : TRUE>>
  BY DEF RookFor
<1> HIDE DEF End
<1>3. CASE End(past) \in Coord
  <2>1. found = {End(past)}
    BY <1>1, <1>3
  <2> QED
    BY <1>2, <1>3, <2>1 DEF End
<1>4. CASE End(past) \notin Coord
  <2>1. found = {}
    BY <1>1, <1>4
  <2> QED
    BY <1>2, <1>4, <2>1 DEF End
<1> QED
  BY <1>3, <1>4

\* The first man beyond the king stands on the king's row, on the side of the
\* castling, and nobody is nearer.
LEMMA RookForFinds ==
  ASSUME NEW b, DOMAIN b \subseteq Squares, NEW m, m.c_i \in Coord,
         m.c_f \in Coord, Abs(ColDiff(m)) = 2, RookFor(b, m) # None
  PROVE  LET rook == RookFor(b, m)
             cc == Sign(ColDiff(m))
         IN  /\ cc \in {-1, 1} /\ ColDiff(m) = 2 * cc
             /\ rook \in DOMAIN b /\ rook[1] = m.r_i
             /\ (rook[2] - m.c_i) * cc > 0
             /\ \A t \in DOMAIN b :
                  t[1] = m.r_i /\ (t[2] - m.c_i) * cc > 0 =>
                    (t[2] - rook[2]) * cc >= 0
<1> DEFINE cc == Sign(ColDiff(m))
           end == ScanEnd(b, m, TRUE)
<1>1. end \in Coord /\ RookFor(b, m) = <<m.r_i, end>>
  BY PastTheRowIsNoRook
<1>2. /\ cc \in {-1, 1} /\ ColDiff(m) = 2 * cc
      /\ <<m.r_i, end>> \in DOMAIN b /\ (end - m.c_i) * cc > 0
      /\ \A c \in Coord : <<m.r_i, c>> \in DOMAIN b /\ (c - m.c_i) * cc > 0 =>
           (c - end) * cc >= 0
  BY <1>1, ScanStops
<1>3. \A t \in DOMAIN b : t = <<t[1], t[2]>> /\ t[2] \in Coord
  BY DEF Squares
<1> HIDE DEF cc, end
<1> QED
  BY <1>1, <1>2, <1>3 DEF cc

\* What is_illegal() says of a castling, piece_is_attacked() need not ask: for
\* every man of the other player it is as if kings only moved one step.  Every
\* rook that a king may castle with is in a corner, and so it is not on the way
\* to the square in question, unless that is where it stands; the code asks
\* about squares of kings and squares that they cross.
THEOREM CastlingIsNoAttack ==
  ASSUME NEW g \in EngineGames, NEW square \in Squares, NEW player \in Players,
         square \in DOMAIN g.board => g.board[square].type # ROOK,
         NEW s \in HeldBy(g.board, Opponent(player))
  PROVE  LET asked == Asked(g, square, player)
             m     == MoveOf(s, square, QUEEN)
         IN  IsIllegal(asked, m, Opponent(player)) =
               StepReport(asked, m, Opponent(player))
<1> DEFINE b == g.board
           asked == Asked(g, square, player)
           a == asked.board
           m == MoveOf(s, square, QUEEN)
           rook == RookFor(a, m)
           cc == Sign(ColDiff(m))
<1>1. /\ DOMAIN b \subseteq Squares /\ b \in [DOMAIN b -> Pieces] /\ AtHome(b)
      /\ s \in DOMAIN b /\ s \in Squares
  BY BoardIs DEF EngineGames, HeldBy
<1>2. /\ s \in Coord \X Coord /\ square \in Coord \X Coord
      /\ From(m) = s /\ To(m) = square
      /\ m.r_i = s[1] /\ m.c_i = s[2] /\ m.r_f = square[1] /\ m.c_f = square[2]
  BY <1>1 DEF Squares, From, To, MoveOf
<1>3. /\ DOMAIN a = DOMAIN b \cup {square}
      /\ \A t \in DOMAIN b : a[t] = b[t]
      /\ square \notin DOMAIN b => a[square].type = PAWN
  BY DEF Asked, Occupied, With, EngineGames
<1> HIDE DEF asked, m
<1>4. CASE ~(MayTry(a, m, Opponent(player)) /\ a[s].type = KING)
  BY <1>2, <1>4 DEF IsIllegal, asked, m
<1>5. CASE /\ MayTry(a, m, Opponent(player)) /\ a[s].type = KING
           /\ KingSteps(m)
  <2>1. Reaches(a, m)
    BY <1>2, <1>5 DEF Reaches
  <2> QED
    BY <1>2, <1>5, <2>1, Numbers
    DEF IsIllegal, StepReport, KingReport, asked, m
<1>6. CASE /\ MayTry(a, m, Opponent(player)) /\ a[s].type = KING
           /\ ~KingSteps(m)
  <2>1. ~Reaches(a, m)
    BY <1>2, <1>6, Numbers DEF Reaches, BISHOP, KNIGHT
  <2>2. \/ a[s].moves # 0 \/ RowDiff(m) # 0 \/ Abs(ColDiff(m)) # 2
        \/ rook = None
        \/ a[rook].type # ROOK \/ a[rook].moves # 0
    <3> SUFFICES ASSUME a[s].moves = 0, RowDiff(m) = 0, Abs(ColDiff(m)) = 2,
                        rook # None, a[rook].type = ROOK, a[rook].moves = 0
                 PROVE  FALSE
      OBVIOUS
    <3>1. s[2] \in 0 .. 7 /\ square[2] \in 0 .. 7
      BY <1>2 DEF Coord
    <3>2. square[1] = s[1]
      BY <1>2 DEF RowDiff, Coord
    <3>3. /\ cc \in {-1, 1} /\ ColDiff(m) = 2 * cc /\ rook \in DOMAIN a
          /\ rook[1] = s[1] /\ (rook[2] - s[2]) * cc > 0
          /\ (square[2] - s[2]) * cc > 0 => (square[2] - rook[2]) * cc >= 0
      <4>1. DOMAIN a \subseteq Squares /\ m.c_i \in Coord /\ m.c_f \in Coord
        BY <1>1, <1>2, <1>3
      <4>2. square \in DOMAIN a
        BY <1>3
      <4> QED
        BY <1>2, <3>2, <4>1, <4>2, RookForFinds
    <3>4. rook # square /\ rook \in DOMAIN b
      BY <1>3, <3>3, Numbers
    <3>5. rook[2] \in 1 .. 6
      <4>1. /\ square[2] - s[2] = 2 * cc /\ rook[2] \in 0 .. 7
            /\ square = <<square[1], square[2]>> /\ rook = <<rook[1], rook[2]>>
        BY <1>1, <1>2, <3>1, <3>3, <3>4 DEF ColDiff, Coord, Squares
      <4> HIDE DEF cc, rook
      <4>2. rook[2] # square[2]
        BY <3>2, <3>3, <3>4, <4>1
      <4>3. CASE cc = 1
        BY <3>1, <3>3, <4>1, <4>2, <4>3
      <4>4. CASE cc = -1
        BY <3>1, <3>3, <4>1, <4>2, <4>4
      <4> QED
        BY <3>3, <4>3, <4>4
    <3>6. rook \in Home(b[rook]) /\ b[rook].type = ROOK
      BY <1>1, <1>3, <3>4, HomeOf, Numbers
    <3> HIDE DEF rook
    <3>7. rook[2] \in {0, 7}
      <4>1. Home(b[rook]) = {HomeRow(b[rook].player)} \X {0, 7}
        BY <3>6, Numbers DEF Home
      <4> QED
        BY <3>6, <4>1
    <3> QED
      BY <3>5, <3>7
  <2>3. KingReport(asked, m) = Rejected(ILLEGAL_MOVE, a)
    BY <1>2, <1>6, <2>2 DEF KingReport
  <2>4. StepReport(asked, m, Opponent(player)) = Rejected(ILLEGAL_MOVE, a)
    BY <1>2, <1>6, <2>1, Numbers DEF StepReport
  <2>5. IsIllegal(asked, m, Opponent(player)) = KingReport(asked, m)
    BY <1>2, <1>6 DEF IsIllegal
  <2> QED
    BY <2>3, <2>4, <2>5 DEF asked, m
<1> QED
  BY <1>4, <1>5, <1>6

\* Whether it castles or not, a king leaves the men where they are, and the
\* rook of a castling is there to be moved.
LEMMA KingReportCastles ==
  ASSUME NEW g \in EngineGames, NEW m \in MoveSet, From(m) \in DOMAIN g.board
  PROVE  LET r == KingReport(g, m)
         IN  /\ r.code \in ReportCodes
             /\ OnlyPromotes(g.board, r.board)
             /\ r.captured = None
             /\ r.castle # None =>
                  /\ From(r.castle) \in DOMAIN g.board \ {From(m)}
                  /\ To(r.castle) \in Squares
<1> DEFINE b == g.board
           king == b[From(m)]
           rook == RookFor(b, m)
           cc == Sign(ColDiff(m))
           path == [i \in 0 .. 2 |-> <<m.r_i, m.c_i + i * cc>>]
           attacked == {i \in 0 .. 2 : Attack(g, path[i], king.player).attacked}
           refused == \/ king.moves # 0 \/ RowDiff(m) # 0 \/ Abs(ColDiff(m)) # 2
                      \/ rook = None
                      \/ b[rook].type # ROOK \/ b[rook].moves # 0
<1>1. /\ b \in Boards /\ DOMAIN b \subseteq Squares /\ OnlyPromotes(b, b)
      /\ king.player \in Players
  BY BoardIs, NothingPromotes DEF EngineGames, Pieces
<1>2. /\ m.r_i \in 0 .. 7 /\ m.c_i \in 0 .. 7 /\ m.r_f \in 0 .. 7 /\ m.c_f \in 0 .. 7
  BY DEF MoveSet, Coord
<1>3. cc \in {-1, 0, 1}
  BY DEF Sign
<1>4. CASE KingSteps(m)
  BY <1>1, <1>4 DEF KingReport, Report, ReportCodes
<1>5. CASE ~KingSteps(m) /\ refused
  BY <1>1, <1>5 DEF KingReport, Rejected, Report, ReportCodes
<1>6. CASE ~KingSteps(m) /\ ~refused /\ attacked # {}
  <2> DEFINE found == Attack(g, path[Min(attacked)], king.player).board
  <2>1. OnlyPromotes(b, found)
    BY <1>1, AttackPromotes
  <2>2. KingReport(g, m) = Rejected(ILLEGAL_MOVE, found)
    BY <1>6 DEF KingReport
  <2> HIDE DEF found
  <2> QED
    BY <2>1, <2>2 DEF Rejected, Report, ReportCodes
<1>7. CASE ~KingSteps(m) /\ ~refused /\ attacked = {}
  <2>1. KingReport(g, m) = Report(OK, b, None, MoveOf(rook, path[1], EMPTY))
    BY <1>7 DEF KingReport
  <2>2. /\ cc \in {-1, 1} /\ ColDiff(m) = 2 * cc
        /\ rook \in DOMAIN b /\ (rook[2] - m.c_i) * cc > 0
    BY <1>1, <1>2, <1>7, RookForFinds DEF Coord
  <2> HIDE DEF cc, rook
  <2>3. /\ path[1] = <<m.r_i, m.c_i + cc>> /\ path[1] \in Squares
    BY <1>2, <2>2 DEF ColDiff, Squares, Coord
  <2>4. rook = <<rook[1], rook[2]>> /\ rook \in Squares /\ rook # From(m)
    BY <1>1, <1>2, <2>2 DEF Squares, From, Coord
  <2> HIDE DEF path
  <2>5. /\ From(MoveOf(rook, path[1], EMPTY)) = rook
        /\ To(MoveOf(rook, path[1], EMPTY)) = path[1]
    BY <2>3, <2>4 DEF From, To, MoveOf, Squares
  <2> QED
    BY <1>1, <2>1, <2>2, <2>3, <2>4, <2>5 DEF Report, ReportCodes
<1> QED
  BY <1>4, <1>5, <1>6, <1>7

\* is_illegal() for any move of any player.
LEMMA IsIllegalPromotes ==
  ASSUME NEW g \in EngineGames, NEW m \in MoveSet, NEW player \in Players
  PROVE  LET r == IsIllegal(g, m, player)
         IN  /\ r.code \in ReportCodes
             /\ OnlyPromotes(g.board, r.board)
             /\ r.code >= 0 => From(m) \in DOMAIN g.board
             /\ r.castle # None =>
                  /\ From(r.castle) \in DOMAIN g.board \ {From(m)}
                  /\ To(r.castle) \in Squares
<1>1. /\ g.board \in [DOMAIN g.board -> Pieces] /\ AtHome(g.board)
  BY BoardIs DEF EngineGames
<1>2. CASE MayTry(g.board, m, player) /\ g.board[From(m)].type = KING
  <2>1. From(m) \in DOMAIN g.board
    BY <1>2 DEF MayTry, Occupied
  <2> QED
    BY <1>2, <2>1, KingReportCastles DEF IsIllegal
<1>3. CASE ~(MayTry(g.board, m, player) /\ g.board[From(m)].type = KING)
  <2>1. IsIllegal(g, m, player) = StepReport(g, m, player)
    BY <1>3 DEF IsIllegal
  <2>2. g.board = [s \in DOMAIN g.board |-> g.board[s]]
    BY <1>1
  <2>3. From(m) \in DOMAIN g.board =>
          /\ g.board[From(m)] \in Pieces
          /\ g.board[From(m)].moves = 0 /\ g.board[From(m)].type # KING =>
               From(m) \in Home(g.board[From(m)])
    BY <1>1, HomeOf
  <2> QED
    BY <2>1, <2>2, <2>3, StepReportPromotes DEF MayTry, Occupied
<1> QED
  BY <1>2, <1>3

-----------------------------------------------------------------------------
(* move_unchecked() and what is built on it. *)

\* A man's count goes up, and he is the same man.
LEMMA CountedMan ==
  ASSUME NEW man \in Pieces, NEW count \in Nat \ {0}, NEW now \in Nat
  PROVE  LET moved == [man EXCEPT !.moves = @ + count, !.last_move = now]
         IN  moved \in Pieces /\ moved.moves # 0
<1>1. man.moves \in Nat /\ man.moves + count \in Nat /\ man.moves + count # 0
  BY DEF Pieces
<1> QED
  BY <1>1 DEF Pieces

\* A man who is moved counts it, so that he may stand anywhere.
LEMMA MovedIsGame ==
  ASSUME NEW g \in EngineGames, NEW m, From(m) \in DOMAIN g.board,
         To(m) \in Squares, NEW captured, NEW lost, NEW count \in Nat \ {0},
         NEW now \in Nat, g.duration <= now
  PROVE  LET h == Moved(g, m, captured, lost, count, now)
         IN  /\ h \in EngineGames
             /\ h.duration = now
             /\ DOMAIN h.board = (DOMAIN g.board \ ({From(m)} \cup lost)) \cup {To(m)}
<1> DEFINE b == g.board
           piece == [b[From(m)] EXCEPT !.moves = @ + count, !.last_move = now]
           left == Without(b, {From(m)} \cup lost)
           c == With(left, To(m), piece)
<1>1. /\ DOMAIN b \subseteq Squares /\ b \in [DOMAIN b -> Pieces] /\ AtHome(b)
      /\ g.last_big_move \in Nat /\ g.duration \in Nat
      /\ g.last_big_move <= g.duration
  BY BoardIs DEF EngineGames
<1>2. piece \in Pieces /\ piece.moves # 0
  BY <1>1, CountedMan
<1>3. /\ DOMAIN left = DOMAIN b \ ({From(m)} \cup lost)
      /\ \A s \in DOMAIN left : left[s] = b[s]
  BY DEF Without
<1> HIDE DEF piece, left
<1>4. /\ DOMAIN c = DOMAIN left \cup {To(m)}
      /\ c = [s \in DOMAIN c |-> c[s]]
      /\ \A s \in DOMAIN c : c[s] = IF s = To(m) THEN piece ELSE left[s]
  BY DEF With
<1> HIDE DEF c
<1>5. \A s \in DOMAIN c :
        c[s] \in Pieces /\ (c[s].moves = 0 => s \in DOMAIN b /\ c[s] = b[s])
  BY <1>1, <1>2, <1>3, <1>4
<1>6. c \in Boards
  <2>1. DOMAIN c \subseteq Squares
    BY <1>1, <1>3, <1>4
  <2>2. c \in [DOMAIN c -> Pieces] /\ AtHome(c)
    BY <1>1, <1>4, <1>5, HomeIsKept
  <2> QED
    BY <2>1, <2>2, BoardIs
<1> DEFINE last == IF Occupied(b, To(m)) \/ captured # None
                     THEN now ELSE g.last_big_move
           h == Moved(g, m, captured, lost, count, now)
<1>7. h = [board |-> c, duration |-> now, last_big_move |-> last]
  BY DEF Moved, c, left, piece
<1>8. last \in Nat /\ last <= now
  BY <1>1
<1> HIDE DEF h, last, c, b, left
<1>9. /\ h \in EngineGames /\ h.duration = now
      /\ DOMAIN h.board = (DOMAIN b \ ({From(m)} \cup lost)) \cup {To(m)}
  BY <1>3, <1>4, <1>6, <1>7, <1>8 DEF EngineGames
<1> QED
  BY <1>9 DEF h, b

\* move_unchecked() of a man who is there.
LEMMA MoveUncheckedIsGame ==
  ASSUME NEW g \in EngineGames, NEW m, From(m) \in DOMAIN g.board,
         To(m) \in Squares, NEW captured, NEW advance \in BOOLEAN
  PROVE  LET h == MoveUnchecked(g, m, captured, advance)
         IN  /\ h \in EngineGames
             /\ h.duration = IF advance THEN g.duration + 1 ELSE g.duration
             /\ DOMAIN h.board =
                  (DOMAIN g.board \ ({From(m)} \cup {captured})) \cup {To(m)}
<1> DEFINE lost == {captured}
           now == Ticked(g, advance)
           count == 1
<1>1. /\ now \in Nat /\ g.duration <= now /\ count \in Nat \ {0}
      /\ now = IF advance THEN g.duration + 1 ELSE g.duration
  BY DEF Ticked, EngineGames
<1>2. MoveUnchecked(g, m, captured, advance) = Moved(g, m, captured, lost, count, now)
  BY DEF MoveUnchecked
<1> HIDE DEF lost, now, count
<1>3. LET h == Moved(g, m, captured, lost, count, now)
      IN  /\ h \in EngineGames /\ h.duration = now
          /\ DOMAIN h.board = (DOMAIN g.board \ ({From(m)} \cup lost)) \cup {To(m)}
  BY <1>1, MovedIsGame
<1> QED
  BY <1>1, <1>2, <1>3 DEF lost

\* The move of a man, and with it that of a rook, is one turn.
LEMMA ExecutedIsGame ==
  ASSUME NEW g \in EngineGames, NEW m \in MoveSet, NEW r,
         From(m) \in DOMAIN g.board,
         r.captured = None \/ r.castle = None,
         r.castle # None => /\ From(r.castle) \in DOMAIN g.board \ {From(m)}
                            /\ To(r.castle) \in Squares
  PROVE  /\ Executed(g, m, r) \in EngineGames
         /\ Executed(g, m, r).duration = g.duration + 1
<1> DEFINE h == MoveUnchecked(g, m, r.captured, TRUE)
           k == MoveUnchecked(h, r.castle, None, FALSE)
<1>1. To(m) \in Squares /\ DOMAIN g.board \subseteq Squares /\ None \notin Squares
  <2>1. \A s \in Squares : s # <<>>
    BY DEF Squares
  <2> QED
    BY <2>1, BoardIs DEF EngineGames, To, MoveSet, Squares, None
<1>2. /\ h \in EngineGames /\ h.duration = g.duration + 1
      /\ DOMAIN h.board = (DOMAIN g.board \ ({From(m)} \cup {r.captured})) \cup {To(m)}
  BY <1>1, MoveUncheckedIsGame
<1> HIDE DEF h
<1>3. r.castle # None => k \in EngineGames /\ k.duration = h.duration
  BY <1>1, <1>2, MoveUncheckedIsGame
<1>4. Executed(g, m, r) = IF r.castle = None THEN h ELSE k
  BY DEF Executed, h
<1> HIDE DEF k
<1> QED
  BY <1>2, <1>3, <1>4

\* make_move_no_checkmate(): an accepted move leaves a game of the next turn,
\* a rejected one the same game with a pawn promoted at the most.
LEMMA NoCheckmateKeepsGame ==
  ASSUME NEW g \in EngineGames, NEW m \in MoveSet
  PROVE  LET r == MakeMoveNoCheckmate(g, m)
         IN  /\ r.game \in EngineGames
             /\ r.code \in ReportCodes
             /\ r.code \in NonFatal =>
                  /\ r.game.duration = g.duration
                  /\ r.game.last_big_move = g.last_big_move
                  /\ OnlyPromotes(g.board, r.game.board)
             /\ r.code \notin NonFatal => r.game.duration = g.duration + 1
<1> DEFINE r == IsIllegal(g, m, GetPlayer(g))
           backup == [g EXCEPT !.board = r.board]
           played == Executed(backup, m, r)
<1>1. /\ r.code \in ReportCodes /\ OnlyPromotes(g.board, r.board)
      /\ r.code >= 0 => From(m) \in DOMAIN g.board
      /\ r.castle # None => /\ From(r.castle) \in DOMAIN g.board \ {From(m)}
                            /\ To(r.castle) \in Squares
  <2>1. GetPlayer(g) \in Players
    BY DEF GetPlayer, Players
  <2> QED
    BY <2>1, IsIllegalPromotes
<1>2. r.captured = None \/ r.castle = None
  BY DEF IsIllegal, KingReport, StepReport, PawnReport, Rejected, Report
<1> HIDE DEF r
<1>3. /\ backup \in EngineGames /\ DOMAIN backup.board = DOMAIN g.board
      /\ backup.duration = g.duration /\ backup.last_big_move = g.last_big_move
      /\ backup.board = r.board
  <2>1. r.board \in Boards /\ DOMAIN r.board = DOMAIN g.board
    BY <1>1, PromotionIsBoard DEF EngineGames, OnlyPromotes
  <2> QED
    BY <2>1 DEF EngineGames
<1>4. MakeMoveNoCheckmate(g, m) =
        IF r.code < 0 THEN [code |-> r.code, game |-> backup]
        ELSE UnlessInCheck(backup, played)
  BY DEF MakeMoveNoCheckmate, AfterReport, r
<1> HIDE DEF backup
<1>5. r.code >= 0 => played \in EngineGames /\ played.duration = g.duration + 1
  BY <1>1, <1>2, <1>3, ExecutedIsGame
<1> HIDE DEF played
<1>6. CASE r.code < 0
  <2>1. r.code \in NonFatal
    BY <1>1, <1>6, Numbers DEF ReportCodes
  <2> QED
    BY <1>1, <1>3, <1>4, <1>6, <2>1
<1>7. CASE ~(r.code < 0)
  <2>1. r.code >= 0
    BY <1>1, <1>7, Numbers DEF ReportCodes
  <2> QED
    BY <1>1, <1>3, <1>4, <1>5, <1>7, <2>1, Numbers
    DEF UnlessInCheck, ReportCodes
<1> QED
  BY <1>6, <1>7

\* is_in_check() is a question like any other.
LEMMA CheckPromotes ==
  ASSUME NEW g \in EngineGames, NEW p
  PROVE  OnlyPromotes(g.board, CheckOn(g, Opponent(p)).board)
<1> DEFINE kings == {s \in HeldBy(g.board, Opponent(p)) :
                       g.board[s].type = KING}
<1>1. Opponent(p) \in Players
  BY DEF Opponent, Players
<1>2. CASE kings = {}
  BY <1>2, NothingPromotes DEF CheckOn, EngineGames
<1>3. CASE kings # {}
  BY <1>1, <1>3, AttackPromotes DEF CheckOn
<1> QED
  BY <1>2, <1>3

\* make_move() of any game and any move: what it returns is a code of chess.h
\* and a game again, of this turn and with a pawn promoted at the most if the
\* move is rejected (whether it could be made or left the king in check), of
\* the next turn otherwise, also where it ends the game.
THEOREM MakeMoveKeepsGame ==
  ASSUME NEW g \in EngineGames, NEW m \in MoveSet
  PROVE  LET r == MakeMove(g, m)
         IN  /\ r.game \in EngineGames
             /\ r.code \in MoveCodes
             /\ r.code \in NonFatal =>
                  /\ r.game.duration = g.duration
                  /\ r.game.last_big_move = g.last_big_move
                  /\ OnlyPromotes(g.board, r.game.board)
             /\ r.code \notin NonFatal => r.game.duration = g.duration + 1
<1> DEFINE p == GetPlayer(g)
           r == MakeMoveNoCheckmate(g, m)
           check == CheckOn(r.game, Opponent(p))
<1>1. /\ r.game \in EngineGames /\ r.code \in ReportCodes
      /\ r.code \in NonFatal => /\ r.game.duration = g.duration
                                /\ r.game.last_big_move = g.last_big_move
                                /\ OnlyPromotes(g.board, r.game.board)
      /\ r.code \notin NonFatal => r.game.duration = g.duration + 1
  BY NoCheckmateKeepsGame
<1>2. MakeMove(g, m) = Judged(p, r)
  BY DEF MakeMove
<1> HIDE DEF r
<1>3. OnlyPromotes(r.game.board, check.board)
  BY <1>1, CheckPromotes
<1>4. ASSUME r.code \notin NonFatal
      PROVE  /\ Judged(p, r).code \in MoveCodes \ NonFatal
             /\ Judged(p, r).game \in {r.game, [r.game EXCEPT !.board = check.board]}
  BY <1>1, <1>4, Numbers
  DEF Judged, Outcome, MoveCodes, GameOver, Accepted, ReportCodes, WHITE_WIN,
      BLACK_WIN, FORCED_DRAW, DRAW_OFFER
<1>5. CASE r.code \in NonFatal
  BY <1>1, <1>2, <1>5 DEF Judged, MoveCodes
<1>6. CASE r.code \notin NonFatal
  <2> DEFINE told == [r.game EXCEPT !.board = check.board]
  <2>1. told \in EngineGames /\ told.duration = r.game.duration
    <3>1. check.board \in Boards
      BY <1>1, <1>3, PromotionIsBoard DEF EngineGames
    <3> HIDE DEF check
    <3> QED
      BY <1>1, <3>1 DEF EngineGames
  <2> HIDE DEF told, check
  <2> QED
    BY <1>1, <1>2, <1>4, <1>6, <2>1 DEF told
<1> QED
  BY <1>5, <1>6

-----------------------------------------------------------------------------
\* new_game() sets everybody up at home.
LEMMA NewGameIsGame == NewGame \in EngineGames
<1>1. NewBoard \in Boards
  <2>1. /\ DOMAIN NewBoard = {0, 1, 6, 7} \X Coord
        /\ DOMAIN NewBoard \subseteq Squares
    BY DEF NewBoard, Squares, Coord
  <2>2. ASSUME NEW r \in {0, 1, 6, 7}, NEW c \in Coord
        PROVE  LET man == NewBoard[<<r, c>>]
               IN  man \in Pieces /\ <<r, c>> \in Home(man)
    <3> DEFINE man == NewBoard[<<r, c>>]
    <3>1. man = [type |-> IF r \in {0, 7} THEN BackRank[c + 1] ELSE PAWN,
                 player |-> IF r < 2 THEN BLACK ELSE WHITE,
                 moves |-> 0, last_move |-> 0]
      BY DEF NewBoard
    <3>2. c + 1 \in 1 .. 8 /\ c \in 0 .. 7
      BY DEF Coord
    <3>3. /\ BackRank[c + 1] \in 0 .. 4
          /\ BackRank[c + 1] = ROOK => c \in {0, 7}
          /\ BackRank[c + 1] = KING => c = 4
      BY <3>2 DEF BackRank, ROOK, KNIGHT, BISHOP, QUEEN, KING
    <3> HIDE DEF man
    <3>4. man \in Pieces
      BY <3>1, <3>3, Numbers DEF Pieces, Players
    <3>5. <<r, c>> \in Home(man)
      <4>1. CASE r \in {0, 7}
        <5>1. man.type = BackRank[c + 1] /\ man.type # PAWN
          BY <3>1, <3>3, <4>1, Numbers
        <5> QED
          BY <3>1, <3>3, <4>1, <5>1 DEF Home, HomeRow, Squares, Coord, WHITE, BLACK
      <4>2. CASE r \in {1, 6}
        <5>1. /\ man.type = PAWN /\ PAWN # ROOK /\ PAWN # KING
              /\ r = IF man.player = WHITE THEN 6 ELSE 1
          BY <3>1, <4>2, Numbers DEF WHITE, BLACK
        <5> QED
          BY <5>1 DEF Home
      <4> QED
        BY <4>1, <4>2
    <3> QED
      BY <3>4, <3>5 DEF man
  <2>3. NewBoard \in [DOMAIN NewBoard -> Pieces] /\ AtHome(NewBoard)
    <3>1. NewBoard = [s \in DOMAIN NewBoard |-> NewBoard[s]]
      BY DEF NewBoard
    <3>2. \A s \in DOMAIN NewBoard : NewBoard[s] \in Pieces /\ s \in Home(NewBoard[s])
      BY <2>1, <2>2
    <3> QED
      BY <3>1, <3>2 DEF AtHome
  <2> QED
    BY <2>1, <2>3, BoardIs
<1> QED
  BY <1>1 DEF NewGame, EngineGames
=============================================================================
