--------------------------- MODULE RulebookProofs ---------------------------
(***************************************************************************)
(* Proofs about Rulebook, Queries and Fen, for every set of games to start *)
(* with and every number of moves.  What make_move() keeps of a game that  *)
(* it is called on again and again, and that it plays chess: it accepts    *)
(* the legal moves, plays them as the rules do, and sees a game end where  *)
(* the rules do.  What a client lists, shows and loads of such a game.     *)
(***************************************************************************)
EXTENDS LegalityProofs, Queries, Fen

-----------------------------------------------------------------------------
(* What holds in a state of the Rulebook. *)
\* BoardFollowsRules and EndsAsItShould of given games and positions.
Follows(g, c, p) ==
  /\ c \notin GameOver => MenOf(g.board) = p.men /\ GetPlayer(g) = p.turn
  /\ c \in GameOver => GetPlayer(g) = p.turn /\ Queened(p.men, MenOf(g.board))
EndsWell(g, c, p, n) ==
  n > 0 /\ c \notin NonFatal /\ g.duration - g.last_big_move < 100 => c = VerdictOn(p)

\* What is left of a mirrored game after looking for a check.
LEMMA LeftFollows ==
  ASSUME NEW h \in EngineGames, NEW g \in EngineGames, NEW p, Mirrors(h, p),
         LeftBy(h, g), NEW c, c \notin GameOver => g = h
  PROVE  /\ Follows(g, c, p)
         /\ MenOf(g.board) = p.men => Mirrors(g, p)
<1>1. MenOf(h.board) = p.men /\ GetPlayer(h) = p.turn /\ GetPlayer(g) = GetPlayer(h)
  BY DEF Mirrors, LeftBy, GetPlayer
<1>2. Queened(p.men, MenOf(g.board))
  BY LeftIsQueened
<1>3. Follows(g, c, p)
  BY <1>1, <1>2 DEF Follows
<1>4. ASSUME MenOf(g.board) = p.men PROVE g = h
  BY <1>1, <1>4, SameMenSameGame DEF LeftBy
<1> QED
  BY <1>3, <1>4

-----------------------------------------------------------------------------
(* make_move(), called again and again. *)
\* The games of EngineProofs, by what TLC evaluates of them.
LEMMA StartGamesAreGames == StartGames \subseteq EngineGames
<1>1. ASSUME NEW g \in StartGames
      PROVE  g \in EngineGames
  BY <1>1, RulebookAssumption, IsGameIsEngineGame DEF MayStart
<1> QED
  BY <1>1

\* Whatever a player may try is a move on the board.
LEMMA TriesAreMoves ==
  ASSUME game \in EngineGames
  PROVE  Tries \subseteq MoveSet
<1>1. DOMAIN game.board \subseteq Coord \X Coord
  BY BoardIs DEF EngineGames, Squares
<1>2. ASSUME NEW s \in Coord \X Coord, NEW d \in Squares,
             NEW promotion \in {EMPTY, KNIGHT, QUEEN}
      PROVE  MoveOf(s, d, promotion) \in MoveSet
  <2>1. promotion \in Promotions \cup {EMPTY}
    BY <1>2, Numbers DEF KNIGHT
  <2> QED
    BY <1>2, <2>1 DEF MoveOf, MoveSet, Squares
<1> QED
  BY <1>1, <1>2 DEF Tries

-----------------------------------------------------------------------------
\* The inductive invariant: the game is one that make_move() may be given.
GameOn == game \in EngineGames /\ code \in MoveCodes /\ plies \in 0 .. MaxPlies

\* The games to begin with are games that make_move() may be given.
LEMMA GameOnInitially == Init => GameOn
<1> SUFFICES ASSUME Init PROVE GameOn
  OBVIOUS
<1>1. game \in EngineGames
  BY StartGamesAreGames DEF Init
<1>2. OK \in MoveCodes /\ 0 \in 0 .. MaxPlies
  BY RulebookAssumption DEF MoveCodes, Accepted
<1> QED
  BY <1>1, <1>2 DEF Init, GameOn

\* What one try does, as MakeMoveKeepsGame has it.
LEMMA AttemptKeepsGame ==
  ASSUME GameOn, NEW m \in Tries, Attempt(m)
  PROVE  /\ GameOn'
         /\ code' \in NonFatal =>
              /\ game'.duration = game.duration
              /\ game'.last_big_move = game.last_big_move
              /\ OnlyPromotes(game.board, game'.board)
<1> DEFINE r == MakeMove(game, m)
<1>1. /\ r.game \in EngineGames
      /\ r.code \in MoveCodes
      /\ r.code \in NonFatal => /\ r.game.duration = game.duration
                                /\ r.game.last_big_move = game.last_big_move
                                /\ OnlyPromotes(game.board, r.game.board)
  BY TriesAreMoves, MakeMoveKeepsGame DEF GameOn
<1>2. game' = r.game /\ code' = r.code
  BY DEF Attempt
<1>3. plies' \in 0 .. MaxPlies
  BY RulebookAssumption DEF Attempt, GameOn
<1> HIDE DEF r
<1> QED
  BY <1>1, <1>2, <1>3 DEF GameOn

\* So is every game that it leaves, after any moves and any rejections.
LEMMA GameOnForever == Spec => []GameOn
<1>1. ASSUME GameOn, [Next]_vars
      PROVE  GameOn'
  <2>1. CASE Next
    BY <1>1, <2>1, AttemptKeepsGame DEF Next
  <2>2. CASE UNCHANGED vars
    BY <1>1, <2>2 DEF GameOn, vars
  <2> QED
    BY <1>1, <2>1, <2>2
<1> QED
  BY <1>1, GameOnInitially, PTL DEF Spec

-----------------------------------------------------------------------------
\* make_move() leaves a Game of chess.h with no big move in its future, and
\* returns one of its codes.
THEOREM TypeCorrect == Spec => []TypeOK
<1>1. GameOn => TypeOK
  BY IsGameIsEngineGame DEF GameOn, TypeOK
<1> QED
  BY <1>1, GameOnForever, PTL

\* Men that count as unmoved are at home, after any number of moves and of
\* tries in between, with their promotions.
THEOREM UnmovedMenAtHome == Spec => []MenAtHome
<1>1. GameOn => MenAtHome
  BY BoardIs DEF GameOn, MenAtHome, EngineGames
<1> QED
  BY <1>1, GameOnForever, PTL

\* All that a rejected move can leave behind is another type of a pawn beside
\* its last row: no man moves, none disappears, no clock advances, whether
\* is_illegal() refused the move or it would have left the king in check.
THEOREM RejectionsOnlyPromote == Spec => RejectionOnlyPromotes
<1> DEFINE Kept == code' \in NonFatal =>
              /\ game'.duration = game.duration
              /\ game'.last_big_move = game.last_big_move
              /\ OnlyPromotes(game.board, game'.board)
<1>1. ASSUME GameOn, [Next]_vars
      PROVE  [Kept]_vars
  BY <1>1, AttemptKeepsGame DEF Next
<1> HIDE DEF Kept
<1>2. Spec => [][Kept]_vars
  BY <1>1, GameOnForever, PTL DEF Spec
<1> QED
  BY <1>2 DEF Kept, RejectionOnlyPromotes

-----------------------------------------------------------------------------
(* The game that the Engine plays is the game of the rules. *)
\* The inductive invariant: until the game has ended, and also then unless its
\* end made a queen, all that later moves depend on is as the rules have it.
Play ==
  /\ GameOn
  /\ code \notin GameOver \/ Agrees => Mirrors(game, pos)
  /\ Follows(game, code, pos)
  /\ EndsWell(game, code, pos, plies)

\* A game begins with the position that the rules begin with.
LEMMA PlayInitially == Init => Play
<1> SUFFICES ASSUME Init PROVE Play
  OBVIOUS
<1>1. /\ game \in StartGames /\ code = OK /\ plies = 0
      /\ pos.men = MenOf(game.board) /\ pos.turn = GetPlayer(game)
      /\ pos.rights = RightsOf(game.board) /\ pos.skipped = <<>>
  BY DEF Init, Rules!Position
<1>2. GameOn
  BY GameOnInitially
<1>3. Mirrors(game, pos)
  BY <1>1, RulebookAssumption, StartMirrors DEF Init, None
<1>4. Follows(game, code, pos)
  BY <1>1 DEF Follows, Agrees, GameOver, OK, WHITE_WIN, BLACK_WIN, FORCED_DRAW
<1>5. EndsWell(game, code, pos, plies)
  BY <1>1 DEF EndsWell
<1> QED
  BY <1>2, <1>3, <1>4, <1>5 DEF Play

\* One try, rejected or not.
LEMMA AttemptKeepsPlay ==
  ASSUME Play, NEW m \in Tries, Attempt(m)
  PROVE  Play'
<1> DEFINE r == MakeMove(game, m)
           h == MakeMoveNoCheckmate(game, m).game
           next == Rules!Played(pos, m)
<1>1. /\ game \in EngineGames /\ m \in MoveSet /\ Mirrors(game, pos)
      /\ game' = r.game /\ code' = r.code
  BY TriesAreMoves, Zenon DEF Play, GameOn, Attempt
<1>2. /\ GameOn' /\ game' \in EngineGames /\ code' \in MoveCodes
      /\ code' \in NonFatal => /\ game'.duration = game.duration
                               /\ game'.last_big_move = game.last_big_move
                               /\ OnlyPromotes(game.board, game'.board)
  BY AttemptKeepsGame DEF Play, GameOn
<1>3. CASE code' \in NonFatal
  <2>1. /\ pos' = Rules!Position(MenOf(r.game.board), pos.turn, pos.rights, pos.skipped)
        /\ r.code \in NonFatal
    BY <1>1, <1>3 DEF Attempt
  <2>2. Mirrors(game', pos')
    BY <1>1, <2>1, RejectedMirrors
  <2>3. Follows(game', code', pos')
    <3>1. code' \notin GameOver
      BY <1>3 DEF NonFatal, GameOver, ILLEGAL_MOVE, MISSING_PROMOTION,
                  WHITE_WIN, BLACK_WIN, FORCED_DRAW
    <3> QED
      BY <2>2, <3>1 DEF Follows, Mirrors
  <2>4. EndsWell(game', code', pos', plies')
    BY <1>3 DEF EndsWell
  <2> QED
    BY <1>2, <2>2, <2>3, <2>4 DEF Play
<1>4. CASE code' \notin NonFatal
  <2>1. pos' = next
    BY <1>4 DEF Attempt
  <2>2. /\ h \in EngineGames /\ Mirrors(h, next) /\ LeftBy(h, r.game)
        /\ r.code \in Accepted => r.game = h
        /\ h.duration - h.last_big_move < 100 => r.code = VerdictOn(next)
    <3>1. r.code \notin NonFatal
      BY <1>1, <1>4
    <3> QED
      BY <1>1, <3>1, MakeMovePlays
  <2> HIDE DEF r, h, next
  <2>3. code' \notin GameOver => game' = h
    BY <1>1, <1>2, <1>4, <2>2 DEF MoveCodes
  <2>4. /\ Follows(game', code', pos')
        /\ MenOf(game'.board) = next.men => Mirrors(game', next)
    BY <1>1, <1>2, <2>1, <2>2, <2>3, LeftFollows
  <2>5. EndsWell(game', code', pos', plies')
    BY <1>1, <2>1, <2>2 DEF EndsWell, LeftBy
  <2> QED
    BY <1>2, <2>1, <2>2, <2>3, <2>4, <2>5 DEF Play, Agrees
<1> QED
  BY <1>3, <1>4

\* The game mirrors its position forever.
LEMMA PlayForever == Spec => []Play
<1>1. ASSUME Play, [Next]_vars
      PROVE  Play'
  <2>1. CASE Next
    BY <1>1, <2>1, AttemptKeepsPlay DEF Next
  <2>2. CASE UNCHANGED vars
    <3>1. game' = game /\ code' = code /\ pos' = pos /\ plies' = plies
      BY <2>2 DEF vars
    <3> QED
      BY <1>1, <3>1 DEF Play, GameOn, Agrees, Follows, EndsWell
  <2> QED
    BY <1>1, <2>1, <2>2
<1> QED
  BY <1>1, PlayInitially, PTL DEF Spec

\* make_move_no_checkmate() accepts exactly the legal moves, in every position
\* that it gets into from any game of StartGames.
THEOREM EngineAcceptsTheLegal == Spec => []AcceptsExactlyTheLegal
<1>1. Play => AcceptsExactlyTheLegal
  <2> SUFFICES ASSUME Play, Agrees, NEW m \in Tries
               PROVE  MakeMoveNoCheckmate(game, m).code >= 0 <=> Rules!Legal(pos, m)
    BY DEF AcceptsExactlyTheLegal
  <2>1. game \in EngineGames /\ Mirrors(game, pos) /\ m \in MoveSet
    BY TriesAreMoves DEF Play, GameOn
  <2> QED
    BY <2>1, AcceptedIsLegal
<1> QED
  BY <1>1, PlayForever, PTL

\* Every move that make_move() accepts is played as the rules have it.
THEOREM EnginePlaysByTheRules == Spec => []BoardFollowsRules
<1>1. Play => BoardFollowsRules
  BY DEF Play, Follows, BoardFollowsRules, Agrees
<1> QED
  BY <1>1, PlayForever, PTL

\* Until the draw clock runs out, make_move() tells a mate, a stalemate and a
\* game that goes on from each other as the rules do.
THEOREM EngineJudgesRightly == Spec => []EndsAsItShould
<1>1. Play => EndsAsItShould
  BY DEF Play, EndsWell, EndsAsItShould, VerdictOn, Verdict, Clock
<1> QED
  BY <1>1, PlayForever, PTL

-----------------------------------------------------------------------------
(* The moves that a user is told of. *)
\* A pawn's last step that lacks its promotion, and may uncover the king.
Asks(p, m) ==
  /\ From(m) \in DOMAIN p.men
  /\ p.men[From(m)].type = PAWN /\ p.men[From(m)].player = p.turn
  /\ m.r_f = LastRow(p.turn) /\ m.promotion \notin Promotions
  /\ To(m) \in Rules!Reachable(p, From(m))
  /\ To(m) \in DOMAIN p.men => p.men[To(m)].player # p.turn

\* is_illegal() asks for the promotion exactly then.
LEMMA ReportAsks ==
  ASSUME NEW g \in EngineGames, NEW p, Mirrors(g, p), NEW m \in MoveSet
  PROVE  IsIllegal(g, m, p.turn).code = MISSING_PROMOTION <=> Asks(p, m)
<1> DEFINE b == g.board
           s == From(m)
           t == To(m)
           r == IsIllegal(g, m, p.turn)
           free == t \in DOMAIN b => b[t].player # p.turn
           ours == s \in DOMAIN b /\ b[s].player = p.turn
<1>1. /\ DOMAIN p.men = DOMAIN b
      /\ \A x \in DOMAIN b : p.men[x].type = b[x].type /\ p.men[x].player = b[x].player
  BY MirroredBoard
<1>2. /\ s \in Squares /\ t \in Squares
      /\ m.r_i \in Coord /\ m.c_i \in Coord /\ m.r_f \in Coord /\ m.c_f \in Coord
  BY MoveSquares DEF MoveSet
<1>3. MayTry(b, m, p.turn) <=> ours /\ free
  BY <1>2 DEF MayTry, Occupied
<1>4. Asks(p, m) <=> /\ ours /\ free /\ b[s].type = PAWN
                     /\ m.r_f = LastRow(p.turn) /\ m.promotion \notin Promotions
                     /\ t \in Rules!Reachable(p, s)
  BY <1>1 DEF Asks
<1>5. CASE ~(ours /\ free)
  <2>1. r.code = ILLEGAL_MOVE
    BY <1>3, <1>5 DEF IsIllegal, StepReport, Rejected, Report
  <2> QED
    BY <1>4, <1>5, <2>1, Numbers
<1>6. CASE ours /\ free /\ b[s].type = PAWN
  <2>1. r = PawnReport(g, m)
    BY <1>3, <1>6, MenAreNumbers DEF IsIllegal, StepReport
  <2>2. s # t
    BY <1>6
  <2>3. PawnAdvances(b, m) \/ PawnTakes(g, m) <=> t \in Rules!PawnMoves(p, s)
    BY <1>6, <2>2, PawnSteps
  <2>4. Rules!Reachable(p, s) = Rules!PawnMoves(p, s)
    <3>1. p.men[s].type = PAWN
      BY <1>1, <1>6
    <3> QED
      BY <3>1, SameNames, MenAreNumbers DEF Rules!Reachable
  <2>5. r.code = MISSING_PROMOTION <=>
          /\ PawnAdvances(b, m) \/ PawnTakes(g, m)
          /\ m.r_f = LastRow(p.turn) /\ m.promotion \notin Promotions
    BY <1>6, <2>1, Numbers DEF PawnReport, Rejected, Report
  <2> QED
    BY <1>4, <1>6, <2>3, <2>4, <2>5
<1>7. CASE ours /\ free /\ b[s].type # PAWN
  <2>1. r.code # MISSING_PROMOTION
    BY <1>3, <1>7, Numbers
    DEF IsIllegal, StepReport, KingReport, Rejected, Report
  <2> QED
    BY <1>4, <1>7, <2>1
<1> QED
  BY <1>5, <1>6, <1>7

\* So make_move() calls a move illegal unless it is legal or lacks its promotion.
LEMMA NotIllegal ==
  ASSUME NEW g \in EngineGames, NEW p, Mirrors(g, p), NEW m \in MoveSet
  PROVE  MakeMove(g, m).code # ILLEGAL_MOVE <=> Rules!Legal(p, m) \/ Asks(p, m)
<1> DEFINE made == MakeMoveNoCheckmate(g, m)
           r == MakeMove(g, m)
           report == IsIllegal(g, m, p.turn)
<1>1. made.code \in ReportCodes
  BY NoCheckmateKeepsGame
<1>2. made.code >= 0 <=> Rules!Legal(p, m)
  BY AcceptedIsLegal
<1>3. made.code = MISSING_PROMOTION <=> report.code = MISSING_PROMOTION
  <2>1. /\ report.code < 0 => made.code = report.code
        /\ ~(report.code < 0) => made.code \in {OK, ILLEGAL_MOVE}
    <3>1. p.turn = GetPlayer(g)
      BY MirroredBoard
    <3>2. made = AfterReport(g, m, report)
      BY <3>1 DEF MakeMoveNoCheckmate
    <3> HIDE DEF made, report
    <3> QED
      BY <3>2 DEF AfterReport, UnlessInCheck
  <2> HIDE DEF made, report
  <2> QED
    BY <2>1, Numbers
<1>4. r.code = ILLEGAL_MOVE <=> made.code = ILLEGAL_MOVE
  <2>1. r = Judged(GetPlayer(g), made)
    BY DEF MakeMove
  <2> HIDE DEF made, r
  <2>2. CASE made.code \in NonFatal
    <3>1. r = made
      BY <2>1, <2>2 DEF Judged
    <3> QED
      BY <3>1
  <2>3. CASE made.code \notin NonFatal
    <3>1. r.code \in {OK, DRAW_OFFER, FORCED_DRAW, WHITE_WIN, BLACK_WIN}
      BY <2>1, <2>3 DEF Judged, Outcome, made, MakeMoveNoCheckmate, AfterReport,
                        UnlessInCheck
    <3> QED
      BY <2>3, <3>1 DEF NonFatal, ILLEGAL_MOVE, OK, DRAW_OFFER, FORCED_DRAW,
                        WHITE_WIN, BLACK_WIN
  <2> QED
    BY <2>2, <2>3
<1>5. report.code = MISSING_PROMOTION <=> Asks(p, m)
  BY ReportAsks
<1> HIDE DEF made, r, report
<1> QED
  BY <1>1, <1>2, <1>3, <1>4, <1>5, Numbers DEF ReportCodes, r

\* A move's two bytes tell where from and where to.
LEMMA BytesTell ==
  ASSUME NEW s \in Squares, NEW d \in Squares, NEW u \in Squares, NEW v \in Squares,
         NEW x, NEW y, WriteMove(MoveOf(s, d, x)) = WriteMove(MoveOf(u, v, y))
  PROVE  s = u /\ d = v
<1>1. /\ s = <<s[1], s[2]>> /\ s[1] \in 0 .. 7 /\ s[2] \in 0 .. 7
      /\ d = <<d[1], d[2]>> /\ d[1] \in 0 .. 7 /\ d[2] \in 0 .. 7
      /\ u = <<u[1], u[2]>> /\ u[1] \in 0 .. 7 /\ u[2] \in 0 .. 7
      /\ v = <<v[1], v[2]>> /\ v[1] \in 0 .. 7 /\ v[2] \in 0 .. 7
  BY DEF Squares, Coord
<1>2. /\ s[1] * 32 + s[2] * 4 = u[1] * 32 + u[2] * 4
      /\ d[1] * 32 + d[2] * 4 = v[1] * 32 + v[2] * 4
  BY DEF WriteMove, MoveOf
<1>3. s[1] = u[1] /\ s[2] = u[2] /\ d[1] = v[1] /\ d[2] = v[2]
  BY <1>1, <1>2
<1> QED
  BY <1>1, <1>3

\* The bytes of a move are listed if make_move() does not call it illegal.
LEMMA ListedIsNotIllegal ==
  ASSUME NEW g \in EngineGames, NEW s \in DOMAIN g.board, NEW d \in Squares,
         NEW promotion, NEW other
  PROVE  WriteMove(MoveOf(s, d, other)) \in ListedMoves(g, promotion) <=>
           MakeMove(g, MoveOf(s, d, promotion)).code # ILLEGAL_MOVE
<1>1. DOMAIN g.board \subseteq Squares
  BY BoardIs DEF EngineGames
<1>2. WriteMove(MoveOf(s, d, other)) = WriteMove(MoveOf(s, d, promotion))
  BY DEF WriteMove, MoveOf
<1>3. ASSUME MakeMove(g, MoveOf(s, d, promotion)).code # ILLEGAL_MOVE
      PROVE  WriteMove(MoveOf(s, d, promotion)) \in ListedMoves(g, promotion)
  BY <1>3 DEF ListedMoves
<1>4. ASSUME WriteMove(MoveOf(s, d, other)) \in ListedMoves(g, promotion)
      PROVE  MakeMove(g, MoveOf(s, d, promotion)).code # ILLEGAL_MOVE
  <2>1. PICK u \in DOMAIN g.board, v \in Squares :
          /\ WriteMove(MoveOf(s, d, other)) = WriteMove(MoveOf(u, v, promotion))
          /\ MakeMove(g, MoveOf(u, v, promotion)).code # ILLEGAL_MOVE
    BY <1>4 DEF ListedMoves
  <2>2. u = s /\ v = d
    BY <1>1, <2>1, BytesTell
  <2> QED
    BY <2>1, <2>2
<1> QED
  BY <1>2, <1>3, <1>4

\* What a promotion is counts for a pawn on its last step only.
LEMMA PromotionCounts ==
  ASSUME NEW p, NEW m, NEW n,
         Rules!Source(n) = Rules!Source(m), Rules!Target(n) = Rules!Target(m),
         n.r_i = m.r_i, n.c_i = m.c_i, n.r_f = m.r_f, n.c_f = m.c_f,
         ~(/\ p.men[Rules!Source(m)].type = Rules!PAWN
           /\ m.r_f = Rules!Home(Rules!Opponent(p.turn))),
         Rules!Legal(p, m)
  PROVE  Rules!Legal(p, n)
<1>1. Rules!IsCastling(p, n) <=> Rules!IsCastling(p, m)
  BY DEF Rules!IsCastling
<1>2. Rules!MenAfter(p, n) = Rules!MenAfter(p, m)
  BY <1>1, Zenon DEF Rules!MenAfter
<1> QED
  BY <1>2 DEF Rules!Legal

\* GET_VALID_MOVES lists every legal move, and what it lists besides is a last
\* step of a pawn that would uncover its king, if the promotion that nobody has
\* written is none.
THEOREM EveryLegalMoveIsListed == Spec => []LegalMovesAreListed
<1>1. Play => LegalMovesAreListed
  <2> SUFFICES ASSUME Play, Agrees, NEW promotion \in {EMPTY, QUEEN},
                      NEW s \in DOMAIN game.board, NEW d \in Squares
               PROVE  WriteMove(MoveOf(s, d, QUEEN)) \in ListedMoves(game, promotion) <=>
                        \/ Rules!Legal(pos, MoveOf(s, d, QUEEN))
                        \/ /\ promotion = EMPTY
                           /\ game.board[s].type = PAWN
                           /\ d[1] = LastRow(game.board[s].player)
                           /\ game.board[s].player = pos.turn
                           /\ d \in Rules!Reachable(pos, s)
                           /\ Occupied(game.board, d) => game.board[d].player # pos.turn
    BY Zenon DEF LegalMovesAreListed
  <2> DEFINE m == MoveOf(s, d, QUEEN)
             n == MoveOf(s, d, promotion)
             b == game.board
             ours == b[s].player = pos.turn
             last == b[s].type = PAWN /\ d[1] = LastRow(pos.turn)
             way == /\ d \in Rules!Reachable(pos, s)
                    /\ d \in DOMAIN b => b[d].player # pos.turn
             listed == WriteMove(m) \in ListedMoves(game, promotion)
  <2>1. /\ game \in EngineGames /\ Mirrors(game, pos) /\ DOMAIN b \subseteq Squares
        /\ s \in Squares /\ pos.turn \in Players /\ DOMAIN pos.men = DOMAIN b
        /\ \A x \in DOMAIN b : /\ pos.men[x].type = b[x].type
                               /\ pos.men[x].player = b[x].player
    BY MirroredBoard DEF Play, GameOn
  <2>2. m \in MoveSet /\ n \in MoveSet
    BY <2>1, MenAreNumbers DEF MoveSet, MoveOf, Squares, Promotions
  <2>3. /\ From(m) = s /\ To(m) = d /\ m.r_f = d[1] /\ m.promotion = QUEEN
        /\ From(n) = s /\ To(n) = d /\ n.r_f = d[1] /\ n.promotion = promotion
        /\ n.r_i = m.r_i /\ n.c_i = m.c_i /\ n.r_f = m.r_f /\ n.c_f = m.c_f
    BY <2>1 DEF From, To, MoveOf, Squares
  <2>4. listed <=> Rules!Legal(pos, n) \/ Asks(pos, n)
    BY <2>1, <2>2, ListedIsNotIllegal, NotIllegal
  <2>5. promotion = QUEEN => n = m
    OBVIOUS
  <2> HIDE DEF m, n, listed
  <2>6. Asks(pos, n) <=> ours /\ last /\ way /\ promotion \notin Promotions
    BY <2>1, <2>3 DEF Asks
  <2>7. QUEEN \in Promotions /\ EMPTY \notin Promotions
    BY Numbers
  <2>8. /\ Rules!Source(m) = s /\ Rules!Target(m) = d
        /\ Rules!Source(n) = s /\ Rules!Target(n) = d
        /\ Rules!PAWN = PAWN /\ Rules!Promotions = Promotions
        /\ Rules!Home(Rules!Opponent(pos.turn)) = LastRow(pos.turn)
    BY <2>1, <2>3, SameNames DEF HomeRow, LastRow, Opponent, Players, WHITE, BLACK
  <2>9. /\ Rules!Legal(pos, m) => ours /\ way
        /\ Rules!Legal(pos, n) /\ last => promotion \in Promotions
    BY <2>1, <2>3, <2>8 DEF Rules!Legal
  <2>10. ~last => (Rules!Legal(pos, n) <=> Rules!Legal(pos, m))
    BY <2>1, <2>3, <2>8, PromotionCounts
  <2> HIDE DEF ours, last, way
  <2>11. listed <=> Rules!Legal(pos, m) \/ (promotion = EMPTY /\ ours /\ last /\ way)
    <3>1. CASE promotion = QUEEN
      BY <2>4, <2>5, <2>6, <2>7, <3>1
    <3>2. CASE promotion = EMPTY
      BY <2>4, <2>6, <2>7, <2>9, <2>10, <3>2
    <3> QED
      BY <3>1, <3>2
  <2> QED
    BY <2>11, Zenon DEF listed, m, ours, last, way, Occupied
<1> QED
  BY <1>1, PlayForever, PTL

-----------------------------------------------------------------------------
(* The answer to GET_BOARD. *)
\* Of a number that is moved up by four bits the lowest four are not set, and
\* the four after them are the ones that it had.
LEMMA MovedUp ==
  ASSUME NEW x \in Nat
  PROVE  /\ \A w \in {1, 2, 4, 8} : Bits(x * 16, w, 2) = 0
         /\ \A w \in {1, 2, 4, 8} : Bits(x * 16, 16 * w, 2) = Bits(x, w, 2)
  BY SMTT(60) DEF Bits

\* The four lowest bits of a number are the number, if it has no more.
LEMMA FourBits ==
  ASSUME NEW x \in Nat
  PROVE  /\ \A w \in {1, 2, 4, 8} : Bits(x, w, 2) \in {0, 1}
         /\ x % 16 = Bits(x, 1, 2) + 2 * Bits(x, 2, 2) + 4 * Bits(x, 4, 2)
                       + 8 * Bits(x, 8, 2)
         /\ x < 16 => \A w \in {1, 2, 4, 8} : Bits(x, 16 * w, 2) = 0
  BY SMTT(60) DEF Bits

\* In the byte of two squares the lower half is what the right one has in its
\* four bits, and the upper half what the left one has, if the right one has
\* no more than four.
LEMMA HalvesOfByte ==
  ASSUME NEW x \in Nat, NEW y \in Nat
  PROVE  /\ ByteOr(x * 16, y) % 16 = y % 16
         /\ y < 16 => ByteOr(x * 16, y) \div 16 = x % 16
<1> DEFINE a == x * 16
           low == EitherBit(a, y, 1) + EitherBit(a, y, 2) + EitherBit(a, y, 4)
                    + EitherBit(a, y, 8)
           e(w) == EitherBit(a, y, 16 * w)
<1>1. /\ EitherBit(a, y, 1) = Bits(y, 1, 2)
      /\ EitherBit(a, y, 2) = 2 * Bits(y, 2, 2)
      /\ EitherBit(a, y, 4) = 4 * Bits(y, 4, 2)
      /\ EitherBit(a, y, 8) = 8 * Bits(y, 8, 2)
  <2>1. \A w \in {1, 2, 4, 8} : Bits(a, w, 2) = 0
    BY MovedUp
  <2>2. \A w \in {1, 2, 4, 8} : Bits(y, w, 2) \in {0, 1}
    BY FourBits
  <2> HIDE DEF a
  <2> QED
    BY <2>1, <2>2 DEF EitherBit
<1>2. low = y % 16
  BY <1>1, FourBits
<1>3. \A w \in {1, 2, 4, 8} : EitherBit(a, y, 16 * w) \in {0, 16 * w}
  BY DEF EitherBit
<1>4. ASSUME y < 16
      PROVE  /\ EitherBit(a, y, 16 * 1) = 16 * Bits(x, 1, 2)
             /\ EitherBit(a, y, 16 * 2) = 32 * Bits(x, 2, 2)
             /\ EitherBit(a, y, 16 * 4) = 64 * Bits(x, 4, 2)
             /\ EitherBit(a, y, 16 * 8) = 128 * Bits(x, 8, 2)
  <2>1. \A w \in {1, 2, 4, 8} : Bits(a, 16 * w, 2) = Bits(x, w, 2)
    BY MovedUp
  <2>2. \A w \in {1, 2, 4, 8} : Bits(y, 16 * w, 2) = 0 /\ Bits(x, w, 2) \in {0, 1}
    BY <1>4, FourBits
  <2> HIDE DEF a
  <2> QED
    BY <2>1, <2>2 DEF EitherBit
<1>5. ByteOr(a, y) = low + EitherBit(a, y, 16 * 1) + EitherBit(a, y, 16 * 2)
                       + EitherBit(a, y, 16 * 4) + EitherBit(a, y, 16 * 8)
  BY <1>1, <1>3, FourBits DEF ByteOr
<1>6. low \in 0 .. 15
  BY <1>2
<1> HIDE DEF low, a
<1>7. ByteOr(a, y) % 16 = y % 16
  BY <1>2, <1>3, <1>5, <1>6
<1>8. ASSUME y < 16
      PROVE  ByteOr(a, y) \div 16 = x % 16
  <2>1. x % 16 = Bits(x, 1, 2) + 2 * Bits(x, 2, 2) + 4 * Bits(x, 4, 2)
                   + 8 * Bits(x, 8, 2)
    BY FourBits
  <2>2. \A w \in {1, 2, 4, 8} : Bits(x, w, 2) \in {0, 1}
    BY FourBits
  <2>3. ByteOr(a, y) = low + 16 * (x % 16)
    BY <1>4, <1>5, <1>6, <1>8, <2>1, <2>2
  <2> QED
    BY <1>6, <2>3
<1> QED
  BY <1>7, <1>8 DEF a

\* The code of a man has four bits, his type and his player.
LEMMA CodesOfMen ==
  ASSUME NEW b, NEW s \in DOMAIN b, b[s] \in Pieces, NEW stale
  PROVE  /\ GetCode(b, s, stale) \in 0 .. 15
         /\ GetCode(b, s, stale) % 8 = b[s].type
         /\ GetCode(b, s, stale) \div 8 = PlayerCode(b[s].player)
<1>1. b[s].type \in 0 .. 5 /\ PlayerCode(b[s].player) \in {0, 1}
  BY MenAreNumbers DEF Pieces, PieceTypes, PlayerCode
<1>2. GetCode(b, s, stale) = PlayerCode(b[s].player) * 8 + b[s].type
  BY DEF GetCode, Occupied
<1> QED
  BY <1>1, <1>2

\* Whoever asks for the board in any game is shown it: all that memory which
\* nobody has written can spoil is the man to the left of an empty square.
THEOREM BoardCanBeReadOff == Spec => []MenCanBeReadOff
<1>1. GameOn => MenCanBeReadOff
  <2> SUFFICES ASSUME GameOn, NEW r \in Coord, NEW c \in {0, 2, 4, 6},
                      NEW left \in StalePlayers, NEW right \in StalePlayers
               PROVE  LET byte == BoardByte(game.board, r, c, left, right)
                          shows(s, bits) ==
                            Occupied(game.board, s) =>
                              /\ bits % 8 = game.board[s].type
                              /\ bits \div 8 = PlayerCode(game.board[s].player)
                      IN  /\ shows(<<r, c + 1>>, byte % 16)
                          /\ Occupied(game.board, <<r, c + 1>>) \/ right \in {0, 1} =>
                               shows(<<r, c>>, byte \div 16)
    BY DEF MenCanBeReadOff
  <2> DEFINE b == game.board
             x == GetCode(b, <<r, c>>, left)
             y == GetCode(b, <<r, c + 1>>, right)
             byte == BoardByte(b, r, c, left, right)
  <2>1. b \in [DOMAIN b -> Pieces]
    BY BoardIs DEF GameOn, EngineGames
  <2>2. \A s \in DOMAIN b, stale \in StalePlayers :
          /\ GetCode(b, s, stale) \in 0 .. 15
          /\ GetCode(b, s, stale) % 8 = b[s].type
          /\ GetCode(b, s, stale) \div 8 = PlayerCode(b[s].player)
    BY <2>1, CodesOfMen
  <2>3. \A s, stale : s \notin DOMAIN b => GetCode(b, s, stale) = stale * 8 + 6
    BY DEF GetCode, Occupied, EMPTY
  <2>4. /\ x \in Nat /\ y \in Nat
        /\ <<r, c + 1>> \in DOMAIN b \/ right \in {0, 1} => y < 16
    <3>1. \A s \in DOMAIN b, stale \in StalePlayers :
            GetCode(b, s, stale) \in Nat /\ GetCode(b, s, stale) < 16
      BY <2>2
    <3>2. \A s, stale : s \notin DOMAIN b /\ stale \in StalePlayers =>
            /\ GetCode(b, s, stale) \in Nat
            /\ stale \in {0, 1} => GetCode(b, s, stale) < 16
      BY <2>3 DEF StalePlayers
    <3> HIDE DEF b
    <3> QED
      BY <3>1, <3>2
  <2>5. byte = ByteOr(x * 16, y)
    BY DEF BoardByte
  <2> HIDE DEF byte, x, y
  <2>6. /\ byte % 16 = y % 16
        /\ <<r, c + 1>> \in DOMAIN b \/ right \in {0, 1} => byte \div 16 = x % 16
    BY <2>4, <2>5, HalvesOfByte
  <2>7. <<r, c + 1>> \in DOMAIN b => byte % 16 = GetCode(b, <<r, c + 1>>, right)
    BY <2>2, <2>6 DEF y
  <2>8. /\ <<r, c>> \in DOMAIN b
        /\ <<r, c + 1>> \in DOMAIN b \/ right \in {0, 1}
        => byte \div 16 = GetCode(b, <<r, c>>, left)
    BY <2>2, <2>6 DEF x
  <2> QED
    BY <2>2, <2>7, <2>8 DEF byte, Occupied
<1> QED
  BY <1>1, GameOnForever, PTL

-----------------------------------------------------------------------------
(* A game from a text. *)
\* A legal move that takes a pawn in passing needs a pawn that has just passed;
\* the others do not ask for it.
LEMMA WithoutPassing ==
  ASSUME NEW g \in EngineGames, NEW p, Mirrors(g, p), NEW m \in MoveSet,
         NEW q, q.men = p.men, q.turn = p.turn, q.rights = p.rights, q.skipped = None
  PROVE  Rules!Legal(q, m) <=>
           /\ Rules!Legal(p, m)
           /\ ~(/\ g.board[From(m)].type = PAWN /\ Abs(ColDiff(m)) = 1
                /\ To(m) \notin DOMAIN g.board)
<1> DEFINE b == g.board
           s == From(m)
           t == To(m)
           dir == Direction(p.turn)
           one == Rules!Plus(s, <<dir, 0>>, 1)
           two == Rules!Plus(s, <<dir, 0>>, 2)
           ahead == {x \in {one} : one \notin DOMAIN p.men}
                      \cup {x \in {two} : /\ one \notin DOMAIN p.men /\ two \notin DOMAIN p.men
                                          /\ s[1] = Rules!PawnHome(p.turn)}
           own == s \in DOMAIN p.men /\ p.men[s].player = p.turn
           passing == /\ p.men[s].type = PAWN /\ Abs(ColDiff(m)) = 1
                      /\ t \notin DOMAIN p.men
<1>1. /\ DOMAIN b \subseteq Squares /\ p.turn \in Players /\ DOMAIN p.men = DOMAIN b
      /\ \A x \in DOMAIN b : p.men[x].type = b[x].type /\ p.men[x].player = b[x].player
  BY MirroredBoard
<1>2. /\ m.r_i \in 0 .. 7 /\ m.c_i \in 0 .. 7 /\ m.r_f \in 0 .. 7 /\ m.c_f \in 0 .. 7
      /\ t = <<m.r_f, m.c_f>> /\ s = <<m.r_i, m.c_i>> /\ s[1] = m.r_i /\ s[2] = m.c_i
  BY MoveSquares
<1>3. dir \in {-1, 1}
  BY DEF Direction
<1>4. one = <<m.r_i + dir, m.c_i>> /\ two = <<m.r_i + 2 * dir, m.c_i>>
  BY <1>2, <1>3 DEF Rules!Plus
<1>5. /\ {<<x[1] + dir, x[2]>> : x \in JustPassed(g)} = {p.skipped} \ {None}
      /\ p.skipped \notin DOMAIN p.men /\ t # None
  BY <1>2 DEF Mirrors, None
<1>6. /\ Rules!PawnMoves(p, s) =
           ahead \cup {x \in Rules!Attacks(p.men, s) : x \in DOMAIN p.men \/ x = p.skipped}
      /\ Rules!PawnMoves(q, s) =
           ahead \cup {x \in Rules!Attacks(p.men, s) : x \in DOMAIN p.men \/ x = None}
  BY SameNames DEF Rules!PawnMoves
<1>7. Rules!CastlingMoves(q, s) = Rules!CastlingMoves(p, s)
  BY DEF Rules!CastlingMoves
<1>8. p.men[s].type = PAWN /\ t \in Rules!Attacks(p.men, s) => Abs(ColDiff(m)) = 1
  <2> SUFFICES ASSUME p.men[s].type = PAWN, t \in Rules!Attacks(p.men, s)
               PROVE  Abs(ColDiff(m)) = 1
    OBVIOUS
  <2> DEFINE player == p.men[s].player
  <2>1. Rules!Attacks(p.men, s) =
          {Rules!Plus(s, <<Direction(player), dc>>, 1) : dc \in {-1, 1}}
    BY SameNames, MenAreNumbers DEF Rules!Attacks
  <2> HIDE DEF player
  <2>2. \A dc \in {-1, 1} : Rules!Plus(s, <<Direction(player), dc>>, 1)[2] = m.c_i + dc
    BY <1>2 DEF Rules!Plus
  <2>3. PICK dc \in {-1, 1} : t[2] = m.c_i + dc
    BY <2>1, <2>2
  <2> QED
    BY <1>2, <2>3 DEF Abs, ColDiff
<1>9. t \in ahead => Abs(ColDiff(m)) = 0
  BY <1>2, <1>3, <1>4 DEF Abs, ColDiff
<1>10. own /\ t \in ahead => t # p.skipped
  <2> SUFFICES ASSUME own, t \in ahead, t = p.skipped
               PROVE  FALSE
    OBVIOUS
  <2>1. PICK x \in JustPassed(g) : t = <<x[1] + dir, x[2]>>
    BY <1>5
  <2>2. x \in DOMAIN b /\ x \in Squares /\ b[x].player = Opponent(GetPlayer(g))
    BY <1>1, <2>1 DEF JustPassed, HeldBy
  <2>3. x = <<x[1], x[2]>> /\ x[1] \in Int /\ x[2] \in Int
    BY <2>2 DEF Squares, Coord
  <2>4. x = s \/ x = one
    BY <1>2, <1>3, <1>4, <2>1, <2>3
  <2>5. s \in DOMAIN p.men /\ p.men[s].player = p.turn /\ one \notin DOMAIN p.men
    OBVIOUS
  <2>6. p.turn = GetPlayer(g) /\ p.turn # Opponent(p.turn)
    BY <1>1 DEF Mirrors, Opponent, Players, WHITE, BLACK
  <2> QED
    BY <1>1, <2>2, <2>4, <2>5, <2>6
<1> HIDE DEF ahead
<1>11. own => (t \in Rules!Reachable(q, s) <=> t \in Rules!Reachable(p, s) /\ ~passing)
  <2>1. CASE own /\ p.men[s].type = PAWN
    <3>1. /\ Rules!Reachable(q, s) = Rules!PawnMoves(q, s)
          /\ Rules!Reachable(p, s) = Rules!PawnMoves(p, s)
      BY <2>1, SameNames, MenAreNumbers DEF Rules!Reachable
    <3>2. t \in ahead => ~passing
      BY <1>9
    <3>3. t \in Rules!Attacks(p.men, s) => (passing <=> t \notin DOMAIN p.men)
      BY <1>8, <2>1
    <3> QED
      BY <1>5, <1>6, <3>1, <3>2, <3>3
  <2>2. CASE p.men[s].type # PAWN
    BY <1>7, <2>2, SameNames, MenAreNumbers DEF Rules!Reachable
  <2> QED
    BY <2>1, <2>2
<1>12. own /\ t \in Rules!Reachable(q, s) => Rules!MenAfter(q, m) = Rules!MenAfter(p, m)
  <2> SUFFICES ASSUME own, t \in Rules!Reachable(q, s)
               PROVE  Rules!MenAfter(q, m) = Rules!MenAfter(p, m)
    OBVIOUS
  <2>1. p.men[s].type = PAWN => t # p.skipped
    <3> SUFFICES ASSUME p.men[s].type = PAWN PROVE t # p.skipped
      OBVIOUS
    <3>1. Rules!Reachable(q, s) = Rules!PawnMoves(q, s)
      BY SameNames, MenAreNumbers DEF Rules!Reachable
    <3> QED
      BY <1>5, <1>6, <1>10, <3>1
  <2>2. /\ (p.men[Rules!Source(m)].type = Rules!PAWN /\ Rules!Target(m) = p.skipped) = FALSE
        /\ (p.men[Rules!Source(m)].type = Rules!PAWN /\ Rules!Target(m) = q.skipped) = FALSE
    BY <1>5, <2>1, SameNames
  <2> QED
    BY <2>2 DEF Rules!MenAfter, Rules!IsCastling
<1>13. own => (passing <=>
         b[s].type = PAWN /\ Abs(ColDiff(m)) = 1 /\ t \notin DOMAIN b)
  BY <1>1
<1> QED
  BY <1>11, <1>12, <1>13, SameNames DEF Rules!Legal

\* A rook that may castle has never left its corner, and its king is at home.
LEMMA RookMayCastle ==
  ASSUME NEW g \in EngineGames, NEW p, Mirrors(g, p), NEW s, s \in p.rights
  PROVE  LET owner == IF s[1] = 7 THEN WHITE ELSE BLACK
         IN  /\ s \in DOMAIN p.men /\ s \in {0, 7} \X {0, 7} /\ s[1] = HomeRow(owner)
             /\ p.men[s] = [type |-> ROOK, player |-> owner]
             /\ <<s[1], 4>> \in DOMAIN p.men
             /\ p.men[<<s[1], 4>>] = [type |-> KING, player |-> owner]
<1> DEFINE b == g.board
           k == <<s[1], 4>>
           owner == IF s[1] = 7 THEN WHITE ELSE BLACK
<1>1. /\ b \in [DOMAIN b -> Pieces] /\ AtHome(b) /\ DOMAIN p.men = DOMAIN b
      /\ \A x \in DOMAIN b : /\ b[x] \in Pieces
                             /\ p.men[x].type = b[x].type
                             /\ p.men[x].player = b[x].player
                             /\ p.men[x] = [type |-> b[x].type, player |-> b[x].player]
  BY MirroredBoard, MenOfBoard
<1>2. /\ s \in {0, 7} \X {0, 7} /\ s \in DOMAIN b
      /\ b[s].type = ROOK /\ b[s].moves = 0 /\ k \in DOMAIN b
      /\ b[k].type = KING /\ b[k].player = b[s].player
  BY DEF Mirrors, RightsOf, Occupied
<1> HIDE DEF k
<1>3. s[1] = HomeRow(b[s].player)
  <2>1. s \in Home(b[s])
    BY <1>1, <1>2, HomeOf, Numbers
  <2>2. Home(b[s]) = {HomeRow(b[s].player)} \X {0, 7}
    BY <1>2, Numbers DEF Home
  <2> QED
    BY <2>1, <2>2
<1>4. b[s].player \in {WHITE, BLACK} /\ WHITE # BLACK
  BY <1>1, <1>2 DEF Pieces, Players, WHITE, BLACK
<1>5. owner = b[s].player
  BY <1>3, <1>4 DEF HomeRow
<1> HIDE DEF owner
<1>6. /\ p.men[s] = [type |-> ROOK, player |-> owner]
      /\ p.men[k] = [type |-> KING, player |-> owner]
  BY <1>1, <1>2, <1>5
<1> QED
  BY <1>1, <1>2, <1>3, <1>5, <1>6 DEF k, owner

\* The game that the text of a position gives, man by man: of their past it
\* knows who may castle, and which pawns may make their double step.
HasMenOf(h, p, half, full) ==
  /\ h = [board |-> h.board, duration |-> h.duration, last_big_move |-> h.last_big_move]
  /\ h.duration = 2 * (full - 1) + IF p.turn = WHITE THEN 0 ELSE 1
  /\ h.last_big_move = 2 * (full - 1) - half
  /\ h.board \in [DOMAIN p.men -> Pieces]
  /\ \A s \in DOMAIN p.men :
       /\ h.board[s].type = p.men[s].type
       /\ h.board[s].player = p.men[s].player
       /\ h.board[s].moves =
            IF s \in p.rights THEN 0
            ELSE LoadedMan(p.men[s].type, p.men[s].player, s[1]).moves
       /\ h.board[s].last_move \in {0, h.duration}
       /\ s[1] \in {3, 4} => h.board[s].last_move = 0

\* init_game() makes that game of it.
LEMMA LoadedMen ==
  ASSUME NEW g \in EngineGames, NEW p, Mirrors(g, p), NEW half \in Nat, NEW full \in Nat,
         full > 0, IsRead(TextOf(p, <<half, full>>), p.men)
  PROVE  LET loaded == InitGame(TextOf(p, <<half, full>>))
         IN  loaded.ok /\ HasMenOf(loaded.game, p, half, full)
<1> DEFINE text == TextOf(p, <<half, full>>)
           loaded == InitGame(text)
           h == loaded.game
           raw == LoadedBoard(p.men)
           men == Castles(raw, p.rights)
           sq == PassingSquare(text.passing)
           past == 2 * (full - 1)
           turn == IF p.turn = WHITE THEN 0 ELSE 1
<1>1. /\ text.turn = p.turn /\ text.castles = p.rights
      /\ text.passing = IF p.skipped = <<>> THEN <<>>
                        ELSE <<p.skipped[2], 8 - p.skipped[1]>>
      /\ text.clocks = <<half, full>>
  BY DEF TextOf
<1>2. Placement(text.placement) = [ok |-> TRUE, board |-> raw]
  BY DEF IsRead
<1> HIDE DEF text, raw
<1>3. /\ loaded.ok <=> CornersHold(raw, p.rights) /\ past >= 0
      /\ h = [board |-> IF Occupied(men, sq) THEN [men EXCEPT ![sq].last_move = @ + (past + turn)]
                        ELSE men,
              duration |-> past + turn,
              last_big_move |-> past - half]
  <2> DEFINE placed == Placement(text.placement)
             moved == IF text.clocks = <<>> THEN 0 ELSE 2 * (text.clocks[2] - 1)
             quiet == IF text.clocks = <<>> THEN 0 ELSE text.clocks[1]
             now == moved + IF text.turn = WHITE THEN 0 ELSE 1
             here == PassingSquare(text.passing)
             them == Castles(placed.board, text.castles)
  <2>1. /\ loaded.ok <=> /\ placed.ok /\ CornersHold(placed.board, text.castles)
                         /\ moved >= 0
        /\ h = [board |-> IF Occupied(them, here) THEN [them EXCEPT ![here].last_move = @ + now]
                          ELSE them,
                duration |-> now,
                last_big_move |-> moved - quiet]
    BY DEF InitGame
  <2>2. placed.ok = TRUE /\ placed.board = raw
    BY <1>2
  <2>3. text.clocks # <<>> /\ text.clocks[1] = half /\ text.clocks[2] = full
    BY <1>1
  <2>4. moved = past /\ quiet = half /\ now = past + turn
    BY <1>1, <2>3
  <2>5. here = sq /\ them = men
    BY <1>1, <2>2
  <2> HIDE DEF placed, moved, quiet, now, here, them, past, turn, men, sq, loaded
  <2> QED
    BY <1>1, <2>1, <2>2, <2>4, <2>5
<1> HIDE DEF loaded
<1>4. past \in Nat /\ past + turn \in Nat
  OBVIOUS
<1>5. /\ DOMAIN p.men \subseteq Squares
      /\ \A s \in DOMAIN p.men : p.men[s].type \in PieceTypes /\ p.men[s].player \in Players
  BY MirroredBoard DEF Pieces
<1>6. /\ DOMAIN raw = DOMAIN p.men
      /\ \A s \in DOMAIN p.men :
           /\ raw[s] \in Pieces /\ raw[s].type = p.men[s].type
           /\ raw[s].player = p.men[s].player /\ raw[s].last_move = 0
           /\ raw[s].moves = LoadedMan(p.men[s].type, p.men[s].player, s[1]).moves
  BY <1>5 DEF raw, LoadedBoard, LoadedMan, Pieces
<1>7. CornersHold(raw, p.rights)
  <2>1. ASSUME NEW s \in p.rights
        PROVE  /\ s \in DOMAIN p.men /\ p.men[s].type = ROOK
               /\ p.men[s].player = IF s[1] = 7 THEN WHITE ELSE BLACK
    <3> DEFINE owner == IF s[1] = 7 THEN WHITE ELSE BLACK
    <3>1. s \in DOMAIN p.men /\ p.men[s] = [type |-> ROOK, player |-> owner]
      BY RookMayCastle
    <3> QED
      BY <3>1
  <2> QED
    BY <1>6, <2>1 DEF CornersHold, Occupied
<1>8. /\ DOMAIN men = DOMAIN p.men
      /\ \A s \in DOMAIN p.men :
           /\ men[s] \in Pieces /\ men[s].type = p.men[s].type
           /\ men[s].player = p.men[s].player /\ men[s].last_move = 0
           /\ men[s].moves =
                IF s \in p.rights THEN 0
                ELSE LoadedMan(p.men[s].type, p.men[s].player, s[1]).moves
  BY <1>6 DEF Castles, Pieces
<1>9. sq[1] \in {7, -1}
  <2>1. CASE p.skipped = None
    BY <1>1, <2>1 DEF PassingSquare, None
  <2>2. CASE p.skipped # None
    <3>1. PICK s \in JustPassed(g) : p.skipped = <<s[1] + Direction(p.turn), s[2]>>
      BY <2>2 DEF Mirrors
    <3>2. s[1] = (IF p.turn = WHITE THEN 3 ELSE 4)
      BY <3>1 DEF JustPassed, Mirrors
    <3>3. 8 - p.skipped[1] \in {6, 3}
      BY <3>1, <3>2 DEF Direction
    <3>4. text.passing = <<p.skipped[2], 8 - p.skipped[1]>>
      BY <1>1, <2>2 DEF None
    <3>5. sq = <<7, p.skipped[2]>>
      BY <3>3, <3>4 DEF PassingSquare
    <3> QED
      BY <3>5
  <2> QED
    BY <2>1, <2>2
<1> HIDE DEF men, sq, past, turn
<1>10. ASSUME NEW s \in DOMAIN p.men
       PROVE  /\ s \in DOMAIN h.board /\ h.board[s] \in Pieces
              /\ h.board[s].type = men[s].type /\ h.board[s].player = men[s].player
              /\ h.board[s].moves = men[s].moves
              /\ h.board[s].last_move = IF s = sq THEN past + turn ELSE 0
  <2>1. CASE s = sq
    <3>1. h.board = [men EXCEPT ![sq].last_move = @ + (past + turn)]
      BY <1>3, <1>8, <2>1 DEF Occupied
    <3>2. h.board[s] = [men[s] EXCEPT !.last_move = @ + (past + turn)]
      BY <1>8, <2>1, <3>1
    <3> QED
      BY <1>4, <1>8, <2>1, <3>1, <3>2 DEF Pieces
  <2>2. CASE s # sq
    <3>1. h.board[s] = men[s] /\ s \in DOMAIN h.board
      BY <1>3, <1>8, <2>2
    <3> QED
      BY <1>8, <2>2, <3>1
  <2> QED
    BY <2>1, <2>2
<1>11. h.board \in [DOMAIN p.men -> Pieces]
  <2>1. men = [s \in DOMAIN p.men |-> men[s]]
    BY <1>6 DEF men, Castles
  <2>2. /\ h.board = [s \in DOMAIN p.men |-> h.board[s]]
        /\ DOMAIN h.board = DOMAIN p.men
    BY <1>3, <2>1
  <2> QED
    BY <1>10, <2>2
<1>12. /\ loaded.ok /\ h.duration = past + turn /\ h.last_big_move = past - half
       /\ h = [board |-> h.board, duration |-> h.duration,
               last_big_move |-> h.last_big_move]
  BY <1>3, <1>4, <1>7
<1>13. ASSUME NEW s \in DOMAIN p.men
       PROVE  /\ h.board[s].last_move \in {0, h.duration}
              /\ s[1] \in {3, 4} => h.board[s].last_move = 0
  <2>1. s[1] \in {3, 4} => s # sq
    BY <1>9
  <2> QED
    BY <1>10, <1>12, <2>1
<1> QED
  BY <1>8, <1>10, <1>11, <1>12, <1>13 DEF HasMenOf, loaded, text, past, turn

\* Mirrors holds of the game from a text, with all of the position but the pawn
\* that has just passed: no man of it moved in the last move.
LEMMA LoadedMirrors ==
  ASSUME NEW g \in EngineGames, NEW p, Mirrors(g, p), NEW half \in Nat, NEW full \in Nat,
         full > 0, half <= 2 * (full - 1), full > 1 \/ p.turn = BLACK,
         IsRead(TextOf(p, <<half, full>>), p.men)
  PROVE  LET loaded == InitGame(TextOf(p, <<half, full>>))
         IN  /\ loaded.ok /\ loaded.game \in EngineGames
             /\ Mirrors(loaded.game, Rules!Position(p.men, p.turn, p.rights, None))
<1> DEFINE loaded == InitGame(TextOf(p, <<half, full>>))
           h == loaded.game
           c == h.board
           b == g.board
           q == Rules!Position(p.men, p.turn, p.rights, None)
           turn == IF p.turn = WHITE THEN 0 ELSE 1
<1>1. loaded.ok /\ HasMenOf(h, p, half, full)
  BY LoadedMen
<1> HIDE DEF loaded
<1>2. /\ h = [board |-> c, duration |-> h.duration, last_big_move |-> h.last_big_move]
      /\ h.duration = 2 * (full - 1) + turn
      /\ h.last_big_move = 2 * (full - 1) - half
      /\ c \in [DOMAIN p.men -> Pieces]
      /\ \A s \in DOMAIN p.men :
           /\ c[s].type = p.men[s].type /\ c[s].player = p.men[s].player
           /\ c[s].moves = IF s \in p.rights THEN 0
                           ELSE LoadedMan(p.men[s].type, p.men[s].player, s[1]).moves
           /\ c[s].last_move \in {0, h.duration}
           /\ s[1] \in {3, 4} => c[s].last_move = 0
  BY <1>1 DEF HasMenOf
<1> HIDE DEF c
<1>3. /\ DOMAIN p.men = DOMAIN b /\ DOMAIN b \subseteq Squares /\ AtHome(b)
      /\ p.turn \in Players /\ PastIsInOrder(g)
      /\ \A s \in DOMAIN b : /\ b[s] \in Pieces /\ p.men[s].type = b[s].type
                             /\ p.men[s].player = b[s].player
  BY MirroredBoard
<1>4. h.duration \in Nat /\ h.last_big_move \in Nat /\ h.last_big_move <= h.duration
      /\ h.duration # 0
  <2>1. turn \in {0, 1} /\ (p.turn = BLACK => turn = 1)
    BY DEF WHITE, BLACK
  <2>2. 2 * (full - 1) \in Nat /\ (full > 1 => 2 * (full - 1) > 0)
    OBVIOUS
  <2> DEFINE past == 2 * (full - 1)
  <2>3. past \in Nat /\ half <= past /\ (past > 0 \/ turn = 1)
    BY <2>1, <2>2
  <2>4. h.duration = past + turn /\ h.last_big_move = past - half
    BY <1>2
  <2> HIDE DEF h, turn, past
  <2> QED
    BY <2>1, <2>3, <2>4
<1>5. DOMAIN c = DOMAIN p.men /\ c \in [DOMAIN c -> Pieces]
  BY <1>2
<1>6. \A s \in DOMAIN p.men :
        c[s].moves = 0 <=> \/ s \in p.rights \/ p.men[s].type = KING
                           \/ p.men[s].type = PAWN /\ s[1] = IF p.men[s].player = BLACK THEN 1 ELSE 6
  BY <1>2 DEF LoadedMan
<1>7. AtHome(c)
  <2> SUFFICES ASSUME NEW s \in DOMAIN p.men, c[s].moves = 0, s \notin Home(c[s])
               PROVE  MayNotCastle(c, s)
    BY <1>5 DEF AtHome
  <2>1. c[s] \in Pieces /\ c[s].type = p.men[s].type /\ c[s].player = p.men[s].player
    BY <1>2
  <2>2. s \in Squares
    BY <1>3
  <2>3. s \notin p.rights
    <3>1. ASSUME s \in p.rights PROVE s \in Home(c[s])
      <4> DEFINE owner == IF s[1] = 7 THEN WHITE ELSE BLACK
      <4>1. /\ s \in {0, 7} \X {0, 7} /\ s[1] = HomeRow(owner)
            /\ p.men[s] = [type |-> ROOK, player |-> owner]
        BY <3>1, RookMayCastle
      <4>2. c[s].type = ROOK /\ c[s].player = owner
        BY <2>1, <4>1
      <4>3. Home(c[s]) = {HomeRow(c[s].player)} \X {0, 7}
        BY <4>2, Numbers DEF Home
      <4> HIDE DEF owner
      <4> QED
        BY <4>1, <4>2, <4>3
    <3> QED
      BY <3>1
  <2>4. p.men[s].type = KING
    <3>1. ASSUME p.men[s].type = PAWN, s[1] = IF p.men[s].player = BLACK THEN 1 ELSE 6
          PROVE  s \in Home(c[s])
      <4>1. Home(c[s]) = {IF p.men[s].player = WHITE THEN 6 ELSE 1} \X Coord
        BY <2>1, <3>1, Numbers DEF Home
      <4>2. p.men[s].player \in {WHITE, BLACK} /\ WHITE # BLACK
        BY <2>1 DEF Pieces, Players, WHITE, BLACK
      <4> QED
        BY <2>2, <3>1, <4>1, <4>2 DEF Squares
    <3> QED
      BY <1>6, <2>3, <3>1
  <2>5. ASSUME NEW t \in HeldBy(c, c[s].player), c[t].type = ROOK, c[t].moves = 0
        PROVE  FALSE
    <3> DEFINE owner == IF t[1] = 7 THEN WHITE ELSE BLACK
    <3>1. t \in DOMAIN p.men /\ c[t].player = c[s].player
      BY <1>5, <2>5 DEF HeldBy
    <3>2. t \in p.rights
      BY <1>2, <1>6, <2>5, <3>1, Numbers
    <3>3. /\ t \in {0, 7} \X {0, 7} /\ t[1] = HomeRow(owner)
          /\ p.men[t] = [type |-> ROOK, player |-> owner]
          /\ <<t[1], 4>> \in DOMAIN p.men
          /\ p.men[<<t[1], 4>>] = [type |-> KING, player |-> owner]
      BY <3>2, RookMayCastle
    <3>4. c[s].player = owner
      BY <1>2, <3>1, <3>3
    <3> HIDE DEF owner
    <3>5. p.men = MenOf(b)
      BY DEF Mirrors
    <3>6. p.men[s] = [type |-> KING, player |-> owner]
      <4>1. MenOf(b)[s] = [type |-> b[s].type, player |-> b[s].player]
        BY <1>3, MenOfBoard
      <4>2. b[s].type = KING /\ b[s].player = owner
        BY <1>3, <2>1, <2>4, <3>4
      <4> QED
        BY <3>5, <4>1, <4>2
    <3>7. s \in KingsOf(p.men, owner) /\ <<t[1], 4>> \in KingsOf(p.men, owner)
      BY <3>3, <3>6 DEF KingsOf
    <3>8. owner \in Players
      BY <2>1, <3>4 DEF Pieces
    <3>9. s = <<t[1], 4>>
      BY <3>7, <3>8 DEF KingsAreKept, Mirrors
    <3>10. Home(c[s]) = {HomeRow(owner)} \X {4}
      BY <2>1, <2>4, <3>4, Numbers DEF Home
    <3> QED
      BY <3>3, <3>9, <3>10
  <2> QED
    BY <2>1, <2>4, <2>5 DEF MayNotCastle
<1>8. h \in EngineGames
  BY <1>2, <1>3, <1>4, <1>5, <1>7, BoardIs DEF EngineGames
<1>9. MenOf(c) = p.men
  <2>1. p.men = [s \in DOMAIN p.men |-> [type |-> b[s].type, player |-> b[s].player]]
    BY <1>3 DEF Mirrors, MenOf
  <2>2. \A s \in DOMAIN p.men : c[s].type = b[s].type /\ c[s].player = b[s].player
    BY <1>2, <1>3
  <2> QED
    BY <1>5, <2>1, <2>2 DEF MenOf
<1>10. GetPlayer(h) = p.turn
  <2>1. h.duration % 2 = turn
    <3>1. \A n \in Int, t \in {0, 1} : (2 * n + t) % 2 = t
      OBVIOUS
    <3>2. full - 1 \in Int /\ turn \in {0, 1}
      OBVIOUS
    <3> HIDE DEF h, turn
    <3> QED
      BY <1>2, <3>1, <3>2
  <2> QED
    BY <1>3, <2>1 DEF GetPlayer, Players, WHITE, BLACK
<1>11. RightsOf(c) = p.rights
  <2>1. ASSUME NEW s \in RightsOf(c)
        PROVE  s \in p.rights
    BY <1>5, <1>6, <1>2, <2>1, Numbers DEF RightsOf, Occupied
  <2>2. ASSUME NEW s \in p.rights
        PROVE  s \in RightsOf(c)
    <3> DEFINE owner == IF s[1] = 7 THEN WHITE ELSE BLACK
               k == <<s[1], 4>>
    <3>1. /\ s \in DOMAIN p.men /\ s \in {0, 7} \X {0, 7}
          /\ p.men[s] = [type |-> ROOK, player |-> owner]
          /\ k \in DOMAIN p.men /\ p.men[k] = [type |-> KING, player |-> owner]
      BY RookMayCastle
    <3> HIDE DEF owner
    <3>2. /\ c[s].type = ROOK /\ c[s].player = owner /\ c[s].moves = 0
          /\ c[k].type = KING /\ c[k].player = owner /\ c[k].moves = 0
      BY <1>2, <1>6, <2>2, <3>1
    <3> QED
      BY <1>5, <3>1, <3>2 DEF RightsOf, Occupied
  <2>3. RightsOf(c) \subseteq p.rights /\ p.rights \subseteq RightsOf(c)
    BY <2>1, <2>2
  <2> QED
    BY <2>3
<1>12. JustPassed(h) = {}
  BY <1>2, <1>4 DEF JustPassed, HeldBy
<1>13. PastIsInOrder(h)
  <2> SUFFICES ASSUME NEW s \in DOMAIN p.men
               PROVE  /\ c[s].last_move <= h.duration
                      /\ c[s].type = PAWN /\ c[s].moves # 0 =>
                           IF c[s].player = WHITE THEN s[1] < 6 ELSE s[1] > 1
    BY <1>5 DEF PastIsInOrder, c
  <2>1. c[s].last_move <= h.duration
    BY <1>2, <1>4
  <2>2. ASSUME c[s].type = PAWN, c[s].moves # 0
        PROVE  IF c[s].player = WHITE THEN s[1] < 6 ELSE s[1] > 1
    <3>1. /\ p.men[s].type = PAWN /\ b[s].type = PAWN /\ s \in DOMAIN b
          /\ p.men[s].player = b[s].player /\ c[s].player = b[s].player
      BY <1>2, <1>3, <2>2
    <3>2. s[1] # IF b[s].player = BLACK THEN 1 ELSE 6
      BY <1>6, <2>2, <3>1
    <3>3. b[s].player \in {WHITE, BLACK} /\ WHITE # BLACK
      BY <1>3, <3>1 DEF Pieces, Players, WHITE, BLACK
    <3>4. CASE b[s].moves = 0
      <4>1. s \in Home(b[s])
        BY <1>3, <3>1, <3>4, HomeOf, Numbers
      <4>2. Home(b[s]) = {IF b[s].player = WHITE THEN 6 ELSE 1} \X Coord
        BY <3>1, Numbers DEF Home
      <4> QED
        BY <3>2, <3>3, <4>1, <4>2
    <3>5. CASE b[s].moves # 0
      BY <1>3, <3>1, <3>5 DEF PastIsInOrder
    <3> QED
      BY <3>4, <3>5
  <2> QED
    BY <2>1, <2>2
<1>14. None \notin DOMAIN p.men
  BY <1>3 DEF None, Squares
<1>15. KingsAreKept(p.men, p.turn)
  BY DEF Mirrors
<1>16. q.men = p.men /\ q.turn = p.turn /\ q.rights = p.rights /\ q.skipped = None
  BY DEF Rules!Position
<1> HIDE DEF q, h
<1>17. Mirrors(h, q)
  BY <1>9, <1>10, <1>11, <1>12, <1>13, <1>14, <1>15, <1>16 DEF Mirrors, c
<1> QED
  BY <1>1, <1>8, <1>17 DEF loaded, h, q

\* Whoever writes down a position that a game gets into, and loads it, may go on
\* with the legal moves, but for taking in passing: whatever the clocks say, as
\* long as a move has been made, and no more half moves were quiet than were made
\* before this full move began.  That the loader puts each man on his square is the premise
\* IsRead, which TLC checks with LoadedGamePlaysOn.
THEOREM LoadedGamesPlayOn ==
  Spec => [](Agrees => \A half \in Nat, full \in Nat :
               /\ full > 0 /\ half <= 2 * (full - 1) /\ (full > 1 \/ pos.turn = BLACK)
               /\ IsRead(TextOf(pos, <<half, full>>), pos.men)
               => PlaysOn(<<half, full>>))
<1> DEFINE Loads == Agrees => \A half \in Nat, full \in Nat :
               /\ full > 0 /\ half <= 2 * (full - 1) /\ (full > 1 \/ pos.turn = BLACK)
               /\ IsRead(TextOf(pos, <<half, full>>), pos.men)
               => PlaysOn(<<half, full>>)
<1>1. Play => Loads
  <2> SUFFICES ASSUME Play, Agrees, NEW half \in Nat, NEW full \in Nat,
                      full > 0, half <= 2 * (full - 1), full > 1 \/ pos.turn = BLACK,
                      IsRead(TextOf(pos, <<half, full>>), pos.men)
               PROVE  PlaysOn(<<half, full>>)
    OBVIOUS
  <2> DEFINE loaded == InitGame(TextOf(pos, <<half, full>>))
             q == Rules!Position(pos.men, pos.turn, pos.rights, None)
  <2>1. game \in EngineGames /\ Mirrors(game, pos)
    BY DEF Play, GameOn
  <2>2. loaded.ok /\ loaded.game \in EngineGames /\ Mirrors(loaded.game, q)
    BY <2>1, LoadedMirrors
  <2>3. /\ q.men = pos.men /\ q.turn = pos.turn /\ q.rights = pos.rights
        /\ q.skipped = None
    BY DEF Rules!Position
  <2> HIDE DEF loaded, q
  <2>4. ASSUME NEW m \in Tries
        PROVE  ~InPassing(m) =>
                 (MakeMoveNoCheckmate(loaded.game, m).code >= 0 <=> Rules!Legal(pos, m))
    <3>1. m \in MoveSet
      BY <2>1, <2>4, TriesAreMoves
    <3>2. MakeMoveNoCheckmate(loaded.game, m).code >= 0 <=> Rules!Legal(q, m)
      BY <2>2, <3>1, AcceptedIsLegal
    <3>3. Rules!Legal(q, m) <=>
            /\ Rules!Legal(pos, m)
            /\ ~(/\ game.board[From(m)].type = PAWN /\ Abs(ColDiff(m)) = 1
                 /\ To(m) \notin DOMAIN game.board)
      BY <2>1, <2>3, <3>1, WithoutPassing
    <3> QED
      BY <3>2, <3>3 DEF InPassing, Occupied
  <2> QED
    BY <2>2, <2>4 DEF PlaysOn, loaded
<1> QED
  BY <1>1, PlayForever, PTL
=============================================================================
