------------------------------ MODULE Rulebook ------------------------------
(***************************************************************************)
(* A player tries moves on the Engine, one make_move() after the other, as *)
(* get_player_move() does, while the rules of Chess follow the game beside *)
(* it.  The properties say where the two agree, and what a rejected move   *)
(* may leave behind.                                                       *)
(***************************************************************************)
EXTENDS Positions

CONSTANTS
  StartGames,   \* games to begin with
  MaxPlies      \* bound: accepted moves after the start

ASSUME RulebookAssumption == (\A g \in StartGames : MayStart(g)) /\ MaxPlies \in Nat

-----------------------------------------------------------------------------
VARIABLES
  game,   \* the engine's game
  code,   \* what the last make_move() returned
  pos,    \* the same game by the rules
  plies   \* accepted moves so far

vars == <<game, code, pos, plies>>

TypeOK ==
  /\ IsGame(game)
  /\ code \in MoveCodes
  /\ plies \in 0 .. MaxPlies

Init ==
  /\ game \in StartGames
  /\ code = OK
  /\ pos = Rules!Position(MenOf(game.board), GetPlayer(game),
                          RightsOf(game.board), <<>>)
  /\ plies = 0

\* Whatever a player may try: any man, also the opponent's, to any square.
Tries ==
  {MoveOf(s, d, promotion) : s \in DOMAIN game.board, d \in Squares,
                             promotion \in {EMPTY, KNIGHT, QUEEN}}

\* Board and turn are what the rules make of the game.
Agrees == MenOf(game.board) = pos.men /\ GetPlayer(game) = pos.turn

\* One make_move().  Where a rejected move has changed men on the board (see
\* RejectionOnlyPromotes), the rules go on from the men that are there now.
Attempt(m) ==
  /\ code \notin GameOver
  /\ plies < MaxPlies
  /\ LET r == MakeMove(game, m)
     IN  /\ game' = r.game
         /\ code' = r.code
         /\ IF r.code \in NonFatal
              THEN /\ pos' = Rules!Position(MenOf(r.game.board), pos.turn,
                                            pos.rights, pos.skipped)
                   /\ UNCHANGED plies
              ELSE pos' = Rules!Played(pos, m) /\ plies' = plies + 1

Next == \E m \in Tries : Attempt(m)

Spec == Init /\ [][Next]_vars

-----------------------------------------------------------------------------
\* The engine lets a player make exactly the legal moves, in every position
\* it gets into: pins, checks, castling, en passant and promotions included.
AcceptsExactlyTheLegal ==
  Agrees => \A m \in Tries :
              MakeMoveNoCheckmate(game, m).code >= 0 <=> Rules!Legal(pos, m)

\* An accepted move leaves the men where the rules put them, also the rook of
\* a castling and the pawn taken in passing, and passes the turn; the rejected
\* moves in between pass no turn.  The move that ends the game is played as
\* well, but for a queen that the question for check makes of a pawn.
BoardFollowsRules ==
  /\ code \notin GameOver => Agrees
  /\ code \in GameOver =>
       GetPlayer(game) = pos.turn /\ Queened(pos.men, MenOf(game.board))

\* Before the draw clock runs out a game ends exactly in mate and stalemate,
\* and the winner is the player who gave mate.
Clock == game.duration - game.last_big_move
Verdict ==
  IF Rules!Mated(pos) THEN IF pos.turn = BLACK THEN WHITE_WIN ELSE BLACK_WIN
  ELSE IF Rules!Stalemated(pos) THEN FORCED_DRAW
  ELSE OK
EndsAsItShould ==
  plies > 0 /\ code \notin NonFatal /\ Clock < 100 => code = Verdict

\* A rejected move changes nothing but the type of a pawn one step from its
\* last row.  (That it can change that is a finding: see ChessSession.)
RejectionOnlyPromotes ==
  [][code' \in NonFatal =>
       /\ game'.duration = game.duration
       /\ game'.last_big_move = game.last_big_move
       /\ OnlyPromotes(game.board, game'.board)]_vars

\* `moves' tells which men have never left home, whatever was tried, taken,
\* castled or promoted: a rook that counts as unmoved stands where it may castle,
\* a pawn where it may make its double step, and so does the king of an unmoved
\* rook.  (init_game() lets every king count as unmoved, wherever it is.)
MenAtHome == AtHome(game.board)

\* chess.c:74 says of make_move_no_checkmate() that it is "like make_move, but
\* doesn't account for checkmate", so make_move does.  What the code does: the
\* draw clock is looked at first, and from 100 on a mate goes unnoticed.
MateIsAnnounced ==
  plies > 0 /\ code \notin NonFatal /\ Rules!Mated(pos) =>
    code \in {WHITE_WIN, BLACK_WIN}
=============================================================================
