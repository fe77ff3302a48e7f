----------------------------- MODULE Positions ------------------------------
(***************************************************************************)
(* What a game of the Engine says to the rules of Chess: where the men     *)
(* stand, who may castle, which pawn may be taken in passing.              *)
(***************************************************************************)
EXTENDS Engine

Rules == INSTANCE Chess

\* What the rules see of a board.
MenOf(b) == [s \in DOMAIN b |-> [type |-> b[s].type, player |-> b[s].player]]

\* The rooks that may castle in a game that begins.
RightsOf(b) ==
  {s \in {0, 7} \X {0, 7} :
     /\ Occupied(b, s) /\ b[s].type = ROOK /\ b[s].moves = 0
     /\ Occupied(b, <<s[1], 4>>)
     /\ b[<<s[1], 4>>].type = KING /\ b[<<s[1], 4>>].moves = 0
     /\ b[<<s[1], 4>>].player = b[s].player}

\* Where the kings of a player stand.
KingsOf(men, player) ==
  {s \in DOMAIN men : men[s] = [type |-> KING, player |-> player]}

\* The pawns that en passant is about: the last move was their double step.
JustPassed(g) ==
  {s \in HeldBy(g.board, Opponent(GetPlayer(g))) :
     /\ g.board[s].type = PAWN /\ g.board[s].moves = 1
     /\ g.board[s].last_move = g.duration
     /\ s[1] = (IF GetPlayer(g) = WHITE THEN 3 ELSE 4)}

\* Nobody has moved in the future, and a pawn that has moved has gone forward.
PastIsInOrder(g) ==
  \A s \in DOMAIN g.board :
    LET man == g.board[s]
    IN  /\ man.last_move <= g.duration
        /\ man.type = PAWN /\ man.moves # 0 =>
             IF man.player = WHITE THEN s[1] < 6 ELSE s[1] > 1

\* The position that a game shows.  The rules remember what the engine keeps
\* with its men.
PositionOf(g) ==
  LET player  == GetPlayer(g)
      skipped == {<<s[1] + Direction(player), s[2]>> : s \in JustPassed(g)}
  IN  Rules!Position(MenOf(g.board), player, RightsOf(g.board),
                     IF skipped = {} THEN None ELSE CHOOSE s \in skipped : TRUE)

\* What the question for check may make of the men when it finds a mate: queens
\* of pawns beside their last row (chess.c:165).
Queened(men, more) ==
  /\ DOMAIN more = DOMAIN men
  /\ \A s \in DOMAIN men : more[s] # men[s] =>
       MayPromote(s, men[s]) /\ more[s] = [men[s] EXCEPT !.type = QUEEN]

\* Game h shows what the legal move m makes of the position that g shows.
PlaysLegally(g, m, h) ==
  LET after == Rules!Played(PositionOf(g), m)
      men   == MenOf(h.board)
  IN  /\ Rules!Legal(PositionOf(g), m)
      /\ h.duration = g.duration + 1
      /\ PositionOf(h) = Rules!Position(men, after.turn, after.rights, after.skipped)
      /\ men = after.men \/ (Rules!Mated(after) /\ Queened(after.men, men))

\* Both players have their king, and nobody can take one.
KingsAreSafe(men, turn) ==
  /\ \A player \in Players : \E k \in Squares : KingsOf(men, player) = {k}
  /\ ~Rules!InCheck(men, Opponent(turn))

\* A game to begin with, as new_game() makes one: of the past the rules know
\* only who may castle.
MayStart(g) ==
  /\ IsGame(g) /\ AtHome(g.board) /\ PastIsInOrder(g)
  /\ KingsAreSafe(MenOf(g.board), GetPlayer(g))
  /\ JustPassed(g) = {}
=============================================================================
