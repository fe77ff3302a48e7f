------------------------------- MODULE Chess -------------------------------
(***************************************************************************)
(* The rules of chess, stated for their own sake and apart from chess.c:   *)
(* the reference against which Rulebook compares the Engine.  A position   *)
(* has no clocks and no counters of moves.  It remembers what the rules    *)
(* need of the past: which rooks may still castle, and which square a pawn *)
(* has just skipped.                                                       *)
(*                                                                         *)
(* Castling follows the textbook: king and rook have not moved, nothing    *)
(* stands between them, and the king does not leave, cross or reach an     *)
(* attacked square.                                                        *)
(***************************************************************************)
EXTENDS Moves, FiniteSetsExt

Board == Coord \X Coord

\* men: occupied squares to [type, player]; rights: home squares of the rooks
\* that may castle; skipped: the square behind a pawn that moved two squares.
Position(men, turn, rights, skipped) ==
  [men |-> men, turn |-> turn, rights |-> rights, skipped |-> skipped]

Source(m) == <<m.r_i, m.c_i>>
Target(m) == <<m.r_f, m.c_f>>
Plus(s, d, k) == <<s[1] + k * d[1], s[2] + k * d[2]>>

Straight == {<<0, 1>>, <<0, -1>>, <<1, 0>>, <<-1, 0>>}
Diagonal == {<<1, 1>>, <<1, -1>>, <<-1, 1>>, <<-1, -1>>}

Forward(player) == IF player = WHITE THEN -1 ELSE 1
Home(player) == IF player = WHITE THEN 7 ELSE 0
PawnHome(player) == IF player = WHITE THEN 6 ELSE 1

\* A slide from s in direction d: empty squares and the first man met.
Ray(men, s, d) ==
  {Plus(s, d, k) : k \in {n \in 1 .. 7 :
     /\ Plus(s, d, n) \in Board
     /\ \A i \in 1 .. n - 1 : Plus(s, d, i) \notin DOMAIN men}}

Slides(type) ==
  CASE type = ROOK   -> Straight
    [] type = BISHOP -> Diagonal
    [] type = QUEEN  -> Straight \cup Diagonal
    [] OTHER         -> {}

\* The squares that the man on s attacks, whoever stands there.
Attacks(men, s) ==
  LET man == men[s]
  IN  CASE man.type = PAWN ->
             {Plus(s, <<Forward(man.player), dc>>, 1) : dc \in {-1, 1}}
        [] man.type = KNIGHT ->
             {Plus(s, <<dr, dc>>, 1) : dr \in {-2, -1, 1, 2}, dc \in {-2, -1, 1, 2}}
               \ {Plus(s, d, k) : d \in Diagonal, k \in {1, 2}}
        [] man.type = KING -> {Plus(s, d, 1) : d \in Straight \cup Diagonal}
        [] OTHER -> UNION {Ray(men, s, d) : d \in Slides(man.type)}

Attacked(men, square, by) ==
  \E s \in DOMAIN men : men[s].player = by /\ square \in Attacks(men, s)

InCheck(men, player) ==
  \E s \in DOMAIN men : /\ men[s] = [type |-> KING, player |-> player]
                        /\ Attacked(men, s, Opponent(player))

-----------------------------------------------------------------------------
PawnMoves(pos, s) ==
  LET fwd == Forward(pos.turn)
      one == Plus(s, <<fwd, 0>>, 1)
      two == Plus(s, <<fwd, 0>>, 2)
      free(t) == t \notin DOMAIN pos.men
  IN  {t \in {one} : free(one)}
        \cup {t \in {two} : free(one) /\ free(two) /\ s[1] = PawnHome(pos.turn)}
        \cup {t \in Attacks(pos.men, s) : t \in DOMAIN pos.men \/ t = pos.skipped}

\* The squares from the king's to the rook's, without the two ends.
Gap(player, rook) ==
  {<<Home(player), c>> : c \in IF rook[2] = 0 THEN 1 .. 3 ELSE 5 .. 6}
CastlingStep(rook) == IF rook[2] = 0 THEN -1 ELSE 1

CastlingMoves(pos, s) ==
  {Plus(s, <<0, CastlingStep(rook)>>, 2) : rook \in {r \in pos.rights :
     /\ r[1] = Home(pos.turn) /\ s = <<Home(pos.turn), 4>>
     /\ Gap(pos.turn, r) \cap DOMAIN pos.men = {}
     /\ \A k \in 0 .. 2 :
          ~Attacked(pos.men, Plus(s, <<0, CastlingStep(r)>>, k), Opponent(pos.turn))}}

Reachable(pos, s) ==
  CASE pos.men[s].type = PAWN -> PawnMoves(pos, s)
    [] pos.men[s].type = KING -> Attacks(pos.men, s) \cup CastlingMoves(pos, s)
    [] OTHER -> Attacks(pos.men, s)

IsCastling(pos, m) ==
  pos.men[Source(m)].type = KING /\ (m.c_f - m.c_i) \in {-2, 2}

\* The men after move m: the mover, promoted where it must be, without the
\* man it takes, and with the rook of a castling on its other side.
MenAfter(pos, m) ==
  LET man == pos.men[Source(m)]
      promotes == man.type = PAWN /\ m.r_f = Home(Opponent(pos.turn))
      mover == IF promotes THEN [man EXCEPT !.type = m.promotion] ELSE man
      passing == man.type = PAWN /\ Target(m) = pos.skipped
      corner == <<m.r_i, IF m.c_f < m.c_i THEN 0 ELSE 7>>
      beside == <<m.r_i, (m.c_i + m.c_f) \div 2>>
      leaves == {Source(m)} \cup (IF passing THEN {<<m.r_i, m.c_f>>} ELSE {})
                  \cup (IF IsCastling(pos, m) THEN {corner} ELSE {})
      comes == {Target(m)} \cup (IF IsCastling(pos, m) THEN {beside} ELSE {})
  IN  [s \in (DOMAIN pos.men \ leaves) \cup comes |->
         IF s = Target(m) THEN mover
         ELSE IF s \in comes THEN [type |-> ROOK, player |-> pos.turn]
         ELSE pos.men[s]]

Legal(pos, m) ==
  /\ Source(m) \in DOMAIN pos.men
  /\ pos.men[Source(m)].player = pos.turn
  /\ Target(m) \in Reachable(pos, Source(m)) \cap Board
  /\ Target(m) \in DOMAIN pos.men =>
       pos.men[Target(m)].player # pos.turn /\ pos.men[Target(m)].type # KING
  /\ pos.men[Source(m)].type = PAWN /\ m.r_f = Home(Opponent(pos.turn)) =>
       m.promotion \in Promotions
  /\ ~InCheck(MenAfter(pos, m), pos.turn)

\* The rook squares whose right ends when a man leaves or reaches s.
RightsLost(s) ==
  {s} \cup IF s \in {<<0, 4>>, <<7, 4>>} THEN {<<s[1], 0>>, <<s[1], 7>>} ELSE {}

Played(pos, m) ==
  Position(MenAfter(pos, m), Opponent(pos.turn),
           pos.rights \ (RightsLost(Source(m)) \cup RightsLost(Target(m))),
           IF pos.men[Source(m)].type = PAWN /\ (m.r_f - m.r_i) \in {-2, 2}
             THEN <<(m.r_i + m.r_f) \div 2, m.c_i>> ELSE <<>>)

HasReply(pos) ==
  \E s \in DOMAIN pos.men, t \in Board :
    Legal(pos, [r_i |-> s[1], c_i |-> s[2], r_f |-> t[1], c_f |-> t[2],
                promotion |-> QUEEN])

Mated(pos) == InCheck(pos.men, pos.turn) /\ ~HasReply(pos)
Stalemated(pos) == ~InCheck(pos.men, pos.turn) /\ ~HasReply(pos)
=============================================================================
