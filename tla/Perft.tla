------------------------------- MODULE Perft -------------------------------
(***************************************************************************)
(* The test driver src/client/perft.c: how many positions can be reached   *)
(* in 0, 1, 2, ... moves from a position given by a text and a sequence of *)
(* moves.  Its numbers are compared with those of other engines, so here   *)
(* they are compared with the rules.                                       *)
(***************************************************************************)
EXTENDS Fen

RECURSIVE Visits(_, _, _), NodeVisits(_, _, _, _)

\* Mutant of NodeVisits: a move that ends the game is not a node.
NodeVisitsOngoing(r, m, k, left) ==
  CASE r.code \in {ILLEGAL_MOVE} \cup GameOver -> 0
    [] r.code = MISSING_PROMOTION ->
         MapThenSumSet(
           LAMBDA p : NodeVisits(MakeMove(r.game, [m EXCEPT !.promotion = p]),
                                 m, k, left), Promotions)
    [] OTHER -> Visits(r.game, k - 1, left - 1)

(* add_node(), with what make_move() has made of m: what it adds to          *)
(* results[curr_depth + k], with left levels to go.  A pawn on its last     *)
(* step is tried with each promotion.                                       *)
NodeVisits(r, m, k, left) ==
  CASE r.code = ILLEGAL_MOVE -> 0
    [] r.code \in GameOver -> IF k = 1 THEN 1 ELSE 0
    [] r.code = MISSING_PROMOTION ->
         MapThenSumSet(
           LAMBDA p : NodeVisits(MakeMove(r.game, [m EXCEPT !.promotion = p]),
                                 m, k, left), Promotions)
    [] OTHER -> Visits(r.game, k - 1, left - 1)

(* calculate_perft() *)
Visits(g, k, left) ==
  IF left = 0 THEN 0
  ELSE IF k = 0 THEN 1
  ELSE LET visits(m) == NodeVisits(MakeMove(g, m), m, k, left)
           from(s) == MapThenSumSet(LAMBDA d : visits(MoveOf(s, d, EMPTY)), Squares)
       IN  MapThenSumSet(from, DOMAIN g.board)

(* run_sequence(): stops at a text that is no move and at one that fails,   *)
(* which a move that ends the game does too.                                *)
Continued(st, r) == [ok |-> st.ok /\ r.code >= 0, game |-> r.game]
SequenceStep(st, t) ==
  IF ParseCode(t) = OK THEN Continued(st, MakeMove(st.game, ParsedMove(t)))
  ELSE [st EXCEPT !.ok = FALSE]

(* run_perft(), after the text: nothing where the text or the sequence is    *)
(* refused.  The array holds results[0 .. level - 1], yet a game that ends  *)
(* on the last level adds to results[level] (perft.c:159).                  *)
Results(after, level) ==
  IF after.ok THEN [k \in 0 .. level |-> Visits(after.game, k, level)] ELSE <<>>
RunPerft(text, texts, level) ==
  Results(FoldLeft(SequenceStep, InitGame(text), texts), level)

-----------------------------------------------------------------------------
\* Every move, promotions told apart.
LegalMoves(p) ==
  {m \in {MoveOf(s, d, promotion) : s \in DOMAIN p.men, d \in Squares,
                                    promotion \in Promotions \cup {EMPTY}} :
     /\ Rules!Legal(p, m)
     /\ (m.promotion # EMPTY) <=> /\ p.men[From(m)].type = PAWN
                                  /\ m.r_f = LastRow(p.turn)}

Ends(p) == Rules!Mated(p) \/ Rules!Stalemated(p)
EndingMoves(p) == {m \in LegalMoves(p) : Ends(Rules!Played(p, m))}

\* What perft counts are the lines of legal moves, in a position that was
\* written down and loaded and in what follows each first move; and what it
\* adds past the end of its results are the lines that end the game.
PerftCountsLines ==
  plies = 0 => \A texts \in {<<>>} \cup
                            {<<MoveToString(m)>> : m \in LegalMoves(pos)} :
    LET text == TextOf(pos, <<Clock, 41>>)
        Lines(p, m) == Cardinality(EndingMoves(Rules!Played(p, m)))
        next == {Rules!Played(pos, m) : m \in
                   {n \in LegalMoves(pos) : <<MoveToString(n)>> = texts}}
    IN  IF texts = <<>>
          THEN RunPerft(text, texts, 2) =
                 (0 :> 1) @@ (1 :> Cardinality(LegalMoves(pos)))
                   @@ (2 :> MapThenSumSet(LAMBDA m : Lines(pos, m),
                                          LegalMoves(pos)))
          ELSE \A p \in next :
                 RunPerft(text, texts, 1) =
                   IF Ends(p) THEN <<>>
                   ELSE (0 :> 1) @@ (1 :> Cardinality(EndingMoves(p)))
=============================================================================
