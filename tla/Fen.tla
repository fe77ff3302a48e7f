-------------------------------- MODULE Fen --------------------------------
(***************************************************************************)
(* init_game() (src/client/chess.c): a game from a text in Forsyth-Edwards *)
(* Notation.  A text is a record of its fields:                            *)
(*                                                                         *)
(*   placement  a sequence of tokens: <<"man", type, player>>,             *)
(*              <<"gap", n>> for a digit, <<"row">> for a slash            *)
(*   turn       the player to move                                         *)
(*   castles    the corners of the rooks that the letters KQkq stand for   *)
(*   passing    <<>> for "-", or <<column, rank digit>>                     *)
(*   clocks     <<>> where the text ends, or <<half moves, full moves>>     *)
(*                                                                         *)
(* The loader does not look whether a man is still on the board; only      *)
(* texts whose men are on it are considered here.                          *)
(***************************************************************************)
EXTENDS Rulebook, SequencesExt

\* Mutant of LoadedMan: a pawn at home counts as moved.
LoadedManMoved(type, player, r) ==
  [type |-> type, player |-> player, last_move |-> 0,
   moves |-> IF type = KING THEN 0 ELSE 1]

\* A man as the placement puts him on row r: rooks may not castle unless the
\* castles say so, pawns may move two squares only from home.
LoadedMan(type, player, r) ==
  [type |-> type, player |-> player, last_move |-> 0,
   moves |-> IF type = KING
                \/ (type = PAWN /\ r = IF player = BLACK THEN 1 ELSE 6)
               THEN 0 ELSE 1]

\* One token, with the place to fill next.  A gap must end on its row, and a
\* slash must follow a full row.
Placed(st, t) ==
  CASE ~st.ok -> st
    [] t[1] = "row" -> [st EXCEPT !.ok = st.c = 8, !.r = @ + 1, !.c = 0]
    [] t[1] = "gap" ->
         [st EXCEPT !.ok = st.c + t[2] <= 8, !.c = @ + t[2],
                    !.board = Without(@, {st.r} \X (st.c .. st.c + t[2] - 1))]
    [] OTHER ->
         [st EXCEPT !.c = @ + 1,
                    !.board = (<<st.r, st.c>> :> LoadedMan(t[2], t[3], st.r)) @@ @]

\* The tokens are written over the board of new_game().  The last row may be
\* one square short: the code asks for 7.
Placement(tokens) ==
  LET st == FoldLeft(Placed, [ok |-> TRUE, r |-> 0, c |-> 0, board |-> NewBoard],
                     tokens)
  IN  [ok |-> st.ok /\ st.r >= 7 /\ st.c >= 7, board |-> st.board]

\* The four ROOK_CASTLE cases.
CornersHold(b, castles) ==
  \A s \in castles : /\ Occupied(b, s) /\ b[s].type = ROOK
                     /\ b[s].player = IF s[1] = 7 THEN WHITE ELSE BLACK
Castles(b, castles) ==
  [s \in DOMAIN b |-> IF s \in castles THEN [b[s] EXCEPT !.moves = 0] ELSE b[s]]

\* Where the code looks for the pawn that may be taken in passing: the digits
\* 2 and 5 name a row, any other one leaves the row at 7.  With "-" the code
\* writes to board[-1][-1], in front of the game, which no rule reads.
PassingSquare(passing) ==
  IF passing = <<>> THEN <<-1, -1>>
  ELSE <<CASE passing[2] = 2 -> 3 [] passing[2] = 5 -> 4 [] OTHER -> 7,
         passing[1]>>

(* init_game(): the game, and whether the text was accepted. *)
InitGame(text) ==
  LET placed == Placement(text.placement)
      past == IF text.clocks = <<>> THEN 0 ELSE 2 * (text.clocks[2] - 1)
      half == IF text.clocks = <<>> THEN 0 ELSE text.clocks[1]
      duration == past + IF text.turn = WHITE THEN 0 ELSE 1
      men == Castles(placed.board, text.castles)
      p == PassingSquare(text.passing)
  IN  [ok |-> placed.ok /\ CornersHold(placed.board, text.castles) /\ past >= 0,
       game |-> [board |-> IF Occupied(men, p)
                             THEN [men EXCEPT ![p].last_move = @ + duration]
                             ELSE men,
                 duration |-> duration,
                 last_big_move |-> past - half]]

-----------------------------------------------------------------------------
\* The text of a position, as the notation has it (en.wikipedia.org, which
\* chess.h:91 refers to): runs of empty squares in one digit, and in passing
\* the square that the pawn has skipped.
RowTokens(men, r) ==
  LET empty(c) == <<r, c>> \notin DOMAIN men
      run(c) == CHOOSE n \in 1 .. 8 - c :
                  /\ \A i \in c .. c + n - 1 : empty(i)
                  /\ c + n = 8 \/ ~empty(c + n)
      token(c) == IF ~empty(c)
                    THEN <<<<"man", men[<<r, c>>].type, men[<<r, c>>].player>>>>
                  ELSE IF c = 0 \/ ~empty(c - 1) THEN <<<<"gap", run(c)>>>>
                  ELSE <<>>
      row == FlattenSeq([c \in 1 .. 8 |-> token(c - 1)])
  IN  IF r = 7 THEN row ELSE Append(row, <<"row">>)

TextOf(p, clocks) ==
  [placement |-> FlattenSeq([r \in 1 .. 8 |-> RowTokens(p.men, r - 1)]),
   turn |-> p.turn,
   castles |-> p.rights,
   passing |-> IF p.skipped = <<>> THEN <<>>
               ELSE <<p.skipped[2], 8 - p.skipped[1]>>,
   clocks |-> clocks]

\* A diagonal step of a pawn to an empty square.
InPassing(m) ==
  /\ game.board[From(m)].type = PAWN
  /\ Abs(ColDiff(m)) = 1
  /\ ~Occupied(game.board, To(m))

\* The men of a placement, each one with the past that LoadedMan gives him.
LoadedBoard(men) ==
  [s \in DOMAIN men |-> LoadedMan(men[s].type, men[s].player, s[1])]

\* The tokens of the text put the men where they stand.
IsRead(text, men) ==
  Placement(text.placement) = [ok |-> TRUE, board |-> LoadedBoard(men)]

\* The text of the position is accepted, and in the game that it gives the moves
\* that are accepted are the legal ones.  Taking in passing is left to
\* LoadedPassingIsLegal.
PlaysOn(clocks) ==
  LET loaded == InitGame(TextOf(pos, clocks))
  IN  /\ loaded.ok
      /\ \A m \in {t \in Tries : t.promotion # KNIGHT} :
           ~InPassing(m) =>
             (MakeMoveNoCheckmate(loaded.game, m).code >= 0 <=> Rules!Legal(pos, m))

\* Any position that a game gets into can be written down and loaded by
\* init_game(), and then the moves that are accepted, but for taking in passing,
\* are the legal ones: whose turn it is, castling and first steps of pawns survive.
LoadedGamePlaysOn ==
  Agrees => \A clocks \in {<<>>, <<Clock, 41>>} :
              IsRead(TextOf(pos, clocks), pos.men) /\ PlaysOn(clocks)

\* The moves in passing that the game loaded from the text of this position
\* accepts.
LoadedPassing(clocks) ==
  LET loaded == InitGame(TextOf(pos, clocks))
  IN  {m \in Tries : /\ m.promotion # KNIGHT /\ InPassing(m)
                     /\ MakeMoveNoCheckmate(loaded.game, m).code >= 0}

\* Where a pawn has just made its double step, it and no other one may be taken
\* in passing, also in the game that is loaded from the text of the position:
\* init_game() "uses Forsyth-Edwards Notation" (chess.h:91), and the text names the
\* square that was skipped.  What the code does: it does not know the ranks of
\* these squares, 3 and 6, so that the pawn may not be taken; and at White's first
\* move every black pawn beside a white one looks as if it had just moved.
LoadedPassingIsLegal ==
  Agrees /\ pos.skipped # <<>> =>
    \A clocks \in {<<0, 1>>, <<Clock, 41>>} :
      LoadedPassing(clocks) =
        {m \in Tries : m.promotion # KNIGHT /\ InPassing(m) /\ Rules!Legal(pos, m)}
=============================================================================
