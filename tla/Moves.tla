-------------------------------- MODULE Moves --------------------------------
(***************************************************************************)
(* A chess move and its two encodings: the two bytes of the API            *)
(* (src/client/api.c) and the text that travels through the pipe between   *)
(* the two client processes (src/client/chess.c).                          *)
(*                                                                         *)
(* The enumerations of chess.h keep their numeric values: the low two bits *)
(* of a wire move are used as a piece_type directly.  A text is the five   *)
(* chars a reader looks at; char 0 is the NUL that ends the C string.      *)
(***************************************************************************)
EXTENDS Integers, Sequences

ROOK   == 0
KNIGHT == 1
BISHOP == 2
QUEEN  == 3
KING   == 4
PAWN   == 5
EMPTY  == 6

PieceTypes == ROOK .. PAWN
Promotions == ROOK .. QUEEN   \* what a pawn may become

WHITE == "white"
BLACK == "black"
Players == {WHITE, BLACK}
Opponent(p) == IF p = WHITE THEN BLACK ELSE WHITE

\* Return codes of make_move() and of the functions of runner.c around it.
ILLEGAL_MOVE      == -1
WHITE_WIN         == -2
BLACK_WIN         == -3
FORCED_DRAW       == -4
MISSING_PROMOTION == -5
OK                == 0
DRAW_OFFER        == 1

NonFatal == {ILLEGAL_MOVE, MISSING_PROMOTION}
GameOver == {WHITE_WIN, BLACK_WIN, FORCED_DRAW}
Accepted == {OK, DRAW_OFFER}
MoveCodes == NonFatal \cup GameOver \cup Accepted

Coord == 0 .. 7

MoveSet == [r_i: Coord, c_i: Coord, r_f: Coord, c_f: Coord,
            promotion: Promotions \cup {EMPTY}]

Byte == 0 .. 255
WireMoves == Byte \X Byte

\* The field of `width` values that starts at the bit of weight `weight`.
Bits(byte, weight, width) == (byte \div weight) % width

(* api_get_move(): rrrccchx RRRCCCpp; pp counts only when h is set. *)
ApiGetMove(w) ==
  [r_i |-> Bits(w[1], 32, 8), c_i |-> Bits(w[1], 4, 8),
   r_f |-> Bits(w[2], 32, 8), c_f |-> Bits(w[2], 4, 8),
   promotion |-> IF Bits(w[1], 2, 2) = 1 THEN Bits(w[2], 1, 4) ELSE EMPTY]

(* write_move(): what the opponent's user is sent; no promotion in it. *)
WriteMove(m) == <<m.r_i * 32 + m.c_i * 4, m.r_f * 32 + m.c_f * 4>>

-----------------------------------------------------------------------------
\* Characters by their ASCII codes.
NUL   == 0
CharA == 97
Char0 == 48

ToLower(ch) == IF ch \in 65 .. 90 THEN ch + 32 ELSE ch

PieceToChar(type) ==
  CASE type = ROOK   -> 114
    [] type = KNIGHT -> 110
    [] type = BISHOP -> 98
    [] type = QUEEN  -> 113
    [] type = KING   -> 107
    [] type = PAWN   -> 112
    [] OTHER         -> NUL

MoveToString(m) ==
  <<m.c_i + CharA, 8 - m.r_i + Char0, m.c_f + CharA, 8 - m.r_f + Char0,
    PieceToChar(m.promotion)>>

Texts == [1 .. 5 -> Int]

\* The letters that parse_move() takes as a promotion (NUL: none).
PromotionChars == {PieceToChar(t) : t \in Promotions \cup {EMPTY}}
PromotionOf(ch) ==
  CHOOSE t \in Promotions \cup {EMPTY} : PieceToChar(t) = ch

(* parse_move(): the squares are not range checked here. *)
ParsedMove(t) ==
  [r_i |-> 8 - (t[2] - Char0), c_i |-> ToLower(t[1]) - CharA,
   r_f |-> 8 - (t[4] - Char0), c_f |-> ToLower(t[3]) - CharA,
   promotion |-> IF ToLower(t[5]) \in PromotionChars
                   THEN PromotionOf(ToLower(t[5])) ELSE EMPTY]

ParseCode(t) ==
  IF (\E i \in 1 .. 4 : t[i] = NUL) \/ ToLower(t[5]) \notin PromotionChars
    THEN ILLEGAL_MOVE ELSE OK
=============================================================================
