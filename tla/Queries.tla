------------------------------ MODULE Queries ------------------------------
(***************************************************************************)
(* What the API front end (src/client/api.c) answers a user whose turn it  *)
(* is and who asks, instead of moving, for the board or for the valid      *)
(* moves (ValidMoves).  The answer reads memory that nobody has written,   *)
(* the player of an empty square.  Such a value is an argument here, and   *)
(* the property quantifies over it.                                        *)
(***************************************************************************)
EXTENDS ValidMoves

\* What may stand in an enum player that new_game() has left alone: a player
\* (a square that has been left) or anything else, of which the low bits count.
StalePlayers == {0, 1, 2, 30}

PlayerCode(player) == IF player = WHITE THEN 0 ELSE 1

\* Mutant of GetCode: the two fields overlap.
GetCodeNarrow(b, s, stale) ==
  IF Occupied(b, s) THEN PlayerCode(b[s].player) * 4 + b[s].type
  ELSE stale * 4 + EMPTY

(* get_code(): player << 3 | type *)
GetCode(b, s, stale) ==
  IF Occupied(b, s) THEN PlayerCode(b[s].player) * 8 + b[s].type
  ELSE stale * 8 + EMPTY

\* The bits that are set in either of two numbers, of the eight that putchar()
\* writes.
EitherBit(a, b, weight) ==
  IF Bits(a, weight, 2) = 1 \/ Bits(b, weight, 2) = 1 THEN weight ELSE 0
ByteOr(a, b) ==
  EitherBit(a, b, 1) + EitherBit(a, b, 2) + EitherBit(a, b, 4) + EitherBit(a, b, 8)
    + EitherBit(a, b, 16) + EitherBit(a, b, 32) + EitherBit(a, b, 64)
    + EitherBit(a, b, 128)

(* api_send_board(): the byte of the squares <<r, c>> and <<r, c + 1>>; what  *)
(* the right one has beyond its four bits runs over into the left one.      *)
BoardByte(b, r, c, left, right) ==
  ByteOr(GetCode(b, <<r, c>>, left) * 16, GetCode(b, <<r, c + 1>>, right))

-----------------------------------------------------------------------------
\* GET_BOARD: doc/api.txt:98-108 gives every square four bits.  The man on the
\* right square of a byte can always be read off; the man on the left one can
\* unless the square beside him is empty and holds what is no player.
MenCanBeReadOff ==
  \A r \in Coord, c \in {0, 2, 4, 6} : \A left, right \in StalePlayers :
    LET byte == BoardByte(game.board, r, c, left, right)
        shows(s, bits) ==
          Occupied(game.board, s) =>
            /\ bits % 8 = game.board[s].type
            /\ bits \div 8 = PlayerCode(game.board[s].player)
    IN  /\ shows(<<r, c + 1>>, byte % 16)
        /\ Occupied(game.board, <<r, c + 1>>) \/ right \in {0, 1} =>
             shows(<<r, c>>, byte \div 16)
=============================================================================
