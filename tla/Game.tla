-------------------------------- MODULE Game --------------------------------
(***************************************************************************)
(* What a game between two clients promises, with no word of processes,    *)
(* pipes or users: two boards of which one is at most one accepted move    *)
(* behind the other, moves made by the player whose turn both boards say   *)
(* it is, and players who leave, each with a reason that it was told.      *)
(* Session implements it (PlaysOneGame, GameGoesOn) for every engine whose *)
(* rejections leave the board alone; with chess.c it does until a rejected *)
(* promotion stays on one of the boards.                                   *)
(***************************************************************************)
EXTENDS Moves

CONSTANTS
  StartGame,         \* the new game
  EngineMove(_, _),  \* the rules: code and game after a move
  PlayerOf(_),       \* whose turn it is
  Submissions        \* the moves that a player may try, as they are sent

VARIABLES
  game,     \* the board in front of each player
  verdict,  \* what each player was told when it left
  left      \* the players that have left the game

gameVars == <<game, verdict, left>>

Start ==
  /\ game = [p \in Players |-> StartGame]
  /\ verdict = [p \in Players |-> "none"]
  /\ left = {}

\* p's turn has come, on both boards.
MayMove(p) ==
  /\ p \notin left
  /\ game[p] = game[Opponent(p)]
  /\ PlayerOf(game[p]) = p

ResultOf(code) ==
  IF code = WHITE_WIN THEN "MSG_WHITE_WIN"
  ELSE IF code = BLACK_WIN THEN "MSG_BLACK_WIN" ELSE "MSG_FORCED_DRAW"

\* p makes a move: its opponent is still to see it, or is not there to, or the
\* game is over.
Make(p) ==
  /\ MayMove(p)
  /\ \E w \in Submissions :
       LET r == EngineMove(game[p], ApiGetMove(w))
       IN  /\ game' = [game EXCEPT ![p] = r.game]
           /\ \/ /\ r.code \in Accepted
                 /\ UNCHANGED <<verdict, left>>
              \/ /\ r.code \in Accepted
                 /\ Opponent(p) \in left
                 /\ left' = left \cup {p}
                 /\ verdict' \in {verdict,
                                 [verdict EXCEPT ![p] = "MSG_IO_ERROR"]}
              \/ /\ r.code \in GameOver
                 /\ left' = left \cup {p}
                 /\ verdict' = [verdict EXCEPT ![p] = ResultOf(r.code)]

\* The other board is one accepted move ahead.
IsAhead(p, q) ==
  \E w \in Submissions :
    LET r == EngineMove(game[q], ApiGetMove(w))
    IN  r.code \in Accepted /\ r.game = game[p]

\* q sees the move, or leaves as it is shown.
Follow(q) ==
  /\ q \notin left
  /\ PlayerOf(game[q]) = Opponent(q)
  /\ IsAhead(Opponent(q), q)
  /\ game' = [game EXCEPT ![q] = game[Opponent(q)]]
  /\ left' \in {left, left \cup {q}}
  /\ UNCHANGED verdict

\* Players vanish, with no result and no error.
Vanish ==
  /\ \E who \in SUBSET (Players \ left) : left' = left \cup who
  /\ UNCHANGED <<game, verdict>>

\* p is told of a failure and leaves: only in its own turn, or when there is
\* nobody left to wait for.
Fail(p) ==
  /\ p \notin left
  /\ MayMove(p) \/ Opponent(p) \in left
  /\ left' = left \cup {p}
  /\ verdict' = [verdict EXCEPT ![p] = "MSG_IO_ERROR"]
  /\ UNCHANGED game

Play == Vanish \/ \E p \in Players : Make(p) \/ Follow(p) \/ Fail(p)

\* p waits for the move of a player who has left, and leaves as well.
Orphaned(p) ==
  /\ PlayerOf(game[p]) = Opponent(p)
  /\ Opponent(p) \in left
  /\ p \notin left
  /\ left' = left \cup {p}
  /\ verdict' \in {verdict, [verdict EXCEPT ![p] = "MSG_IO_ERROR"]}
  /\ UNCHANGED game

GameSafety == Start /\ [][Play]_gameVars

\* A move that was made is seen, unless its reader leaves; and nobody waits
\* for ever for one that will not be made.
GameFairness ==
  \A p \in Players : WF_gameVars(Follow(p)) /\ WF_gameVars(Orphaned(p))

GameSpec == GameSafety /\ GameFairness
=============================================================================
