------------------------------- MODULE Session -------------------------------
(***************************************************************************)
(* One game between two chessh-client processes (src/client/runner.c), as  *)
(* the API front end of src/client/api.c drives it.  There is no server in *)
(* the middle: each client keeps a board of its own, and the only thing    *)
(* they share is a pair of pipes that carries the text of each move.       *)
(*                                                                         *)
(* The rules of chess are a parameter.  EngineMove(g, m) is what make_move *)
(* does with game g and move m: its return code and the game it leaves.    *)
(* PlayerOf(g) is get_player(g).  MCSession gives a small engine, and      *)
(* ChessSession the one translated from chess.c.                           *)
(***************************************************************************)
EXTENDS Moves, SequencesExt

CONSTANTS
  Games,             \* the games the engine can leave
  StartGame,         \* new_game()
  EngineMove(_, _),
  PlayerOf(_),
  Submissions,       \* the two-byte moves the users may send
  InboxLimit         \* bound: commands of a user not yet read by getchar()

\* A rejected move may change the board (chess.c does), never whose turn it is.
ASSUME EngineAssumption ==
  /\ Submissions \subseteq WireMoves
  /\ InboxLimit \in Nat
  /\ StartGame \in Games
  /\ \A g \in Games : PlayerOf(g) \in Players
  /\ {EngineMove(g, ApiGetMove(w)).game : g \in Games, w \in Submissions}
       \subseteq Games
  /\ \A g \in Games, w \in Submissions :
       LET r == EngineMove(g, ApiGetMove(w))
       IN  /\ r.code \in MoveCodes
           /\ r.code \in NonFatal => PlayerOf(r.game) = PlayerOf(g)
           /\ r.code \in Accepted => PlayerOf(r.game) = Opponent(PlayerOf(g))

VARIABLES
  pc,       \* where each client is: see Places
  game,     \* each client's own copy of the game
  pipe,     \* pipe[p]: the move texts that client p has not read yet
  inbox,    \* what p's user has sent and getchar() has not returned yet
  hungup,   \* p's user has closed the connection
  verdict,  \* what client p reported at the end of the game
  held      \* the matchmaker has not closed its copies of the pipes' ends

vars == <<pc, game, pipe, inbox, hungup, verdict, held>>

(* "starting": in recvfds(), with a seat in this game                      *)
(* "user":   in getchar() under get_move(), after NOTIFY(your_turn)         *)
(* "peer":   in read() under parse_op_move()                               *)
(* "ending": the result is reported, in sleep(3)                           *)
(* "exited": the process is gone and its ends of the pipes are closed      *)
Places == {"starting", "user", "peer", "ending", "exited"}

IO_ERROR == -6

EndMsg(code) ==
  CASE code = WHITE_WIN   -> "MSG_WHITE_WIN"
    [] code = BLACK_WIN   -> "MSG_BLACK_WIN"
    [] code = FORCED_DRAW -> "MSG_FORCED_DRAW"
    [] code = IO_ERROR    -> "MSG_IO_ERROR"
    [] OTHER              -> "MSG_UNKNOWN_ERROR"

Results == {EndMsg(code) : code \in GameOver}
Verdicts == Results \cup {"MSG_IO_ERROR", "MSG_UNKNOWN_ERROR", "none"}

\* A user's command: "GET" is GET_BOARD or GET_VALID_MOVES, "OTHER" any byte
\* get_move() does not know, and a MAKE_MOVE whose two bytes never arrive.
Commands ==
  [op: {"MAKE_MOVE"}, move: Submissions] \cup [op: {"GET", "OTHER"}]

\* What get_move() returns for a MAKE_MOVE.
TextOf == [w \in Submissions |-> MoveToString(ApiGetMove(w))]

TypeOK ==
  /\ pc \in [Players -> Places]
  /\ game \in [Players -> Games]
  /\ pipe \in [Players -> Seq(Range(TextOf))]
  /\ inbox \in [Players -> Seq(Commands)]
  /\ hungup \in [Players -> BOOLEAN]
  /\ verdict \in [Players -> Verdicts]
  /\ held \in BOOLEAN

-----------------------------------------------------------------------------
(* parse_move() and then make_move(), the pair that both get_player_move() *)
(* and parse_op_move() call.                                               *)
PlayText(g, text) ==
  IF ParseCode(text) # OK
    THEN [code |-> ParseCode(text), game |-> g]
    ELSE EngineMove(g, ParsedMove(text))

\* The top of the loop in run_client(): whom client p waits for with game g.
WaitsFor(p, g) == IF PlayerOf(g) = p THEN "user" ELSE "peer"

\* Printing to a user who has hung up may kill the client (SIGPIPE), and may
\* not yet (the bytes fit in the socket).
AfterOutput(p, place) == IF hungup[p] THEN {place, "exited"} ELSE {place}

\* Leaving run_client()'s loop with `code`.  The pipe's last reader is gone.
EndWith(p, code) ==
  /\ verdict' = [verdict EXCEPT ![p] = EndMsg(code)]
  /\ \E place \in AfterOutput(p, "ending") : pc' = [pc EXCEPT ![p] = place]

\* Nobody holds client p's ends of the pipes: not the process, and not the
\* matchmaker, which is slow to close what it has handed out.
Gone(p) == pc[p] = "exited" /\ ~held

\* The matchmaker has two clients for one game; their users may have left.
Init ==
  /\ pc = [p \in Players |-> "starting"]
  /\ game = [p \in Players |-> StartGame]
  /\ pipe = [p \in Players |-> <<>>]
  /\ inbox = [p \in Players |-> <<>>]
  /\ hungup \in [Players -> BOOLEAN]
  /\ verdict = [p \in Players |-> "none"]
  /\ held = TRUE

-----------------------------------------------------------------------------
\* Mutant of Begin: a client waits until its partner has begun.
BeginSecond(p) ==
  /\ pc[p] = "starting"
  /\ pc[Opponent(p)] # "starting"
  /\ pc' = [pc EXCEPT ![p] = WaitsFor(p, game[p])]
  /\ UNCHANGED <<game, pipe, inbox, hungup, verdict, held>>

\* recvfds() returns: INIT_GAME is printed, and new_game() says who is next.
Begin(p) ==
  /\ pc[p] = "starting"
  /\ \E place \in AfterOutput(p, WaitsFor(p, game[p])) :
       pc' = [pc EXCEPT ![p] = place]
  /\ UNCHANGED <<game, pipe, inbox, hungup, verdict, held>>

\* getchar() returns the next command of p's user, an `op`.
Reads(p, op) ==
  /\ pc[p] = "user"
  /\ inbox[p] # <<>>
  /\ Head(inbox[p]).op = op
  /\ inbox' = [inbox EXCEPT ![p] = Tail(@)]

\* GET_BOARD and GET_VALID_MOVES print and go round the loop in get_move().
Query(p) ==
  /\ Reads(p, "GET")
  /\ \E place \in AfterOutput(p, "user") : pc' = [pc EXCEPT ![p] = place]
  /\ UNCHANGED <<game, pipe, hungup, verdict, held>>

\* Any other byte makes get_move() return NULL, hence IO_ERROR.
BadCommand(p) ==
  /\ Reads(p, "OTHER")
  /\ EndWith(p, IO_ERROR)
  /\ UNCHANGED <<game, pipe, hungup, held>>

\* Mutant of Eof: get_move() takes end of file for one more byte to skip.
EofSkipped(p) ==
  /\ pc[p] = "user"
  /\ hungup[p]
  /\ inbox[p] = <<>>
  /\ UNCHANGED vars

\* So does end of file.
Eof(p) ==
  /\ pc[p] = "user"
  /\ hungup[p]
  /\ inbox[p] = <<>>
  /\ EndWith(p, IO_ERROR)
  /\ UNCHANGED <<game, pipe, inbox, hungup, held>>

\* Mutant of Reject: a rejected move ends the turn.
RejectYields(p, r) ==
  /\ r.code \in NonFatal
  /\ pc' = [pc EXCEPT ![p] = "peer"]
  /\ UNCHANGED <<pipe, verdict>>

\* MAKE_MOVE is rejected: the user is told (or not: MISSING_PROMOTION goes
\* to report_error(), a no-op) and get_player_move() asks again.
Reject(p, r) ==
  /\ r.code \in NonFatal
  /\ \E place \in AfterOutput(p, "user") : pc' = [pc EXCEPT ![p] = place]
  /\ UNCHANGED <<pipe, verdict>>

\* The move ends the game: get_player_move() returns before write().
Conclude(p, r) ==
  /\ r.code \in GameOver
  /\ EndWith(p, r.code)
  /\ UNCHANGED pipe

\* Mutants of Send: write() before the return code of make_move() is looked
\* at, and the two bytes of the API written instead of the text.
SendUnchecked(p, r, text) ==
  /\ r.code \in Accepted \cup NonFatal
  /\ ~Gone(Opponent(p))
  /\ pipe' = [pipe EXCEPT ![Opponent(p)] = Append(@, text)]
  /\ pc' = [pc EXCEPT ![p] = WaitsFor(p, r.game)]
  /\ UNCHANGED verdict

SendBytes(p, r, text) ==
  /\ r.code \in Accepted
  /\ ~Gone(Opponent(p))
  /\ pipe' = [pipe EXCEPT ![Opponent(p)] =
                Append(@, WriteMove(ParsedMove(text)))]
  /\ pc' = [pc EXCEPT ![p] = WaitsFor(p, r.game)]
  /\ UNCHANGED verdict

\* The move goes into the opponent's pipe; run_client() comes round to read().
Send(p, r, text) ==
  /\ r.code \in Accepted
  /\ ~Gone(Opponent(p))
  /\ pipe' = [pipe EXCEPT ![Opponent(p)] = Append(@, text)]
  /\ pc' = [pc EXCEPT ![p] = WaitsFor(p, r.game)]
  /\ UNCHANGED verdict

\* write() finds no reader: EPIPE, or SIGPIPE where it is not ignored.
SendFails(p, r) ==
  /\ r.code \in Accepted
  /\ Gone(Opponent(p))
  /\ \/ EndWith(p, IO_ERROR)
     \/ pc' = [pc EXCEPT ![p] = "exited"] /\ UNCHANGED verdict
  /\ UNCHANGED pipe

\* get_player_move() with the next MAKE_MOVE.
SubmitMove(p) ==
  /\ Reads(p, "MAKE_MOVE")
  /\ LET text == TextOf[Head(inbox[p]).move]
         r    == PlayText(game[p], text)
     IN  /\ game' = [game EXCEPT ![p] = r.game]
         /\ \/ Reject(p, r)
            \/ Conclude(p, r)
            \/ Send(p, r, text)
            \/ SendFails(p, r)
  /\ UNCHANGED <<hungup, held>>

\* Mutant of ReadMove: read() is called until its 1024 bytes are there.
ReadToTheEnd(p) ==
  /\ pc[p] = "peer"
  /\ pipe[p] # <<>>
  /\ Gone(Opponent(p))
  /\ pipe' = [pipe EXCEPT ![p] = <<>>]
  /\ EndWith(p, IO_ERROR)
  /\ UNCHANGED <<game, inbox, hungup, held>>

(* parse_op_move(): one read() takes all that is in the pipe and only the  *)
(* first text of it is looked at.  A negative code of any kind, ILLEGAL    *)
(* and MISSING_PROMOTION included, ends the game here.                     *)
ReadMove(p) ==
  /\ pc[p] = "peer"
  /\ pipe[p] # <<>>
  /\ pipe' = [pipe EXCEPT ![p] = <<>>]
  /\ LET r == PlayText(game[p], Head(pipe[p]))
     IN  /\ game' = [game EXCEPT ![p] = r.game]
         /\ \/ /\ r.code < 0
               /\ EndWith(p, r.code)
            \/ /\ r.code >= 0
               /\ \E place \in AfterOutput(p, WaitsFor(p, r.game)) :
                    pc' = [pc EXCEPT ![p] = place]
               /\ UNCHANGED verdict
  /\ UNCHANGED <<inbox, hungup, held>>

\* Mutant of PeerGone: the 0 of read() is taken for an interruption.
PeerGoneRetried(p) ==
  /\ pc[p] = "peer"
  /\ pipe[p] = <<>>
  /\ Gone(Opponent(p))
  /\ UNCHANGED vars

\* The pipe is empty and its only writer is gone: read() returns 0.
PeerGone(p) ==
  /\ pc[p] = "peer"
  /\ pipe[p] = <<>>
  /\ Gone(Opponent(p))
  /\ EndWith(p, IO_ERROR)
  /\ UNCHANGED <<game, pipe, inbox, hungup, held>>

\* Mutant of Finish: the client waits for another opponent.
FinishRejoins(p) ==
  /\ pc[p] = "ending"
  /\ pc' = [pc EXCEPT ![p] = "starting"]
  /\ UNCHANGED <<game, pipe, inbox, hungup, verdict, held>>

\* sleep(3) is over; what the process had not read is gone with it.
Finish(p) ==
  /\ pc[p] = "ending"
  /\ pc' = [pc EXCEPT ![p] = "exited"]
  /\ UNCHANGED <<game, pipe, inbox, hungup, verdict, held>>

Client(p) ==
  \/ Begin(p)
  \/ Query(p) \/ BadCommand(p) \/ Eof(p)
  \/ SubmitMove(p)
  \/ ReadMove(p) \/ PeerGone(p)
  \/ Finish(p)

-----------------------------------------------------------------------------
(* The users.  They may send at any time, also out of turn. *)
UserSends(p) ==
  /\ ~hungup[p]
  /\ pc[p] # "exited"
  /\ Len(inbox[p]) < InboxLimit
  /\ \E cmd \in Commands : inbox' = [inbox EXCEPT ![p] = Append(@, cmd)]
  /\ UNCHANGED <<pc, game, pipe, hungup, verdict, held>>

\* A reset connection takes with it what was still on its way.
HangUp(p) ==
  /\ ~hungup[p]
  /\ hungup' = [hungup EXCEPT ![p] = TRUE]
  /\ \E rest \in {inbox[p], <<>>} : inbox' = [inbox EXCEPT ![p] = rest]
  /\ UNCHANGED <<pc, game, pipe, verdict, held>>

User(p) == UserSends(p) \/ HangUp(p)

-----------------------------------------------------------------------------
(* The rest of the world (see Matchmaker and Pairing). *)

\* The matchmaker closes its copies, or dies.  A client it has not sent its
\* ends by then will never get them.
DaemonCloses ==
  /\ held
  /\ held' = FALSE
  /\ \E lost \in SUBSET {p \in Players : pc[p] = "starting"} :
       pc' = [p \in Players |-> IF p \in lost THEN "exited" ELSE pc[p]]
  /\ UNCHANGED <<game, pipe, inbox, hungup, verdict>>

\* A client process is killed, as the end of a login over ssh does it.
Killed(p) ==
  /\ pc[p] # "exited"
  /\ pc' = [pc EXCEPT ![p] = "exited"]
  /\ UNCHANGED <<game, pipe, inbox, hungup, verdict, held>>

\* Everybody is gone: nothing is left to happen.
Over ==
  /\ \A p \in Players : Gone(p)
  /\ UNCHANGED vars

Next ==
  \/ \E p \in Players : Client(p) \/ User(p) \/ Killed(p)
  \/ DaemonCloses
  \/ Over

\* The kernel keeps scheduling both clients and the matchmaker, which closes
\* its copies or dies; nothing obliges a user to act.
Fairness == WF_vars(DaemonCloses) /\ \A p \in Players : WF_vars(Client(p))

Spec == Init /\ [][Next]_vars /\ Fairness
-----------------------------------------------------------------------------
(* Lockstep of the two processes.  Nothing in the code enforces it: each   *)
(* client derives whose turn it is from its own board alone.               *)

\* Where client p is, or will be as soon as it starts.
At(p) == IF pc[p] = "starting" THEN WaitsFor(p, game[p]) ELSE pc[p]

\* Whoever a client waits for, its own board says that it is their turn.
BoardsTellTurns ==
  \A p \in Players : /\ At(p) = "user" => PlayerOf(game[p]) = p
                     /\ At(p) = "peer" => PlayerOf(game[p]) = Opponent(p)

\* While one user is asked for a move the other client is in read(), or gone:
\* no two movers, and no move to a client that is closing.
MoverHasReader ==
  \A p \in Players : At(p) = "user" => At(Opponent(p)) \in {"peer", "exited"}

\* Two clients never wait for each other's move with nothing under way.
NoMutualWait ==
  ~ \A p \in Players : At(p) = "peer" /\ pipe[p] = <<>>

\* parse_op_move() looks at the first text of what read() returns: a second
\* one in the pipe would be lost, and so would one to a client that is not
\* waiting for it.
NothingToLose ==
  \A p \in Players :
    pipe[p] # <<>> => /\ Len(pipe[p]) = 1
                      /\ At(p) \in {"peer", "exited"}
                      /\ At(Opponent(p)) # "user"
                      /\ At(p) = "peer" => At(Opponent(p)) \in {"peer", "exited"}
                      /\ pipe[Opponent(p)] = <<>>

\* The clients take turns: one mover at a time, no deadlock between the two
\* read()s, and no move that the 1024-byte read() of parse_op_move() loses.
Lockstep ==
  BoardsTellTurns /\ MoverHasReader /\ NoMutualWait /\ NothingToLose

\* For an engine whose rejections leave the game alone: the two boards are the
\* same whenever a user is asked for a move, also the user of a client whose
\* partner is gone; and whoever is sent a move will accept it and come to the
\* sender's board.  chess.c is such an engine until a pawn stands beside its
\* last row, and not from there on: see ChessSession.
BoardsAgree ==
  \A p \in Players :
    LET q == Opponent(p)
    IN  /\ At(p) = "user" => game[p] = game[q]
        /\ pipe[q] # <<>> =>
             LET r == PlayText(game[q], Head(pipe[q]))
             IN  r.code \in Accepted /\ r.game = game[p]

\* No move that one client accepted has been refused by the other one.  This
\* is for ChessSession to find broken: an engine whose rejections leave traces
\* on the board, as chess.c does, breaks it.
NoUnknownError == \A p \in Players : verdict[p] # "MSG_UNKNOWN_ERROR"

\* When the client on one side is gone, the other one is released from its
\* read() for good, whatever it was doing then.
OrphanReleased ==
  \A p \in Players :
    pc[p] = "exited" ~> [](pc[Opponent(p)] # "peer")

\* When both users have hung up both processes end: no client is left behind.
AbandonedEnds ==
  (\A p \in Players : hungup[p]) ~> (\A p \in Players : pc[p] = "exited")

\* The two processes as one game: a client has left when it is past its loop.
OneGame == INSTANCE Game WITH
  left <- {p \in Players : pc[p] \in {"ending", "exited"}}

\* For an engine whose rejections leave the game alone, and so for chess.c until
\* a pawn stands beside its last row (AcceptedMovesAreExecuted tells what comes
\* after): whatever the order of the clients' steps, their users' and the
\* matchmaker's, what the two users see is a game with one mover at a time, both
\* boards at most one accepted move apart, and nobody told of an error in the
\* middle of the other one's turn.
PlaysOneGame == OneGame!GameSafety

\* A move that was written is seen by its reader, unless that leaves; and the
\* turn of a user who is gone keeps nobody waiting for ever.
GameGoesOn == OneGame!GameFairness

\* The pair of clients that the matchmaker has made.
OnePair == INSTANCE Pairing WITH
  Seats <- Players,
  seat <- [p \in Players |-> IF pc[p] \in {"user", "peer", "ending"}
                               THEN "playing" ELSE pc[p]]

\* The clients ask no more of the matchmaker than Pairing, which is what it
\* gives them: each seat is taken once and nobody comes back to it.
KeepsToItsPair == OnePair!PairSafety

\* Whoever has been sent its ends takes its seat or leaves it, also when the
\* partner never does.
PairGoesOn == OnePair!PairFairness

\* doc/api.txt:51-53, 126-128: a user's move is sent to the opponent and the
\* result of the game is notified.  What the code does: the move that ends a
\* game is never written, so only the user who made it hears the result.
ResultReachesBoth ==
  \A p \in Players :
    verdict[p] \in Results /\ verdict[Opponent(p)] # "none" =>
      verdict[Opponent(p)] = verdict[p]
=============================================================================
