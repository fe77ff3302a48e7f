# Verification of chessh-backend

TLA+ models, TLC runs and TLAPS proofs for the chess server in `src/`. Paths
below are relative to the repository (`src/client/runner.c` is
`src/src/client/runner.c` in this checkout). Three languages of correctness
are used side by side: TLC explores small instances of every module, TLAPS
proves the safety of the protocols for all values of their constants, and an
independent statement of the rules of chess is the reference for the engine.

Contents: 1 the system, 2 the hard parts, 3 the modules, 4 the runs, 5 fairness,
6 what the code does otherwise than its documents say, 7 the proofs, 8 what is
not modelled, 9 the plan.

## 1. The system

| Component | Code | State it keeps | Operations | Should be true of it |
|---|---|---|---|---|
| Matchmaker daemon | `src/daemon/{main,runner,sock}.c` | listening socket, two pending connections, two pipes, an id | start, `pipe`, two `accept`s, two `sendfds`, close all, die | pairs are proper; no descriptor is leaked; nobody who waits is forgotten |
| Descriptor passing | `src/shared/copyfd.c` | none | `sendfds`, `recvfds` | both descriptors and the id arrive, or nothing does |
| Game session | `src/client/{runner,sock}.c` | a board of its own, two pipe ends, the id | wait for a partner, `get_player_move`, `parse_op_move`, end of game | the two clients of a game take turns, agree on the board, and end |
| API front end | `src/client/api.c` | the user's connection | `get_move` (`MAKE_MOVE`, `GET_BOARD`, `GET_VALID_MOVES`), notifications | the bytes mean what `doc/api.txt` says |
| Move encodings | `src/client/{api,chess}.c` | none | bytes to move, move to text, text to move | decoding yields moves on the board; the text loses nothing |
| Rules of chess | `src/client/chess.c`, `chess.h` | `struct game` | `make_move` and all it calls | accepts exactly the legal moves, executes them, ends games when the rules do, and leaves the game alone when it rejects a move |
| FEN loader, perft | `chess.c:594-779`, `src/client/perft.c` | node counts | parse a position, play a sequence, count moves | a loaded game goes on by the rules; the counts are the numbers of legal lines |
| TCP gateway, login | `src/frontends/api.c`, `login.sh` | listening socket, children | accept, fork, read the login strings, exec a client | a request that arrives is answered, and its strings arrive whole |
| Accounts | `src/client/{users,crypt,main}.c` | a Berkeley DB shared by all clients | register, check a password | a name is registered once, and who plays has registered |
| Texts | `src/client/frontend.c`, `src/shared/{legal,util}.c` | none | print | – |
| Deployment | `docker-compose.yml`, `docker-artifacts/supervisord.conf` | – | restart what ends | the service comes back |

How they interact. The gateway forks a process for each TCP connection, which
becomes a `chessh-client`. The client connects to the daemon's Unix socket and
sleeps in `recvmsg()`. The daemon opens two pipes, accepts two clients and sends
each of them one read end, one write end and an id (the colour); then it closes
everything it holds and starts over. **There is no game server**: from there on
each of the two clients keeps a board of its own, asks it whose turn it is, and
either reads a move from its user, applies it and writes it to the pipe as text,
or reads the other one's text from its pipe and applies that.

## 2. The hard parts

- *Two copies of one game.* Nothing compares the boards. Whose turn it is, which
  move is legal and who has won is decided twice; the only link is the text.
- *Rejected moves.* They may be tried again and again on one of the two copies.
  Whatever a rejected move leaves behind, only one client has it.
- *One `read()` per move.* `parse_op_move()` takes whatever is in the pipe for one
  move, so at most one move may ever be there.
- *End of file as the only signal.* A client notices that its partner is gone
  when the last writer of its pipe is. The daemon and every client are possible
  writers, so every close on every path of `run_daemon()` matters.
- *Partial failure.* Either accept and either send may fail, the first player may
  disappear while the second is awaited, and the daemon may die at any point.
- *A slow daemon.* A client may play and end before the daemon has closed its own
  copies of the pipe ends; until then a partner's exit cannot be seen.
- *Inherited sockets.* Every process the gateway forks keeps the listening socket,
  and a lock taken in the database by a process that is killed stays.
- *Segments.* TCP cuts a request where it likes.
- *Unwritten memory.* The answers to GET_BOARD and GET_VALID_MOVES read some.
- *Users.* They send commands out of turn, send rubbish, hang up at any time.
- *The board as scratch space.* `piece_is_attacked()` puts a pawn on an empty
  square to ask about it, and `pawn_is_illegal()` writes the promotion at once.

`PROJECT.json` lists each of these under `hazards` with its line and the properties
that would catch it going wrong.

## 3. The modules

| Module | Models | Extends |
|---|---|---|
| `Moves` | move type, return codes, the two encodings | – |
| `Matchmaker` | the daemon, and the clients up to the start of their game | – |
| `MatchmakerProofs` | its safety theorems and the refinement of `Pairing`, round by round | `Matchmaker` |
| `Pairing` | abstract: what the matchmaker gives to two clients, and all they need of it | – |
| `Game` | abstract: a game of two players, without processes and pipes | `Moves` |
| `Session` | one game: two clients, two pipes, two users; the rules are a parameter | `Moves` |
| `MCSession` | a small engine for `Session` | `Session` |
| `SessionProofs` | its safety theorems and the refinements of `Game` and `Pairing`, for any engine | `Session`, `EngineProofs` |
| `Engine` | `make_move()` and all that is under it, rejected moves included | `Moves` |
| `EngineProofs` | theorems on the encodings of moves; what `make_move()` keeps of any game and any move | `Engine` |
| `Chess` | the rules of chess, stated apart from the code | `Moves` |
| `Positions` | what a game of `Engine` says to `Chess`: men, rights, the pawn just passed; what it is to play by the rules | `Engine`, instance of `Chess` |
| `Rulebook` | a player tries moves on `Engine`; `Chess` follows the game | `Positions` |
| `LegalityProofs` | what `is_illegal()`, `is_in_check()` and `make_move()` say and do, by the rules, to any game | `Positions`, `EngineProofs` |
| `RulebookProofs` | its safety theorems, from any start: the engine plays chess; what the user is told and shown of the game; what a loaded game allows | `LegalityProofs`, `Queries`, `Fen` |
| `ValidMoves` | the answer to GET_VALID_MOVES | `Rulebook` |
| `Queries` | the answer to GET_BOARD | `ValidMoves` |
| `Fen` | `init_game()`, and how a position is written down | `Rulebook` |
| `Perft` | `run_perft()` | `Fen` |
| `MCRulebook` | eight endings to begin with | `Queries`, `Perft` |
| `ChessSession` | `Session` with `Engine` in place of the parameter | `Session`, `Positions` |
| `MCChessSession` | the game at hand, and the games its moves lead to | `ChessSession` |
| `ChessSessionProofs` | what the boards of two clients can differ in, and that each of them shows a game of chess | `ChessSession`, `SessionProofs`, `LegalityProofs` |
| `ChessGameProofs` | the same from `new_game()` on and for all moves, without an assumption on the engine | `LegalityProofs`, instance of `ChessSessionProofs` |
| `Login` | gateway, login, accounts: from the TCP connection to the game | – |
| `LoginProofs` | its safety theorems | `Login` |
| `MCLogin` | the requests of its users | `Login` |

**Matchmaker.** `dpc` is the program counter of `run_daemon()`: `OpenPipe1` is the
top of its loop and the first `pipe()`, `OpenPipe2` the second one, `Pipe1Fails` and
`Pipe2Fails` their `goto`s with the closes behind `error2`; `Accept1/2`, `Send1/2` and
`CloseAll` are its other calls, `Send1Fails` the `continue` that makes player 2 the new
player 1, `Accept2Fails` the ignored `-1`. `p1`, `p2` are the connections in the daemon's hands, `fds` the
pipes whose ends it holds, `backlog` the queue of `listen()`. `grant[c]` is what was
sent to `c`, also when `c` has not received it: a descriptor in a socket's queue
keeps the pipe open. `bound` is the socket file, which outlives a `Crash`. `gone`
are users who have hung up; their clients, asleep in `recvmsg()`, do not know.

The modules meet in **Pairing**: two seats that are taken once, and a matchmaker that
lets go of the pipes. `Matchmaker` implements it for each of its rounds
(`RoundsArePairs` for the steps and `RoundsGoOn` for the fairness, with `Seat(r, id)` and `Held(r)` as the refinement mapping), and
`EndsFollowSeats` says that what a client sees of its partner through the pipes,
writers and readers, depends on seats and `held` only, in the way in which `Session`
computes it (`Gone`). `Session`, seen from outside, keeps to the same `Pairing`
(`KeepsToItsPair`, `PairGoesOn`): together the two runs, and the theorems on the
safety halves, justify looking at one pair at a time.

**Game** is the other side of `Session`: two boards, one at most one accepted move
behind the other; the player whose turn both boards say it is moves; players leave,
with a result, an error or nothing. `PlaysOneGame` and `GameGoesOn` are its safety and
its fairness under the mapping that takes a client for gone when it is past its loop.

**Session.** `pc[p]` says which blocking call client `p` is in: `getchar()` under
`get_move()`, `read()` under `parse_op_move()`, `sleep(3)` after the result, or none
because it has exited. `SubmitMove` is `get_player_move()` for one `MAKE_MOVE`, with
its outcomes `Reject` (ask again), `Conclude` (the move ends the game: return before
`write()`), `Send` and `SendFails`. `ReadMove` is `parse_op_move()`; `Query`,
`BadCommand`, `Eof` are the other ways out of `getchar()`; `PeerGone` is a `read()`
of 0. `inbox[p]` is what the user has sent and the client has not read. Printing to
a user who has hung up may raise SIGPIPE: `AfterOutput` lets the client die there or
go on. Both clients start in `recvfds()` (`Begin`), their users perhaps already gone.
`held` says that the daemon has not closed its copies of the pipe ends: until
`DaemonCloses`, a write to a partner who has exited succeeds and a read does not end
(`Gone`). `Killed` ends a client at any point.
`EngineMove(g, m)` returns a code *and the game that is left*, so that a rejection
can leave a different board.

**Engine.** A board is a function from the occupied squares to pieces. Loops over
rays and over the board are quantifiers, except where their order shows in the
result (`FirstOf`: which attacker is found first decides which pawn is promoted by
the question; `ScanEnd`: the scan for the castling rook, which reads one square past the row). `Report.board` carries the board out of `is_illegal()`, since a pawn
on its last step changes it even if the move is rejected afterwards; the backup of
`MakeMoveNoCheckmate` is taken after that, as in `chess.c:190` (`AfterReport`). `StepReport` leaves
castling out of attacks: somebody stands on the square that is asked about, so the rook
would have to stand on the king's way and not in its corner. `MenAtHome`, which is checked and proved, says that unmoved rooks stand in
corners and their king on its square (a king without such a rook may count as unmoved
anywhere: `init_game()` never says that a king has moved), and `CastlingIsNoAttack`
proves from it that `is_illegal()` would give the same answer.
Stale data in EMPTY squares is not kept, since no rule reads it.

**Chess** shares nothing with `Engine` but the names of the men: no counters, no
clocks; rights to castle and the skipped square are remembered the way the rules
of the game say it.

**ValidMoves, Queries, Fen, Perft** are operators over a game, evaluated in the states of
`Rulebook`. What the C code reads without having written it is an argument of the
operator (`stale`, `promotion`), and the property quantifies over it. A FEN text is a
record of its fields; `Placed` is the loop over the placement as a fold over tokens,
`InitGame` the rest with its early returns. `TextOf` writes a position down as the
notation has it, so that `LoadedGamePlaysOn` is a round trip. `NodeVisits` and `Visits`
are `add_node()` and `calculate_perft()`; each gives what it adds to one element of
`results`, the one past the end included.

**Login.** `pc[c]` follows a connection through the gateway's queue, `start_client()` in
the forked process, and `main()` of the client that this process becomes. `from[c]` is
the gateway in whose listening socket the connection is queued: children inherit
the socket, and `SO_REUSEPORT` lets a new gateway bind the port beside it. `sent` and
`got` count the bytes of a request that have arrived and have been read; `buf` is
the two buffers of `start_client()`, with `GARBAGE` where nothing was written, and
then the arguments of the client. `ReadChars` is one `read()` of `read_string()`, which
always writes to the start. `BeginPut` and `EndPut` are the `put()` of
`register_user()`; the lock it holds in between is external, as is the record that
`DB_NOOVERWRITE` refuses. `BeginGet` and `EndGet` are the `get()` of `user_is_valid()`,
with a read lock in between (`readers`), which a `put()` waits for and a `put()` keeps
others from getting. `Killed` leaves both kinds of lock behind. `SaltFails` and
`CryptFails` are the NULL of `crypt_salt()`, which is answered, and the one of `crypt()`,
which is not looked at. `Fault` covers failing calls and killed processes.

Definitions marked `Mutant of ...` are plausible wrong versions of a definition.
They are in no next-state relation; `PROJECT.json` says which property finds each.

## 4. The runs

Run one with `tlc -workers 2 -config X.cfg M`.

| Run | Module | States | Shows |
|---|---|---|---|
| `matchmaker` | `Matchmaker` | 138 364 | with failures, hang-ups, exits and a crash anywhere: `ProperPairs`, no pipe and no connection is leaked (`NoDescriptorLeak`), `NobodyForgotten`; a client told of an opponent gets one or reads end of file (`PartnerOrEof`); two clients do not wait side by side for ever (`WaitersAreMatched`); every round is a `Pairing` (`RoundsArePairs`, `RoundsGoOn`, `EndsFollowSeats`) |
| `session` | `MCSession` | 99 520 | `Lockstep`, `BoardsAgree`; a client whose partner is gone leaves its `read()` (`OrphanReleased`), a game both users left ends (`AbandonedEnds`); the two processes implement `Game` (`PlaysOneGame`, `GameGoesOn`) and keep to `Pairing` (`KeepsToItsPair`, `PairGoesOn`) |
| `rulebook` | `MCRulebook` | 1 767 | the engine accepts exactly the legal moves, executes them, also after a rejection has promoted a pawn, ends games rightly before the draw clock runs out, a rejected move changes at most the type of a pawn, and unmoved men are at home (`MenAtHome`); users are shown the board and the legal moves, up to what unwritten memory can do (`MenCanBeReadOff`, `LegalMovesAreListed`); a position that is written down and loaded goes on by the rules, taking in passing left aside (`LoadedGamePlaysOn`); perft counts lines of legal moves (`PerftCountsLines`) |
| `login` | `MCLogin` | 235 850 | with one failure or kill and one user who hangs up: at most one client is told that it registered a name and the account is its own (`AnswersAreTrue`), nobody plays without one (`PlayersRegistered`); a request that has arrived, be it in the gateway's queue, is answered or its connection ends, whatever other users do and although gateways end, but for three named cases: the connection was left open by a failed `fork()`, a client was killed in `put()` or `get()`, or the connection stays in the socket of a gateway that has ended, for as long as a child of that one waits for its user (`RequestIsAnswered`); processes of absent users end unless they spin in a string or wait for such a lock (`HangUpEnds`) |
| `chess_session` | `MCChessSession` | 103 232 | with the real engine, rejected promotions included: the clients stay in lockstep, their boards show the same men but for promotions, and each board goes on by legal moves of what it shows (`EveryBoardPlaysChess`) |
| `matchmaker_restart`, `matchmaker_absent`, `session_result`, `rulebook_mate`, `rulebook_passing`, `chess_session_desync`, `login_split` | | violated | see section 6 |

Bounds, and why they are enough.

- `matchmaker`: three clients make a pair and one over, the least with which
  player 2 can take the place of a dead player 1 and still be matched, or in which
  a leftover pipe end could be confused with a later round's. One failing call
  (`MaxFaults`) and one absent user (`MaxHangUps`); any number of clients may exit
  and the daemon may be killed once, since it cannot start again. The rounds are
  bounded by the number of clients. The invariants are also proved without bounds.
  `MaxFaults + 3` rounds are looked at by `RoundsArePairs`: no run has more.
- `session`: at most three plies (`Plies`), so that each colour moves, the draw offer
  occurs on ply 2, a win on any ply and the forced draw on ply 3; five wire moves
  give every return code. One unread command per user (`InboxLimit`) suffices for
  commands sent out of turn; the proofs have no such bound. `MCEngineMove` leaves
  the game alone when it rejects a move, which is what `BoardsAgree` and
  `PlaysOneGame` need and `chess.c` does not quite do: hence `ChessSession`. These two
  say what the protocol does, not what the engine does: what a rejection leaves
  behind is caught by the runs with `ChessSession` and by `rulebook`.
- `rulebook`: 64 squares, three to six men, any man to any square with no promotion,
  a knight or a queen, two accepted moves (`MaxPlies`) and any number of rejected
  ones. The endings are chosen so that castling (allowed, through an attack,
  beside a pawn on its last step), pins, promotion, en passant (allowed, pinned),
  mate, also by a pawn beside its last row, and stalemate are one or two moves away. Where a
  rejection has promoted a pawn, the rules go on from the men that are there now
  (`Attempt`). Middle games with many men are not covered. Perft goes two levels
  deep from each ending and one level after each first move; loaded texts say either
  the first move or move 41, since only duration 0 is special.
- `chess_session`: starts after 1.h4 e5 2.h5 e4 3.h6 e3 4.hxg7 so that a promotion, a
  check by a pawn and their combination are at hand, and has five wire moves; the
  games are all that these moves lead to. TLC evaluates the engine for each step.

- `login`: two connections, since registration and login are races of two, with every
  pair of five requests (two passwords for one name, the right login, a reserved
  name, an unknown command); requests arrive at once or cut before the name, which
  is enough to be in the middle of a string; one fault and two gateways give every
  single failure at every point and one restart. `login_split` has a name of two
  chars that may also be cut between them, and no faults.

Deadlock is checked where the model ends in a named stop (`Over` in `Session`) and
switched off in `Matchmaker` (each client connects once, so it comes to rest with
everybody served) and in `Rulebook` (it stops at `MaxPlies` or when the game is over).

## 5. Fairness

- `Session`: `WF_vars(Client(p))`: the kernel schedules both processes; each blocks
  in one call at a time and `Client(p)` is enabled exactly when that call can
  return. Users are under no obligation, so nobody's move is ever promised.
- `Matchmaker`: `WF_vars(Daemon)` and each waiting client, likewise; `Daemon` does not
  include the failures. `WF_vars(Start)`: supervisord and `restart: always` in
  `docker-compose.yml` start the daemon whenever it can start. Nobody has to connect.
- `Login`: `WF_vars(Listen)`, since supervisord starts a gateway that has exited with 1;
  weak fairness of the gateway's `accept()` and of the forked children; strong
  fairness of the client, whose `put()` or `get()` waits for a lock that others take
  and release: the queue of the lock grants it in the end. Users owe nothing.
- `Game` and `Pairing` have their own fairness, which the runs show to follow.
- `Rulebook`: none, it has no liveness properties.

## 6. Where the code disagrees with its documents

Each of these is a run that TLC must find violated.

1. `chess_session_desync`: `pawn_is_illegal()` promotes the pawn on the board
   before the move is known to be legal (`chess.c:471`) and the backup is taken
   afterwards (`chess.c:190`). A promotion that is rejected because of a check stays
   on one of the two boards. Later that client refuses a move the other one has
   accepted, and the game ends in "internal server error".
   `RejectionOnlyPromotes` (passing) says that this is all a rejection can do,
   theorem `BoardsAgreeWhileSpared` that nothing else in the protocol can cause it,
   `BoardsAgreeBeforePromotions` that it cannot happen before a pawn stands beside its last row, and
   `EveryBoardPlaysChess` that each of the two boards, for itself, still goes on by the
   rules: what is lost is only that they show one game.
2. `session_result`: the move that ends a game is never written to the peer
   (`runner.c:153`), whose game ends with an error when the pipe closes.
3. `matchmaker_absent`: a player 1 whose user has hung up is matched, against the
   comment at `daemon/runner.c:68`; its client process does not look at its stdin.
4. `matchmaker_restart`: the socket file is never removed, so a killed daemon
   cannot bind again, whatever `restart: always` promises.
5. `rulebook_mate`: the draw clock is looked at before mate (`chess.c:156-160`).
6. `rulebook_passing`: `init_game()` takes the digit of the en passant square for a row and
   knows 2 and 5 only (`chess.c:723-726`), where the notation (`chess.h:91`) has 3 and 6: the
   pawn that has just moved is never found, and the right to take it is lost. And loaded
   men have `last_move` 0, as White's first move has `duration` (`chess.c:635`, `chess.c:457`):
   there any black pawn on its fifth row may be taken in passing. The state in which TLC
   stops shows both, with the two texts of the property. `LoadedGamePlaysOn` (passing) is
   about all other moves.
7. `login_split`: `read_string()` hands the start of the buffer to every `read()`
   (`frontends/api.c:120`); a string in two segments loses its first chars, and as many
   at its end are whatever the stack held.

Passing properties that describe a disagreement as far as it goes:

- `LegalMovesAreListed`: GET_VALID_MOVES may list a last step of a pinned pawn,
  depending on an unwritten field.
- `BoardFollowsRules`: to tell mate from stalemate `make_move()` asks whether the king is
  in check (`chess.c:165`), and the question, which asks for a queen, promotes the pawn
  that gives mate from the row beside its last one. The first version of the property
  said that the board follows the rules to the last move; it was the attempt to prove
  what an engine keeps that showed it wrong, and the eighth ending shows it to TLC.
- `MenCanBeReadOff`: an unwritten player of an empty square may spoil the man to its
  left in the answer to GET_BOARD.
- `HangUpEnds`, `RequestIsAnswered`: a child spins at the end of file in a string; a lock of
  a client that was killed in `put()` or `get()` stays, a dead read lock for the ones who
  register and, since they queue up before it, for the ones who log in behind them;
  a failed `fork()` leaves its connection open. The properties hold but for these
  cases, and for a connection that stays in the socket of a gateway that has ended: the
  children inherit the socket (`frontends/api.c:73-82`), and while one of them waits for
  its user, or plays, its queue is neither served nor reset, although supervisord has
  started a gateway that listens beside it.

Read off the code besides: pawn moves do not reset the draw clock (`chess.c:487`, against the
comment at `chess.h:58`), the clock of a loaded game is one too high when Black is to
move, and a text whose last row is one square short is accepted.

## 7. The proofs

`tlapm X.tla` checks each of the eight proof modules. None assumes a bound of TLC's; the
assumptions are the ASSUMEs of the modules, which TLC evaluates. The inductive
invariants were checked with TLC on the instances of the runs before they were proved.

*SessionProofs*, for any engine that satisfies `EngineAssumption`: its codes are the
ones of `make_move()`, a rejection keeps the player to move and an accepted move
passes the turn. `TypeCorrect` is inductive by itself. `Lockstep` is the inductive
strengthening of what one wants to know (no two movers, no mutual wait): it needs
`BoardsTellTurns`, since only the boards decide where a client goes next, and
`NothingToLose`, since a client that is asked for a move while one is on its way
would be a second mover. `LockstepHolds` has one step per action, with lemmas for
the three ways a client moves on (leaves, asks again, sends). `BoardsAgreeWhileSpared`
is about the steps that were taken, not about the engine: in a behaviour whose
rejections have each left the board as it was (`RejectionSpares`, an action), `BoardsAgree`
holds, and no accepted move is refused. With TLC's counterexample of section 6 this
places the fault in such rejections and nowhere else, and *ChessSessionProofs* says when
`chess.c` makes none.

Two refinements start from there. `OneGameWhileSpared`: in the same behaviours
`Spec` implements the safety of `Game`. The invariant is `Lockstep` with `BoardsAgree`;
each action of `Next` is shown to be a step of `Game!Play` or a stutter
(`StepsByEffect`, `ReadMoveFollows`, `NextPlays`): a rejection stutters, `Send` and
`Conclude` are `Make`, `ReadMove` is `Follow` because the board it comes to is the
sender's, and exits, kills and the daemon's late close are `Vanish`.
`SessionKeepsToItsPair`: for any engine, pure or not, the session seen from outside is
a `Pairing`. A client that goes on, in whatever way, keeps its seat or leaves it for
good (`ClientMovesOn`, `MovesOnStep`), and the daemon lets go once.

*MatchmakerProofs*, for any set of clients and any number of rounds and failures.
`TypeCorrect` is inductive, and so is `PipesAreHeld`, the half of `NoLeak` that is about
pipes; the other half, about connections, needs that a connection is in one place only.
`PairsAreProper` needs `PairInv`: every
grant is one of the two ends of a round that has begun (`GrantsAreEnds`), a round in
which nothing was sent has no grants (`RoundIsFresh`), and between the two sends the
only grant of the round is player 1's (`FirstOfRound`). `NobodyIsForgotten` needs
`WaitInv`: the daemon's hands are empty outside a round (`EmptyHands`), and a waiting
client has a connection (`WaitersConnected`). `EndsAreAsSeats` reads the ends of a pipe
off the seats. `RoundsImplementPairing` is the refinement, one `Pairing` for each round:
its invariant `RoundInv` joins the ones above with `PlaceInv` (a connection is queued
once, is not in the queue and in the daemon's hands, not in both hands, and whoever
plays or has been served has a grant), since a client that could be handed over twice
would take two seats. `SeatsRead` reads the seats off a state; each action is then
compared before and after (`NextPairs`), and all but the two sends, the exits
and the closes stutter (such as `HangUpStutters`).

*EngineProofs* begins with the moves. `WireMovesDecode`: any two bytes decode to a move
on the board. `TextRoundTrip`: `parse_move()` accepts what `move_to_string()` wrote and
reads the same move, promotion included. By cases on the seven letters; arithmetic
otherwise. The rest is for every game and every move. The games are `EngineGames`: `IsGame`,
and the men that count as unmoved are at home (`AtHome`). `MakeMoveKeepsGame`:
`make_move()` leads from these games to these games, returns a code of `chess.h`,
takes a turn if it accepts, and keeps the turn, both clocks and, but for promotions,
the board (`OnlyPromotes`) if it rejects. The proof goes up the call graph:
`PawnReportPromotes`, `StepReportPromotes`, `AttackPromotes` (the questions with a
pawn on the square included), `KingReportCastles`, `IsIllegalPromotes`, `MovedIsGame`,
`ExecutedIsGame`, `NoCheckmateKeepsGame`. `AtHome` is needed because a pawn that makes
a double step to its last row would be promoted somewhere else. `CastlingIsNoAttack`
justifies the one place where `Engine` leaves something out, castling in
`StepReport`. `PastTheRowIsNoRook`: `king_is_illegal()` comes to the same rook, or to none, whatever
it reads at column 8. `NewGameIsGame` starts it all.

*LegalityProofs* and *RulebookProofs* show that the engine plays chess, from any games
to begin with (`MayStart`) and for any number of moves and of rejected tries. The
rules of `Chess` see less of a game than `chess.c` keeps, and keep what `chess.c` works
out, so the proof hangs on `Mirrors(g, p)`, game `g` is position `p`: the men are the same
and the turn; the rights to castle are the unmoved rooks in corners beside an
unmoved king (`RightsOf`); the square just skipped is the one behind the only pawn that
`last_move` calls a pawn that made its double step on the last move (`JustPassed`); both
players have one king (`KingsAreKept`); nobody has moved in the future, and a pawn that has
moved is past its row (`PastIsInOrder`). One would like to add that the player whose turn
it is not is not in check, but that is not an invariant: a promotion is rejected because
its pawn is pinned, and the new man on its square may see the other king. What holds is
that such a man is `Tied`: whoever moves it uncovers its own king, so that no king is
ever taken (`TakingTheKingIsCheck`), and this is kept by rejections (`RejectedMirrors`).

- *Geometry.* A move in a direction is free of men exactly if its end is in the `Ray`
  of the rules (`Slide`, `ClearIsRay`, `SlidesAreRays`, `StepsAreSteps`): hence a man can go
  where he attacks (`ReachesIsAttacks`), `piece_is_attacked()` is `Attacked`, although it puts
  a pawn on the square to ask (`AttackIsAttacked`), and `is_in_check()` is `InCheck`
  (`CheckIsInCheck`).
- *Legality.* The pawn that may be taken in passing is the one that skipped the square
  (`PassingIsSkipped`, `PawnSteps`); `king_is_illegal()` and the rules allow the same castlings
  (`KingCastles`, `RulesCastle`); together, `is_illegal()` lets pass the moves that the rules
  know, but for what they uncover (`ReportIsPseudo`).
- *Moves.* `OneManMoves` and `TwoMenMove` compute the board of `Executed` square by square,
  `ExecutedIsPlayed` says that it shows the men of `Rules!MenAfter`, and `PlayedOn` keeps what
  is needed of counters and clocks. `KingsRemain`: no move takes a king, since
  whoever sees it is tied. With `CheckIsInCheck` follows `AcceptedIsLegal`: a move
  is accepted if and only if it is legal.
- *The past.* `RightsAfter`, `SkippedAfter` and `PastAfter`: after an accepted move `moves` and
  `last_move` stand for the rights and the skipped square of the new position
  (`MirrorsAfter`). Here `AtHome` is needed: a rook that comes to a corner has moved.
- *The end.* `can_make_move()` tries every move with a queen as the promotion, which is
  enough to find one if there is one (`RepliesAreMoves`); so `MakeMovePlays`: what is not
  rejected is played, and judged as the rules do. Looking for the check of a mate can make
  queens of pawns and nothing else (`CheckMakesQueens`), and also the game that this leaves
  mirrors a position (`LeftMirrors`).

`MakeMovePlaysChess` puts this together for one call of `make_move()`, without a word of how
the game came about: if it mirrors the position that it shows (`PositionOf`), what is
rejected is illegal, what is not is legal and played (`PlaysLegally`), and what is left
mirrors the position that it shows.

The inductive invariant is `Play`: `GameOn` (the game is one of `EngineGames`), the game
mirrors the position, after rejected promotions too, until it is over, and the last move left what
it should (`Follows`, `EndsWell`). From it
`EngineAcceptsTheLegal` (`AcceptsExactlyTheLegal`), `EnginePlaysByTheRules` (`BoardFollowsRules`)
and `EngineJudgesRightly` (`EndsAsItShould`). `NewGameMayStart` says that `new_game()` makes such
a game, so that they hold of the games of the clients; TLC's runs begin with endings,
which the assumption of `Rulebook` is evaluated for. `EveryLegalMoveIsListed`
(`LegalMovesAreListed`) goes on to what a user is told: `is_illegal()` asks for a promotion
exactly on a last step that the rules know (`ReportAsks`), so `make_move()` calls illegal
all but these and the legal moves (`NotIllegal`), and two bytes tell a move
(`BytesTell`). From `GameOn` alone: `TypeCorrect`,
`UnmovedMenAtHome` (`MenAtHome`), `RejectionsOnlyPromote`, and `BoardCanBeReadOff`
(`MenCanBeReadOff`): a code of four bits survives being put beside another one
(`HalvesOfByte`, bit by bit), and whatever stands in an unwritten player can reach the left
half of its byte only.

`LoadedGamesPlayOn` is about `init_game()`. A position that a game gets into is written down
with any clocks and loaded (`LoadedMen`); the game that this gives mirrors the same
position without the square just skipped (`LoadedMirrors`), whose legal moves are the
ones of the position but for taking in passing (`WithoutPassing`), which `PlaysOn` leaves aside. The premise `IsRead` says
that the fold over the placement puts each man on his square: a fold over a text is out of
the prover's reach, so TLC checks it, with `LoadedGamePlaysOn`, for each position of the
runs. Left out are the texts of White's first move, where a loaded pawn may look as if it
had just moved (section 6.6), and clocks with more quiet half moves than were made before the current full move:
there `last_big_move` is negative.

*ChessSessionProofs* takes `Session` with the engine put in and asks what survives of
`BoardsAgree` when rejections are not pure. `SameMenInPlay` says that two boards that
should be the same differ in promotions at most, and so do the boards on the two sides of a move that is
on its way. The step is `AcceptedMoveKeepsSameMen`: a move accepted on two such
boards leaves two such boards. Its result is `BoardsShowTheSameMen`. `ClientsPlayByTheRules`
(`EveryBoardPlaysChess`) takes the boards one by one: both mirror what they show, always
(`Mirrors`, kept by `MakeMovePlaysChess`), and what comes out of a pipe is a text that the other
client wrote, of a move that was submitted; so each step of the session leaves a board alone, but for
rejected promotions, or plays a legal move on it. `BoardsAgreeBeforePromotions` and
`OneGameBeforePromotions` bring the theorems of `SessionProofs` to `chess.c` as it is: while no pawn
stands beside its last row (`NobodyMayPromote`), what is rejected finds no pawn to promote
(`NothingToSpoil`), so the boards agree and the two clients play one `Game`.
*ChessGameProofs* instantiates this with `new_game()` and all moves
that bytes decode to. `ChessClientsPlayTogether`, `ChessClientsPlayChess` and `ChessClientsPlayOneGame` discharge
`EngineAssumption` and the assumptions
on the games by `MakeMoveKeepsGame` and `NewGameMayStart`; all that remains is that
`InboxLimit` is a number. So what section 6.1 reports is the only way in which the
boards of two clients can come apart, and even then either client plays chess.

*LoginProofs*, for any number of connections, gateways, faults, requests and cuts.
`LoginInv` has three parts. `BytesInv`: of a request no more is read than was sent, and a
buffer that is being read is as long as its string. `Others`: the types of the rest.
`TruthInv`: a client that has let its user in, or is about to say or has said that it
registered a name, has its account in the database (`Honest`), at most one client ever
registered a name (`OneRegistrantPerName`), and every account was made by a client whose
user asked for it and was told nothing else (`AccountsAreMade`). From it: `TypeCorrect`, `AnswersTrue`
(`AnswersAreTrue`), `PlayersAreRegistered` (`PlayersRegistered`).

Model-checked only:

- liveness, and the fairness halves of the refinements (`PartnerOrEof`,
  `WaitersAreMatched`, `RoundsGoOn`, `OrphanReleased`, `AbandonedEnds`, `GameGoesOn`,
  `PairGoesOn`, the leads-to properties of `Login`): the prover handles neither
  fairness of this kind nor ENABLED;
- `PerftCountsLines` (`Perft` is RECURSIVE), and of `LoadedGamePlaysOn` the placement
  (`IsRead`: a round trip through all texts needs induction over them) and White's first
  move.

## 8. What is not modelled

- *Berkeley DB, `crypt()`, the kernel's queues and sockets*: external; modelled from
  how the code uses them (`put()` and `get()` with locks, `DB_NOOVERWRITE`, listening
  sockets that live as long as somebody holds them). One lock stands for the page; the
  locks that opening the environment and the file takes, and deadlocks inside Berkeley DB
  (nothing asks it to look for them), are left out. Readers that queue up behind a
  waiting writer are not kept one by one: `LockIsDead` excepts everybody who asks
  for a lock once a dead reader has one.
- *Texts, licence notices, layout of control messages and notifications*; the
  notification "move needs a promotion", which the code never sends.
- *Malformed FEN texts beyond the code's own tests*: men off the board write past the
  array; `Fen` takes texts whose men are on it, and the write to `board[-1][-1]` for
  nothing.
- *The 1024 bytes of a `read()` and the capacity of a pipe*: `Lockstep` says that at
  most one text of at most six bytes is in a pipe.
- *EINTR*: a signal during a blocking call is not modelled; the clients install no
  handlers.
- *Strings of more than a few chars*, and the length byte that is not the length.
- *Command lines of the programs.*

## 9. Plan

Done: all modules of section 3 and the proofs of section 7. Left:

1. The placement of a text, square by square (`IsRead`), for every position: it needs
   induction over the tokens, or a loader stated as a function of the square.
2. Games with more men in the runs; the proofs do not depend on it.
