----------------------------- MODULE Matchmaker -----------------------------
(***************************************************************************)
(* The matchmaker daemon (src/daemon/runner.c, main.c, sock.c) and, seen   *)
(* from it, the clients that connect to its Unix socket and wait in        *)
(* recvfds() (src/client/runner.c:56-72).                                  *)
(*                                                                         *)
(* A round of run_daemon() opens two pipes, accepts two clients and hands  *)
(* each of them the read end of one pipe, the write end of the other and   *)
(* an id.  From then on the daemon is out of the game: what a client can   *)
(* still learn about its partner is whether the pipe has a writer left.    *)
(***************************************************************************)
EXTENDS Integers, SequencesExt

CONSTANTS
  Clients,      \* client processes, each used once
  NONE,         \* fd -1, and: no grant
  MaxFaults,    \* bound: failures of pipe() and accept()
  MaxHangUps    \* bound: users who hang up while their client is waiting

ASSUME FaultsAssumption == MaxFaults \in Nat /\ MaxHangUps \in Nat

VARIABLES
  dpc,       \* where run_daemon() is
  bound,     \* the file of the listening socket exists
  backlog,   \* connections that listen() has queued
  p1, p2,    \* the clients behind p1fd and p2fd
  id1,       \* the id that player 1 will get (0 outside a round)
  fds,       \* the pipes of which the daemon holds the ends
  round,     \* number of pairs of pipes opened so far
  client,    \* where each client process is
  conn,      \* each client's connection, seen from the client
  grant,     \* what was sent to each client
  gone,      \* the clients whose user has hung up
  faults     \* failures so far

daemonVars == <<dpc, bound, p1, p2, id1, fds, round>>
clientVars == <<client, conn, grant, gone>>
vars == <<daemonVars, backlog, clientVars, faults>>

(* "down": not running            "send1":  before sendfds(p1fd, ...)      *)
(* "top": before pipe(pipe1)      "send2":  before sendfds(p2fd, ...)      *)
(* "pipe2": before pipe(pipe2)    "close":  before the close() calls       *)
(* "accept1", "accept2": before the accept() for that player               *)
Places ==
  {"down", "top", "pipe2", "accept1", "accept2", "send1", "send2", "close"}

\* Pipe k of a round; a client holds the read end of one, the write end of
\* the other.
Pipes == Nat \X {1, 2}
Grants == [read: Pipes, write: Pipes, id: {0, 1}]

ASSUME NoneAssumption == NONE \notin Clients \cup Grants

TypeOK ==
  /\ dpc \in Places
  /\ bound \in BOOLEAN
  /\ backlog \in Seq(Clients)
  /\ p1 \in Clients \cup {NONE}
  /\ p2 \in Clients \cup {NONE}
  /\ id1 \in {0, 1}
  /\ fds \in SUBSET Pipes
  /\ round \in Nat
  /\ client \in [Clients -> {"idle", "waiting", "playing", "exited"}]
  /\ conn \in [Clients -> {"none", "open", "closed"}]
  /\ grant \in [Clients -> Grants \cup {NONE}]
  /\ gone \in SUBSET Clients
  /\ faults \in 0 .. MaxFaults

Init ==
  /\ dpc = "down" /\ bound = FALSE
  /\ backlog = <<>>
  /\ p1 = NONE /\ p2 = NONE /\ id1 = 0
  /\ fds = {} /\ round = 0
  /\ client = [c \in Clients |-> "idle"]
  /\ conn = [c \in Clients |-> "none"]
  /\ grant = [c \in Clients |-> NONE]
  /\ gone = {} /\ faults = 0

-----------------------------------------------------------------------------
(* The daemon. *)

\* main() and create_socket(): bind() fails with EADDRINUSE where the file of
\* an earlier run is left, and nothing removes that file.
Start ==
  /\ dpc = "down"
  /\ ~bound
  /\ dpc' = "top" /\ bound' = TRUE
  /\ UNCHANGED <<backlog, p1, p2, id1, fds, round, clientVars, faults>>

\* random(), then the first pipe().
OpenPipe1 ==
  /\ dpc = "top"
  /\ \E id \in {0, 1} : id1' = id
  /\ fds' = fds \cup {<<round + 1, 1>>}
  /\ dpc' = "pipe2"
  /\ UNCHANGED <<bound, backlog, p1, p2, round, clientVars, faults>>

\* The second pipe(): the round has its pair.
OpenPipe2 ==
  /\ dpc = "pipe2"
  /\ round' = round + 1
  /\ fds' = fds \cup {<<round', 2>>}
  /\ dpc' = "accept1"
  /\ UNCHANGED <<bound, backlog, p1, p2, id1, clientVars, faults>>

\* The first pipe() fails (error1): nothing is open, and the loop starts over.
Pipe1Fails ==
  /\ dpc = "top"
  /\ faults < MaxFaults
  /\ faults' = faults + 1
  /\ UNCHANGED <<daemonVars, backlog, clientVars>>

\* Mutant of Pipe2Fails: goto error1.
Pipe2FailsLeaks ==
  /\ dpc = "pipe2"
  /\ faults < MaxFaults
  /\ faults' = faults + 1
  /\ id1' = 0 /\ dpc' = "top"
  /\ UNCHANGED <<bound, backlog, p1, p2, fds, round, clientVars>>

\* The second pipe() fails (error2): the ends of the first one are closed.
Pipe2Fails ==
  /\ dpc = "pipe2"
  /\ faults < MaxFaults
  /\ faults' = faults + 1
  /\ fds' = fds \ {<<round + 1, 1>>}
  /\ id1' = 0 /\ dpc' = "top"
  /\ UNCHANGED <<bound, backlog, p1, p2, round, clientVars>>

Accept1 ==
  /\ dpc = "accept1"
  /\ backlog # <<>>
  /\ p1' = Head(backlog)
  /\ backlog' = Tail(backlog)
  /\ dpc' = "accept2"
  /\ UNCHANGED <<bound, p2, id1, fds, round, clientVars, faults>>

Accept2 ==
  /\ dpc = "accept2"
  /\ backlog # <<>>
  /\ p2' = Head(backlog)
  /\ backlog' = Tail(backlog)
  /\ dpc' = "send1"
  /\ UNCHANGED <<bound, p1, id1, fds, round, clientVars, faults>>

\* accept() returns -1 and leaves the queue alone (EMFILE), or it has taken
\* the connection and drops it (EINVAL: addrlen is not initialised).
AcceptFails ==
  /\ faults < MaxFaults
  /\ faults' = faults + 1
  /\ \/ UNCHANGED <<backlog, conn>>
     \/ /\ backlog # <<>>
        /\ backlog' = Tail(backlog)
        /\ conn' = [conn EXCEPT ![Head(backlog)] = "closed"]

\* The do ... while loop around the first accept().
Accept1Fails ==
  /\ dpc = "accept1"
  /\ AcceptFails
  /\ UNCHANGED <<daemonVars, client, grant, gone>>

\* The result of the second accept() is not looked at: p2fd is -1.
Accept2Fails ==
  /\ dpc = "accept2"
  /\ AcceptFails
  /\ p2' = NONE
  /\ dpc' = "send1"
  /\ UNCHANGED <<bound, p1, id1, fds, round, client, grant, gone>>

\* sendfds() succeeds when the process at the other end still has its socket.
CanSend(p) == p # NONE /\ client[p] # "exited"

\* Closing an fd; closing -1 does nothing.
Closed(ps) == [c \in Clients |-> IF c \in ps THEN "closed" ELSE conn[c]]

Send1 ==
  /\ dpc = "send1"
  /\ CanSend(p1)
  /\ grant' = [grant EXCEPT ![p1] =
                [read |-> <<round, 1>>, write |-> <<round, 2>>, id |-> id1]]
  /\ dpc' = "send2"
  /\ UNCHANGED <<bound, backlog, p1, p2, id1, fds, round, client, conn, gone, faults>>

\* Mutant of Send1Fails: back to accept() with the dead player 1 still there.
Send1FailsKept ==
  /\ dpc = "send1"
  /\ ~CanSend(p1)
  /\ p2' = NONE
  /\ dpc' = "accept2"
  /\ UNCHANGED <<bound, backlog, p1, id1, fds, round, clientVars, faults>>

\* Player 1 is gone: player 2 takes its place and waits.
Send1Fails ==
  /\ dpc = "send1"
  /\ ~CanSend(p1)
  /\ conn' = Closed({p1})
  /\ p1' = p2 /\ p2' = NONE
  /\ dpc' = "accept2"
  /\ UNCHANGED <<bound, backlog, id1, fds, round, client, grant, gone, faults>>

\* Mutants of Send2: player 2 gets the id of player 1, or the next one.
Send2SameId ==
  /\ dpc = "send2"
  /\ grant' = IF CanSend(p2)
                THEN [grant EXCEPT ![p2] = [read |-> <<round, 2>>,
                                            write |-> <<round, 1>>,
                                            id |-> id1]]
                ELSE grant
  /\ dpc' = "close"
  /\ UNCHANGED <<bound, backlog, p1, p2, id1, fds, round, client, conn, gone, faults>>

Send2NextId ==
  /\ dpc = "send2"
  /\ grant' = IF CanSend(p2)
                THEN [grant EXCEPT ![p2] = [read |-> <<round, 2>>,
                                            write |-> <<round, 1>>,
                                            id |-> id1 + 1]]
                ELSE grant
  /\ dpc' = "close"
  /\ UNCHANGED <<bound, backlog, p1, p2, id1, fds, round, client, conn, gone, faults>>

\* Mutant of Send2: a player 2 that is gone is replaced, as player 1 is.
Send2Again ==
  /\ dpc = "send2"
  /\ IF CanSend(p2)
       THEN /\ grant' = [grant EXCEPT ![p2] = [read |-> <<round, 2>>,
                                              write |-> <<round, 1>>,
                                              id |-> 1 - id1]]
            /\ dpc' = "close"
            /\ UNCHANGED <<p2, conn>>
       ELSE /\ dpc' = "accept2"
            /\ p2' = NONE
            /\ conn' = Closed({p2})
            /\ UNCHANGED grant
  /\ UNCHANGED <<bound, backlog, p1, id1, fds, round, client, gone, faults>>

\* The result of the second sendfds() is not looked at.
Send2 ==
  /\ dpc = "send2"
  /\ grant' = IF CanSend(p2)
                THEN [grant EXCEPT ![p2] = [read |-> <<round, 2>>,
                                            write |-> <<round, 1>>,
                                            id |-> 1 - id1]]
                ELSE grant
  /\ dpc' = "close"
  /\ UNCHANGED <<bound, backlog, p1, p2, id1, fds, round, client, conn, gone, faults>>

\* Mutant of CloseAll: the second pipe is left open.
CloseOnePipe ==
  /\ dpc = "close"
  /\ conn' = Closed({p1, p2})
  /\ p1' = NONE /\ p2' = NONE /\ id1' = 0
  /\ fds' = fds \ {<<round, 1>>}
  /\ dpc' = "top"
  /\ UNCHANGED <<bound, backlog, round, client, grant, gone, faults>>

CloseAll ==
  /\ dpc = "close"
  /\ conn' = Closed({p1, p2})
  /\ p1' = NONE /\ p2' = NONE /\ id1' = 0
  /\ fds' = {}
  /\ dpc' = "top"
  /\ UNCHANGED <<bound, backlog, round, client, grant, gone, faults>>

\* The process is killed.  The kernel closes what it held, the file stays.
Crash ==
  /\ dpc # "down"
  /\ dpc' = "down"
  /\ p1' = NONE /\ p2' = NONE /\ id1' = 0 /\ fds' = {} /\ backlog' = <<>>
  /\ conn' = [c \in Clients |->
                IF conn[c] = "open" THEN "closed" ELSE conn[c]]
  /\ UNCHANGED <<bound, round, client, grant, gone, faults>>

-----------------------------------------------------------------------------
(* The clients. *)

\* unix_connect(); with no daemon the client ends at once.
Connect(c) ==
  /\ client[c] = "idle"
  /\ IF dpc = "down"
       THEN /\ client' = [client EXCEPT ![c] = "exited"]
            /\ UNCHANGED <<conn, backlog>>
       ELSE /\ client' = [client EXCEPT ![c] = "waiting"]
            /\ conn' = [conn EXCEPT ![c] = "open"]
            /\ backlog' = Append(backlog, c)
  /\ UNCHANGED <<daemonVars, grant, gone, faults>>

\* recvfds() returns the two descriptors and the id.
Receive(c) ==
  /\ client[c] = "waiting"
  /\ grant[c] # NONE
  /\ client' = [client EXCEPT ![c] = "playing"]
  /\ UNCHANGED <<daemonVars, backlog, conn, grant, gone, faults>>

\* recvmsg() returns 0.
RecvEof(c) ==
  /\ client[c] = "waiting"
  /\ grant[c] = NONE
  /\ conn[c] = "closed"
  /\ client' = [client EXCEPT ![c] = "exited"]
  /\ UNCHANGED <<daemonVars, backlog, conn, grant, gone, faults>>

\* The process ends, after its game (Session) or because it is killed; its
\* descriptors, the ones not yet received included, are closed.
Exit(c) ==
  /\ client[c] \in {"waiting", "playing"}
  /\ client' = [client EXCEPT ![c] = "exited"]
  /\ UNCHANGED <<daemonVars, backlog, conn, grant, gone, faults>>

\* The user hangs up.  A client in recvmsg() does not look at its stdin.
HangUp(c) ==
  /\ client[c] = "waiting"
  /\ Cardinality(gone) < MaxHangUps
  /\ gone' = gone \cup {c}
  /\ UNCHANGED <<daemonVars, backlog, client, conn, grant, faults>>

-----------------------------------------------------------------------------
Daemon ==
  \/ OpenPipe1 \/ OpenPipe2 \/ Accept1 \/ Accept2
  \/ Send1 \/ Send1Fails \/ Send2 \/ CloseAll

Fault == Pipe1Fails \/ Pipe2Fails \/ Accept1Fails \/ Accept2Fails \/ Crash

Next ==
  \/ Start \/ Daemon \/ Fault
  \/ \E c \in Clients :
       Connect(c) \/ Receive(c) \/ RecvEof(c) \/ Exit(c) \/ HangUp(c)

\* supervisord (docker-artifacts/supervisord.conf) and docker-compose.yml:10
\* (restart: always) start the daemon whenever it can start; running processes
\* are scheduled.  Nobody is obliged to connect or to leave.
Fairness ==
  /\ WF_vars(Start)
  /\ WF_vars(Daemon)
  /\ \A c \in Clients : WF_vars(Receive(c) \/ RecvEof(c))

Spec == Init /\ [][Next]_vars /\ Fairness

-----------------------------------------------------------------------------
\* The clients that hold the ends they were granted, received or on their way.
Holders == {c \in Clients : grant[c] # NONE /\ client[c] # "exited"}

\* Two clients that share a pipe are white and black of one game: each reads
\* what the other writes, and nobody else reads or writes there.
ProperPairs ==
  \A c, d \in {x \in Clients : grant[x] # NONE} :
    c # d =>
      /\ grant[c].read # grant[d].read
      /\ grant[c].write # grant[d].write
      /\ grant[c].read = grant[d].write <=> grant[d].read = grant[c].write
      /\ grant[c].read = grant[d].write => grant[c].id # grant[d].id

\* The daemon holds the pipes of the round it is in, as far as they are opened,
\* and no other: no leak over the rounds, on whatever path a round is left, and
\* no writer that would hide a partner's exit.
PipesHeld ==
  fds = CASE dpc \in {"down", "top"} -> {}
          [] dpc = "pipe2" -> {<<round + 1, 1>>}
          [] OTHER -> {<<round, 1>>, <<round, 2>>}

\* A connection is open only while it is queued or in the daemon's hands: none
\* is dropped without a close(), neither by the second accept(), which writes
\* over p2fd, nor where player 2 takes the place of player 1.
ConnectionsHeld ==
  \A c \in Clients : conn[c] = "open" => c \in Range(backlog) \cup {p1, p2}

\* No descriptor of a pipe and no connection is leaked (runner.c:80-88).
NoDescriptorLeak == PipesHeld /\ ConnectionsHeld

\* No connected client is forgotten: it is queued, or in the daemon's hands,
\* or it has its grant, or its connection is closed and it will see that.
NobodyForgotten ==
  \A c \in Clients :
    client[c] = "waiting" =>
      \/ c \in Range(backlog)
      \/ c \in {p1, p2} /\ dpc # "down"
      \/ grant[c] # NONE
      \/ conn[c] = "closed"

\* The read() of a playing client can still be answered.
HasWriter(c) ==
  /\ grant[c] # NONE
  /\ \/ grant[c].read \in fds
     \/ \E d \in Holders : grant[d].write = grant[c].read

\* Its write() does not fail.
HasReader(c) ==
  /\ grant[c] # NONE
  /\ \/ grant[c].write \in fds
     \/ \E d \in Holders : grant[d].read = grant[c].write

HasPartner(c) ==
  /\ grant[c] # NONE
  /\ \E d \in Holders : /\ client[d] = "playing"
                         /\ grant[d].write = grant[c].read

\* A client that was told of an opponent gets one, or reads end of file: the
\* daemon and clients in between do not keep its pipe open for ever.
PartnerOrEof ==
  \A c \in Clients :
    client[c] = "playing" ~>
      client[c] = "exited" \/ HasPartner(c) \/ ~HasWriter(c)

\* A round of the daemon as the pair of seats that Session starts from: the
\* pair is there once player 1 has been sent its ends.
InRound(r) == {c \in Clients : grant[c] # NONE /\ grant[c].read[1] = r}
Unsent(r) == r = round /\ dpc \in {"send2", "close"}
Seat(r, id) ==
  IF InRound(r) = {} THEN "vacant"
  ELSE IF \E c \in InRound(r) : grant[c].id = id
    THEN LET c == CHOOSE x \in InRound(r) : grant[x].id = id
         IN  IF client[c] = "waiting" THEN "starting" ELSE client[c]
  ELSE IF Unsent(r) /\ (p2 = NONE \/ client[p2] # "exited")
    THEN "starting" ELSE "exited"
Held(r) == InRound(r) # {} /\ {<<r, 1>>, <<r, 2>>} \cap fds # {}

Pair(r) == INSTANCE Pairing WITH
  Seats <- {0, 1},
  seat <- [id \in {0, 1} |-> Seat(r, id)],
  held <- Held(r)

Rounds == 1 .. Cardinality(Clients) + MaxFaults

\* Every round gives its two clients what a game relies on (see Session): two
\* seats that are taken once and left once, in whatever order the daemon sends,
\* fails, closes and dies and the clients come and go.
RoundsArePairs ==
  /\ \A r \in Rounds : Pair(r)!PairInit
  /\ [][\A r \in Rounds : [Pair(r)!PairNext]_(Pair(r)!pairVars)]_vars

\* The daemon lets go of the pipes of every round, and who has been sent its
\* ends takes its seat or leaves it, whatever fails on the way.
RoundsGoOn == \A r \in Rounds : Pair(r)!PairFairness

\* What a client can see of its partner through the pipes is what Session
\* says: there is a writer, and a reader, exactly as long as the daemon holds
\* the ends or the other seat is not left.
EndsFollowSeats ==
  \A c \in Holders :
    LET r == grant[c].read[1]
    IN  /\ HasWriter(c) <=> Held(r) \/ Seat(r, 1 - grant[c].id) # "exited"
        /\ HasReader(c) <=> Held(r) \/ Seat(r, 1 - grant[c].id) # "exited"

\* Two clients do not wait side by side for ever while the daemon is up.
WaitersAreMatched ==
  \A c, d \in Clients :
    c # d /\ client[c] = "waiting" /\ client[d] = "waiting" ~>
      client[c] # "waiting" \/ client[d] # "waiting"

\* docker-compose.yml:10 says `restart: always`: a daemon that went down comes
\* up again.  What the code does: bind() fails on the file left behind.
RestartRecovers == dpc = "down" ~> dpc # "down"

\* runner.c:68: "If player 1 disconnects before player 2 joins, make player 2
\* wait".  What the code does: a player 1 whose user is gone is matched, since
\* its client process is still there.
AbsentPlayerIsReplaced ==
  \A c \in Clients :
    [](dpc = "accept2" /\ p1 = c /\ c \in gone => [](client[c] # "playing"))
=============================================================================
