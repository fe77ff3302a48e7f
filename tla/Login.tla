-------------------------------- MODULE Login --------------------------------
(***************************************************************************)
(* From a TCP connection to a game: the gateway of port 1475               *)
(* (src/frontends/api.c), the process it forks for each connection, the    *)
(* chessh-client that this process becomes (src/client/main.c), and the    *)
(* database of users that all clients share (src/client/users.c).          *)
(*                                                                         *)
(* The listening socket is inherited by every process that the gateway     *)
(* forks, through exec() too, and SO_REUSEADDR | SO_REUSEPORT is the same  *)
(* number as SO_REUSEPORT: a new gateway can bind the port while clients   *)
(* of an old one still hold its socket, in which nobody accepts any more.  *)
(* Berkeley DB and the kernel are external: see the definitions.           *)
(***************************************************************************)
EXTENDS Integers, SequencesExt

CONSTANTS
  Conns,       \* TCP connections, each with the user behind it
  NONE,        \* no answer, no holder of the lock
  Requests,    \* what users ask for first: records cmd, user, pass
  Cuts,        \* bound: where a request may be cut into segments, but the end
  MaxFaults,   \* bound: failures of accept(), fork(), crypt() and the
               \* database, kills
  MaxHangUps,  \* bound: users who hang up before they play
  MaxGateways  \* bound: starts of the gateway

\* A string is the sequence of its chars; the char NUL ends it early, and
\* RESERVED is the underscore.
NUL      == "nul"
RESERVED == "_"
\* A char of user[256] and pass[256] that was never written.
GARBAGE  == "garbage"

\* The chars that users send.
Chars == UNION {Range(r.user) \cup Range(r.pass) : r \in Requests} \cup {NUL}

ASSUME LoginAssumption ==
  /\ NONE \notin Conns
  /\ Requests \subseteq [cmd: {"LOGIN", "REGISTER", "OTHER"},
                         user: Seq(Chars), pass: Seq(Chars)]
  /\ GARBAGE \notin Chars
  /\ Cuts \subseteq Nat
  /\ MaxFaults \in Nat /\ MaxHangUps \in Nat /\ MaxGateways \in Nat \ {0}

VARIABLES
  up,        \* the gateway is running
  gateway,   \* number of the gateway that runs, or ran last
  pc,        \* where each connection, and the process that serves it, is
  from,      \* the gateway whose socket the connection came through
  request,   \* what its user asks for
  sent,      \* bytes of the request that have arrived
  got,       \* bytes of it that have been read
  buf,       \* user[256] and pass[256] of start_client(), then argv
  hungup,    \* how the user has closed the connection
  accounts,  \* the records of /chessh-data/users
  lock,      \* the client in put(), which holds the write lock of the page
  readers,   \* the clients in get(), which hold read locks of the page
  told,      \* the AUTH_RESPONSE of each client
  faults

gatewayVars == <<up, gateway>>
requestVars == <<request, sent, got, buf, hungup>>
dbVars == <<accounts, lock, readers, told>>
vars == <<gatewayVars, pc, from, requestVars, dbVars, faults>>

(* "idle":   not connected          "get":     user_is_valid() in get()    *)
(* "queued": in a listen() queue    "put":     register_user() in put()    *)
(* "leaked": fork() failed          "answer":  put() has returned          *)
(* "read":   start_client()         "playing": run_client()                *)
(* "exec":   init_user_db()         "exited":  closed                      *)
(* "check":  user_is_valid() before get()                                  *)
Places == {"idle", "queued", "leaked", "read", "exec", "check", "get", "put",
           "answer", "playing", "exited"}
Alive(c) == pc[c] \in Places \ {"idle", "queued", "leaked", "exited"}

Answers == {"registered", "refused", "welcome", "denied"}

-----------------------------------------------------------------------------
(* The bytes of a request: command, length, user, length, password.        *)
EndOfUser(r) == 2 + Len(r.user)
Total(r) == EndOfUser(r) + 1 + Len(r.pass)

\* read_string() is in its loop over the chars of `field`, up to `end`.
Field(c) ==
  LET r == request[c]
  IN  IF got[c] \in 2 .. EndOfUser(r) - 1 THEN "user"
      ELSE IF got[c] \in EndOfUser(r) + 1 .. Total(r) - 1 THEN "pass"
      ELSE "none"
EndOf(field, r) == IF field = "user" THEN EndOfUser(r) ELSE Total(r)

Blank(s) == [i \in 1 .. Len(s) |-> GARBAGE]
Empty == [user |-> <<>>, pass |-> <<>>]

\* The C string in a buffer, where unwritten chars may be anything.
EndsAt(s, n) == (\A i \in 1 .. n : s[i] # NUL) /\ (n < Len(s) => s[n + 1] = NUL)
Contents(b) ==
  LET filled == {s \in [1 .. Len(b) -> Chars] :
                   \A i \in 1 .. Len(b) : b[i] # GARBAGE => s[i] = b[i]}
  IN  {SubSeq(x[1], 1, x[2]) :
         x \in {y \in filled \X (0 .. Len(b)) : EndsAt(y[1], y[2])}}

-----------------------------------------------------------------------------
Init ==
  /\ up = FALSE /\ gateway = 0
  /\ pc = [c \in Conns |-> "idle"]
  /\ from = [c \in Conns |-> 0]
  /\ request \in [Conns -> Requests]
  /\ sent = [c \in Conns |-> 0] /\ got = [c \in Conns |-> 0]
  /\ buf = [c \in Conns |-> Empty]
  /\ hungup = [c \in Conns |-> "no"]
  /\ accounts = {} /\ lock = NONE /\ readers = {}
  /\ told = [c \in Conns |-> "none"]
  /\ faults = 0

Fault == faults < MaxFaults /\ faults' = faults + 1

\* The socket of gateway g is open: the gateway or one of its children has it.
Open(g) ==
  \/ up /\ g = gateway
  \/ \E c \in Conns : Alive(c) /\ from[c] = g

-----------------------------------------------------------------------------
(* The gateway. *)

\* main() up to listen(), started by supervisord.
Listen ==
  /\ ~up
  /\ gateway < MaxGateways
  /\ up' = TRUE /\ gateway' = gateway + 1
  /\ UNCHANGED <<pc, from, requestVars, dbVars, faults>>

Queued(c) == up /\ pc[c] = "queued" /\ from[c] = gateway

\* accept() and fork().
Accept(c) ==
  /\ Queued(c)
  /\ pc' = [pc EXCEPT ![c] = "read"]
  /\ UNCHANGED <<gatewayVars, from, requestVars, dbVars, faults>>

\* fork() fails: start_client() returns and does not close clientfd.
ForkFails(c) ==
  /\ Queued(c)
  /\ Fault
  /\ pc' = [pc EXCEPT ![c] = "leaked"]
  /\ UNCHANGED <<gatewayVars, from, requestVars, dbVars>>

\* accept() fails for another reason than EAGAIN and EINTR, or main() is
\* killed: the process ends, the ones it has forked go on.
GatewayEnds ==
  /\ up
  /\ Fault
  /\ up' = FALSE
  /\ UNCHANGED <<gateway, pc, from, requestVars, dbVars>>

-----------------------------------------------------------------------------
(* The users. *)

\* The kernel queues a connection in one of the sockets of the port.
Connect(c) ==
  /\ pc[c] = "idle"
  /\ \E g \in {h \in 1 .. gateway : Open(h)} :
       /\ from' = [from EXCEPT ![c] = g]
       /\ pc' = [pc EXCEPT ![c] = "queued"]
  /\ UNCHANGED <<gatewayVars, requestVars, dbVars, faults>>

Connected(c) == pc[c] \notin {"idle", "exited"} /\ hungup[c] = "no"

\* A segment arrives.
SendSegment(c) ==
  /\ Connected(c)
  /\ \E n \in Cuts \cup {Total(request[c])} :
       /\ sent[c] < n /\ n <= Total(request[c])
       /\ sent' = [sent EXCEPT ![c] = n]
  /\ UNCHANGED <<gatewayVars, pc, from, request, got, buf, hungup, dbVars, faults>>

\* An orderly end leaves what was sent to be read; a reset does not.
HangUp(c) ==
  /\ Connected(c)
  /\ pc[c] # "playing"
  /\ Cardinality({d \in Conns : hungup[d] # "no"}) < MaxHangUps
  /\ \/ /\ hungup' = [hungup EXCEPT ![c] = "closed"]
        /\ UNCHANGED sent
     \/ /\ hungup' = [hungup EXCEPT ![c] = "reset"]
        /\ sent' = [sent EXCEPT ![c] = got[c]]
  /\ UNCHANGED <<gatewayVars, pc, from, request, got, buf, dbVars, faults>>

-----------------------------------------------------------------------------
(* start_client() in the child. *)
Reads(c) == pc[c] = "read" /\ got[c] < Total(request[c])

\* got[c] + 1 bytes are read; after a length, a buffer of garbage is waiting.
ByteRead(c) ==
  /\ got' = [got EXCEPT ![c] = @ + 1]
  /\ buf' = [buf EXCEPT ![c] =
              IF got[c] = 1 THEN [@ EXCEPT !.user = Blank(request[c].user)]
              ELSE IF got[c] = EndOfUser(request[c])
                THEN [@ EXCEPT !.pass = Blank(request[c].pass)]
              ELSE @]
  /\ UNCHANGED <<gatewayVars, pc, from, request, sent, hungup, dbVars, faults>>

\* Mutant of ReadByte: the result of read() is not looked at.
ReadByteUnchecked(c) ==
  /\ Reads(c)
  /\ Field(c) = "none"
  /\ got[c] < sent[c] \/ hungup[c] = "closed"
  /\ ByteRead(c)

\* read() of the command, or of the length of a string.
ReadByte(c) ==
  /\ Reads(c)
  /\ Field(c) = "none"
  /\ got[c] < sent[c]
  /\ ByteRead(c)

\* The chars that have arrived, up to the end of the string, are written to
\* the start of dst, over the ones that came before.
ReadChars(c) ==
  LET field == Field(c)
      next  == IF sent[c] < EndOf(field, request[c])
                 THEN sent[c] ELSE EndOf(field, request[c])
      left  == EndOf(field, request[c]) - got[c]
      chars == request[c][field]
      done  == Len(chars) - left
      chunk == SubSeq(chars, done + 1, done + next - got[c])
      dst   == chunk \o SubSeq(buf[c][field], Len(chunk) + 1, Len(chars))
  IN  /\ Reads(c)
      /\ field # "none"
      /\ got[c] < sent[c]
      /\ got' = [got EXCEPT ![c] = next]
      /\ buf' = [buf EXCEPT ![c][field] = dst]
      /\ UNCHANGED <<gatewayVars, pc, from, request, sent, hungup, dbVars, faults>>

\* Mutant of ReadFails: the child waits for more at the end of file.
ReadFailsOnError(c) ==
  /\ Reads(c)
  /\ got[c] = sent[c]
  /\ hungup[c] = "reset"
  /\ pc' = [pc EXCEPT ![c] = "exited"]
  /\ UNCHANGED <<gatewayVars, from, requestVars, dbVars, faults>>

\* End of file ends the child between strings only: in a string read_string()
\* takes the 0 of read() for a chunk and calls it again, for ever.  An error
\* of read() ends it everywhere.
ReadFails(c) ==
  /\ Reads(c)
  /\ got[c] = sent[c]
  /\ \/ hungup[c] = "closed" /\ Field(c) = "none"
     \/ hungup[c] = "reset"
  /\ pc' = [pc EXCEPT ![c] = "exited"]
  /\ UNCHANGED <<gatewayVars, from, requestVars, dbVars, faults>>

\* Both strings are there: execl(), or exit() for any other command.
Exec(c) ==
  /\ pc[c] = "read"
  /\ got[c] = Total(request[c])
  /\ \E u \in Contents(buf[c].user), p \in Contents(buf[c].pass) :
       buf' = [buf EXCEPT ![c] = [user |-> u, pass |-> p]]
  /\ pc' = [pc EXCEPT ![c] =
              IF request[c].cmd = "OTHER" THEN "exited" ELSE "exec"]
  /\ UNCHANGED <<gatewayVars, from, request, sent, got, hungup, dbVars, faults>>

-----------------------------------------------------------------------------
(* The client, up to run_client(). *)

\* init_user_db() fails, and the client ends without a word.
InitFails(c) ==
  /\ pc[c] = "exec"
  /\ Fault
  /\ pc' = [pc EXCEPT ![c] = "exited"]
  /\ UNCHANGED <<gatewayVars, from, requestVars, dbVars>>

\* report_msg(), and where the client goes from there; SIGPIPE may end it if
\* its user is gone.
Report(c, answer, place) ==
  /\ told' = [told EXCEPT ![c] = answer]
  /\ \E p \in IF hungup[c] = "no" THEN {place} ELSE {place, "exited"} :
       pc' = [pc EXCEPT ![c] = p]

\* A reserved name is refused before the database is asked.
RefuseReserved(c) ==
  /\ pc[c] = "exec"
  /\ request[c].cmd = "REGISTER"
  /\ buf[c].user # <<>> /\ Head(buf[c].user) = RESERVED
  /\ Report(c, "refused", "exited")
  /\ UNCHANGED <<gatewayVars, from, requestVars, accounts, lock, readers, faults>>

\* register_user() has a name that is not reserved.
Registers(c) ==
  /\ pc[c] = "exec"
  /\ request[c].cmd = "REGISTER"
  /\ buf[c].user = <<>> \/ Head(buf[c].user) # RESERVED

\* crypt_salt() gives NULL, or more than pass[88] holds.
SaltFails(c) ==
  /\ Registers(c)
  /\ Fault
  /\ Report(c, "refused", "exited")
  /\ UNCHANGED <<gatewayVars, from, requestVars, accounts, lock, readers>>

\* put() takes the write lock of the page (external).
BeginPut(c) ==
  /\ Registers(c)
  /\ lock = NONE /\ readers = {}
  /\ lock' = c
  /\ pc' = [pc EXCEPT ![c] = "put"]
  /\ UNCHANGED <<gatewayVars, from, requestVars, accounts, readers, told, faults>>

Named(name) == {a \in accounts : a.user = name}

\* DB_NOOVERWRITE, external: what crypt() made of the password is in the
\* record, as good as the password itself for comparing.
StoreOrRefuse(c) ==
  /\ IF Named(buf[c].user) = {}
       THEN /\ accounts' = accounts \cup {buf[c]}
            /\ pc' = [pc EXCEPT ![c] = "answer"]
            /\ UNCHANGED told
       ELSE /\ Report(c, "refused", "exited")
            /\ UNCHANGED accounts
  /\ UNCHANGED <<gatewayVars, from, requestVars, readers, faults>>

\* Mutants of EndPut: without DB_NOOVERWRITE, and without DB_AUTO_COMMIT.
EndPutOverwrites(c) ==
  /\ pc[c] = "put"
  /\ accounts' = (accounts \ Named(buf[c].user)) \cup {buf[c]}
  /\ lock' = NONE
  /\ pc' = [pc EXCEPT ![c] = "answer"]
  /\ UNCHANGED <<gatewayVars, from, requestVars, readers, told, faults>>

EndPutKeepsLock(c) ==
  /\ pc[c] = "put"
  /\ StoreOrRefuse(c)
  /\ UNCHANGED lock

\* put() is done, its transaction committed or given up.
EndPut(c) ==
  /\ pc[c] = "put"
  /\ StoreOrRefuse(c)
  /\ lock' = NONE

\* "User registered": then register_user() returns, and so does main().
AnswerRegistered(c) ==
  /\ pc[c] = "answer"
  /\ Report(c, "registered", "exited")
  /\ UNCHANGED <<gatewayVars, from, requestVars, accounts, lock, readers, faults>>

InitDb(c) ==
  /\ pc[c] = "exec"
  /\ request[c].cmd = "LOGIN"
  /\ pc' = [pc EXCEPT ![c] = "check"]
  /\ UNCHANGED <<gatewayVars, from, requestVars, dbVars, faults>>

\* get() takes a read lock of the page (external).
BeginGet(c) ==
  /\ pc[c] = "check"
  /\ lock = NONE
  /\ readers' = readers \cup {c}
  /\ pc' = [pc EXCEPT ![c] = "get"]
  /\ UNCHANGED <<gatewayVars, from, requestVars, accounts, lock, told, faults>>

\* Mutant of EndGet: the strcmp() is not looked at.
EndGetNameOnly(c) ==
  /\ pc[c] = "get"
  /\ readers' = readers \ {c}
  /\ IF Named(buf[c].user) # {} THEN Report(c, "welcome", "playing")
                                ELSE Report(c, "denied", "exited")
  /\ UNCHANGED <<gatewayVars, from, requestVars, accounts, lock, faults>>

\* get() returns, without its lock, and user_is_valid() compares.
EndGet(c) ==
  /\ pc[c] = "get"
  /\ readers' = readers \ {c}
  /\ IF buf[c] \in accounts THEN Report(c, "welcome", "playing")
                            ELSE Report(c, "denied", "exited")
  /\ UNCHANGED <<gatewayVars, from, requestVars, accounts, lock, faults>>

\* crypt() gives NULL for the password of a user that get() has found, and
\* strcmp() reads it; or the client is killed there, after get().
CryptFails(c) ==
  /\ pc[c] = "get"
  /\ Named(buf[c].user) # {}
  /\ Fault
  /\ readers' = readers \ {c}
  /\ pc' = [pc EXCEPT ![c] = "exited"]
  /\ UNCHANGED <<gatewayVars, from, requestVars, accounts, lock, told>>

\* put() or get() fails for another reason than the record.
DbFails(c) ==
  /\ Fault
  /\ \/ /\ pc[c] = "put"
        /\ lock' = NONE
        /\ Report(c, "refused", "exited")
        /\ UNCHANGED readers
     \/ /\ pc[c] = "get"
        /\ readers' = readers \ {c}
        /\ Report(c, "denied", "exited")
        /\ UNCHANGED lock
  /\ UNCHANGED <<gatewayVars, from, requestVars, accounts>>

\* A process is killed.  The environment is opened without recovery, so that
\* nobody ever releases a lock it had in put() or in get().
Killed(c) ==
  /\ Alive(c) /\ pc[c] # "playing"
  /\ Fault
  /\ pc' = [pc EXCEPT ![c] = "exited"]
  /\ UNCHANGED <<gatewayVars, from, requestVars, dbVars>>

\* The game is over (Session).
Leave(c) ==
  /\ pc[c] = "playing"
  /\ pc' = [pc EXCEPT ![c] = "exited"]
  /\ UNCHANGED <<gatewayVars, from, requestVars, dbVars, faults>>

-----------------------------------------------------------------------------
Child(c) == ReadByte(c) \/ ReadChars(c) \/ ReadFails(c) \/ Exec(c)

Client(c) ==
  \/ RefuseReserved(c) \/ BeginPut(c) \/ EndPut(c) \/ AnswerRegistered(c)
  \/ InitDb(c) \/ BeginGet(c) \/ EndGet(c)

Next ==
  \/ Listen \/ GatewayEnds
  \/ \E c \in Conns :
       \/ Accept(c) \/ ForkFails(c)
       \/ Connect(c) \/ SendSegment(c) \/ HangUp(c)
       \/ Child(c) \/ Client(c) \/ Leave(c)
       \/ InitFails(c) \/ SaltFails(c) \/ CryptFails(c) \/ DbFails(c)
       \/ Killed(c)

\* supervisord starts the gateway again (exit code 1 is unexpected to it);
\* running processes are scheduled, and a lock that is free again and again is
\* granted in the end.  No user is obliged to send, to hang up or to end a game.
Fairness ==
  /\ WF_vars(Listen)
  /\ \A c \in Conns : WF_vars(Accept(c)) /\ WF_vars(Child(c)) /\ SF_vars(Client(c))

Spec == Init /\ [][Next]_vars /\ Fairness

-----------------------------------------------------------------------------
Strings == Seq(Chars \cup {GARBAGE})

TypeOK ==
  /\ up \in BOOLEAN /\ gateway \in 0 .. MaxGateways
  /\ pc \in [Conns -> Places]
  /\ from \in [Conns -> 0 .. MaxGateways]
  /\ request \in [Conns -> Requests]
  /\ sent \in [Conns -> Nat] /\ got \in [Conns -> Nat]
  /\ buf \in [Conns -> [user: Strings, pass: Strings]]
  /\ \A c \in Conns : /\ got[c] <= sent[c] /\ sent[c] <= Total(request[c])
                      /\ Len(buf[c].user) <= Len(request[c].user)
                      /\ Len(buf[c].pass) <= Len(request[c].pass)
  /\ hungup \in [Conns -> {"no", "closed", "reset"}]
  /\ accounts \subseteq [user: Seq(Chars), pass: Seq(Chars)]
  /\ lock \in Conns \cup {NONE} /\ readers \subseteq Conns
  /\ told \in [Conns -> Answers \cup {"none"}]
  /\ faults \in 0 .. MaxFaults

\* Of several clients that register a name, at the same time or one after the
\* other, at most one is told of a success; and whoever was told so, or was let
\* in, has an account with its own password, whatever was killed meanwhile.
AnswersAreTrue ==
  \A c \in Conns :
    /\ told[c] \in {"registered", "welcome"} => buf[c] \in accounts
    /\ told[c] = "registered" =>
         \A d \in Conns \ {c} :
           told[d] = "registered" => buf[d].user # buf[c].user

\* Nobody plays under a name that nobody was, or is about to be, told to have
\* registered with that password.
PlayersRegistered ==
  \A c \in Conns :
    pc[c] = "playing" =>
      \E d \in Conns : /\ request[d].cmd = "REGISTER"
                       /\ buf[d] = buf[c]
                       /\ told[d] \in {"registered", "none"}

\* The lock of the page is held by a process that was killed in put() or in
\* get().  A dead read lock stops the clients in register_user(), and behind
\* the first of them the ones in user_is_valid() too.
LockIsDead ==
  \/ lock # NONE /\ pc[lock] = "exited" /\ told[lock] = "none"
  \/ \E c \in readers : pc[c] = "exited"

\* The connection is over: its process has ended, or nobody has the socket
\* any more in which it waited to be accepted.
Ended(c) == pc[c] = "exited" \/ (pc[c] = "queued" /\ ~Open(from[c]))

\* The child waits for its user: to send more, to end the game, or, at the end
\* of file in the middle of a string, for nothing at all.
AwaitsUser(d) ==
  \/ pc[d] = "playing"
  \/ /\ Reads(d) /\ got[d] = sent[d]
     /\ hungup[d] = "no" \/ (hungup[d] = "closed" /\ Field(d) # "none")

\* The connection waits in the socket of a gateway that has ended, in which
\* nobody accepts, but which a child of that gateway keeps open.
Stranded(c) ==
  /\ pc[c] = "queued" /\ ~Queued(c)
  /\ \E d \in Conns : Alive(d) /\ from[d] = from[c] /\ AwaitsUser(d)

\* A request that has arrived is answered, or its connection ends, whatever the
\* other users do or leave undone, and although gateways end.  The exceptions
\* are the connection of a failed fork(), which the gateway leaves open; a lock
\* whose holder was killed in put() or get(); and a connection in the socket
\* of a gateway that has ended, for as long as a child of that one waits for its
\* user.
RequestIsAnswered ==
  \A c \in Conns :
    (pc[c] = "queued" \/ Alive(c)) /\ sent[c] = Total(request[c]) ~>
      \/ told[c] # "none" \/ Ended(c) \/ pc[c] = "leaked" \/ LockIsDead
      \/ []Stranded(c)

\* A process whose user has hung up ends, unless it plays (see Session), spins
\* in the middle of a string, or waits for a dead lock.
HangUpEnds ==
  \A c \in Conns :
    Alive(c) /\ hungup[c] # "no" ~>
      \/ ~Alive(c) \/ pc[c] = "playing" \/ LockIsDead
      \/ hungup[c] = "closed" /\ pc[c] = "read" /\ Field(c) # "none"

\* doc/api.txt:111-112: "A string contains a byte for the length of the string,
\* followed by that many characters representing the string itself", over "a
\* reliable 8-bit byte stream" (:12).  What the code does: a string that comes
\* in two segments loses its first chars, since each read() writes to dst.
StringsArriveWhole ==
  \A c \in Conns :
    pc[c] \in {"exec", "check", "get", "put", "answer", "playing"} =>
      buf[c] = [user |-> request[c].user, pass |-> request[c].pass]
=============================================================================
