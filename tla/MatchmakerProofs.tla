-------------------------- MODULE MatchmakerProofs --------------------------
(***************************************************************************)
(* Proofs about Matchmaker, for any set of clients and any bounds: types,  *)
(* the daemon's descriptors, the pairs it makes, the clients it answers    *)
(* for, and that each of its rounds is a Pairing.                          *)
(***************************************************************************)
EXTENDS Matchmaker, TLAPS

-----------------------------------------------------------------------------
(* Queues. *)

\* What accept() takes from a queue is its head, and the rest stays.
LEMMA QueueHead ==
  ASSUME NEW S, NEW q \in Seq(S), q # <<>>
  PROVE  /\ Head(q) \in S
         /\ Tail(q) \in Seq(S)
         /\ Range(q) = {Head(q)} \cup Range(Tail(q))
<1>1. Head(q) \in S /\ Tail(q) \in Seq(S) /\ Len(q) \in Nat \ {0}
  OBVIOUS
<1>2. /\ Len(Tail(q)) = Len(q) - 1 /\ Head(q) = q[1]
      /\ DOMAIN q = 1 .. Len(q) /\ DOMAIN Tail(q) = 1 .. Len(q) - 1
      /\ \A i \in 1 .. Len(q) - 1 : Tail(q)[i] = q[i + 1]
  OBVIOUS
<1>3. ASSUME NEW x \in Range(q) PROVE x \in {Head(q)} \cup Range(Tail(q))
  <2>1. PICK i \in 1 .. Len(q) : x = q[i]
    BY <1>2, <1>3 DEF Range
  <2>2. CASE i = 1
    BY <1>2, <2>1, <2>2
  <2>3. CASE i # 1
    <3>1. i - 1 \in 1 .. Len(q) - 1 /\ Tail(q)[i - 1] = x
      BY <1>1, <1>2, <2>1, <2>3
    <3> QED
      BY <1>2, <3>1 DEF Range
  <2> QED
    BY <2>2, <2>3
<1>4. ASSUME NEW x \in {Head(q)} \cup Range(Tail(q)) PROVE x \in Range(q)
  <2>1. CASE x = Head(q)
    BY <1>1, <1>2, <2>1 DEF Range
  <2>2. CASE x \in Range(Tail(q))
    <3>1. PICK i \in 1 .. Len(q) - 1 : x = Tail(q)[i]
      BY <1>2, <2>2 DEF Range
    <3>2. i + 1 \in 1 .. Len(q) /\ x = q[i + 1]
      BY <1>1, <1>2, <3>1
    <3> QED
      BY <1>2, <3>2 DEF Range
  <2> QED
    BY <1>4, <2>1, <2>2
<1> QED
  BY <1>1, <1>3, <1>4

\* What connect() adds to a queue is in it, and nothing is lost.
LEMMA QueueAppend ==
  ASSUME NEW S, NEW q \in Seq(S), NEW x \in S
  PROVE  /\ Append(q, x) \in Seq(S)
         /\ Range(q) \cup {x} \subseteq Range(Append(q, x))
<1>1. /\ Append(q, x) \in Seq(S)
      /\ DOMAIN Append(q, x) = 1 .. Len(q) + 1 /\ DOMAIN q = 1 .. Len(q)
      /\ Append(q, x)[Len(q) + 1] = x
      /\ \A i \in 1 .. Len(q) : Append(q, x)[i] = q[i]
      /\ Len(q) \in Nat
  OBVIOUS
<1>2. x \in Range(Append(q, x))
  BY <1>1 DEF Range
<1>3. ASSUME NEW y \in Range(q) PROVE y \in Range(Append(q, x))
  <2>1. PICK i \in 1 .. Len(q) : y = q[i]
    BY <1>1, <1>3 DEF Range
  <2>2. i \in 1 .. Len(q) + 1 /\ Append(q, x)[i] = y
    BY <1>1, <2>1
  <2> QED
    BY <1>1, <2>2 DEF Range
<1> QED
  BY <1>1, <1>2, <1>3

-----------------------------------------------------------------------------
(* Types. *)

\* The types hold before the daemon is started.
LEMMA InitTypeOK == Init => TypeOK
<1> SUFFICES ASSUME Init PROVE TypeOK
  OBVIOUS
<1>1. <<>> \in Seq(Clients)
  OBVIOUS
<1>2. /\ client \in [Clients -> {"idle", "waiting", "playing", "exited"}]
      /\ conn \in [Clients -> {"none", "open", "closed"}]
      /\ grant \in [Clients -> Grants \cup {NONE}]
  BY DEF Init
<1>3. faults \in 0 .. MaxFaults /\ round \in Nat
  BY FaultsAssumption DEF Init
<1> QED
  BY <1>1, <1>2, <1>3 DEF Init, TypeOK, Places

\* What sendfds() is given is a grant.
LEMMA GrantType ==
  ASSUME NEW n \in Nat, NEW j \in {1, 2}, NEW k \in {1, 2}, NEW i \in {0, 1}
  PROVE  [read |-> <<n, j>>, write |-> <<n, k>>, id |-> i] \in Grants
  BY DEF Grants, Pipes

\* No step of the daemon, of a client or of a fault leaves the types.
LEMMA NextTypeOK == TypeOK /\ [Next]_vars => TypeOK'
<1> SUFFICES ASSUME TypeOK, [Next]_vars PROVE TypeOK'
  OBVIOUS
<1> USE FaultsAssumption
<1>1. CASE Start
  BY <1>1 DEF Start, clientVars, TypeOK, Places
<1>2. CASE OpenPipe1 \/ OpenPipe2
  <2>1. fds' \in SUBSET Pipes
    BY <1>2 DEF OpenPipe1, OpenPipe2, TypeOK, Pipes
  <2> QED
    BY <1>2, <2>1 DEF OpenPipe1, OpenPipe2, clientVars, TypeOK, Places
<1>3. CASE Pipe1Fails \/ Pipe2Fails
  BY <1>3 DEF Pipe1Fails, Pipe2Fails, daemonVars, clientVars, TypeOK, Places
<1>4. CASE Accept1
  BY <1>4, QueueHead DEF Accept1, clientVars, TypeOK, Places
<1>5. CASE Accept2
  BY <1>5, QueueHead DEF Accept2, clientVars, TypeOK, Places
<1>6. ASSUME AcceptFails
      PROVE  /\ faults' \in 0 .. MaxFaults /\ backlog' \in Seq(Clients)
             /\ conn' \in [Clients -> {"none", "open", "closed"}]
  BY <1>6, QueueHead DEF AcceptFails, TypeOK
<1>7. CASE Accept1Fails
  BY <1>6, <1>7 DEF Accept1Fails, daemonVars, TypeOK
<1>8. CASE Accept2Fails
  BY <1>6, <1>8 DEF Accept2Fails, TypeOK, Places
<1>9. CASE Send1
  <2>1. [read |-> <<round, 1>>, write |-> <<round, 2>>, id |-> id1] \in Grants
    BY GrantType DEF TypeOK
  <2>2. grant' \in [Clients -> Grants \cup {NONE}]
    BY <1>9, <2>1 DEF Send1, TypeOK
  <2> QED
    BY <1>9, <2>2 DEF Send1, TypeOK, Places
<1>10. CASE Send1Fails
  BY <1>10 DEF Send1Fails, Closed, TypeOK, Places
<1>11. CASE Send2
  <2>1. 1 - id1 \in {0, 1}
    BY DEF TypeOK
  <2>2. [read |-> <<round, 2>>, write |-> <<round, 1>>, id |-> 1 - id1] \in Grants
    BY <2>1, GrantType DEF TypeOK
  <2>3. grant' \in [Clients -> Grants \cup {NONE}]
    BY <1>11, <2>2 DEF Send2, TypeOK
  <2> QED
    BY <1>11, <2>3 DEF Send2, TypeOK, Places
<1>12. CASE CloseAll
  BY <1>12 DEF CloseAll, Closed, TypeOK, Places
<1>13. CASE Crash
  <2>1. <<>> \in Seq(Clients)
    OBVIOUS
  <2> QED
    BY <1>13, <2>1 DEF Crash, TypeOK, Places
<1>14. ASSUME NEW c \in Clients, Connect(c) PROVE TypeOK'
  BY <1>14, QueueAppend DEF Connect, daemonVars, TypeOK
<1>15. ASSUME NEW c \in Clients, Receive(c) \/ RecvEof(c) \/ Exit(c)
       PROVE  TypeOK'
  BY <1>15 DEF Receive, RecvEof, Exit, daemonVars, TypeOK
<1>16. ASSUME NEW c \in Clients, HangUp(c) PROVE TypeOK'
  BY <1>16 DEF HangUp, daemonVars, TypeOK
<1>17. CASE UNCHANGED vars
  BY <1>17 DEF vars, daemonVars, clientVars, TypeOK
<1> QED
  BY <1>1, <1>2, <1>3, <1>4, <1>5, <1>7, <1>8, <1>9, <1>10, <1>11, <1>12,
     <1>13, <1>14, <1>15, <1>16, <1>17
  DEF Next, Daemon, Fault

\* Type correctness: ids stay in {0, 1} and grants name pipes, over any number
\* of rounds, faults and restarts.
THEOREM TypeCorrect == Spec => []TypeOK
  BY InitTypeOK, NextTypeOK, PTL DEF Spec
-----------------------------------------------------------------------------
\* The pipes need no strengthening: every step that leaves "top" or comes back
\* to it opens or closes exactly the ones of the round.
THEOREM PipesAreHeld == Spec => []PipesHeld
<1>1. Init => PipesHeld
  BY DEF Init, PipesHeld
<1>2. TypeOK /\ PipesHeld /\ [Next]_vars => PipesHeld'
  <2> SUFFICES ASSUME TypeOK, PipesHeld, [Next]_vars
               PROVE  PipesHeld'
    OBVIOUS
  <2>1. CASE Start
    BY <2>1 DEF Start, PipesHeld
  <2>2. CASE OpenPipe1 \/ OpenPipe2 \/ Pipe2Fails
    BY <2>2 DEF OpenPipe1, OpenPipe2, Pipe2Fails, PipesHeld
  <2>3. CASE Accept1 \/ Accept2 \/ Send1 \/ Send1Fails \/ Send2
    BY <2>3 DEF Accept1, Accept2, Send1, Send1Fails, Send2, PipesHeld
  <2>4. CASE Accept2Fails
    BY <2>4 DEF Accept2Fails, PipesHeld
  <2>5. CASE CloseAll \/ Crash
    BY <2>5 DEF CloseAll, Crash, PipesHeld
  <2>6. CASE UNCHANGED <<dpc, fds, round>>
    BY <2>6 DEF PipesHeld
  <2> QED
    BY <2>1, <2>2, <2>3, <2>4, <2>5, <2>6
    DEF Next, Daemon, Fault, Pipe1Fails, Accept1Fails, Connect, Receive,
        RecvEof, Exit, HangUp, vars, daemonVars
<1> QED
  BY <1>1, <1>2, TypeCorrect, PTL DEF Spec

-----------------------------------------------------------------------------
(* Pairs.  What makes them proper is that a round number is used for one   *)
(* pair of grants only: until both are made, the first is the only one.    *)

\* Whether c's grant is end j of round n: pipe j to read, the other to write.
End(c, n, j) ==
  grant[c].read = <<n, j>> /\ grant[c].write = <<n, 3 - j>>

Granted == {c \in Clients : grant[c] # NONE}

GrantsAreEnds ==
  \A c \in Granted : \E n \in 0 .. round, j \in {1, 2} : End(c, n, j)

RoundIsFresh ==
  dpc \in {"accept1", "accept2", "send1"} =>
    \A c \in Granted : grant[c].read[1] # round

FirstOfRound ==
  dpc = "send2" =>
    \A c \in Granted :
      grant[c].read[1] = round => End(c, round, 1) /\ c = p1 /\ grant[c].id = id1

PairInv == GrantsAreEnds /\ RoundIsFresh /\ FirstOfRound /\ ProperPairs
\* A step that makes no grant and uses the round number for none.
LEMMA NoNewGrant ==
  ASSUME TypeOK, TypeOK', PairInv, UNCHANGED grant,
         \/ round' = round + 1
         \/ /\ round' = round
            /\ dpc' \in {"accept1", "accept2", "send1"} =>
                 dpc \in {"accept1", "accept2", "send1"}
            /\ dpc' = "send2" => dpc = "send2" /\ p1' = p1 /\ id1' = id1,
         round' = round + 1 => dpc' # "send2"
  PROVE  PairInv'
<1>1. Granted' = Granted /\ round \in Nat
  BY DEF Granted, TypeOK
<1>2. GrantsAreEnds'
  <2> SUFFICES ASSUME NEW c \in Granted
               PROVE  \E n \in 0 .. round', j \in {1, 2} : End(c, n, j)'
    BY <1>1 DEF GrantsAreEnds
  <2>1. PICK n \in 0 .. round, j \in {1, 2} : End(c, n, j)
    BY DEF PairInv, GrantsAreEnds
  <2>2. n \in 0 .. round' /\ End(c, n, j)'
    BY <1>1, <2>1 DEF End
  <2> QED
    BY <2>2
<1>3. RoundIsFresh'
  <2>1. CASE round' = round + 1
    <3>1. \A c \in Granted : grant[c].read[1] \in 0 .. round
      BY DEF PairInv, GrantsAreEnds, End
    <3> QED
      BY <1>1, <2>1, <3>1 DEF RoundIsFresh
  <2>2. CASE round' = round
    BY <1>1, <2>2 DEF PairInv, RoundIsFresh
  <2> QED
    BY <2>1, <2>2
<1>4. FirstOfRound'
  <2> SUFFICES ASSUME dpc' = "send2" PROVE FirstOfRound'
    BY DEF FirstOfRound
  <2>1. dpc = "send2" /\ p1' = p1 /\ id1' = id1 /\ round' = round
    OBVIOUS
  <2> QED
    BY <1>1, <2>1 DEF PairInv, FirstOfRound, End
<1>5. ProperPairs'
  BY DEF PairInv, ProperPairs
<1> QED
  BY <1>2, <1>3, <1>4, <1>5 DEF PairInv

\* A step that makes a grant of the current round to x, the first (j = 1) or
\* the one that completes the pair (j = 2).
LEMMA NewGrant ==
  ASSUME TypeOK, TypeOK', PairInv, NEW x \in Clients, NEW j \in {1, 2},
         NEW i \in {0, 1}, round \in Nat, UNCHANGED round,
         grant' = [grant EXCEPT ![x] =
           [read |-> <<round, j>>, write |-> <<round, 3 - j>>, id |-> i]],
         \A c \in Granted :
           grant[c].read[1] = round =>
             c = x \/ (End(c, round, 3 - j) /\ grant[c].id # i)
  PROVE  GrantsAreEnds' /\ ProperPairs'
<1>1. /\ grant'[x].read = <<round, j>> /\ grant'[x].write = <<round, 3 - j>>
      /\ grant'[x].id = i
      /\ \A c \in Clients \ {x} : grant'[c] = grant[c]
  BY DEF TypeOK
<1>2. End(x, round, j)'
  BY <1>1 DEF End
<1>3. ASSUME NEW c \in Granted' \ {x}
      PROVE  /\ c \in Granted
             /\ \E n \in 0 .. round, k \in {1, 2} :
                  /\ End(c, n, k) /\ End(c, n, k)'
                  /\ n = round => k = 3 - j /\ grant'[c].id # i
  <2>1. c \in Granted /\ c \in Clients \ {x} /\ grant'[c] = grant[c]
    BY <1>1 DEF Granted
  <2>2. PICK n \in 0 .. round, k \in {1, 2} : End(c, n, k)
    BY <2>1 DEF PairInv, GrantsAreEnds
  <2>3. End(c, n, k)'
    BY <2>1, <2>2 DEF End
  <2>4. n = round => k = 3 - j /\ grant'[c].id # i
    BY <2>1, <2>2 DEF End
  <2> QED
    BY <2>1, <2>2, <2>3, <2>4
<1>4. GrantsAreEnds'
  <2> SUFFICES ASSUME NEW c \in Granted'
               PROVE  \E n \in 0 .. round, k \in {1, 2} : End(c, n, k)'
    BY DEF GrantsAreEnds
  <2>1. CASE c = x
    BY <1>2, <2>1
  <2>2. CASE c # x
    BY <1>3, <2>2
  <2> QED
    BY <2>1, <2>2
<1>5. ProperPairs'
  <2> SUFFICES ASSUME NEW c \in Granted', NEW d \in Granted', c # d
               PROVE  /\ grant'[c].read # grant'[d].read
                      /\ grant'[c].write # grant'[d].write
                      /\ grant'[c].read = grant'[d].write <=>
                           grant'[d].read = grant'[c].write
                      /\ grant'[c].read = grant'[d].write =>
                           grant'[c].id # grant'[d].id
    BY DEF ProperPairs, Granted
  <2>1. CASE c # x /\ d # x
    <3>1. c \in Granted /\ d \in Granted /\ grant'[c] = grant[c] /\ grant'[d] = grant[d]
      BY <1>1, <1>3, <2>1 DEF Granted
    <3> QED
      BY <3>1 DEF PairInv, ProperPairs, Granted
  <2>2. CASE c = x
    <3>1. PICK n \in 0 .. round, k \in {1, 2} :
            End(d, n, k)' /\ (n = round => k = 3 - j /\ grant'[d].id # i)
      BY <1>3, <2>2
    <3> QED
      BY <1>1, <2>2, <3>1 DEF End
  <2>3. CASE d = x
    <3>1. PICK n \in 0 .. round, k \in {1, 2} :
            End(c, n, k)' /\ (n = round => k = 3 - j /\ grant'[c].id # i)
      BY <1>3, <2>3
    <3> QED
      BY <1>1, <2>3, <3>1 DEF End
  <2> QED
    BY <2>1, <2>2, <2>3
<1> QED
  BY <1>4, <1>5
\* Every step keeps the rounds apart: only the two sendfds() make grants.
LEMMA NextPairInv == TypeOK /\ TypeOK' /\ PairInv /\ [Next]_vars => PairInv'
<1> SUFFICES ASSUME TypeOK, TypeOK', PairInv, [Next]_vars PROVE PairInv'
  OBVIOUS
<1>1. CASE \/ Start \/ OpenPipe1 \/ OpenPipe2 \/ Accept1 \/ Accept2
           \/ Send1Fails \/ CloseAll
  BY <1>1, NoNewGrant
  DEF Start, OpenPipe1, OpenPipe2, Accept1, Accept2, Send1Fails, CloseAll, clientVars
<1>2. CASE Pipe2Fails \/ Accept2Fails \/ Crash
  BY <1>2, NoNewGrant DEF Pipe2Fails, Accept2Fails, Crash, clientVars
<1>3. CASE UNCHANGED <<grant, round, dpc, p1, id1>>
  BY <1>3, NoNewGrant DEF TypeOK
<1>4. CASE Send1
  <2>1. /\ p1 \in Clients /\ round \in Nat /\ id1 \in {0, 1}
        /\ grant' = [grant EXCEPT ![p1] =
             [read |-> <<round, 1>>, write |-> <<round, 3 - 1>>, id |-> id1]]
        /\ UNCHANGED <<round, p1, id1>> /\ dpc' = "send2"
    BY <1>4 DEF Send1, CanSend, TypeOK
  <2>2. \A c \in Granted : grant[c].read[1] # round
    BY <1>4 DEF Send1, PairInv, RoundIsFresh
  <2>3. GrantsAreEnds' /\ ProperPairs'
    BY <2>1, <2>2, NewGrant
  <2>4. RoundIsFresh'
    BY <2>1 DEF RoundIsFresh
  <2>5. FirstOfRound'
    <3> SUFFICES ASSUME NEW c \in Granted', grant'[c].read[1] = round
                 PROVE  End(c, round, 1)' /\ c = p1 /\ grant'[c].id = id1
      BY <2>1 DEF FirstOfRound, End
    <3>1. c = p1
      <4> SUFFICES ASSUME c # p1 PROVE FALSE
        OBVIOUS
      <4>1. c \in Granted /\ grant'[c] = grant[c]
        BY <2>1 DEF Granted, TypeOK
      <4> QED
        BY <2>2, <4>1
    <3> QED
      BY <2>1, <3>1 DEF End, TypeOK
  <2> QED
    BY <2>3, <2>4, <2>5 DEF PairInv
<1>5. CASE Send2
  <2>1. /\ round \in Nat /\ 1 - id1 \in {0, 1} /\ 1 - id1 # id1
        /\ UNCHANGED <<round, p1, id1>> /\ dpc' = "close"
    BY <1>5 DEF Send2, TypeOK
  <2>2. GrantsAreEnds' /\ ProperPairs'
    <3>1. CASE CanSend(p2)
      <4>1. /\ p2 \in Clients
            /\ grant' = [grant EXCEPT ![p2] =
                 [read |-> <<round, 2>>, write |-> <<round, 3 - 2>>,
                  id |-> 1 - id1]]
        BY <1>5, <3>1 DEF Send2, CanSend, TypeOK
      <4>2. \A c \in Granted :
              grant[c].read[1] = round =>
                End(c, round, 3 - 2) /\ grant[c].id # 1 - id1
        BY <1>5, <2>1 DEF Send2, PairInv, FirstOfRound
      <4> QED
        BY <2>1, <4>1, <4>2, NewGrant
    <3>2. CASE ~CanSend(p2)
      <4>1. UNCHANGED grant
        BY <1>5, <3>2 DEF Send2
      <4> QED
        BY <2>1, <4>1, NoNewGrant DEF PairInv
    <3> QED
      BY <3>1, <3>2
  <2>3. RoundIsFresh' /\ FirstOfRound'
    BY <2>1 DEF RoundIsFresh, FirstOfRound
  <2> QED
    BY <2>2, <2>3 DEF PairInv
<1> QED
  BY <1>1, <1>2, <1>3, <1>4, <1>5
  DEF Next, Daemon, Fault, Pipe1Fails, Accept1Fails, Connect, Receive,
      RecvEof, Exit, HangUp, vars, daemonVars, clientVars

\* The rounds stay apart for ever.
THEOREM PairInvariant == Spec => []PairInv
<1>1. Init => PairInv
  BY DEF Init, PairInv, GrantsAreEnds, RoundIsFresh, FirstOfRound,
         ProperPairs, Granted
<1> QED
  BY <1>1, NextPairInv, TypeCorrect, PTL DEF Spec

\* Two clients never share an end of a pipe, and two that are joined by the
\* pipes they hold are one white and one black: over any number of rounds,
\* players that vanish, failing system calls and restarts of the daemon.
THEOREM PairsAreProper == Spec => []ProperPairs
<1>1. PairInv => ProperPairs
  BY DEF PairInv
<1> QED
  BY <1>1, PairInvariant, PTL

-----------------------------------------------------------------------------
(* The clients that wait.  A hand of the daemon is empty when it is about  *)
(* to take somebody with it: no accept() overwrites a connection.          *)

EmptyHands ==
  /\ dpc \in {"down", "top", "pipe2", "accept1"} => p1 = NONE
  /\ dpc \in {"down", "top", "pipe2", "accept1", "accept2"} => p2 = NONE

WaitersConnected ==
  \A c \in Clients : client[c] = "waiting" => conn[c] # "none"

WaitInv == EmptyHands /\ WaitersConnected /\ NobodyForgotten

\* Where a client waits that is not forgotten.
Minded(c) ==
  \/ c \in Range(backlog)
  \/ c \in {p1, p2} /\ dpc # "down"
  \/ grant[c] # NONE
  \/ conn[c] = "closed"

\* Every step leaves each waiting client with somebody or something to
\* answer it.
LEMMA NextWaitInv == TypeOK /\ WaitInv /\ [Next]_vars => WaitInv'
<1> SUFFICES ASSUME TypeOK, WaitInv, [Next]_vars PROVE WaitInv'
  OBVIOUS
<1>0. /\ \A c \in Clients : client[c] = "waiting" => Minded(c) /\ conn[c] # "none"
      /\ NONE \notin Clients /\ EmptyHands
  BY NoneAssumption DEF WaitInv, WaitersConnected, NobodyForgotten, Minded
<1> SUFFICES /\ EmptyHands'
             /\ \A c \in Clients :
                  client'[c] = "waiting" => Minded(c)' /\ conn'[c] # "none"
  BY DEF WaitInv, WaitersConnected, NobodyForgotten, Minded
<1>1. CASE Start
  BY <1>0, <1>1 DEF Start, clientVars, EmptyHands, Minded
<1>2. CASE OpenPipe1 \/ OpenPipe2
  BY <1>0, <1>2 DEF OpenPipe1, OpenPipe2, clientVars, EmptyHands, Minded
<1>3. CASE Pipe1Fails \/ Pipe2Fails
  BY <1>0, <1>3 DEF Pipe1Fails, Pipe2Fails, daemonVars, clientVars, EmptyHands, Minded
<1>4. CASE Accept1
  <2>1. Range(backlog) = {p1'} \cup Range(backlog')
    BY <1>4, QueueHead DEF Accept1, TypeOK
  <2> QED
    BY <1>0, <1>4, <2>1 DEF Accept1, clientVars, EmptyHands, Minded
<1>5. CASE Accept2
  <2>1. Range(backlog) = {p2'} \cup Range(backlog')
    BY <1>5, QueueHead DEF Accept2, TypeOK
  <2> QED
    BY <1>0, <1>5, <2>1 DEF Accept2, clientVars, EmptyHands, Minded
<1>6. ASSUME AcceptFails, NEW c \in Clients
      PROVE  /\ c \in Range(backlog) => c \in Range(backlog') \/ conn'[c] = "closed"
             /\ conn'[c] \in {conn[c], "closed"}
  <2>1. CASE UNCHANGED <<backlog, conn>>
    BY <2>1
  <2>2. CASE /\ backlog # <<>>
             /\ backlog' = Tail(backlog)
             /\ conn' = [conn EXCEPT ![Head(backlog)] = "closed"]
    <3>1. /\ Range(backlog) = {Head(backlog)} \cup Range(backlog')
          /\ Head(backlog) \in Clients
      BY <2>2, QueueHead DEF TypeOK
    <3> QED
      BY <2>2, <3>1 DEF TypeOK
  <2> QED
    BY <1>6, <2>1, <2>2 DEF AcceptFails
<1>7. CASE Accept1Fails
  BY <1>0, <1>6, <1>7 DEF Accept1Fails, daemonVars, EmptyHands, Minded
<1>8. CASE Accept2Fails
  BY <1>0, <1>6, <1>8 DEF Accept2Fails, EmptyHands, Minded
<1>9. CASE Send1
  <2>1. \A c \in Clients : grant[c] # NONE \/ c = p1 => grant'[c] # NONE \/ c = p1
    BY <1>9 DEF Send1, TypeOK
  <2> QED
    BY <1>0, <1>9, <2>1 DEF Send1, EmptyHands, Minded, TypeOK
<1>10. CASE Send1Fails
  BY <1>0, <1>10 DEF Send1Fails, Closed, EmptyHands, Minded
<1>11. CASE Send2
  BY <1>0, <1>11 DEF Send2, EmptyHands, Minded, TypeOK
<1>12. CASE CloseAll
  BY <1>0, <1>12 DEF CloseAll, Closed, EmptyHands, Minded
<1>13. CASE Crash
  BY <1>0, <1>13 DEF Crash, EmptyHands, Minded, TypeOK
<1>14. ASSUME NEW d \in Clients, Connect(d)
       PROVE  /\ EmptyHands'
              /\ \A c \in Clients :
                   client'[c] = "waiting" => Minded(c)' /\ conn'[c] # "none"
  <2>1. Range(backlog) \cup {d} \subseteq Range(Append(backlog, d))
    BY QueueAppend DEF TypeOK
  <2> QED
    BY <1>0, <1>14, <2>1 DEF Connect, daemonVars, EmptyHands, Minded, TypeOK
<1>15. ASSUME NEW d \in Clients, Receive(d) \/ RecvEof(d) \/ Exit(d)
       PROVE  /\ EmptyHands'
              /\ \A c \in Clients :
                   client'[c] = "waiting" => Minded(c)' /\ conn'[c] # "none"
  BY <1>0, <1>15 DEF Receive, RecvEof, Exit, daemonVars, EmptyHands, Minded, TypeOK
<1>16. CASE (\E d \in Clients : HangUp(d)) \/ UNCHANGED vars
  BY <1>0, <1>16
  DEF HangUp, vars, daemonVars, clientVars, EmptyHands, Minded
<1> QED
  BY <1>1, <1>2, <1>3, <1>4, <1>5, <1>7, <1>8, <1>9, <1>10, <1>11, <1>12,
     <1>13, <1>14, <1>15, <1>16
  DEF Next, Daemon, Fault

\* From the first connection on somebody, or something, will answer each
\* waiting client, and no hand of the daemon is full when it takes a client.
THEOREM WaitInvariant == Spec => []WaitInv
<1>1. Init => WaitInv
  BY DEF Init, WaitInv, EmptyHands, WaitersConnected, NobodyForgotten
<1> QED
  BY <1>1, NextWaitInv, TypeCorrect, PTL DEF Spec

\* accept() puts its connection into an empty hand, and what leaves a hand is
\* closed: so no connection is open that is nowhere.
THEOREM NoLeak == Spec => []NoDescriptorLeak
<1>1. Init => ConnectionsHeld
  BY DEF Init, ConnectionsHeld
<1>2. TypeOK /\ WaitInv /\ ConnectionsHeld /\ [Next]_vars => ConnectionsHeld'
  <2> SUFFICES ASSUME TypeOK, EmptyHands, ConnectionsHeld, [Next]_vars,
                      NEW c \in Clients, conn'[c] = "open"
               PROVE  c \in Range(backlog') \cup {p1', p2'}
    BY DEF WaitInv, ConnectionsHeld
  <2> NONE \notin Clients
    BY NoneAssumption
  <2>1. ASSUME conn[c] = "open" PROVE c \in Range(backlog) \cup {p1, p2}
    BY <2>1 DEF ConnectionsHeld
  <2>2. CASE UNCHANGED <<backlog, conn, p1, p2>>
    BY <2>1, <2>2
  <2>3. CASE Accept1 \/ Accept2
    <3>1. Range(backlog) = {Head(backlog)} \cup Range(Tail(backlog))
      BY <2>3, QueueHead DEF Accept1, Accept2, TypeOK
    <3> QED
      BY <2>1, <2>3, <3>1 DEF Accept1, Accept2, clientVars, EmptyHands
  <2>4. CASE AcceptFails /\ p1' = p1 /\ (p2' = p2 \/ p2 = NONE)
    <3>1. CASE UNCHANGED <<backlog, conn>>
      BY <2>1, <2>4, <3>1
    <3>2. CASE /\ backlog # <<>>
               /\ backlog' = Tail(backlog)
               /\ conn' = [conn EXCEPT ![Head(backlog)] = "closed"]
      <4>1. Range(backlog) = {Head(backlog)} \cup Range(Tail(backlog))
        BY <3>2, QueueHead DEF TypeOK
      <4> QED
        BY <2>1, <2>4, <3>2, <4>1 DEF TypeOK
    <3> QED
      BY <2>4, <3>1, <3>2 DEF AcceptFails
  <2>5. CASE Send1Fails \/ CloseAll
    BY <2>1, <2>5 DEF Send1Fails, CloseAll, Closed
  <2>6. CASE Crash
    BY <2>6 DEF Crash, TypeOK
  <2>7. CASE \E d \in Clients : Connect(d)
    <3>1. PICK d \in Clients : Connect(d)
      BY <2>7
    <3>2. Range(backlog) \cup {d} \subseteq Range(Append(backlog, d))
      BY QueueAppend DEF TypeOK
    <3> QED
      BY <2>1, <3>1, <3>2 DEF Connect, daemonVars, TypeOK
  <2>8. Accept2Fails => p2 = NONE
    BY DEF Accept2Fails, EmptyHands
  <2> QED
    BY <2>2, <2>3, <2>4, <2>5, <2>6, <2>7, <2>8
    DEF Next, Daemon, Fault, Start, OpenPipe1, OpenPipe2, Pipe1Fails, Pipe2Fails,
        Accept1Fails, Accept2Fails, Send1, Send2, Receive, RecvEof, Exit, HangUp,
        vars, daemonVars, clientVars
<1>3. PipesHeld /\ ConnectionsHeld => NoDescriptorLeak
  BY DEF NoDescriptorLeak
<1> QED
  BY <1>1, <1>2, <1>3, PipesAreHeld, TypeCorrect, WaitInvariant, PTL DEF Spec

\* No client that connected waits in vain for an answer nobody has in mind: not
\* while accept() or sendfds() fail, not when the daemon dies.
THEOREM NobodyIsForgotten == Spec => []NobodyForgotten
<1>1. WaitInv => NobodyForgotten
  BY DEF WaitInv
<1> QED
  BY <1>1, WaitInvariant, PTL

-----------------------------------------------------------------------------
(* Each client is in one place: once in the queue, or in one hand of the   *)
(* daemon, or answered for good.  So a grant is never given twice, and the *)
(* clients of a round are the ones the daemon has in its hands.            *)

NoTwice(q) == \A i, j \in 1 .. Len(q) : q[i] = q[j] => i = j

InHands == {p1, p2} \ {NONE}

Begun ==
  \A c \in Clients :
    (c \in Range(backlog) \/ c \in InHands \/ grant[c] # NONE) => client[c] # "idle"

QueuedOnce ==
  /\ NoTwice(backlog)
  /\ \A c \in Range(backlog) : grant[c] = NONE /\ c \notin InHands

HandsApart ==
  /\ p1 # NONE => p1 # p2
  /\ p1 # NONE /\ dpc \notin {"send2", "close"} => grant[p1] = NONE
  /\ p2 # NONE /\ dpc # "close" => grant[p2] = NONE

PlayersHaveEnds == \A c \in Clients : client[c] = "playing" => grant[c] # NONE

\* From the first sendfds() to the last close().
Served ==
  /\ dpc \in {"send2", "close"} =>
       /\ p1 \in Clients
       /\ grant[p1] = [read |-> <<round, 1>>, write |-> <<round, 2>>, id |-> id1]
  /\ dpc = "close" =>
       \A c \in InRound(round) : c = p1 \/ (c = p2 /\ grant[c].id = 1 - id1)

PlaceInv == Begun /\ QueuedOnce /\ HandsApart /\ PlayersHaveEnds /\ Served

\* accept() takes a client out of the queue for good.
LEMMA HeadOnce ==
  ASSUME NEW S, NEW q \in Seq(S), q # <<>>, NoTwice(q)
  PROVE  NoTwice(Tail(q)) /\ Head(q) \notin Range(Tail(q))
<1>1. /\ Len(q) \in Nat \ {0} /\ Len(Tail(q)) = Len(q) - 1 /\ Head(q) = q[1]
      /\ DOMAIN Tail(q) = 1 .. Len(q) - 1
      /\ \A i \in 1 .. Len(q) - 1 : Tail(q)[i] = q[i + 1]
  OBVIOUS
<1>2. NoTwice(Tail(q))
  BY <1>1 DEF NoTwice
<1>3. Head(q) \notin Range(Tail(q))
  <2> SUFFICES ASSUME NEW i \in 1 .. Len(q) - 1, q[1] = q[i + 1] PROVE FALSE
    BY <1>1 DEF Range
  <2> QED
    BY <1>1 DEF NoTwice
<1> QED
  BY <1>2, <1>3

\* A client that connects is not in the queue yet.
LEMMA AppendOnce ==
  ASSUME NEW S, NEW q \in Seq(S), NEW x \in S, NoTwice(q), x \notin Range(q)
  PROVE  NoTwice(Append(q, x)) /\ Range(Append(q, x)) \subseteq Range(q) \cup {x}
<1>1. /\ DOMAIN Append(q, x) = 1 .. Len(q) + 1 /\ DOMAIN q = 1 .. Len(q)
      /\ Append(q, x)[Len(q) + 1] = x
      /\ \A i \in 1 .. Len(q) : Append(q, x)[i] = q[i]
      /\ Len(q) \in Nat /\ Len(Append(q, x)) = Len(q) + 1
  OBVIOUS
<1>2. \A i \in 1 .. Len(q) : q[i] # x
  BY <1>1 DEF Range
<1>3. ASSUME NEW i \in 1 .. Len(q) + 1, NEW j \in 1 .. Len(q) + 1,
             Append(q, x)[i] = Append(q, x)[j]
      PROVE  i = j
  <2>1. CASE i = Len(q) + 1 \/ j = Len(q) + 1
    BY <1>1, <1>2, <1>3, <2>1
  <2>2. CASE i # Len(q) + 1 /\ j # Len(q) + 1
    <3>1. i \in 1 .. Len(q) /\ j \in 1 .. Len(q)
      BY <1>1, <2>2
    <3> QED
      BY <1>1, <1>3, <3>1 DEF NoTwice
  <2> QED
    BY <2>1, <2>2
<1>4. ASSUME NEW i \in 1 .. Len(q) + 1 PROVE Append(q, x)[i] \in Range(q) \cup {x}
  <2>1. CASE i = Len(q) + 1
    BY <1>1, <2>1
  <2>2. CASE i # Len(q) + 1
    <3>1. i \in 1 .. Len(q)
      BY <1>1, <2>2
    <3> QED
      BY <1>1, <3>1 DEF Range
  <2> QED
    BY <2>1, <2>2
<1> QED
  BY <1>1, <1>3, <1>4 DEF NoTwice, Range

\* No step puts a client in two places, or in none after a grant.
LEMMA NextPlaceInv ==
  ASSUME TypeOK, PairInv, EmptyHands, PlaceInv, [Next]_vars
  PROVE  PlaceInv'
<1> USE DEF PlaceInv, InHands
<1>0. /\ NONE \notin Clients /\ Range(backlog) \subseteq Clients
      /\ p1 \in Clients \cup {NONE} /\ p2 \in Clients \cup {NONE}
  BY NoneAssumption DEF TypeOK, Range
<1>1. CASE Start
  BY <1>1 DEF Start, clientVars, Begun, QueuedOnce, HandsApart, PlayersHaveEnds, Served,
              EmptyHands
<1>2. CASE OpenPipe1 \/ OpenPipe2
  BY <1>2 DEF OpenPipe1, OpenPipe2, clientVars, Begun, QueuedOnce, HandsApart,
              PlayersHaveEnds, Served, EmptyHands
<1>3. ASSUME NEW h, h = Head(backlog), backlog # <<>>
      PROVE  /\ h \in Clients /\ h \in Range(backlog) /\ h \notin Range(Tail(backlog))
             /\ Range(Tail(backlog)) \subseteq Range(backlog)
             /\ NoTwice(Tail(backlog))
             /\ grant[h] = NONE /\ h \notin InHands
  BY <1>3, QueueHead, HeadOnce DEF TypeOK, QueuedOnce
<1>4. CASE Accept1
  BY <1>0, <1>3, <1>4 DEF Accept1, clientVars, Begun, QueuedOnce, HandsApart,
                         PlayersHaveEnds, Served, EmptyHands
<1>5. CASE Accept2
  BY <1>0, <1>3, <1>5 DEF Accept2, clientVars, Begun, QueuedOnce, HandsApart,
                         PlayersHaveEnds, Served, EmptyHands
<1>6. CASE Pipe1Fails \/ Pipe2Fails
  BY <1>6 DEF Pipe1Fails, Pipe2Fails, daemonVars, clientVars, Begun, QueuedOnce,
              HandsApart, PlayersHaveEnds, Served, InRound
<1>7. ASSUME AcceptFails
      PROVE  Range(backlog') \subseteq Range(backlog) /\ NoTwice(backlog')
  BY <1>3, <1>7 DEF AcceptFails, QueuedOnce
<1>8. CASE Accept1Fails \/ Accept2Fails
  BY <1>0, <1>7, <1>8 DEF Accept1Fails, Accept2Fails, daemonVars, Begun, QueuedOnce,
                         HandsApart, PlayersHaveEnds, Served, InRound
<1>9. CASE Send1
  <2>1. /\ p1 \in Clients /\ p1 # p2 /\ dpc' = "send2"
        /\ client[p1] # "idle" /\ p1 \notin Range(backlog)
        /\ grant'[p1] = [read |-> <<round, 1>>, write |-> <<round, 2>>, id |-> id1]
        /\ grant'[p1] # NONE
        /\ \A c \in Clients \ {p1} : grant'[c] = grant[c]
        /\ UNCHANGED <<backlog, p1, p2, id1, round, client>>
    <3>1. p1 \in Clients /\ p1 # NONE
      BY <1>0, <1>9 DEF Send1, CanSend
    <3>2. grant'[p1] # NONE
      BY <1>9, <3>1, GrantType, NoneAssumption DEF Send1, TypeOK
    <3> QED
      BY <1>9, <3>1, <3>2 DEF Send1, HandsApart, Begun, QueuedOnce, TypeOK
  <2>2. Begun' /\ QueuedOnce' /\ PlayersHaveEnds'
    BY <1>0, <2>1 DEF Begun, QueuedOnce, PlayersHaveEnds
  <2>3. HandsApart' /\ Served'
    BY <1>0, <1>9, <2>1 DEF HandsApart, Served, Send1
  <2> QED
    BY <2>2, <2>3
<1>10. CASE Send1Fails
  BY <1>0, <1>10 DEF Send1Fails, Begun, QueuedOnce, HandsApart, PlayersHaveEnds, Served
<1>11. CASE Send2
  <2>1. /\ p1 \in Clients /\ p1 # p2 /\ dpc' = "close"
        /\ grant[p1] = [read |-> <<round, 1>>, write |-> <<round, 2>>, id |-> id1]
        /\ UNCHANGED <<backlog, p1, p2, id1, round, client>>
    BY <1>0, <1>11 DEF Send2, HandsApart, Served
  <2>2. \A c \in InRound(round) : c = p1
    BY <1>11 DEF Send2, PairInv, FirstOfRound, InRound, Granted
  <2>3. CASE CanSend(p2)
    <3>1. /\ p2 \in Clients /\ client[p2] # "idle" /\ p2 \notin Range(backlog)
          /\ grant'[p2].id = 1 - id1
          /\ grant'[p2] # NONE
          /\ \A c \in Clients \ {p2} : grant'[c] = grant[c]
      <4>1. p2 \in Clients /\ p2 # NONE
        BY <1>0, <2>3 DEF CanSend
      <4>2. grant' = [grant EXCEPT ![p2] = [read |-> <<round, 2>>,
                                           write |-> <<round, 1>>,
                                           id |-> 1 - id1]]
        BY <1>11, <2>3 DEF Send2
      <4>3. grant'[p2] # NONE
        <5>1. 1 - id1 \in {0, 1}
          BY DEF TypeOK
        <5> QED
          BY <4>1, <4>2, <5>1, GrantType, NoneAssumption DEF TypeOK
      <4> QED
        BY <4>1, <4>2, <4>3 DEF Begun, QueuedOnce, TypeOK
    <3>2. Begun' /\ QueuedOnce' /\ PlayersHaveEnds'
      BY <1>0, <2>1, <3>1 DEF Begun, QueuedOnce, PlayersHaveEnds
    <3>3. HandsApart'
      BY <2>1 DEF HandsApart
    <3>4. Served'
      BY <2>1, <2>2, <3>1 DEF Served, InRound
    <3> QED
      BY <3>2, <3>3, <3>4
  <2>4. CASE ~CanSend(p2)
    <3>1. UNCHANGED grant
      BY <1>11, <2>4 DEF Send2
    <3>2. Begun' /\ QueuedOnce' /\ PlayersHaveEnds' /\ HandsApart'
      BY <2>1, <3>1 DEF Begun, QueuedOnce, PlayersHaveEnds, HandsApart
    <3>3. Served'
      BY <2>1, <2>2, <3>1 DEF Served, InRound
    <3> QED
      BY <3>2, <3>3
  <2> QED
    BY <2>3, <2>4
<1>12. CASE CloseAll
  BY <1>0, <1>12 DEF CloseAll, Begun, QueuedOnce, HandsApart, PlayersHaveEnds, Served
<1>13. CASE Crash
  <2>1. NoTwice(<<>>) /\ Range(<<>>) = {}
    BY DEF NoTwice, Range
  <2> QED
    BY <1>0, <1>13, <2>1 DEF Crash, Begun, QueuedOnce, HandsApart, PlayersHaveEnds, Served
<1>14. ASSUME NEW d \in Clients, Connect(d) PROVE PlaceInv'
  <2>1. /\ client[d] = "idle" /\ grant[d] = NONE
        /\ d \notin Range(backlog) /\ d \notin InHands
    BY <1>14 DEF Connect, Begun
  <2>2. \/ backlog' = backlog
        \/ /\ Range(backlog') \subseteq Range(backlog) \cup {d}
           /\ NoTwice(backlog')
    <3>1. backlog \in Seq(Clients) /\ NoTwice(backlog)
      BY DEF TypeOK, QueuedOnce
    <3>2. /\ Range(Append(backlog, d)) \subseteq Range(backlog) \cup {d}
          /\ NoTwice(Append(backlog, d))
      BY <2>1, <3>1, AppendOnce
    <3> QED
      BY <1>14, <3>2 DEF Connect
  <2>3. /\ client'[d] \in {"waiting", "exited"}
        /\ \A c \in Clients \ {d} : client'[c] = client[c]
        /\ UNCHANGED <<dpc, p1, p2, id1, round, grant>>
    BY <1>14 DEF Connect, daemonVars, TypeOK
  <2>4. Begun' /\ QueuedOnce'
    BY <2>1, <2>2, <2>3 DEF Begun, QueuedOnce
  <2>5. HandsApart' /\ PlayersHaveEnds' /\ Served'
    BY <2>3 DEF HandsApart, PlayersHaveEnds, Served, InRound
  <2> QED
    BY <2>4, <2>5
<1>15. ASSUME NEW d \in Clients, Receive(d) \/ RecvEof(d) \/ Exit(d)
       PROVE  PlaceInv'
  <2>1. /\ client'[d] \in {"playing", "exited"}
        /\ client'[d] = "playing" => grant[d] # NONE
        /\ \A c \in Clients \ {d} : client'[c] = client[c]
        /\ UNCHANGED <<dpc, p1, p2, id1, round, grant, backlog>>
    BY <1>15 DEF Receive, RecvEof, Exit, daemonVars, TypeOK
  <2> QED
    BY <2>1 DEF Begun, QueuedOnce, HandsApart, PlayersHaveEnds, Served, InRound
<1>16. CASE (\E d \in Clients : HangUp(d)) \/ UNCHANGED vars
  <2>1. UNCHANGED <<dpc, p1, p2, id1, round, grant, backlog, client>>
    BY <1>16 DEF HangUp, vars, daemonVars, clientVars
  <2> QED
    BY <2>1 DEF Begun, QueuedOnce, HandsApart, PlayersHaveEnds, Served, InRound
<1> QED
  BY <1>1, <1>2, <1>4, <1>5, <1>6, <1>8, <1>9, <1>10, <1>11, <1>12,
     <1>13, <1>14, <1>15, <1>16
  DEF Next, Daemon, Fault

-----------------------------------------------------------------------------
(* Rounds as pairs of seats. *)

\* A client of round r holds one end of each pipe of that round.
LEMMA ClientOfRound ==
  ASSUME TypeOK, PairInv, NEW r, NEW c \in InRound(r)
  PROVE  /\ c \in Granted /\ c \in Clients /\ r \in 0 .. round
         /\ grant[c].id \in {0, 1}
         /\ \E j \in {1, 2} : End(c, r, j)
<1>1. c \in Granted /\ c \in Clients /\ grant[c] \in Grants
  BY DEF InRound, Granted, TypeOK
<1>2. PICK n \in 0 .. round, j \in {1, 2} : End(c, n, j)
  BY <1>1 DEF PairInv, GrantsAreEnds
<1>3. n = r
  BY <1>2 DEF InRound, End
<1>4. grant[c].id \in {0, 1}
  BY <1>1 DEF Grants
<1> QED
  BY <1>1, <1>2, <1>3, <1>4

\* Two clients of one round have each other's pipes, and the two ids.
LEMMA PartnersOfRound ==
  ASSUME TypeOK, PairInv, NEW r, NEW c \in InRound(r), NEW d \in InRound(r), c # d
  PROVE  /\ grant[c].read = grant[d].write /\ grant[c].write = grant[d].read
         /\ grant[d].id = 1 - grant[c].id
<1>1. PICK j \in {1, 2} : End(c, r, j)
  BY ClientOfRound
<1>2. PICK k \in {1, 2} : End(d, r, k)
  BY ClientOfRound
<1>3. /\ grant[c].read # grant[d].read
      /\ grant[c].read = grant[d].write => grant[c].id # grant[d].id
  BY ClientOfRound DEF PairInv, ProperPairs, Granted
<1>4. k = 3 - j
  BY <1>1, <1>2, <1>3 DEF End
<1>5. grant[c].read = grant[d].write /\ grant[c].write = grant[d].read
  BY <1>1, <1>2, <1>4 DEF End
<1>6. grant[c].id \in {0, 1} /\ grant[d].id \in {0, 1}
  BY ClientOfRound
<1> QED
  BY <1>3, <1>5, <1>6

\* Where the seat of client c is.
Place(c) == IF client[c] = "waiting" THEN "starting" ELSE client[c]

\* The seat with the id of a client of the round is the one of that client.
LEMMA SeatOfClient ==
  ASSUME TypeOK, PairInv, NEW r, NEW c \in InRound(r)
  PROVE  Seat(r, grant[c].id) = Place(c)
<1> DEFINE x == CHOOSE x \in InRound(r) : grant[x].id = grant[c].id
<1>1. x \in InRound(r) /\ grant[x].id = grant[c].id
  OBVIOUS
<1>2. x = c
  <2> HIDE DEF x
  <2> SUFFICES ASSUME x # c PROVE FALSE
    OBVIOUS
  <2>1. grant[x].id = 1 - grant[c].id /\ grant[c].id \in {0, 1}
    BY <1>1, PartnersOfRound, ClientOfRound
  <2> QED
    BY <1>1, <2>1
<1> QED
  BY <1>2 DEF Seat, Place

\* The other seat of a round whose second grant is not made, or never was.
LEMMA SeatOfNobody ==
  ASSUME NEW r, NEW id, InRound(r) # {}, \A c \in InRound(r) : grant[c].id # id
  PROVE  Seat(r, id) = IF Unsent(r) /\ (p2 = NONE \/ client[p2] # "exited")
                         THEN "starting" ELSE "exited"
  BY DEF Seat

\* The daemon holds both pipes of the round of its descriptors, and no other.
LEMMA HeldIsBoth ==
  ASSUME TypeOK, PairInv, PipesHeld, NEW r, NEW c \in InRound(r)
  PROVE  /\ Held(r) <=> grant[c].read \in fds
         /\ Held(r) <=> grant[c].write \in fds
         /\ Unsent(r) => Held(r)
<1>1. PICK j \in {1, 2} : End(c, r, j)
  BY ClientOfRound
<1>2. \/ fds \in {{}, {<<round, 1>>, <<round, 2>>}}
      \/ fds = {<<round + 1, 1>>} /\ dpc = "pipe2"
  BY DEF PipesHeld
<1>3. Unsent(r) => fds = {<<r, 1>>, <<r, 2>>}
  BY DEF PipesHeld, Unsent
<1>4. r \in 0 .. round /\ round \in Nat
  BY <1>1 DEF PairInv, GrantsAreEnds, InRound, Granted, End, TypeOK
<1> QED
  BY <1>1, <1>2, <1>3, <1>4 DEF Held, End

\* What a client of a round sees of its partner through the two pipes.
LEMMA EndsAreSeats ==
  ASSUME TypeOK, PairInv, PipesHeld, NEW c \in Holders
  PROVE  LET r == grant[c].read[1]
         IN  /\ HasWriter(c) <=> Held(r) \/ Seat(r, 1 - grant[c].id) # "exited"
             /\ HasReader(c) <=> Held(r) \/ Seat(r, 1 - grant[c].id) # "exited"
<1> DEFINE r == grant[c].read[1]
<1>1. c \in InRound(r) /\ grant[c] # NONE /\ grant[c].id \in {0, 1}
  <2>1. c \in InRound(r) /\ grant[c] # NONE
    BY DEF Holders, InRound
  <2> QED
    BY <2>1, ClientOfRound
<1>2. /\ Held(r) <=> grant[c].read \in fds
      /\ Held(r) <=> grant[c].write \in fds
      /\ Unsent(r) => Held(r)
  BY <1>1, HeldIsBoth
<1>3. ASSUME NEW d \in Holders,
             grant[d].write = grant[c].read \/ grant[d].read = grant[c].write
      PROVE  d \in InRound(r) /\ d # c
  <2>1. PICK j \in {1, 2} : End(c, r, j)
    BY <1>1, ClientOfRound
  <2>2. d \in Granted
    BY DEF Holders, Granted
  <2>3. PICK n \in 0 .. round, k \in {1, 2} : End(d, n, k)
    BY <2>2 DEF PairInv, GrantsAreEnds
  <2>4. n = r /\ d # c
    BY <1>3, <2>1, <2>3 DEF End
  <2> QED
    BY <2>2, <2>3, <2>4 DEF InRound, End, Granted
<1>4. CASE \E d \in InRound(r) : d # c
  <2>1. PICK d \in InRound(r) : d # c
    BY <1>4
  <2>2. /\ grant[c].read = grant[d].write /\ grant[c].write = grant[d].read
        /\ grant[d].id = 1 - grant[c].id
    BY <1>1, <2>1, PartnersOfRound
  <2>3. Seat(r, 1 - grant[c].id) = Place(d)
    BY <2>1, <2>2, SeatOfClient
  <2>4. Place(d) # "exited" <=> d \in Holders
    BY <2>1 DEF Place, InRound, Holders
  <2>5. ASSUME NEW e \in Holders,
               grant[e].write = grant[c].read \/ grant[e].read = grant[c].write
        PROVE  e = d
    <3> SUFFICES ASSUME e # d PROVE FALSE
      OBVIOUS
    <3>1. e \in InRound(r) /\ e # c
      BY <1>3, <2>5
    <3>2. grant[e].id = 1 - grant[c].id /\ grant[e].id = 1 - grant[d].id
      BY <1>1, <2>1, <3>1, PartnersOfRound
    <3> QED
      BY <1>1, <2>2, <3>2
  <2> QED
    BY <1>1, <1>2, <2>2, <2>3, <2>4, <2>5 DEF HasWriter, HasReader
<1>5. CASE \A d \in InRound(r) : d = c
  <2>1. \A d \in InRound(r) : grant[d].id # 1 - grant[c].id
    BY <1>1, <1>5
  <2>2. Seat(r, 1 - grant[c].id) # "exited" => Unsent(r)
    BY <1>1, <2>1, SeatOfNobody
  <2>3. ~ \E d \in Holders :
            grant[d].write = grant[c].read \/ grant[d].read = grant[c].write
    BY <1>3, <1>5
  <2> QED
    BY <1>1, <1>2, <2>2, <2>3 DEF HasWriter, HasReader
<1> QED
  BY <1>4, <1>5

\* What a client can learn of its partner through the pipes is whether that
\* seat is left, as Session has it, for any number of rounds and faults.
THEOREM EndsAreAsSeats == Spec => []EndsFollowSeats
<1>1. TypeOK /\ PairInv /\ PipesHeld => EndsFollowSeats
  BY EndsAreSeats DEF EndsFollowSeats
<1> QED
  BY <1>1, TypeCorrect, PairInvariant, PipesAreHeld, PTL

-----------------------------------------------------------------------------
(* The daemon implements Pairing, round by round.  Seat(r, id) is read off *)
(* before and after a step, and the step of the pair follows.              *)

\* Whether a seat without a grant may still get one.
Pending(r) == Unsent(r) /\ (p2 = NONE \/ client[p2] # "exited")

SeatsRead ==
  \A r \in Nat, id \in {0, 1} :
    /\ \A c \in InRound(r) : grant[c].id = id => Seat(r, id) = Place(c)
    /\ InRound(r) # {} /\ (\A c \in InRound(r) : grant[c].id # id) =>
         Seat(r, id) = IF Pending(r) THEN "starting" ELSE "exited"
    /\ InRound(r) = {} => Seat(r, id) = "vacant"

\* A seat has one reading.
LEMMA SeatsAreRead == TypeOK /\ PairInv => SeatsRead
<1> SUFFICES ASSUME TypeOK, PairInv, NEW r \in Nat, NEW id \in {0, 1}
             PROVE  /\ \A c \in InRound(r) : grant[c].id = id => Seat(r, id) = Place(c)
                    /\ InRound(r) # {} /\ (\A c \in InRound(r) : grant[c].id # id) =>
                         Seat(r, id) = IF Pending(r) THEN "starting" ELSE "exited"
                    /\ InRound(r) = {} => Seat(r, id) = "vacant"
  BY DEF SeatsRead
<1>1. \A c \in InRound(r) : grant[c].id = id => Seat(r, id) = Place(c)
  BY SeatOfClient
<1>2. InRound(r) # {} /\ (\A c \in InRound(r) : grant[c].id # id) =>
        Seat(r, id) = IF Pending(r) THEN "starting" ELSE "exited"
  BY SeatOfNobody DEF Pending
<1>3. InRound(r) = {} => Seat(r, id) = "vacant"
  BY DEF Seat
<1> QED
  BY <1>1, <1>2, <1>3

\* Before a round, and before it opened its pipes, its seats are vacant.
LEMMA RoundsBeginVacant ==
  ASSUME Init, NEW r
  PROVE  Pair(r)!PairInit
<1>1. InRound(r) = {}
  BY DEF Init, InRound
<1>2. Seat(r, 0) = "vacant" /\ Seat(r, 1) = "vacant" /\ Held(r) = FALSE
  BY <1>1 DEF Seat, Held
<1> QED
  BY <1>2 DEF Pair!PairInit

\* The steps of a pair, told seat by seat: the pair stays as it is, ...
LEMMA PairStutters ==
  ASSUME NEW r, \A id \in {0, 1} : Seat(r, id)' = Seat(r, id), Held(r)' <=> Held(r)
  PROVE  UNCHANGED Pair(r)!pairVars
<1>1. Held(r)' = Held(r)
  BY DEF Held
<1> QED
  BY <1>1 DEF Pair!pairVars

\* ... it is made, with a client in one seat at least, ...
LEMMA PairOpens ==
  ASSUME NEW r, NEW p \in {0, 1}, Seat(r, 0) = "vacant", Seat(r, 1) = "vacant",
         Seat(r, p)' = "starting", Seat(r, 1 - p)' \in {"starting", "exited"}, Held(r)'
  PROVE  Pair(r)!Open
<1>1. /\ \A id \in {0, 1} : Seat(r, id) = "vacant" /\ Seat(r, id)' \in {"starting", "exited"}
      /\ Held(r)' = TRUE
  BY DEF Held
<1> QED
  BY <1>1 DEF Pair!Open

\* ... a client takes its seat, ...
LEMMA PairSits ==
  ASSUME NEW r, NEW p \in {0, 1}, Seat(r, p) = "starting", Seat(r, p)' = "playing",
         Seat(r, 1 - p)' = Seat(r, 1 - p), Held(r)' <=> Held(r)
  PROVE  Pair(r)!Sit(p)
<1>1. Held(r)' = Held(r)
  BY DEF Held
<1>2. \A id \in {0, 1} : Seat(r, id)' = IF id = p THEN "playing" ELSE Seat(r, id)
  <2>1. p = 0 \/ p = 1
    OBVIOUS
  <2> QED
    BY <2>1
<1>3. [id \in {0, 1} |-> Seat(r, id)'] =
        [[id \in {0, 1} |-> Seat(r, id)] EXCEPT ![p] = "playing"]
  BY <1>2
<1> QED
  BY <1>1, <1>3 DEF Pair!Sit

\* ... or leaves it, ...
LEMMA PairRises ==
  ASSUME NEW r, NEW p \in {0, 1}, Seat(r, p) \in {"starting", "playing"},
         Seat(r, p)' = "exited",
         Seat(r, 1 - p)' = Seat(r, 1 - p), Held(r)' <=> Held(r)
  PROVE  Pair(r)!Rise(p)
<1>1. Held(r)' = Held(r)
  BY DEF Held
<1>2. \A id \in {0, 1} : Seat(r, id)' = IF id = p THEN "exited" ELSE Seat(r, id)
  <2>1. p = 0 \/ p = 1
    OBVIOUS
  <2> QED
    BY <2>1
<1>3. [id \in {0, 1} |-> Seat(r, id)'] =
        [[id \in {0, 1} |-> Seat(r, id)] EXCEPT ![p] = "exited"]
  BY <1>2
<1> QED
  BY <1>1, <1>3 DEF Pair!Rise

\* ... and the daemon lets go, and with it who was never sent its ends.
LEMMA PairLetsGo ==
  ASSUME NEW r, Held(r), ~Held(r)',
         \A id \in {0, 1} : \/ Seat(r, id)' = Seat(r, id)
                            \/ Seat(r, id) = "starting" /\ Seat(r, id)' = "exited"
  PROVE  Pair(r)!LetGo
<1> DEFINE lost == {id \in {0, 1} : Seat(r, id) = "starting" /\ Seat(r, id)' = "exited"}
<1>1. Held(r) = TRUE /\ Held(r)' = FALSE
  BY DEF Held
<1>2. [id \in {0, 1} |-> Seat(r, id)'] =
        [id \in {0, 1} |-> IF id \in lost THEN "exited"
                          ELSE [x \in {0, 1} |-> Seat(r, x)][id]]
  OBVIOUS
<1>3. lost \in SUBSET {id \in {0, 1} : [x \in {0, 1} |-> Seat(r, x)][id] = "starting"}
  OBVIOUS
<1> QED
  BY <1>1, <1>2, <1>3 DEF Pair!LetGo

\* A seat stays as it is as long as its client, or what it waits for, does.
LEMMA SeatKept ==
  ASSUME SeatsRead, SeatsRead', NEW r \in Nat, NEW id \in {0, 1},
         InRound(r)' = InRound(r),
         \A c \in InRound(r) :
           /\ grant'[c] = grant[c]
           /\ grant[c].id = id => client'[c] = client[c],
         (\A c \in InRound(r) : grant[c].id # id) => (Pending(r)' <=> Pending(r))
  PROVE  Seat(r, id)' = Seat(r, id)
<1>1. CASE \E c \in InRound(r) : grant[c].id = id
  <2>1. PICK c \in InRound(r) : grant[c].id = id
    BY <1>1
  <2>2. Seat(r, id) = Place(c)
    BY <2>1 DEF SeatsRead
  <2>3. Seat(r, id)' = Place(c)'
    BY <2>1 DEF SeatsRead
  <2> QED
    BY <2>1, <2>2, <2>3 DEF Place
<1>2. CASE \A c \in InRound(r) : grant[c].id # id
  <2>1. CASE InRound(r) = {}
    BY <2>1 DEF SeatsRead
  <2>2. CASE InRound(r) # {}
    <3>1. Seat(r, id) = IF Pending(r) THEN "starting" ELSE "exited"
      BY <1>2, <2>2 DEF SeatsRead
    <3>2. Seat(r, id)' = IF Pending(r)' THEN "starting" ELSE "exited"
      BY <1>2, <2>2 DEF SeatsRead
    <3> QED
      BY <1>2, <3>1, <3>2
  <2> QED
    BY <2>1, <2>2
<1> QED
  BY <1>1, <1>2

\* The invariants that the steps of a pair rest on.
RoundInv == TypeOK /\ PairInv /\ PipesHeld /\ EmptyHands /\ PlaceInv

\* Steps of the daemon and of users that answer no client.
LEMMA QuietForPairs ==
  ASSUME RoundInv, SeatsRead, SeatsRead', NEW r \in Nat,
         UNCHANGED <<grant, client>>,
         Pending(r)' <=> Pending(r), Held(r)' <=> Held(r)
  PROVE  UNCHANGED Pair(r)!pairVars
<1>1. InRound(r)' = InRound(r)
  BY DEF InRound
<1>2. \A id \in {0, 1} : Seat(r, id)' = Seat(r, id)
  BY <1>1, SeatKept
<1> QED
  BY <1>2, PairStutters

\* Between the pairs the daemon holds nothing of a pair that is made.
LEMMA HeldInTheMiddle ==
  ASSUME RoundInv, NEW r \in Nat, Held(r)
  PROVE  r = round /\ dpc \in {"send2", "close"}
<1>1. r = round /\ dpc \notin {"down", "top", "pipe2"} /\ InRound(r) # {}
  <2>1. InRound(r) # {} /\ {<<r, 1>>, <<r, 2>>} \cap fds # {}
    BY DEF Held
  <2>2. r \in 0 .. round /\ round \in Nat
    BY <2>1 DEF RoundInv, PairInv, GrantsAreEnds, InRound, Granted, End, TypeOK
  <2> QED
    BY <2>1, <2>2 DEF RoundInv, PipesHeld
<1>2. dpc \notin {"accept1", "accept2", "send1"}
  BY <1>1 DEF RoundInv, PairInv, RoundIsFresh, InRound, Granted
<1> QED
  BY <1>1, <1>2 DEF RoundInv, TypeOK, Places

\* From the first sendfds() on player 1 has a seat, and the pipes are held.
LEMMA ServedIsHeld ==
  ASSUME RoundInv, dpc \in {"send2", "close"}
  PROVE  /\ p1 \in InRound(round) /\ grant[p1].id = id1 /\ id1 \in {0, 1}
         /\ p1 # NONE /\ p1 # p2 /\ Held(round) /\ round \in Nat
         /\ \A c \in InRound(round) : c = p1 \/ (c = p2 /\ grant[c].id = 1 - id1)
<1>1. /\ p1 \in Clients /\ round \in Nat /\ id1 \in {0, 1}
      /\ grant[p1] = [read |-> <<round, 1>>, write |-> <<round, 2>>, id |-> id1]
      /\ grant[p1] \in Grants
  BY GrantType DEF RoundInv, PlaceInv, Served, TypeOK
<1>2. grant[p1] # NONE /\ p1 # NONE
  BY <1>1, NoneAssumption
<1>3. p1 \in InRound(round) /\ grant[p1].id = id1
  BY <1>1, <1>2 DEF InRound
<1>4. Held(round)
  BY <1>3 DEF Held, RoundInv, PipesHeld
<1>5. \A c \in InRound(round) : c = p1 \/ (c = p2 /\ grant[c].id = 1 - id1)
  <2>1. CASE dpc = "send2"
    BY <2>1 DEF RoundInv, PairInv, FirstOfRound, InRound, Granted
  <2>2. CASE dpc = "close"
    BY <2>2 DEF RoundInv, PlaceInv, Served
  <2> QED
    BY <2>1, <2>2
<1> QED
  BY <1>1, <1>2, <1>3, <1>4, <1>5 DEF RoundInv, PlaceInv, HandsApart

\* The daemon on its way to the first sendfds().
LEMMA DaemonOnItsWay ==
  ASSUME RoundInv, RoundInv', SeatsRead, SeatsRead', NEW r \in Nat,
         \/ Start \/ OpenPipe1 \/ OpenPipe2 \/ Pipe1Fails \/ Pipe2Fails
         \/ Accept1 \/ Accept2 \/ Accept1Fails \/ Accept2Fails \/ Send1Fails
  PROVE  UNCHANGED Pair(r)!pairVars
<1>1. UNCHANGED <<grant, client>>
  BY DEF Start, OpenPipe1, OpenPipe2, Pipe1Fails, Pipe2Fails, Accept1, Accept2,
         Accept1Fails, Accept2Fails, Send1Fails, clientVars, daemonVars
<1>2. dpc \notin {"send2", "close"} /\ dpc' \notin {"send2", "close"}
  BY DEF Start, OpenPipe1, OpenPipe2, Pipe1Fails, Pipe2Fails, Accept1, Accept2,
         Accept1Fails, Accept2Fails, Send1Fails, daemonVars
<1>3. ~Pending(r) /\ ~Pending(r)'
  BY <1>2 DEF Pending, Unsent
<1>4. ~Held(r)
  BY <1>2, HeldInTheMiddle
<1>5. ~Held(r)'
  <2>1. InRound(r)' = InRound(r)
    BY <1>1 DEF InRound
  <2>2. CASE fds' \subseteq fds
    BY <1>4, <2>1, <2>2 DEF Held
  <2>3. CASE OpenPipe1 \/ OpenPipe2
    <3>1. round \in Nat /\ fds' \subseteq {<<round + 1, 1>>, <<round + 1, 2>>}
      BY <2>3 DEF OpenPipe1, OpenPipe2, RoundInv, PipesHeld, TypeOK
    <3>2. \A c \in Granted : grant[c].read[1] # round + 1
      BY <3>1 DEF RoundInv, PairInv, GrantsAreEnds, End
    <3> QED
      BY <2>1, <3>1, <3>2 DEF Held, InRound, Granted
  <2> QED
    BY <2>2, <2>3 DEF Start, Pipe1Fails, Pipe2Fails, Accept1, Accept2, Accept1Fails,
                      Accept2Fails, Send1Fails, daemonVars
<1> QED
  BY <1>1, <1>3, <1>4, <1>5, QuietForPairs

\* The first sendfds() makes a pair; earlier rounds do not notice.
LEMMA FirstSendOpens ==
  ASSUME RoundInv, RoundInv', SeatsRead, SeatsRead', NEW r \in Nat, Send1
  PROVE  Pair(r)!Open \/ UNCHANGED Pair(r)!pairVars
<1>1. /\ dpc = "send1" /\ dpc' = "send2" /\ p1 # NONE /\ client[p1] # "exited"
      /\ UNCHANGED <<p1, p2, id1, fds, round, client>>
      /\ grant' = [grant EXCEPT ![p1] =
           [read |-> <<round, 1>>, write |-> <<round, 2>>, id |-> id1]]
  BY DEF Send1, CanSend
<1>2. p1 \in Clients /\ grant[p1] = NONE /\ client[p1] = "waiting"
  <2>1. p1 \in Clients
    BY <1>1 DEF RoundInv, TypeOK
  <2>2. grant[p1] = NONE
    BY <1>1 DEF RoundInv, PlaceInv, HandsApart
  <2>3. client[p1] # "idle"
    BY <1>1, <2>1 DEF RoundInv, PlaceInv, Begun, InHands
  <2>4. client[p1] # "playing"
    BY <2>1, <2>2 DEF RoundInv, PlaceInv, PlayersHaveEnds
  <2> QED
    BY <1>1, <2>1, <2>2, <2>3, <2>4 DEF RoundInv, TypeOK
<1>3. \A c \in Clients \ {p1} : grant'[c] = grant[c]
  BY <1>1 DEF RoundInv, TypeOK
<1>4. ~Held(r)
  BY <1>1, HeldInTheMiddle
<1>5. CASE r = round
  <2>1. InRound(r) = {}
    BY <1>1, <1>5 DEF RoundInv, PairInv, RoundIsFresh, InRound, Granted
  <2>2. Seat(r, 0) = "vacant" /\ Seat(r, 1) = "vacant"
    BY <2>1 DEF SeatsRead
  <2>3. /\ p1 \in InRound(round)' /\ grant'[p1].id = id1 /\ id1 \in {0, 1}
        /\ Held(round)'
        /\ \A c \in InRound(round)' : c = p1 \/ (c = p2 /\ grant'[c].id = 1 - id1)
    <3>1. /\ p1' \in InRound(round)' /\ grant'[p1'].id = id1' /\ id1' \in {0, 1}
          /\ Held(round)'
      <4>1. (RoundInv /\ dpc \in {"send2", "close"} =>
               /\ p1 \in InRound(round) /\ grant[p1].id = id1 /\ id1 \in {0, 1}
               /\ Held(round))'
        BY ServedIsHeld, PTL
      <4> QED
        BY <1>1, <4>1
    <3>2. \A c \in InRound(round)' : c = p1
      BY <1>1, <1>3, <1>5, <2>1 DEF InRound
    <3> QED
      BY <1>1, <3>1, <3>2
  <2>4. Seat(r, id1)' = "starting"
    BY <1>1, <1>2, <1>5, <2>3 DEF SeatsRead, Place
  <2>5. Seat(r, 1 - id1)' \in {"starting", "exited"}
    <3>1. 1 - id1 \in {0, 1} /\ id1 # 1 - id1
      BY <2>3
    <3>2. \A c \in InRound(r)' : grant'[c].id # 1 - id1
      BY <1>1, <1>3, <1>5, <2>1, <2>3, <3>1 DEF InRound
    <3> QED
      BY <1>1, <1>5, <2>3, <3>1, <3>2 DEF SeatsRead
  <2> QED
    BY <1>1, <1>5, <2>2, <2>3, <2>4, <2>5, PairOpens
<1>6. CASE r # round
  <2>1. InRound(r)' = InRound(r) /\ p1 \notin InRound(r)
    BY <1>1, <1>2, <1>3, <1>6 DEF InRound, RoundInv, TypeOK
  <2>2. ~Pending(r) /\ ~Pending(r)'
    BY <1>1, <1>6 DEF Pending, Unsent
  <2>3. ~Held(r)'
    BY <1>1, <1>4, <2>1 DEF Held
  <2>4. \A id \in {0, 1} : Seat(r, id)' = Seat(r, id)
    <3>1. \A c \in InRound(r) : grant'[c] = grant[c] /\ client'[c] = client[c]
      BY <1>1, <1>3, <2>1 DEF InRound
    <3> QED
      BY <2>1, <2>2, <3>1, SeatKept
  <2> QED
    BY <1>4, <2>3, <2>4, PairStutters
<1> QED
  BY <1>5, <1>6

\* The second sendfds() changes no seat: the client it is for waits, or has
\* left already.
LEMMA SecondSendStutters ==
  ASSUME RoundInv, RoundInv', SeatsRead, SeatsRead', NEW r \in Nat, Send2
  PROVE  UNCHANGED Pair(r)!pairVars
<1>1. /\ dpc = "send2" /\ dpc' = "close"
      /\ UNCHANGED <<p1, p2, id1, fds, round, client>>
  BY DEF Send2
<1>2. Pending(r)' <=> Pending(r)
  BY <1>1 DEF Pending, Unsent
<1>3. CASE ~CanSend(p2)
  <2>1. UNCHANGED grant
    BY <1>3 DEF Send2
  <2>2. Held(r)' <=> Held(r)
    BY <1>1, <2>1 DEF Held, InRound
  <2> QED
    BY <1>1, <1>2, <2>1, <2>2, QuietForPairs
<1>4. CASE CanSend(p2)
  <2>1. /\ p2 \in Clients /\ p2 # NONE /\ client[p2] = "waiting" /\ grant[p2] = NONE
        /\ grant' = [grant EXCEPT ![p2] =
             [read |-> <<round, 2>>, write |-> <<round, 1>>, id |-> 1 - id1]]
    <3>1. p2 \in Clients /\ p2 # NONE /\ client[p2] # "exited"
      BY <1>4 DEF CanSend, RoundInv, TypeOK
    <3>2. grant[p2] = NONE
      BY <1>1, <3>1 DEF RoundInv, PlaceInv, HandsApart
    <3>3. client[p2] # "idle" /\ client[p2] # "playing"
      BY <3>1, <3>2 DEF RoundInv, PlaceInv, Begun, InHands, PlayersHaveEnds
    <3> QED
      BY <1>4, <3>1, <3>2, <3>3 DEF Send2, RoundInv, TypeOK
  <2>2. \A c \in Clients \ {p2} : grant'[c] = grant[c]
    BY <2>1 DEF RoundInv, TypeOK
  <2>3. grant'[p2] # NONE /\ grant'[p2].read[1] = round /\ grant'[p2].id = 1 - id1
    <3>1. 1 - id1 \in {0, 1} /\ round \in Nat
      BY DEF RoundInv, TypeOK
    <3>2. grant'[p2] = [read |-> <<round, 2>>, write |-> <<round, 1>>, id |-> 1 - id1]
      BY <2>1 DEF RoundInv, TypeOK
    <3>3. grant'[p2] \in Grants
      BY <3>1, <3>2, GrantType
    <3> QED
      BY <3>2, <3>3, NoneAssumption
  <2>4. CASE r # round
    <3>1. InRound(r)' = InRound(r) /\ p2 \notin InRound(r)
      BY <2>1, <2>2, <2>3, <2>4 DEF InRound
    <3>2. \A c \in InRound(r) : grant'[c] = grant[c] /\ client'[c] = client[c]
      BY <1>1, <2>2, <3>1 DEF InRound
    <3>3. \A id \in {0, 1} : Seat(r, id)' = Seat(r, id)
      BY <1>2, <3>1, <3>2, SeatKept
    <3> QED
      BY <1>1, <3>1, <3>3, PairStutters DEF Held
  <2>5. CASE r = round
    <3>1. /\ p1 \in InRound(r) /\ grant[p1].id = id1 /\ id1 \in {0, 1}
          /\ p1 # p2 /\ \A c \in InRound(r) : c = p1 \/ c = p2
      BY <1>1, <2>5, ServedIsHeld
    <3>2. InRound(r) = {p1} /\ InRound(r)' = {p1, p2} /\ grant'[p1] = grant[p1]
      BY <2>1, <2>2, <2>3, <2>5, <3>1 DEF InRound
    <3>3. Seat(r, id1)' = Seat(r, id1)
      <4>1. Seat(r, id1) = Place(p1)
        BY <3>1 DEF SeatsRead
      <4>2. Seat(r, id1)' = Place(p1)'
        BY <1>1, <3>1, <3>2 DEF SeatsRead
      <4> QED
        BY <1>1, <4>1, <4>2 DEF Place
    <3>4. Seat(r, 1 - id1)' = Seat(r, 1 - id1)
      <4>1. 1 - id1 \in {0, 1} /\ id1 # 1 - id1
        BY <3>1
      <4>2. Pending(r)
        BY <1>1, <2>1, <2>5 DEF Pending, Unsent
      <4>3. Seat(r, 1 - id1) = "starting"
        BY <3>1, <3>2, <4>1, <4>2 DEF SeatsRead
      <4>4. Seat(r, 1 - id1)' = Place(p2)'
        BY <1>1, <2>3, <3>2, <4>1 DEF SeatsRead
      <4> QED
        BY <1>1, <2>1, <4>3, <4>4 DEF Place
    <3>5. \A id \in {0, 1} : Seat(r, id)' = Seat(r, id)
      <4>1. \A id \in {0, 1} : id = id1 \/ id = 1 - id1
        BY <3>1
      <4> QED
        BY <1>1, <3>3, <3>4, <4>1
    <3> QED
      BY <1>1, <3>2, <3>5, PairStutters DEF Held
  <2> QED
    BY <2>4, <2>5
<1> QED
  BY <1>3, <1>4

\* The end of a round, by close() or by the end of the daemon, lets go of its
\* pair; whoever was still to be sent its ends has lost its seat.
LEMMA EndLetsGo ==
  ASSUME RoundInv, RoundInv', SeatsRead, SeatsRead', NEW r \in Nat,
         CloseAll \/ Crash
  PROVE  Pair(r)!LetGo \/ UNCHANGED Pair(r)!pairVars
<1>1. /\ dpc' \in {"top", "down"} /\ fds' = {}
      /\ UNCHANGED <<grant, client, round>>
  BY DEF CloseAll, Crash
<1>2. ~Held(r)' /\ ~Pending(r)' /\ InRound(r)' = InRound(r)
  BY <1>1 DEF Held, Pending, Unsent, InRound
<1>3. CASE ~Held(r)
  <2>1. ~Pending(r)
    BY <1>3, ServedIsHeld DEF Pending, Unsent
  <2> QED
    BY <1>1, <1>2, <1>3, <2>1, QuietForPairs
<1>4. CASE Held(r)
  <2>1. ASSUME NEW id \in {0, 1}
        PROVE  \/ Seat(r, id)' = Seat(r, id)
               \/ Seat(r, id) = "starting" /\ Seat(r, id)' = "exited"
    <3>1. CASE \E c \in InRound(r) : grant[c].id = id
      BY <1>1, <1>2, <3>1, SeatKept
    <3>2. CASE \A c \in InRound(r) : grant[c].id # id
      <4>1. InRound(r) # {}
        BY <1>4 DEF Held
      <4>2. Seat(r, id) = IF Pending(r) THEN "starting" ELSE "exited"
        BY <3>2, <4>1 DEF SeatsRead
      <4>3. Seat(r, id)' = "exited"
        BY <1>1, <1>2, <3>2, <4>1 DEF SeatsRead
      <4> QED
        BY <4>2, <4>3
    <3> QED
      BY <3>1, <3>2
  <2> QED
    BY <1>2, <1>4, <2>1, PairLetsGo
<1> QED
  BY <1>3, <1>4

\* A client that comes has no seat yet, and is in nobody's hands.
LEMMA ConnectStutters ==
  ASSUME RoundInv, SeatsRead, SeatsRead', NEW r \in Nat, NEW d \in Clients, Connect(d)
  PROVE  UNCHANGED Pair(r)!pairVars
<1>1. /\ client[d] = "idle" /\ grant[d] = NONE /\ d \notin InHands
      /\ UNCHANGED <<dpc, p2, round, fds, grant>>
      /\ \A c \in Clients \ {d} : client'[c] = client[c]
  BY DEF Connect, daemonVars, RoundInv, PlaceInv, Begun, TypeOK
<1>2. InRound(r)' = InRound(r) /\ d \notin InRound(r)
  BY <1>1 DEF InRound
<1>3. Pending(r)' <=> Pending(r)
  BY <1>1 DEF Pending, Unsent, InHands, RoundInv, TypeOK
<1>4. Held(r)' <=> Held(r)
  BY <1>1, <1>2 DEF Held
<1>5. \A c \in InRound(r) : grant'[c] = grant[c] /\ client'[c] = client[c]
  BY <1>1, <1>2 DEF InRound
<1>6. \A id \in {0, 1} : Seat(r, id)' = Seat(r, id)
  BY <1>2, <1>3, <1>5, SeatKept
<1> QED
  BY <1>4, <1>6, PairStutters

\* A client that receives its ends takes its seat; one that ends leaves it, or
\* the one that was meant for it.
LEMMA ClientSitsOrRises ==
  ASSUME RoundInv, SeatsRead, SeatsRead', NEW r \in Nat, NEW d \in Clients,
         Receive(d) \/ RecvEof(d) \/ Exit(d)
  PROVE  \/ \E p \in {0, 1} : Pair(r)!Sit(p) \/ Pair(r)!Rise(p)
         \/ UNCHANGED Pair(r)!pairVars
<1>1. /\ UNCHANGED <<dpc, p1, p2, id1, round, fds, grant>>
      /\ \A c \in Clients \ {d} : client'[c] = client[c]
      /\ \/ client[d] = "waiting" /\ client'[d] = "playing"
         \/ client[d] \in {"waiting", "playing"} /\ client'[d] = "exited"
  BY DEF Receive, RecvEof, Exit, daemonVars, RoundInv, TypeOK
<1>2. InRound(r)' = InRound(r)
  BY <1>1 DEF InRound
<1>3. Held(r)' <=> Held(r)
  BY <1>1, <1>2 DEF Held
<1>4. \A c \in InRound(r) : grant'[c] = grant[c] /\ (c # d => client'[c] = client[c])
  BY <1>1 DEF InRound
<1>5. d # p2 \/ client'[d] = "playing" \/ ~Unsent(r) => (Pending(r)' <=> Pending(r))
  BY <1>1 DEF Pending, Unsent, RoundInv, TypeOK
<1>6. CASE d \in InRound(r)
  <2> DEFINE p == grant[d].id
  <2>1. p \in {0, 1}
    BY <1>6, ClientOfRound DEF RoundInv
  <2>2. \A c \in InRound(r) : grant[c].id = 1 - p => c # d
    BY <2>1
  <2>3. d = p2 /\ Unsent(r) => \E c \in InRound(r) : grant[c].id = 1 - p
    <3> SUFFICES ASSUME d = p2, Unsent(r)
                 PROVE  \E c \in InRound(r) : grant[c].id = 1 - p
      OBVIOUS
    <3>1. /\ p1 \in InRound(r) /\ grant[p1].id = id1 /\ id1 \in {0, 1}
          /\ p1 # p2
          /\ \A c \in InRound(r) : c = p1 \/ (c = p2 /\ grant[c].id = 1 - id1)
      BY ServedIsHeld DEF Unsent
    <3>2. p = 1 - id1
      BY <1>6, <3>1
    <3> QED
      BY <3>1, <3>2
  <2>4. Seat(r, 1 - p)' = Seat(r, 1 - p)
    <3>1. 1 - p \in {0, 1}
      BY <2>1
    <3>2. (\A c \in InRound(r) : grant[c].id # 1 - p) => (Pending(r)' <=> Pending(r))
      BY <1>5, <2>3
    <3>3. \A x \in {0, 1} : x = 1 - p => Seat(r, x)' = Seat(r, x)
      BY <1>2, <1>4, <2>2, <3>2, SeatKept
    <3> QED
      BY <1>1, <3>1, <3>3
  <2>5. Seat(r, p) = Place(d) /\ Seat(r, p)' = Place(d)'
    BY <1>1, <1>2, <1>6, <2>1 DEF SeatsRead
  <2>6. \/ Seat(r, p) = "starting" /\ Seat(r, p)' = "playing"
        \/ Seat(r, p) \in {"starting", "playing"} /\ Seat(r, p)' = "exited"
    BY <1>1, <2>5 DEF Place
  <2>7. \E x \in {0, 1} :
          /\ x = p
          /\ Seat(r, 1 - x)' = Seat(r, 1 - x)
          /\ \/ Seat(r, x) = "starting" /\ Seat(r, x)' = "playing"
             \/ Seat(r, x) \in {"starting", "playing"} /\ Seat(r, x)' = "exited"
    BY <1>1, <2>1, <2>4, <2>6
  <2> QED
    BY <1>3, <2>7, PairSits, PairRises
<1>7. CASE d \notin InRound(r)
  <2>1. \A c \in InRound(r) : grant'[c] = grant[c] /\ client'[c] = client[c]
    BY <1>4, <1>7
  <2>2. CASE d # p2 \/ client'[d] = "playing" \/ ~Unsent(r)
    <3>1. \A id \in {0, 1} : Seat(r, id)' = Seat(r, id)
      BY <1>2, <1>5, <2>1, <2>2, SeatKept
    <3> QED
      BY <1>3, <3>1, PairStutters
  <2>3. CASE d = p2 /\ client'[d] = "exited" /\ Unsent(r)
    <3>1. /\ p1 \in InRound(r) /\ grant[p1].id = id1 /\ id1 \in {0, 1}
          /\ \A c \in InRound(r) : c = p1
      BY <1>7, <2>3, ServedIsHeld DEF Unsent
    <3>2. Pending(r) /\ ~Pending(r)'
      BY <1>1, <2>3, NoneAssumption DEF Pending, Unsent
    <3>3. PICK x \in {0, 1} : x = 1 - id1
      BY <3>1
    <3>4. \A c \in InRound(r) : grant[c].id # x /\ grant[c].id = 1 - x
      BY <3>1, <3>3
    <3>5. Seat(r, x) = "starting"
      BY <3>1, <3>2, <3>4 DEF SeatsRead
    <3>6. Seat(r, x)' = "exited"
      BY <1>1, <1>2, <3>1, <3>2, <3>4 DEF SeatsRead
    <3>7. Seat(r, 1 - x)' = Seat(r, 1 - x)
      <4>1. \A y \in {0, 1} : y = 1 - x => Seat(r, y)' = Seat(r, y)
        BY <1>2, <2>1, <3>1, <3>4, SeatKept
      <4>2. 1 - x \in {0, 1}
        OBVIOUS
      <4> QED
        BY <4>1, <4>2
    <3> QED
      BY <1>3, <3>5, <3>6, <3>7, PairRises
  <2> QED
    BY <1>1, <2>2, <2>3
<1> QED
  BY <1>6, <1>7

\* A user who hangs up on a waiting client, and a step of nobody.
LEMMA HangUpStutters ==
  ASSUME RoundInv, SeatsRead, SeatsRead', NEW r \in Nat,
         (\E c \in Clients : HangUp(c)) \/ UNCHANGED vars
  PROVE  UNCHANGED Pair(r)!pairVars
<1>1. UNCHANGED <<dpc, p2, fds, round, grant, client>>
  BY DEF HangUp, vars, daemonVars, clientVars
<1>2. (Pending(r)' <=> Pending(r)) /\ (Held(r)' <=> Held(r))
  BY <1>1 DEF Pending, Unsent, Held, InRound
<1> QED
  BY <1>1, <1>2, QuietForPairs

\* Every step is a step of the pair of each round, or none of its steps.
LEMMA NextPairs ==
  ASSUME RoundInv, RoundInv', SeatsRead, SeatsRead', [Next]_vars, NEW r \in Nat
  PROVE  [Pair(r)!PairNext]_(Pair(r)!pairVars)
<1>1. CASE \/ Start \/ OpenPipe1 \/ OpenPipe2 \/ Pipe1Fails \/ Pipe2Fails
           \/ Accept1 \/ Accept2 \/ Accept1Fails \/ Accept2Fails \/ Send1Fails
  BY <1>1, DaemonOnItsWay
<1>2. CASE Send1
  BY <1>2, FirstSendOpens DEF Pair!PairNext
<1>3. CASE Send2
  BY <1>3, SecondSendStutters
<1>4. CASE CloseAll \/ Crash
  BY <1>4, EndLetsGo DEF Pair!PairNext
<1>5. CASE \E c \in Clients : Connect(c)
  BY <1>5, ConnectStutters
<1>6. CASE \E c \in Clients : Receive(c) \/ RecvEof(c) \/ Exit(c)
  BY <1>6, ClientSitsOrRises DEF Pair!PairNext
<1>7. CASE (\E c \in Clients : HangUp(c)) \/ UNCHANGED vars
  BY <1>7, HangUpStutters
<1> QED
  BY <1>1, <1>2, <1>3, <1>4, <1>5, <1>6, <1>7 DEF Next, Daemon, Fault

\* What the steps of the pairs rest on holds throughout.
THEOREM RoundInvariant == Spec => []RoundInv
<1>1. Init => PlaceInv
  BY DEF Init, PlaceInv, Begun, QueuedOnce, HandsApart, PlayersHaveEnds, Served,
         NoTwice, InHands, Range
<1>2. TypeOK /\ PairInv /\ WaitInv /\ PlaceInv /\ [Next]_vars => PlaceInv'
  BY NextPlaceInv DEF WaitInv
<1>3. Spec => []PlaceInv
  BY <1>1, <1>2, TypeCorrect, PairInvariant, WaitInvariant, PTL DEF Spec
<1>4. TypeOK /\ PairInv /\ PipesHeld /\ WaitInv /\ PlaceInv => RoundInv
  BY DEF RoundInv, WaitInv
<1> QED
  BY <1>3, <1>4, TypeCorrect, PairInvariant, PipesAreHeld, WaitInvariant, PTL

\* The daemon and its clients implement Pairing in every round: two seats that
\* are taken once and left once, and pipes that are let go of once, whatever
\* fails, dies or leaves in between, over any number of clients and rounds.
THEOREM RoundsImplementPairing == Spec => RoundsArePairs
<1>1. \A r \in Rounds : r \in Nat
  BY DEF Rounds
<1>2. Init => \A r \in Rounds : Pair(r)!PairInit
  BY RoundsBeginVacant
<1>3. RoundInv => SeatsRead
  BY SeatsAreRead DEF RoundInv
<1>4. RoundInv /\ RoundInv' /\ SeatsRead /\ SeatsRead' /\ [Next]_vars
        => \A r \in Rounds : [Pair(r)!PairNext]_(Pair(r)!pairVars)
  BY <1>1, NextPairs
<1> QED
  BY <1>2, <1>3, <1>4, RoundInvariant, PTL DEF Spec, RoundsArePairs
=============================================================================
