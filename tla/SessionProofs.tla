---------------------------- MODULE SessionProofs ----------------------------
(***************************************************************************)
(* Proofs about Session, for every engine that meets EngineAssumption,     *)
(* every set of moves the users may send and every bound on the inboxes.   *)
(* EngineProofs has the facts about Moves that they rest on.               *)
(***************************************************************************)
EXTENDS Session, EngineProofs

\* If the move that a client takes from its inbox now is rejected, then the
\* rejection leaves its game alone, as the callers of make_move() expect.
RejectionSpares ==
  \A p \in Players :
    Reads(p, "MAKE_MOVE") =>
      LET r == PlayText(game[p], TextOf[Head(inbox[p]).move])
      IN  r.code \in NonFatal => r.game = game[p]

\* White and black are each other's only opponent.
LEMMA TwoPlayers ==
  \A p \in Players : /\ Opponent(p) \in Players
                     /\ Opponent(p) # p
                     /\ Opponent(Opponent(p)) = p
                     /\ \A q \in Players : q = p \/ q = Opponent(p)
  BY DEF Players, Opponent, WHITE, BLACK

\* The return codes of chess.h:78-84 as sets of numbers.
LEMMA CodeValues ==
  /\ NonFatal = {-1, -5} /\ GameOver = {-2, -3, -4} /\ Accepted = {0, 1}
  /\ MoveCodes = {-1, -5, -2, -3, -4, 0, 1}
  BY DEF NonFatal, GameOver, Accepted, MoveCodes, ILLEGAL_MOVE, WHITE_WIN,
         BLACK_WIN, FORCED_DRAW, MISSING_PROMOTION, OK, DRAW_OFFER

\* Playing the text of a submitted move is playing that move.
LEMMA PlayTextIsEngineMove ==
  ASSUME NEW g, NEW w \in Submissions
  PROVE  PlayText(g, TextOf[w]) = EngineMove(g, ApiGetMove(w))
<1>1. ApiGetMove(w) \in MoveSet
  BY EngineAssumption, WireMovesDecode
<1>2. TextOf[w] = MoveToString(ApiGetMove(w))
  BY DEF TextOf
<1> QED
  BY <1>1, <1>2, TextRoundTrip DEF PlayText

\* What a client may rely on when it plays the text of a submitted move.
LEMMA PlayTextFacts ==
  ASSUME NEW g \in Games, NEW text \in Range(TextOf)
  PROVE  LET r == PlayText(g, text)
         IN  /\ r.code \in MoveCodes
             /\ r.game \in Games
             /\ r.code \in NonFatal => PlayerOf(r.game) = PlayerOf(g)
             /\ r.code \in Accepted => PlayerOf(r.game) = Opponent(PlayerOf(g))
<1>1. PICK w \in Submissions : text = TextOf[w]
  BY DEF Range, TextOf
<1>2. PlayText(g, text) = EngineMove(g, ApiGetMove(w))
  BY <1>1, PlayTextIsEngineMove
<1> QED
  BY <1>2, EngineAssumption

\* The loop of run_client() waits for a user or for a peer.
LEMMA WaitsForPlace ==
  \A p, g : WaitsFor(p, g) \in {"user", "peer"}
  BY DEF WaitsFor

\* Whatever the return code, one of the known messages ends a game.
LEMMA EndMsgType == \A code : EndMsg(code) \in Verdicts
  BY DEF EndMsg, Verdicts, Results, GameOver

\* The initial states have the right types, and so has what every step leaves.
LEMMA InitTypeOK == Init => TypeOK
  BY EngineAssumption DEF Init, TypeOK, Places, Verdicts

\* Ending a game types, whatever the code.
LEMMA EndWithType ==
  ASSUME TypeOK, NEW p \in Players, NEW code, EndWith(p, code)
  PROVE  pc' \in [Players -> Places] /\ verdict' \in [Players -> Verdicts]
<1>1. verdict' = [verdict EXCEPT ![p] = EndMsg(code)]
  BY DEF EndWith
<1>2. PICK place \in {"ending", "exited"} : pc' = [pc EXCEPT ![p] = place]
  BY DEF EndWith, AfterOutput
<1> QED
  BY <1>1, <1>2, EndMsgType DEF TypeOK, Places

\* A command that getchar() has read is one of the user's commands.
LEMMA ReadsType ==
  ASSUME TypeOK, NEW p \in Players, NEW op, Reads(p, op)
  PROVE  /\ Head(inbox[p]) \in Commands
         /\ inbox' \in [Players -> Seq(Commands)]
  BY DEF TypeOK, Reads

\* The step that plays a user's move has one of four outcomes.
LEMMA SubmitMoveType ==
  ASSUME TypeOK, NEW p \in Players, SubmitMove(p)
  PROVE  TypeOK'
<1>1. /\ Head(inbox[p]) \in Commands
      /\ inbox' \in [Players -> Seq(Commands)]
  BY ReadsType DEF SubmitMove
<1>2. Head(inbox[p]).move \in Submissions
  BY <1>1 DEF SubmitMove, Reads, Commands
<1> DEFINE text == TextOf[Head(inbox[p]).move]
           r == PlayText(game[p], text)
<1>3. text \in Range(TextOf)
  BY <1>2 DEF TextOf, Range
<1>4. game[p] \in Games /\ Opponent(p) \in Players
  BY TwoPlayers DEF TypeOK
<1>5. r.game \in Games
  BY <1>3, <1>4, PlayTextFacts
<1>6. /\ game' = [game EXCEPT ![p] = r.game]
      /\ hungup' = hungup /\ held' = held
  BY DEF SubmitMove
<1>7. game' \in [Players -> Games]
  BY <1>5, <1>6 DEF TypeOK
<1>8. \/ Reject(p, r) \/ Conclude(p, r) \/ Send(p, r, text) \/ SendFails(p, r)
  BY DEF SubmitMove
<1> HIDE DEF text, r
<1>9. /\ pc' \in [Players -> Places]
      /\ pipe' \in [Players -> Seq(Range(TextOf))]
      /\ verdict' \in [Players -> Verdicts]
  <2>1. CASE Reject(p, r)
    <3>1. PICK place \in {"user", "exited"} : pc' = [pc EXCEPT ![p] = place]
      BY <2>1 DEF Reject, AfterOutput
    <3> QED
      BY <2>1, <3>1 DEF Reject, TypeOK, Places
  <2>2. CASE Conclude(p, r)
    BY <2>2, EndWithType DEF Conclude, TypeOK
  <2>3. CASE Send(p, r, text)
    <3>1. pc' \in [Players -> Places]
      BY <2>3, WaitsForPlace DEF Send, TypeOK, Places
    <3>2. pipe' \in [Players -> Seq(Range(TextOf))]
      BY <2>3, <1>3, <1>4 DEF Send, TypeOK
    <3> QED
      BY <2>3, <3>1, <3>2 DEF Send, TypeOK
  <2>4. CASE SendFails(p, r)
    <3>1. CASE EndWith(p, IO_ERROR)
      BY <2>4, <3>1, EndWithType DEF SendFails, TypeOK
    <3>2. CASE pc' = [pc EXCEPT ![p] = "exited"] /\ UNCHANGED verdict
      BY <2>4, <3>2 DEF SendFails, TypeOK, Places
    <3> QED
      BY <2>4, <3>1, <3>2 DEF SendFails
  <2> QED
    BY <1>8, <2>1, <2>2, <2>3, <2>4
<1> QED
  BY <1>1, <1>6, <1>7, <1>9 DEF TypeOK

\* parse_op_move() leaves a game of the engine and a known verdict.
LEMMA ReadMoveType ==
  ASSUME TypeOK, NEW p \in Players, ReadMove(p)
  PROVE  TypeOK'
<1> DEFINE r == PlayText(game[p], Head(pipe[p]))
<1>1. Head(pipe[p]) \in Range(TextOf) /\ game[p] \in Games
  BY DEF ReadMove, TypeOK
<1>2. r.game \in Games
  BY <1>1, PlayTextFacts
<1>3. /\ game' = [game EXCEPT ![p] = r.game]
      /\ pipe' = [pipe EXCEPT ![p] = <<>>]
      /\ UNCHANGED <<inbox, hungup, held>>
      /\ \/ EndWith(p, r.code)
         \/ /\ \E place \in AfterOutput(p, WaitsFor(p, r.game)) :
                 pc' = [pc EXCEPT ![p] = place]
            /\ UNCHANGED verdict
  BY DEF ReadMove
<1> HIDE DEF r
<1>4. pc' \in [Players -> Places] /\ verdict' \in [Players -> Verdicts]
  <2>1. CASE EndWith(p, r.code)
    BY <2>1, EndWithType
  <2>2. CASE /\ \E place \in AfterOutput(p, WaitsFor(p, r.game)) :
                  pc' = [pc EXCEPT ![p] = place]
             /\ UNCHANGED verdict
    <3>1. PICK place \in {"user", "peer", "exited"} :
            pc' = [pc EXCEPT ![p] = place]
      BY <2>2, WaitsForPlace DEF AfterOutput
    <3> QED
      BY <2>2, <3>1 DEF TypeOK, Places
  <2> QED
    BY <1>3, <2>1, <2>2
<1>5. game' \in [Players -> Games]
  BY <1>2, <1>3 DEF TypeOK
<1>6. pipe' \in [Players -> Seq(Range(TextOf))]
  BY <1>3 DEF TypeOK
<1> QED
  BY <1>3, <1>4, <1>5, <1>6 DEF TypeOK

\* No step of a client or of a user leaves the types.
LEMMA NextTypeOK == TypeOK /\ [Next]_vars => TypeOK'
<1> SUFFICES ASSUME TypeOK, [Next]_vars PROVE TypeOK'
  OBVIOUS
<1>1. ASSUME NEW p \in Players, Query(p) PROVE TypeOK'
  <2>1. PICK place \in {"user", "exited"} : pc' = [pc EXCEPT ![p] = place]
    BY <1>1 DEF Query, AfterOutput
  <2> QED
    BY <1>1, <2>1, ReadsType DEF Query, TypeOK, Places
<1>2. ASSUME NEW p \in Players, BadCommand(p) PROVE TypeOK'
  BY <1>2, ReadsType, EndWithType DEF BadCommand, TypeOK
<1>3. ASSUME NEW p \in Players, Eof(p) PROVE TypeOK'
  BY <1>3, EndWithType DEF Eof, TypeOK
<1>4. ASSUME NEW p \in Players, SubmitMove(p) PROVE TypeOK'
  BY <1>4, SubmitMoveType
<1>5. ASSUME NEW p \in Players, ReadMove(p) PROVE TypeOK'
  BY <1>5, ReadMoveType
<1>6. ASSUME NEW p \in Players, PeerGone(p) PROVE TypeOK'
  BY <1>6, EndWithType DEF PeerGone, TypeOK
<1>7. ASSUME NEW p \in Players, Finish(p) PROVE TypeOK'
  BY <1>7 DEF Finish, TypeOK, Places
<1>8. ASSUME NEW p \in Players, UserSends(p) PROVE TypeOK'
  BY <1>8 DEF UserSends, TypeOK
<1>9. ASSUME NEW p \in Players, HangUp(p) PROVE TypeOK'
  <2>1. PICK rest \in {inbox[p], <<>>} : inbox' = [inbox EXCEPT ![p] = rest]
    BY <1>9 DEF HangUp
  <2>2. rest \in Seq(Commands)
    <3>1. inbox[p] \in Seq(Commands) /\ <<>> \in Seq(Commands)
      BY DEF TypeOK
    <3> QED
      BY <3>1
  <2>3. inbox' \in [Players -> Seq(Commands)]
    BY <2>1, <2>2 DEF TypeOK
  <2>4. hungup' \in [Players -> BOOLEAN]
    <3>1. hungup' = [hungup EXCEPT ![p] = TRUE]
      BY <1>9 DEF HangUp
    <3> QED
      BY <3>1 DEF TypeOK
  <2> QED
    BY <1>9, <2>3, <2>4 DEF HangUp, TypeOK
<1>10. ASSUME NEW p \in Players, Begin(p) PROVE TypeOK'
  <2>1. PICK place \in {"user", "peer", "exited"} :
          pc' = [pc EXCEPT ![p] = place]
    BY <1>10, WaitsForPlace DEF Begin, AfterOutput
  <2> QED
    BY <1>10, <2>1 DEF Begin, TypeOK, Places
<1>11. ASSUME NEW p \in Players, Killed(p) PROVE TypeOK'
  BY <1>11 DEF Killed, TypeOK, Places
<1>12. CASE DaemonCloses
  <2>1. PICK lost \in SUBSET {p \in Players : pc[p] = "starting"} :
          pc' = [p \in Players |-> IF p \in lost THEN "exited" ELSE pc[p]]
    BY <1>12 DEF DaemonCloses
  <2>2. pc' \in [Players -> Places]
    BY <2>1 DEF TypeOK, Places
  <2> QED
    BY <1>12, <2>2 DEF DaemonCloses, TypeOK
<1>13. CASE UNCHANGED vars
  BY <1>13 DEF vars, TypeOK
<1> QED
  BY <1>1, <1>2, <1>3, <1>4, <1>5, <1>6, <1>7, <1>8, <1>9, <1>10, <1>11,
     <1>12, <1>13
  DEF Next, Client, User, Over

\* Type correctness: among others, a client's board is always one the engine
\* can leave, and all that ever travels between the clients is move texts.
THEOREM TypeCorrect == Spec => []TypeOK
  BY InitTypeOK, NextTypeOK, PTL DEF Spec
-----------------------------------------------------------------------------
\* What ending a game does to the place of a client.
LEMMA EndWithPlace ==
  ASSUME NEW p, NEW code, EndWith(p, code)
  PROVE  /\ \/ pc' = [pc EXCEPT ![p] = "ending"]
            \/ pc' = [pc EXCEPT ![p] = "exited"]
         /\ verdict' = [verdict EXCEPT ![p] = EndMsg(code)]
  BY DEF EndWith, AfterOutput

\* With no text in flight a client, or its user, may be at any place.
LEMMA MoverHasEmptyPipes ==
  ASSUME Lockstep, NEW p \in Players, At(p) = "user"
  PROVE  \A q \in Players : pipe[q] = <<>>
  BY TwoPlayers DEF Lockstep, NothingToLose

\* Clients that stay where they are, or are gone, cannot upset each other:
\* not when they begin, ask again, finish or are killed.
LEMMA FadingKeepsLockstep ==
  ASSUME Lockstep,
         \A p \in Players : At(p)' = At(p) \/ At(p)' = "exited",
         \A p \in Players : PlayerOf(game'[p]) = PlayerOf(game[p]),
         pipe' = pipe
  PROVE  Lockstep'
<1>1. BoardsTellTurns'
  BY DEF Lockstep, BoardsTellTurns
<1>2. MoverHasReader'
  BY TwoPlayers DEF Lockstep, MoverHasReader
<1>3. NoMutualWait'
  BY DEF Lockstep, NoMutualWait
<1>4. NothingToLose'
  BY TwoPlayers DEF Lockstep, NothingToLose
<1> QED
  BY <1>1, <1>2, <1>3, <1>4 DEF Lockstep

\* A client that ends its game with nothing in its own pipe, and no reader to
\* whom it has sent something.
LEMMA LeavingKeepsLockstep ==
  ASSUME TypeOK, Lockstep, NEW p \in Players, NEW code, EndWith(p, code),
         At(Opponent(p)) # "user",
         \A q \in Players \ {p} : game'[q] = game[q] /\ pipe'[q] = pipe[q],
         pipe'[p] = <<>>,
         At(Opponent(p)) = "peer" => pipe[Opponent(p)] = <<>>
  PROVE  Lockstep'
<1>1. At(p)' \in {"ending", "exited"}
  BY EndWithPlace DEF At, TypeOK
<1>2. \A q \in Players \ {p} : At(q)' = At(q)
  BY EndWithPlace DEF At, WaitsFor, TypeOK
<1>3. BoardsTellTurns'
  BY <1>1, <1>2 DEF Lockstep, BoardsTellTurns
<1>4. MoverHasReader'
  BY <1>1, <1>2, TwoPlayers DEF MoverHasReader
<1>5. NoMutualWait'
  BY <1>1 DEF NoMutualWait
<1>6. NothingToLose'
  BY <1>1, <1>2, TwoPlayers DEF Lockstep, NothingToLose
<1> QED
  BY <1>3, <1>4, <1>5, <1>6 DEF Lockstep

\* Two clients with seats in a new game are in lockstep: both ask new_game()
\* whose turn it is.
LEMMA InitLockstep == Init => Lockstep
<1> SUFFICES ASSUME Init PROVE Lockstep
  OBVIOUS
<1>1. /\ \A p \in Players : /\ game[p] = StartGame /\ pipe[p] = <<>>
                            /\ At(p) = WaitsFor(p, StartGame)
      /\ PlayerOf(StartGame) \in Players
  BY EngineAssumption DEF Init, At
<1>2. BoardsTellTurns
  BY <1>1, TwoPlayers DEF BoardsTellTurns, WaitsFor
<1>3. MoverHasReader
  BY <1>1, TwoPlayers DEF MoverHasReader, WaitsFor
<1>4. NoMutualWait
  BY <1>1 DEF NoMutualWait, WaitsFor
<1>5. NothingToLose
  BY <1>1 DEF NothingToLose
<1> QED
  BY <1>2, <1>3, <1>4, <1>5 DEF Lockstep

\* Sending a move: the mover becomes a reader, and its text is the only one.
LEMMA SendKeepsLockstep ==
  ASSUME TypeOK, Lockstep, NEW p \in Players, NEW r, NEW text,
         pc[p] = "user", Send(p, r, text),
         PlayerOf(r.game) = Opponent(PlayerOf(game[p])),
         game' = [game EXCEPT ![p] = r.game]
  PROVE  Lockstep'
<1> DEFINE q == Opponent(p)
<1>1. q \in Players /\ q # p /\ Opponent(q) = p /\ \A x \in Players : x = p \/ x = q
  BY TwoPlayers
<1>2. At(p) = "user"
  BY DEF At
<1>3. At(q) \in {"peer", "exited"} /\ PlayerOf(game[p]) = p
  BY <1>2 DEF Lockstep, MoverHasReader, BoardsTellTurns
<1>4. game'[p] = r.game /\ game'[q] = game[q] /\ PlayerOf(game'[p]) = q
  BY <1>1, <1>3 DEF TypeOK
<1>5. pc'[p] = "peer" /\ pc'[q] = pc[q]
  BY <1>1, <1>4 DEF Send, WaitsFor, TypeOK
<1>6. At(p)' = "peer" /\ At(q)' = At(q)
  BY <1>4, <1>5 DEF At, WaitsFor
<1>7. pipe[p] = <<>> /\ pipe[q] = <<>>
  BY <1>1, <1>2, MoverHasEmptyPipes
<1>8. pipe'[p] = <<>> /\ pipe'[q] = <<text>>
  BY <1>1, <1>7 DEF Send, TypeOK
<1> HIDE DEF q
<1>9. BoardsTellTurns'
  <2>1. At(q) = "peer" => PlayerOf(game[q]) = p
    BY <1>1 DEF Lockstep, BoardsTellTurns
  <2> QED
    BY <1>1, <1>3, <1>4, <1>6, <2>1 DEF BoardsTellTurns, q
<1>10. MoverHasReader'
  BY <1>1, <1>3, <1>6 DEF MoverHasReader
<1>11. NoMutualWait'
  BY <1>1, <1>8 DEF NoMutualWait
<1>12. NothingToLose'
  <2>1. Len(<<text>>) = 1
    OBVIOUS
  <2> QED
    BY <1>1, <1>3, <1>6, <1>8, <2>1 DEF NothingToLose, q
<1> QED
  BY <1>9, <1>10, <1>11, <1>12 DEF Lockstep

\* get_player_move() keeps the lockstep, whichever way it ends.
LEMMA SubmitMoveLockstep ==
  ASSUME TypeOK, Lockstep, NEW p \in Players, SubmitMove(p)
  PROVE  Lockstep'
<1> DEFINE text == TextOf[Head(inbox[p]).move]
           r == PlayText(game[p], text)
<1>1. pc[p] = "user" /\ At(p) = "user"
  BY DEF SubmitMove, Reads, At
<1>2. game[p] \in Games /\ text \in Range(TextOf)
  <2>1. Head(inbox[p]).move \in Submissions
    BY ReadsType DEF SubmitMove, Reads, Commands
  <2> QED
    BY <2>1 DEF TypeOK, TextOf, Range
<1>3. /\ r.code \in NonFatal => PlayerOf(r.game) = PlayerOf(game[p])
      /\ r.code \in Accepted => PlayerOf(r.game) = Opponent(PlayerOf(game[p]))
  BY <1>2, PlayTextFacts
<1>4. /\ game' = [game EXCEPT ![p] = r.game]
      /\ Reject(p, r) \/ Conclude(p, r) \/ Send(p, r, text) \/ SendFails(p, r)
  BY DEF SubmitMove
<1> HIDE DEF text, r
<1>5. game'[p] = r.game /\ \A q \in Players \ {p} : game'[q] = game[q]
  BY <1>4 DEF TypeOK
<1>6. /\ At(Opponent(p)) # "user"
      /\ \A q \in Players : pipe[q] = <<>>
  BY <1>1, TwoPlayers, MoverHasEmptyPipes DEF Lockstep, MoverHasReader
<1>7. CASE Reject(p, r)
  <2>1. PICK place \in {"user", "exited"} : pc' = [pc EXCEPT ![p] = place]
    BY <1>7 DEF Reject, AfterOutput
  <2>2. \A q \in Players : At(q)' = At(q) \/ At(q)' = "exited"
    BY <1>1, <1>5, <2>1 DEF At, WaitsFor, TypeOK
  <2>3. (\A q \in Players : PlayerOf(game'[q]) = PlayerOf(game[q])) /\ pipe' = pipe
    BY <1>3, <1>5, <1>7 DEF Reject
  <2> QED
    BY <2>2, <2>3, FadingKeepsLockstep
<1>8. CASE Conclude(p, r)
  <2>1. EndWith(p, r.code) /\ pipe' = pipe
    BY <1>8 DEF Conclude
  <2> QED
    BY <1>5, <1>6, <2>1, TwoPlayers, LeavingKeepsLockstep
<1>9. CASE Send(p, r, text)
  BY <1>1, <1>3, <1>4, <1>9, SendKeepsLockstep DEF Send
<1>10. CASE SendFails(p, r)
  <2>1. pc[Opponent(p)] = "exited" /\ pipe' = pipe
    BY <1>10 DEF SendFails, Gone
  <2>2. CASE EndWith(p, IO_ERROR)
    BY <1>5, <1>6, <2>1, <2>2, TwoPlayers, LeavingKeepsLockstep
  <2>3. CASE pc' = [pc EXCEPT ![p] = "exited"]
    <3>1. \A q \in Players : At(q)' = "exited"
      BY <2>1, <2>3, TwoPlayers DEF At, TypeOK
    <3>2. \A q \in Players : pipe'[q] = <<>>
      BY <1>6, <2>1
    <3> QED
      BY <3>1, <3>2
      DEF Lockstep, BoardsTellTurns, MoverHasReader, NoMutualWait, NothingToLose
  <2> QED
    BY <1>10, <2>2, <2>3 DEF SendFails
<1> QED
  BY <1>4, <1>7, <1>8, <1>9, <1>10

\* parse_op_move() keeps it as well: the reader becomes the mover.
LEMMA ReadMoveLockstep ==
  ASSUME TypeOK, Lockstep, NEW p \in Players, ReadMove(p)
  PROVE  Lockstep'
<1> DEFINE q == Opponent(p)
           r == PlayText(game[p], Head(pipe[p]))
<1>1. q \in Players /\ q # p /\ Opponent(q) = p /\ \A x \in Players : x = p \/ x = q
  BY TwoPlayers
<1>2. pc[p] = "peer" /\ At(p) = "peer" /\ pipe[p] # <<>>
  BY DEF ReadMove, At
<1>3. /\ At(q) \in {"peer", "exited"} /\ pipe[q] = <<>>
      /\ PlayerOf(game[p]) = q
      /\ At(q) = "peer" => PlayerOf(game[q]) = p
  BY <1>1, <1>2 DEF Lockstep, NothingToLose, BoardsTellTurns
<1>4. game[p] \in Games /\ Head(pipe[p]) \in Range(TextOf)
  BY <1>2 DEF TypeOK
<1>5. /\ r.code \in MoveCodes
      /\ r.code \in Accepted => PlayerOf(r.game) = Opponent(PlayerOf(game[p]))
  BY <1>4, PlayTextFacts
<1>6. /\ game' = [game EXCEPT ![p] = r.game]
      /\ pipe' = [pipe EXCEPT ![p] = <<>>]
      /\ \/ EndWith(p, r.code)
         \/ /\ r.code >= 0
            /\ \E place \in AfterOutput(p, WaitsFor(p, r.game)) :
                 pc' = [pc EXCEPT ![p] = place]
  BY DEF ReadMove
<1> HIDE DEF r
<1>7. /\ game'[p] = r.game /\ game'[q] = game[q]
      /\ pipe'[p] = <<>> /\ pipe'[q] = pipe[q]
  BY <1>1, <1>6 DEF TypeOK
<1>8. CASE EndWith(p, r.code)
  <2>1. \A x \in Players \ {p} : game'[x] = game[x] /\ pipe'[x] = pipe[x]
    BY <1>1, <1>7
  <2>2. At(Opponent(p)) # "user" /\ pipe[Opponent(p)] = <<>>
    BY <1>3
  <2> QED
    BY <1>7, <1>8, <2>1, <2>2, LeavingKeepsLockstep
<1>9. CASE /\ r.code >= 0
           /\ \E place \in AfterOutput(p, WaitsFor(p, r.game)) :
                pc' = [pc EXCEPT ![p] = place]
  <2>1. PlayerOf(r.game) = p
    BY <1>1, <1>3, <1>5, <1>9, CodeValues
  <2>2. PICK place \in {"user", "exited"} : pc' = [pc EXCEPT ![p] = place]
    BY <1>9, <2>1 DEF AfterOutput, WaitsFor
  <2>3. pc'[p] = place /\ pc'[q] = pc[q]
    BY <1>1, <2>2 DEF TypeOK
  <2>4. At(p)' \in {"user", "exited"} /\ At(q)' = At(q)
    BY <1>7, <2>2, <2>3 DEF At, WaitsFor
  <2> HIDE DEF q
  <2>5. BoardsTellTurns'
    BY <1>1, <1>3, <1>7, <2>1, <2>4 DEF BoardsTellTurns
  <2>6. MoverHasReader'
    BY <1>1, <1>3, <2>4 DEF MoverHasReader, q
  <2>7. NoMutualWait' /\ NothingToLose'
    BY <1>1, <1>3, <1>7, <2>4 DEF NoMutualWait, NothingToLose
  <2> QED
    BY <2>5, <2>6, <2>7 DEF Lockstep
<1> QED
  BY <1>6, <1>8, <1>9

\* A client that ends its own turn leaves nothing behind that could be lost.
LEMMA TurnEndsLockstep ==
  ASSUME TypeOK, Lockstep, NEW p \in Players, pc[p] = "user",
         EndWith(p, IO_ERROR), game' = game, pipe' = pipe
  PROVE  Lockstep'
<1>1. At(p) = "user"
  BY DEF At
<1>2. At(Opponent(p)) # "user" /\ \A q \in Players : pipe[q] = <<>>
  BY <1>1, MoverHasEmptyPipes DEF Lockstep, MoverHasReader
<1> QED
  BY <1>2, TwoPlayers, LeavingKeepsLockstep

\* The steps after which every client is where it was, or gone.
Fading ==
  /\ \A p \in Players : At(p)' = At(p) \/ At(p)' = "exited"
  /\ UNCHANGED <<game, pipe, verdict>>

\* They are the ones that only print, finish, or end a process; and what the
\* users do.
LEMMA FadingSteps ==
  ASSUME TypeOK,
         \/ \E p \in Players :
              Begin(p) \/ Query(p) \/ Finish(p) \/ User(p) \/ Killed(p)
         \/ DaemonCloses
         \/ UNCHANGED vars
  PROVE  Fading
<1>1. ASSUME NEW p \in Players, Begin(p) PROVE Fading
  <2>1. PICK place \in {WaitsFor(p, game[p]), "exited"} :
          pc' = [pc EXCEPT ![p] = place]
    BY <1>1 DEF Begin, AfterOutput
  <2> QED
    BY <1>1, <2>1 DEF Begin, Fading, At, WaitsFor, TypeOK
<1>2. ASSUME NEW p \in Players, Query(p) PROVE Fading
  <2>1. PICK place \in {"user", "exited"} : pc' = [pc EXCEPT ![p] = place]
    BY <1>2 DEF Query, AfterOutput
  <2> QED
    BY <1>2, <2>1 DEF Query, Reads, Fading, At, WaitsFor, TypeOK
<1>3. ASSUME NEW p \in Players, Finish(p) \/ Killed(p) PROVE Fading
  BY <1>3 DEF Finish, Killed, Fading, At, WaitsFor, TypeOK
<1>4. ASSUME NEW p \in Players, User(p) PROVE Fading
  BY <1>4 DEF User, UserSends, HangUp, Fading, At, WaitsFor
<1>5. CASE DaemonCloses
  <2>1. PICK lost \in SUBSET {p \in Players : pc[p] = "starting"} :
          pc' = [p \in Players |-> IF p \in lost THEN "exited" ELSE pc[p]]
    BY <1>5 DEF DaemonCloses
  <2> QED
    BY <1>5, <2>1 DEF DaemonCloses, Fading, At, WaitsFor
<1>6. CASE UNCHANGED vars
  BY <1>6 DEF vars, Fading, At, WaitsFor
<1> QED
  BY <1>1, <1>2, <1>3, <1>4, <1>5, <1>6

\* All other steps end a turn, play a move, read one or find nobody to wait for.
LEMMA StepsByEffect ==
  ASSUME TypeOK, [Next]_vars
  PROVE  \/ Fading
         \/ \E p \in Players : BadCommand(p) \/ Eof(p)
         \/ \E p \in Players : SubmitMove(p) \/ ReadMove(p) \/ PeerGone(p)
  BY FadingSteps DEF Next, Client, Over

\* Where nobody reads any more, the reader's end disturbs nobody.
LEMMA PeerGoneLockstep ==
  ASSUME TypeOK, Lockstep, NEW p \in Players, PeerGone(p)
  PROVE  Lockstep'
<1>1. At(Opponent(p)) = "exited"
  BY DEF PeerGone, Gone, At
<1>2. pipe'[p] = <<>> /\ \A q \in Players \ {p} : pipe'[q] = pipe[q]
  BY DEF PeerGone
<1> QED
  BY <1>1, <1>2, LeavingKeepsLockstep DEF PeerGone

\* Every step keeps the lockstep.
LEMMA NextLockstep == TypeOK /\ Lockstep /\ [Next]_vars => Lockstep'
<1> SUFFICES ASSUME TypeOK, Lockstep, [Next]_vars PROVE Lockstep'
  OBVIOUS
<1>1. CASE Fading
  BY <1>1, FadingKeepsLockstep DEF Fading
<1>2. ASSUME NEW p \in Players, BadCommand(p) \/ Eof(p) PROVE Lockstep'
  BY <1>2, TurnEndsLockstep DEF BadCommand, Eof, Reads
<1>3. ASSUME NEW p \in Players, SubmitMove(p) PROVE Lockstep'
  BY <1>3, SubmitMoveLockstep
<1>4. ASSUME NEW p \in Players, ReadMove(p) PROVE Lockstep'
  BY <1>4, ReadMoveLockstep
<1>5. ASSUME NEW p \in Players, PeerGone(p) PROVE Lockstep'
  BY <1>5, PeerGoneLockstep
<1> QED
  BY <1>1, <1>2, <1>3, <1>4, <1>5, StepsByEffect

\* The two clients take turns, whatever the engine does to a board when it
\* rejects a move: no two movers, no deadlock in read(), no move lost.
THEOREM LockstepHolds == Spec => []Lockstep
<1>1. Init => TypeOK /\ Lockstep
  BY InitTypeOK, InitLockstep
<1>2. TypeOK /\ Lockstep /\ [Next]_vars => (TypeOK /\ Lockstep)'
  BY NextTypeOK, NextLockstep
<1> QED
  BY <1>1, <1>2, PTL DEF Spec
-----------------------------------------------------------------------------
\* The invariant behind the two boards: while rejections leave the boards
\* alone, the reader always stands where the writer stood.
LEMMA InitBoards == Init => BoardsAgree /\ NoUnknownError
  BY TwoPlayers DEF Init, BoardsAgree, NoUnknownError

\* Nothing is disturbed while the boards and the pipes stay as they are.
LEMMA FadingKeepsBoards ==
  ASSUME BoardsAgree, NoUnknownError, Fading
  PROVE  BoardsAgree' /\ NoUnknownError'
<1>1. BoardsAgree'
  BY DEF BoardsAgree, Fading
<1> QED
  BY <1>1 DEF NoUnknownError, Fading

\* Leaving the game for any reason but an unknown error disturbs no board.
LEMMA LeavingKeepsBoards ==
  ASSUME TypeOK, BoardsAgree, NoUnknownError, NEW p \in Players, NEW code,
         EndWith(p, code), code \in GameOver \cup {IO_ERROR},
         At(Opponent(p)) # "user",
         \/ game' = game /\ pipe' = pipe
         \/ /\ \A q \in Players \ {p} : game'[q] = game[q]
            /\ \A q \in Players : pipe'[q] = <<>>
  PROVE  BoardsAgree' /\ NoUnknownError'
<1>1. At(p)' \in {"ending", "exited"}
  BY EndWithPlace DEF At, TypeOK
<1>2. \A q \in Players \ {p} : At(q)' = At(q)
  BY EndWithPlace DEF At, WaitsFor, TypeOK
<1>3. EndMsg(code) # "MSG_UNKNOWN_ERROR"
  BY DEF EndMsg, GameOver, WHITE_WIN, BLACK_WIN, FORCED_DRAW, IO_ERROR
<1>4. NoUnknownError'
  BY <1>3, EndWithPlace DEF NoUnknownError, TypeOK
<1>5. \A x \in Players : At(x)' # "user"
  BY <1>1, <1>2, TwoPlayers
<1>6. BoardsAgree'
  <2>1. CASE game' = game /\ pipe' = pipe
    BY <1>5, <2>1 DEF BoardsAgree
  <2>2. CASE \A q \in Players : pipe'[q] = <<>>
    BY <1>5, <2>2, TwoPlayers DEF BoardsAgree
  <2> QED
    BY <2>1, <2>2
<1> QED
  BY <1>4, <1>6

\* Unless a rejection does, get_player_move() changes a board only by a move
\* that it sends.
LEMMA SubmitMoveBoards ==
  ASSUME RejectionSpares, TypeOK, Lockstep, BoardsAgree, NoUnknownError,
         NEW p \in Players, SubmitMove(p)
  PROVE  BoardsAgree' /\ NoUnknownError'
<1> DEFINE q == Opponent(p)
           w == Head(inbox[p]).move
           text == TextOf[w]
           r == PlayText(game[p], text)
<1>1. q \in Players /\ q # p /\ Opponent(q) = p /\ \A x \in Players : x = p \/ x = q
  BY TwoPlayers
<1>2. pc[p] = "user" /\ At(p) = "user"
  BY DEF SubmitMove, Reads, At
<1>3. /\ At(q) # "user" /\ game[q] = game[p] /\ PlayerOf(game[p]) = p
      /\ \A x \in Players : pipe[x] = <<>>
  BY <1>2, MoverHasEmptyPipes
  DEF Lockstep, MoverHasReader, BoardsAgree, BoardsTellTurns
<1>4. w \in Submissions
  BY ReadsType DEF SubmitMove, Reads, Commands
<1>5. r.code \in NonFatal => r.game = game[p]
  BY DEF RejectionSpares, SubmitMove
<1>6. r.code \in Accepted => PlayerOf(r.game) = q
  BY <1>3, <1>4, PlayTextFacts DEF TypeOK, TextOf, Range
<1>7. /\ game' = [game EXCEPT ![p] = r.game]
      /\ Reject(p, r) \/ Conclude(p, r) \/ Send(p, r, text) \/ SendFails(p, r)
  BY DEF SubmitMove
<1>8. r = PlayText(game[p], text)
  OBVIOUS
<1> HIDE DEF q, w, text, r
<1>9. game'[p] = r.game /\ \A x \in Players \ {p} : game'[x] = game[x]
  BY <1>7 DEF TypeOK
<1>10. CASE Reject(p, r)
  <2>1. game' = game
    BY <1>5, <1>7, <1>10 DEF Reject, TypeOK
  <2>2. PICK place \in {"user", "exited"} : pc' = [pc EXCEPT ![p] = place]
    BY <1>10 DEF Reject, AfterOutput
  <2>3. Fading
    BY <1>2, <1>10, <2>1, <2>2 DEF Reject, Fading, At, WaitsFor, TypeOK
  <2> QED
    BY <2>3, FadingKeepsBoards
<1>11. CASE Conclude(p, r)
  <2>1. EndWith(p, r.code) /\ r.code \in GameOver /\ pipe' = pipe
    BY <1>11 DEF Conclude
  <2>2. At(Opponent(p)) # "user" /\ \A x \in Players : pipe'[x] = <<>>
    BY <1>3, <2>1 DEF q
  <2> QED
    BY <1>9, <2>1, <2>2, LeavingKeepsBoards
<1>12. CASE Send(p, r, text)
  <2>1. pc'[p] = "peer" /\ pc'[q] = pc[q] /\ r.code \in Accepted /\ verdict' = verdict
    BY <1>1, <1>6, <1>12 DEF Send, WaitsFor, TypeOK
  <2>2. At(p)' = "peer" /\ At(q)' # "user"
    BY <1>1, <1>3, <1>9, <2>1 DEF At, WaitsFor
  <2>3. pipe'[q] = <<text>> /\ pipe'[p] = <<>>
    <3>1. pipe' = [pipe EXCEPT ![q] = Append(@, text)]
      BY <1>12 DEF Send, q
    <3>2. Append(<<>>, text) = <<text>>
      OBVIOUS
    <3> QED
      BY <1>1, <1>3, <3>1, <3>2 DEF TypeOK
  <2>4. game'[q] = game[p] /\ game'[p] = r.game
    BY <1>1, <1>3, <1>9
  <2>5. PlayText(game'[q], Head(pipe'[q])) = r
    BY <1>8, <2>3, <2>4
  <2>6. BoardsAgree'
    BY <1>1, <2>1, <2>2, <2>3, <2>4, <2>5 DEF BoardsAgree, q
  <2> QED
    BY <2>1, <2>6 DEF NoUnknownError
<1>13. CASE SendFails(p, r)
  <2>1. pc[q] = "exited" /\ pipe' = pipe
    BY <1>13 DEF SendFails, Gone, q
  <2>2. \A x \in Players : pipe'[x] = <<>>
    BY <1>3, <2>1
  <2>3. CASE EndWith(p, IO_ERROR)
    <3>1. At(Opponent(p)) # "user"
      BY <1>3 DEF q
    <3> QED
      BY <1>9, <2>2, <2>3, <3>1, LeavingKeepsBoards
  <2>4. CASE pc' = [pc EXCEPT ![p] = "exited"] /\ verdict' = verdict
    <3>1. \A x \in Players : At(x)' = "exited"
      BY <1>1, <2>1, <2>4 DEF At, TypeOK
    <3>2. BoardsAgree'
      BY <2>2, <3>1, TwoPlayers DEF BoardsAgree
    <3> QED
      BY <2>4, <3>2 DEF NoUnknownError
  <2> QED
    BY <1>13, <2>3, <2>4 DEF SendFails
<1> QED
  BY <1>7, <1>10, <1>11, <1>12, <1>13

\* What parse_op_move() reads is a move that it accepts, and that takes it to
\* the sender's board.
LEMMA ReadMoveFollows ==
  ASSUME BoardsAgree, NEW p \in Players, ReadMove(p)
  PROVE  LET r == PlayText(game[p], Head(pipe[p]))
         IN  /\ r.code \in Accepted /\ r.game = game[Opponent(p)]
             /\ game' = [game EXCEPT ![p] = r.game]
             /\ verdict' = verdict
             /\ \E place \in AfterOutput(p, WaitsFor(p, r.game)) :
                  pc' = [pc EXCEPT ![p] = place]
<1> DEFINE q == Opponent(p)
           r == PlayText(game[p], Head(pipe[p]))
<1>1. q \in Players /\ Opponent(q) = p /\ pipe[p] # <<>>
  BY TwoPlayers DEF ReadMove
<1>2. pipe[Opponent(q)] # <<>> =>
        LET s == PlayText(game[Opponent(q)], Head(pipe[Opponent(q)]))
        IN  s.code \in Accepted /\ s.game = game[q]
  BY <1>1 DEF BoardsAgree
<1>3. r.code \in Accepted /\ r.game = game[q]
  BY <1>1, <1>2
<1>4. /\ game' = [game EXCEPT ![p] = r.game]
      /\ \/ r.code < 0
         \/ /\ \E place \in AfterOutput(p, WaitsFor(p, r.game)) :
                 pc' = [pc EXCEPT ![p] = place]
            /\ UNCHANGED verdict
  BY DEF ReadMove
<1> HIDE DEF r
<1>5. ~(r.code < 0)
  BY <1>3, CodeValues
<1> QED
  BY <1>3, <1>4, <1>5 DEF r

\* parse_op_move() catches up with the sender's board.
LEMMA ReadMoveBoards ==
  ASSUME TypeOK, Lockstep, BoardsAgree, NoUnknownError,
         NEW p \in Players, ReadMove(p)
  PROVE  BoardsAgree' /\ NoUnknownError'
<1> DEFINE q == Opponent(p)
<1>1. q \in Players /\ q # p /\ Opponent(q) = p /\ \A x \in Players : x = p \/ x = q
  BY TwoPlayers
<1>2. At(p) = "peer" /\ pipe[p] # <<>>
  BY DEF ReadMove, At
<1>3. pipe[q] = <<>>
  BY <1>2 DEF Lockstep, NothingToLose
<1>4. game' = [game EXCEPT ![p] = game[q]] /\ verdict' = verdict
  BY ReadMoveFollows
<1>5. \A x \in Players : game'[x] = game[q]
  BY <1>1, <1>4 DEF TypeOK
<1>6. \A x \in Players : pipe'[x] = <<>>
  BY <1>1, <1>3 DEF ReadMove, TypeOK
<1>7. BoardsAgree'
  BY <1>5, <1>6, TwoPlayers DEF BoardsAgree
<1> QED
  BY <1>4, <1>7 DEF NoUnknownError

\* Every step keeps the agreement of the boards.
LEMMA NextBoards ==
  ASSUME TypeOK, Lockstep, BoardsAgree, NoUnknownError,
         [Next]_vars, [RejectionSpares]_vars
  PROVE  BoardsAgree' /\ NoUnknownError'
<1>1. CASE Fading
  BY <1>1, FadingKeepsBoards
<1>2. ASSUME NEW p \in Players, BadCommand(p) \/ Eof(p)
      PROVE  BoardsAgree' /\ NoUnknownError'
  <2>1. At(p) = "user" /\ EndWith(p, IO_ERROR) /\ game' = game /\ pipe' = pipe
    BY <1>2 DEF BadCommand, Eof, Reads, At
  <2>2. At(Opponent(p)) # "user"
    BY <2>1 DEF Lockstep, MoverHasReader
  <2> QED
    BY <2>1, <2>2, LeavingKeepsBoards
<1>3. ASSUME NEW p \in Players, SubmitMove(p)
      PROVE  BoardsAgree' /\ NoUnknownError'
  <2>1. CASE RejectionSpares
    BY <1>3, <2>1, SubmitMoveBoards
  <2>2. CASE UNCHANGED vars
    BY <2>2, FadingSteps, FadingKeepsBoards
  <2> QED
    BY <2>1, <2>2
<1>4. ASSUME NEW p \in Players, ReadMove(p)
      PROVE  BoardsAgree' /\ NoUnknownError'
  BY <1>4, ReadMoveBoards
<1>5. ASSUME NEW p \in Players, PeerGone(p)
      PROVE  BoardsAgree' /\ NoUnknownError'
  <2>1. At(Opponent(p)) = "exited"
    BY <1>5 DEF PeerGone, Gone, At
  <2> QED
    BY <1>5, <2>1, LeavingKeepsBoards DEF PeerGone
<1> QED
  BY <1>1, <1>2, <1>3, <1>4, <1>5, StepsByEffect

\* Up to the first rejection that changes a board, and so for ever where there
\* is none, the two boards differ by at most the move in flight, and no client
\* refuses what the other one accepted.
THEOREM BoardsAgreeWhileSpared ==
  Init /\ [][Next]_vars /\ [][RejectionSpares]_vars =>
    [](BoardsAgree /\ NoUnknownError)
<1>1. Init => TypeOK /\ Lockstep /\ BoardsAgree /\ NoUnknownError
  BY InitTypeOK, InitLockstep, InitBoards
<1>2. /\ TypeOK /\ Lockstep /\ BoardsAgree /\ NoUnknownError
      /\ [Next]_vars /\ [RejectionSpares]_vars
      => (TypeOK /\ Lockstep /\ BoardsAgree /\ NoUnknownError)'
  BY NextTypeOK, NextLockstep, NextBoards
<1> QED
  BY <1>1, <1>2, PTL
-----------------------------------------------------------------------------
\* The refinement of Game: who has left.
Left == {p \in Players : pc[p] \in {"ending", "exited"}}

\* Game's copies of the definitions of Moves are the same definitions.
LEMMA NamesOfGame ==
  /\ OneGame!Players = Players
  /\ OneGame!Accepted = Accepted /\ OneGame!GameOver = GameOver
  /\ OneGame!WHITE_WIN = WHITE_WIN /\ OneGame!BLACK_WIN = BLACK_WIN
  /\ OneGame!FORCED_DRAW = FORCED_DRAW
  /\ \A p : OneGame!Opponent(p) = Opponent(p)
  /\ \A w : OneGame!ApiGetMove(w) = ApiGetMove(w)
<1>1. OneGame!Players = Players
  BY DEF Players, WHITE, BLACK, OneGame!Players, OneGame!WHITE, OneGame!BLACK
<1>2. \A p : OneGame!Opponent(p) = Opponent(p)
  BY DEF Opponent, WHITE, BLACK, OneGame!Opponent, OneGame!WHITE, OneGame!BLACK
<1>3. \A w : OneGame!ApiGetMove(w) = ApiGetMove(w)
  BY DEF ApiGetMove, Bits, EMPTY,
         OneGame!ApiGetMove, OneGame!Bits, OneGame!EMPTY
<1>4. /\ OneGame!Accepted = Accepted /\ OneGame!GameOver = GameOver
      /\ OneGame!WHITE_WIN = WHITE_WIN /\ OneGame!BLACK_WIN = BLACK_WIN
      /\ OneGame!FORCED_DRAW = FORCED_DRAW
  BY DEF Accepted, GameOver, WHITE_WIN, BLACK_WIN, FORCED_DRAW, OK, DRAW_OFFER,
         OneGame!Accepted, OneGame!GameOver, OneGame!WHITE_WIN,
         OneGame!BLACK_WIN, OneGame!FORCED_DRAW, OneGame!OK, OneGame!DRAW_OFFER
<1> QED
  BY <1>1, <1>2, <1>3, <1>4

\* The initial state is the start of a game, with nobody gone.
LEMMA InitStart == Init => OneGame!Start
  BY NamesOfGame DEF Init, OneGame!Start

\* A step that only takes clients away is Vanish, which allows for nobody.
LEMMA VanishStep ==
  ASSUME NEW who \in SUBSET (Players \ Left), Left' = Left \cup who,
         game' = game, verdict' = verdict
  PROVE  OneGame!Play
  BY NamesOfGame DEF OneGame!Play, OneGame!Vanish, Left

\* Fading steps take clients away, or nobody.
LEMMA FadingVanishes == ASSUME TypeOK, TypeOK', Fading PROVE OneGame!Play
<1> DEFINE who == Left' \ Left
<1>1. \A p \in Left : p \in Left'
  BY DEF Fading, Left, At, WaitsFor
<1>2. who \in SUBSET (Players \ Left) /\ Left' = Left \cup who
  BY <1>1 DEF Left
<1> QED
  BY <1>2, VanishStep DEF Fading

\* Leaving with the message of `code` is leaving.
LEMMA EndWithLeft ==
  ASSUME TypeOK, NEW p \in Players, NEW code, EndWith(p, code)
  PROVE  Left' = Left \cup {p}
  BY EndWithPlace DEF Left, TypeOK

\* An error that a client reports is a failure in its own turn, or for want
\* of an opponent.
LEMMA FailStep ==
  ASSUME TypeOK, NEW p \in Players, p \notin Left, EndWith(p, IO_ERROR),
         game' = game,
         \/ game[p] = game[Opponent(p)] /\ PlayerOf(game[p]) = p
         \/ Opponent(p) \in Left
  PROVE  OneGame!Play
<1>1. Left' = Left \cup {p}
  BY EndWithLeft
<1>2. verdict' = [verdict EXCEPT ![p] = "MSG_IO_ERROR"]
  BY EndWithPlace
  DEF EndMsg, IO_ERROR, WHITE_WIN, BLACK_WIN, FORCED_DRAW
<1>3. OneGame!Fail(p)
  BY <1>1, <1>2, NamesOfGame DEF OneGame!Fail, OneGame!MayMove, Left
<1> QED
  BY <1>3, NamesOfGame DEF OneGame!Play

\* The message at the end of a game is its result.
LEMMA ResultIsTold ==
  ASSUME NEW code \in GameOver
  PROVE  EndMsg(code) = OneGame!ResultOf(code)
<1>1. CASE code = -2
  BY <1>1, NamesOfGame
  DEF EndMsg, OneGame!ResultOf, WHITE_WIN, BLACK_WIN, FORCED_DRAW, IO_ERROR
<1>2. CASE code = -3
  BY <1>2, NamesOfGame
  DEF EndMsg, OneGame!ResultOf, WHITE_WIN, BLACK_WIN, FORCED_DRAW, IO_ERROR
<1>3. CASE code = -4
  BY <1>3, NamesOfGame
  DEF EndMsg, OneGame!ResultOf, WHITE_WIN, BLACK_WIN, FORCED_DRAW, IO_ERROR
<1> QED
  BY <1>1, <1>2, <1>3, CodeValues

\* get_player_move() makes a move of the game, or nothing happens there.
LEMMA SubmitMovePlays ==
  ASSUME RejectionSpares, TypeOK, TypeOK', Lockstep, BoardsAgree,
         NEW p \in Players, SubmitMove(p)
  PROVE  OneGame!Play
<1> DEFINE q == Opponent(p)
           w == Head(inbox[p]).move
           text == TextOf[w]
           r == PlayText(game[p], text)
<1>1. q \in Players /\ q # p /\ Opponent(q) = p /\ \A x \in Players : x = p \/ x = q
  BY TwoPlayers
<1>2. pc[p] = "user" /\ At(p) = "user" /\ p \notin Left
  BY DEF SubmitMove, Reads, At, Left
<1>3. game[p] = game[q] /\ PlayerOf(game[p]) = p
  BY <1>2 DEF Lockstep, BoardsAgree, BoardsTellTurns
<1>4. OneGame!MayMove(p)
  BY <1>2, <1>3, NamesOfGame DEF OneGame!MayMove, Left
<1>5. w \in Submissions
  BY ReadsType DEF SubmitMove, Reads, Commands
<1>6. r = EngineMove(game[p], ApiGetMove(w)) /\ game[p] \in Games
  BY <1>5, PlayTextIsEngineMove DEF TypeOK
<1>7. r.code \in NonFatal => r.game = game[p]
  BY DEF RejectionSpares, SubmitMove
<1>8. r.code \in Accepted => PlayerOf(r.game) = q
  BY <1>3, <1>5, PlayTextFacts DEF TypeOK, TextOf, Range
<1>9. /\ game' = [game EXCEPT ![p] = r.game]
      /\ Reject(p, r) \/ Conclude(p, r) \/ Send(p, r, text) \/ SendFails(p, r)
  BY DEF SubmitMove
<1> HIDE DEF q, w, text, r
<1>10. CASE Reject(p, r)
  <2>1. game' = game
    BY <1>7, <1>9, <1>10 DEF Reject, TypeOK
  <2>2. PICK place \in {"user", "exited"} : pc' = [pc EXCEPT ![p] = place]
    BY <1>10 DEF Reject, AfterOutput
  <2>3. Fading
    BY <1>2, <1>10, <2>1, <2>2 DEF Reject, Fading, At, WaitsFor, TypeOK
  <2> QED
    BY <2>3, FadingVanishes
<1>11. CASE Conclude(p, r)
  <2>1. r.code \in GameOver /\ EndWith(p, r.code)
    BY <1>11 DEF Conclude
  <2>2. Left' = Left \cup {p} /\ verdict' = [verdict EXCEPT ![p] = EndMsg(r.code)]
    BY <2>1, EndWithLeft, EndWithPlace
  <2>3. EndMsg(r.code) = OneGame!ResultOf(r.code)
    BY <2>1, ResultIsTold
  <2>4. OneGame!Make(p)
    BY <1>4, <1>5, <1>6, <1>9, <2>1, <2>2, <2>3, NamesOfGame
    DEF OneGame!Make, Left
  <2> QED
    BY <2>4, NamesOfGame DEF OneGame!Play
<1>12. CASE Send(p, r, text)
  <2>1. r.code \in Accepted /\ verdict' = verdict /\ pc'[p] = "peer"
    BY <1>1, <1>8, <1>12 DEF Send, WaitsFor, TypeOK
  <2>2. Left' = Left
    BY <1>1, <1>2, <1>12, <2>1 DEF Send, Left, TypeOK
  <2>3. OneGame!Make(p)
    BY <1>4, <1>5, <1>6, <1>9, <2>1, <2>2, NamesOfGame DEF OneGame!Make, Left
  <2> QED
    BY <2>3, NamesOfGame DEF OneGame!Play
<1>13. CASE SendFails(p, r)
  <2>1. r.code \in Accepted /\ q \in Left
    BY <1>1, <1>13 DEF SendFails, Gone, Left, q
  <2>2. /\ Left' = Left \cup {p}
        /\ verdict' \in {verdict, [verdict EXCEPT ![p] = "MSG_IO_ERROR"]}
    <3>1. CASE EndWith(p, IO_ERROR)
      BY <3>1, EndWithLeft, EndWithPlace
      DEF EndMsg, IO_ERROR, WHITE_WIN, BLACK_WIN, FORCED_DRAW
    <3>2. CASE pc' = [pc EXCEPT ![p] = "exited"] /\ UNCHANGED verdict
      <4>1. Left' = Left \cup {p}
        BY <3>2 DEF Left, TypeOK
      <4> QED
        BY <3>2, <4>1
    <3> QED
      BY <1>13, <3>1, <3>2 DEF SendFails
  <2>3. OneGame!Make(p)
    BY <1>4, <1>5, <1>6, <1>9, <2>1, <2>2, NamesOfGame DEF OneGame!Make, Left, q
  <2> QED
    BY <2>3, NamesOfGame DEF OneGame!Play
<1> QED
  BY <1>9, <1>10, <1>11, <1>12, <1>13

\* parse_op_move() follows a move of the game.
LEMMA ReadMoveFollowsGame ==
  ASSUME TypeOK, Lockstep, BoardsAgree, NEW p \in Players, ReadMove(p)
  PROVE  OneGame!Play
<1> DEFINE q == Opponent(p)
           r == PlayText(game[p], Head(pipe[p]))
<1>1. pc[p] = "peer" /\ At(p) = "peer" /\ p \notin Left /\ pipe[p] # <<>>
  BY DEF ReadMove, At, Left
<1>2. PlayerOf(game[p]) = q
  BY <1>1 DEF Lockstep, BoardsTellTurns
<1>0. Head(pipe[p]) \in Range(TextOf)
  BY <1>1 DEF TypeOK
<1>3. PICK w \in Submissions : Head(pipe[p]) = TextOf[w]
  BY <1>0 DEF TextOf, Range
<1>4. r = EngineMove(game[p], ApiGetMove(w))
  BY <1>3, PlayTextIsEngineMove
<1>5. /\ r.code \in Accepted /\ r.game = game[q]
      /\ game' = [game EXCEPT ![p] = r.game]
      /\ verdict' = verdict
      /\ \E place \in AfterOutput(p, WaitsFor(p, r.game)) :
           pc' = [pc EXCEPT ![p] = place]
  BY ReadMoveFollows
<1> HIDE DEF r
<1>6. PICK place \in {"user", "peer", "exited"} : pc' = [pc EXCEPT ![p] = place]
  BY <1>5 DEF AfterOutput, WaitsFor
<1>7. Left' \in {Left, Left \cup {p}}
  BY <1>1, <1>6 DEF Left, TypeOK
<1>8. OneGame!Follow(p)
  BY <1>1, <1>2, <1>4, <1>5, <1>7, NamesOfGame
  DEF OneGame!Follow, OneGame!IsAhead, Left
<1> QED
  BY <1>8, NamesOfGame DEF OneGame!Play

\* Every step is one of the game, or leaves it as it is.
LEMMA NextPlays ==
  ASSUME TypeOK, TypeOK', Lockstep, BoardsAgree,
         [Next]_vars, [RejectionSpares]_vars
  PROVE  OneGame!Play
<1>1. CASE Fading
  BY <1>1, FadingVanishes
<1>2. ASSUME NEW p \in Players, BadCommand(p) \/ Eof(p) PROVE OneGame!Play
  <2>1. /\ At(p) = "user" /\ p \notin Left
        /\ EndWith(p, IO_ERROR) /\ game' = game
    BY <1>2 DEF BadCommand, Eof, Reads, At, Left
  <2>2. game[p] = game[Opponent(p)] /\ PlayerOf(game[p]) = p
    BY <2>1 DEF BoardsAgree, Lockstep, BoardsTellTurns
  <2> QED
    BY <2>1, <2>2, FailStep
<1>3. ASSUME NEW p \in Players, SubmitMove(p) PROVE OneGame!Play
  <2>1. CASE RejectionSpares
    BY <1>3, <2>1, SubmitMovePlays
  <2>2. CASE UNCHANGED vars
    BY <2>2, FadingSteps, FadingVanishes
  <2> QED
    BY <2>1, <2>2
<1>4. ASSUME NEW p \in Players, ReadMove(p) PROVE OneGame!Play
  BY <1>4, ReadMoveFollowsGame
<1>5. ASSUME NEW p \in Players, PeerGone(p) PROVE OneGame!Play
  <2>1. p \notin Left /\ Opponent(p) \in Left
    BY <1>5, TwoPlayers DEF PeerGone, Gone, Left
  <2> QED
    BY <1>5, <2>1, FailStep DEF PeerGone
<1> QED
  BY <1>1, <1>2, <1>3, <1>4, <1>5, StepsByEffect

\* Up to the first rejection that changes a board, two clients with a board
\* each and two pipes between them play one game of chess: its moves are made
\* by the player whose turn it is, seen by the other one in order, and nobody
\* is told of an error that is not a failure or a departure.
THEOREM OneGameWhileSpared ==
  Init /\ [][Next]_vars /\ [][RejectionSpares]_vars => PlaysOneGame
<1> DEFINE Inv == TypeOK /\ Lockstep /\ BoardsAgree /\ NoUnknownError
<1>1. Init => Inv /\ OneGame!Start
  BY InitTypeOK, InitLockstep, InitBoards, InitStart
<1>2. Inv /\ [Next]_vars /\ [RejectionSpares]_vars => Inv'
  BY NextTypeOK, NextLockstep, NextBoards
<1>3. Inv /\ Inv' /\ [Next]_vars /\ [RejectionSpares]_vars =>
        [OneGame!Play]_(OneGame!gameVars)
  BY NextPlays
<1> HIDE DEF Inv
<1> QED
  BY <1>1, <1>2, <1>3, PTL DEF PlaysOneGame, OneGame!GameSafety
-----------------------------------------------------------------------------
(* The refinement of Pairing, for every engine. *)

SeatOf(place) == IF place \in {"user", "peer", "ending"} THEN "playing" ELSE place

PairStep == [OnePair!PairNext]_(OnePair!pairVars)

\* A client that moves on, and does not come back to recvfds(), sits down,
\* rises or stays in its seat.
LEMMA MovesOnStep ==
  ASSUME TypeOK, NEW p \in Players, NEW place \in Places \ {"starting"},
         pc[p] # "exited", pc' = [pc EXCEPT ![p] = place], held' = held
  PROVE  PairStep
<1> DEFINE seat == [q \in Players |-> SeatOf(pc[q])]
<1>1. pc[p] \in Places \ {"exited"}
  BY DEF TypeOK
<1>2. [q \in Players |-> SeatOf(pc'[q])] = [seat EXCEPT ![p] = SeatOf(place)]
  BY DEF TypeOK
<1>3. SeatOf(place) \in {"playing", "exited"}
  BY DEF SeatOf, Places
<1>4. CASE pc[p] = "starting"
  <2>1. seat[p] = "starting"
    BY <1>4 DEF SeatOf
  <2>2. OnePair!Sit(p)
    BY <1>2, <1>3, <2>1 DEF OnePair!Sit, SeatOf
  <2> QED
    BY <2>2 DEF PairStep, OnePair!PairNext
<1>5. CASE pc[p] \in {"user", "peer", "ending"}
  <2>1. seat[p] = "playing"
    BY <1>5 DEF SeatOf
  <2>2. CASE SeatOf(place) = "exited"
    <3>1. OnePair!Rise(p)
      BY <1>2, <2>1, <2>2 DEF OnePair!Rise, SeatOf
    <3> QED
      BY <3>1 DEF PairStep, OnePair!PairNext
  <2>3. CASE SeatOf(place) = "playing"
    <3>1. [q \in Players |-> SeatOf(pc'[q])] = seat
      BY <1>2, <2>1, <2>3
    <3>2. UNCHANGED OnePair!pairVars
      BY <3>1 DEF OnePair!pairVars, SeatOf
    <3> QED
      BY <3>2 DEF PairStep
  <2> QED
    BY <1>3, <2>2, <2>3
<1> QED
  BY <1>1, <1>4, <1>5 DEF Places

\* A client that is killed leaves its seat, also before it took it.
LEMMA KilledStep ==
  ASSUME TypeOK, NEW p \in Players, Killed(p)
  PROVE  PairStep
<1> DEFINE seat == [q \in Players |-> SeatOf(pc[q])]
<1>1. pc[p] \in Places \ {"exited"} /\ pc' = [pc EXCEPT ![p] = "exited"] /\ held' = held
  BY DEF Killed, TypeOK
<1>2. seat[p] \in {"starting", "playing"}
  BY <1>1 DEF SeatOf, Places
<1>3. [q \in Players |-> SeatOf(pc'[q])] = [seat EXCEPT ![p] = "exited"]
  BY <1>1 DEF TypeOK, SeatOf
<1>4. OnePair!Rise(p)
  BY <1>1, <1>2, <1>3 DEF OnePair!Rise, SeatOf
<1> QED
  BY <1>4 DEF PairStep, OnePair!PairNext

\* The matchmaker lets go of the pipes, and of who is still to be sent its ends.
LEMMA DaemonClosesStep == ASSUME TypeOK, DaemonCloses PROVE PairStep
<1> DEFINE seat == [q \in Players |-> SeatOf(pc[q])]
<1>1. PICK lost \in SUBSET {p \in Players : pc[p] = "starting"} :
        pc' = [p \in Players |-> IF p \in lost THEN "exited" ELSE pc[p]]
  BY DEF DaemonCloses
<1>2. lost \in SUBSET {p \in Players : seat[p] = "starting"}
  BY DEF SeatOf
<1>3. [p \in Players |-> SeatOf(pc'[p])] =
        [p \in Players |-> IF p \in lost THEN "exited" ELSE seat[p]]
  BY <1>1 DEF SeatOf
<1>4. OnePair!LetGo
  BY <1>2, <1>3 DEF DaemonCloses, OnePair!LetGo, SeatOf
<1> QED
  BY <1>4 DEF PairStep, OnePair!PairNext

\* Where a step leaves a client that moves on.
LEMMA ClientMovesOn ==
  ASSUME TypeOK, NEW p \in Players, Client(p)
  PROVE  /\ held' = held /\ pc[p] # "exited"
         /\ \E place \in Places \ {"starting"} : pc' = [pc EXCEPT ![p] = place]
<1>1. \A place \in {"user", "peer", "ending"} :
        AfterOutput(p, place) \subseteq Places \ {"starting"}
  BY DEF AfterOutput, Places
<1>2. \A g : WaitsFor(p, g) \in {"user", "peer"}
  BY WaitsForPlace
<1>3. ASSUME NEW code, EndWith(p, code)
      PROVE  \E place \in Places \ {"starting"} : pc' = [pc EXCEPT ![p] = place]
  BY <1>1, <1>3 DEF EndWith
<1>4. CASE Begin(p)
  BY <1>1, <1>2, <1>4 DEF Begin
<1>5. CASE Query(p)
  BY <1>1, <1>5 DEF Query, Reads
<1>6. CASE BadCommand(p) \/ Eof(p) \/ PeerGone(p)
  BY <1>3, <1>6 DEF BadCommand, Eof, PeerGone, Reads
<1>7. CASE SubmitMove(p)
  <2>1. PICK r, text : Reject(p, r) \/ Conclude(p, r) \/ Send(p, r, text) \/ SendFails(p, r)
    BY <1>7 DEF SubmitMove
  <2>2. "exited" \in Places \ {"starting"} /\ WaitsFor(p, r.game) \in Places \ {"starting"}
    BY <1>2 DEF Places
  <2>3. \E place \in Places \ {"starting"} : pc' = [pc EXCEPT ![p] = place]
    BY <1>1, <1>3, <2>1, <2>2 DEF Reject, Conclude, Send, SendFails
  <2> QED
    BY <1>7, <2>3 DEF SubmitMove, Reads
<1>8. CASE ReadMove(p)
  <2>1. PICK r : \/ EndWith(p, r.code)
                 \/ \E place \in AfterOutput(p, WaitsFor(p, r.game)) :
                      pc' = [pc EXCEPT ![p] = place]
    BY <1>8 DEF ReadMove
  <2>2. AfterOutput(p, WaitsFor(p, r.game)) \subseteq Places \ {"starting"}
    BY <1>1, <1>2
  <2> QED
    BY <1>3, <1>8, <2>1, <2>2 DEF ReadMove
<1>9. CASE Finish(p)
  <2>1. "exited" \in Places \ {"starting"}
    BY DEF Places
  <2> QED
    BY <1>9, <2>1 DEF Finish
<1> QED
  BY <1>4, <1>5, <1>6, <1>7, <1>8, <1>9 DEF Client

\* Whatever the engine does, the two clients take the seats that the matchmaker
\* made for them once, and leave them once: a client never waits for a second
\* pair of pipes, not after its game, not after any error.
THEOREM SessionKeepsToItsPair == Spec => KeepsToItsPair
<1>1. Init => OnePair!PairInit
  BY DEF Init, OnePair!PairInit
<1>2. TypeOK /\ [Next]_vars => PairStep
  <2> SUFFICES ASSUME TypeOK, [Next]_vars PROVE PairStep
    OBVIOUS
  <2>1. CASE UNCHANGED <<pc, held>>
    BY <2>1 DEF PairStep, OnePair!pairVars
  <2>2. ASSUME NEW p \in Players, Client(p) PROVE PairStep
    BY <2>2, ClientMovesOn, MovesOnStep
  <2>3. CASE \E p \in Players : User(p)
    BY <2>1, <2>3 DEF User, UserSends, HangUp
  <2>4. CASE \E p \in Players : Killed(p)
    BY <2>4, KilledStep
  <2>5. CASE DaemonCloses
    BY <2>5, DaemonClosesStep
  <2>6. CASE Over \/ UNCHANGED vars
    BY <2>1, <2>6 DEF Over, vars
  <2> QED
    BY <2>2, <2>3, <2>4, <2>5, <2>6 DEF Next
<1> QED
  BY <1>1, <1>2, TypeCorrect, PTL DEF Spec, KeepsToItsPair, OnePair!PairSafety, PairStep
=============================================================================
