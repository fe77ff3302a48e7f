----------------------------- MODULE LoginProofs -----------------------------
(***************************************************************************)
(* Proofs about Login, for any number of connections, any requests and any *)
(* bounds on faults, on segments and on starts of the gateway.             *)
(***************************************************************************)
EXTENDS Login, TLAPS

Accounts == [user: Seq(Chars), pass: Seq(Chars)]

\* A buffer that is being read is as long as its string; from execl() on argv
\* holds what the users could have sent, and nothing unwritten.
Filled(c) ==
  /\ pc[c] \in {"idle", "queued", "read"} =>
       /\ got[c] >= 2 => Len(buf[c].user) = Len(request[c].user)
       /\ got[c] >= EndOfUser(request[c]) + 1 =>
            Len(buf[c].pass) = Len(request[c].pass)
  /\ pc[c] \in {"exec", "check", "get", "put", "answer", "playing"} => buf[c] \in Accounts

\* c has, or is about to be told that it has, registered the name in its argv.
Registrant(c) == pc[c] = "answer" \/ told[c] = "registered"

\* Where an answer, or what comes before one, stands against the accounts.
Honest(c) ==
  /\ pc[c] \notin {"playing", "exited"} => told[c] = "none"
  /\ pc[c] \in {"put", "answer"} => request[c].cmd = "REGISTER"
  /\ pc[c] = "playing" => told[c] = "welcome"
  /\ told[c] = "welcome" \/ Registrant(c) => buf[c] \in accounts

OneRegistrantPerName ==
  \A c, d \in Conns :
    Registrant(c) /\ Registrant(d) /\ c # d => buf[c].user # buf[d].user

\* d has made the account a, and was told so unless it was killed.
Made(d, a) ==
  /\ request[d].cmd = "REGISTER"
  /\ buf[d] = a
  /\ told[d] \in {"registered", "none"}
  /\ pc[d] \in {"answer", "exited"}

AccountsAreMade == \A a \in accounts : \E d \in Conns : Made(d, a)

TypeInv == TypeOK /\ \A c \in Conns : Filled(c)

TruthInv ==
  /\ \A c \in Conns : Honest(c)
  /\ OneRegistrantPerName
  /\ AccountsAreMade

-----------------------------------------------------------------------------
(* Answers and accounts. *)

\* report_msg() changes the answer and the place of one client.
LEMMA ReportIs ==
  ASSUME NEW c \in Conns, NEW answer, NEW place, Report(c, answer, place)
  PROVE  /\ told' = [told EXCEPT ![c] = answer]
         /\ \/ pc' = [pc EXCEPT ![c] = place]
            \/ pc' = [pc EXCEPT ![c] = "exited"]
  BY DEF Report

\* A step that leaves answers and accounts as they are, and buffers too but
\* before execl(), and moves the processes on as the code does.
Silent ==
  /\ UNCHANGED <<request, accounts, told>>
  /\ \A c \in Conns :
       /\ pc[c] # "read" => buf'[c] = buf[c]
       /\ \/ pc'[c] = pc[c]
          \/ pc'[c] = "exited"
          \/ /\ pc[c] \in {"idle", "queued", "read", "exec"}
             /\ pc'[c] \in {"queued", "leaked", "read", "exec", "check"}
          \/ pc[c] = "check" /\ pc'[c] = "get"
          \/ /\ pc[c] = "exec" /\ request[c].cmd = "REGISTER"
             /\ pc'[c] = "put"

\* Places alone say nothing that was not true before.
LEMMA TruthKeptInSilence ==
  ASSUME TruthInv, Silent
  PROVE  TruthInv'
<1> USE DEF Silent
<1>1. ASSUME NEW c \in Conns PROVE Honest(c)'
  BY <1>1 DEF TruthInv, Honest, Registrant
<1>2. OneRegistrantPerName'
  <2> SUFFICES ASSUME NEW c \in Conns, NEW d \in Conns, c # d,
                      Registrant(c)', Registrant(d)'
               PROVE  buf'[c].user # buf'[d].user
    BY DEF OneRegistrantPerName
  <2>1. /\ Registrant(c) /\ Registrant(d)
        /\ buf'[c] = buf[c] /\ buf'[d] = buf[d]
    BY DEF Registrant, TruthInv, Honest
  <2> QED
    BY <2>1 DEF TruthInv, OneRegistrantPerName
<1>3. AccountsAreMade'
  <2> SUFFICES ASSUME NEW a \in accounts' PROVE \E d \in Conns : Made(d, a)'
    BY DEF AccountsAreMade
  <2>1. PICK d \in Conns : Made(d, a)
    BY DEF TruthInv, AccountsAreMade
  <2>2. Made(d, a)'
    BY <2>1 DEF Made
  <2> QED
    BY <2>2
<1> QED
  BY <1>1, <1>2, <1>3 DEF TruthInv

\* An answer other than of a success goes to a client that nobody counts on.
LEMMA TruthKeptByRefusal ==
  ASSUME TypeInv, TruthInv, NEW c \in Conns, NEW answer \in {"refused", "denied"},
         pc[c] \in {"exec", "get", "put"},
         Report(c, answer, "exited"),
         UNCHANGED <<request, buf, accounts>>
  PROVE  TruthInv'
<1>1. /\ told' = [told EXCEPT ![c] = answer]
      /\ pc' = [pc EXCEPT ![c] = "exited"]
  BY ReportIs
<1>2. ASSUME NEW d \in Conns PROVE Honest(d)' /\ (Registrant(d)' => Registrant(d))
  BY <1>1, <1>2 DEF TruthInv, TypeInv, TypeOK, Honest, Registrant
<1>3. ASSUME NEW a \in accounts, NEW d \in Conns, Made(d, a) PROVE Made(d, a)'
  <2>1. d # c
    BY <1>3 DEF Made
  <2> QED
    BY <1>1, <1>3, <2>1 DEF TypeInv, TypeOK, Made
<1>4. AccountsAreMade'
  BY <1>3 DEF TruthInv, AccountsAreMade
<1> QED
  BY <1>2, <1>4 DEF TruthInv, OneRegistrantPerName

\* "User registered" goes to a client whose account is there already.
LEMMA TruthKeptByRegistered ==
  ASSUME TypeInv, TruthInv, NEW c \in Conns, AnswerRegistered(c)
  PROVE  TruthInv'
<1>1. /\ pc[c] = "answer"
      /\ told' = [told EXCEPT ![c] = "registered"]
      /\ pc' = [pc EXCEPT ![c] = "exited"]
      /\ UNCHANGED <<request, buf, accounts>>
  BY ReportIs DEF AnswerRegistered, requestVars
<1>2. ASSUME NEW d \in Conns PROVE Honest(d)' /\ (Registrant(d)' => Registrant(d))
  BY <1>1, <1>2 DEF TruthInv, TypeInv, TypeOK, Honest, Registrant
<1>3. ASSUME NEW a \in accounts, NEW d \in Conns, Made(d, a) PROVE Made(d, a)'
  BY <1>1, <1>3 DEF TypeInv, TypeOK, Made
<1>4. AccountsAreMade'
  BY <1>1, <1>3 DEF TruthInv, AccountsAreMade
<1> QED
  BY <1>1, <1>2, <1>4 DEF TruthInv, OneRegistrantPerName

\* A user is let in with an account.
LEMMA TruthKeptByGet ==
  ASSUME TypeInv, TruthInv, NEW c \in Conns, EndGet(c)
  PROVE  TruthInv'
<1>1. /\ pc[c] = "get"
      /\ UNCHANGED <<request, buf, accounts>>
  BY DEF EndGet, requestVars
<1>2. CASE buf[c] \in accounts
  <2>1. /\ told' = [told EXCEPT ![c] = "welcome"]
        /\ \/ pc' = [pc EXCEPT ![c] = "playing"]
           \/ pc' = [pc EXCEPT ![c] = "exited"]
    BY <1>2, ReportIs DEF EndGet
  <2>2. ASSUME NEW d \in Conns PROVE Honest(d)' /\ (Registrant(d)' => Registrant(d))
    BY <1>1, <1>2, <2>1, <2>2 DEF TruthInv, TypeInv, TypeOK, Honest, Registrant
  <2>3. ASSUME NEW a \in accounts, NEW d \in Conns, Made(d, a) PROVE Made(d, a)'
    BY <1>1, <2>1, <2>3 DEF TypeInv, TypeOK, Made
  <2>4. AccountsAreMade'
    BY <1>1, <2>3 DEF TruthInv, AccountsAreMade
  <2> QED
    BY <1>1, <2>2, <2>4 DEF TruthInv, OneRegistrantPerName
<1>3. CASE buf[c] \notin accounts
  <2>1. Report(c, "denied", "exited")
    BY <1>3 DEF EndGet
  <2> QED
    BY <1>1, <2>1, TruthKeptByRefusal
<1> QED
  BY <1>2, <1>3

\* put() makes an account under a name that no account has.
LEMMA TruthKeptByPut ==
  ASSUME TypeInv, TruthInv, NEW c \in Conns, EndPut(c)
  PROVE  TruthInv'
<1>1. pc[c] = "put" /\ UNCHANGED <<request, buf>>
  BY DEF EndPut, StoreOrRefuse, requestVars
<1>2. CASE Named(buf[c].user) = {}
  <2>1. /\ accounts' = accounts \cup {buf[c]}
        /\ pc' = [pc EXCEPT ![c] = "answer"]
        /\ told' = told
    BY <1>2 DEF EndPut, StoreOrRefuse
  <2>2. /\ request[c].cmd = "REGISTER"
        /\ told[c] = "none"
    BY <1>1 DEF TruthInv, Honest
  <2>3. ASSUME NEW d \in Conns PROVE Honest(d)'
    BY <1>1, <2>1, <2>2, <2>3 DEF TruthInv, TypeInv, TypeOK, Honest, Registrant
  <2>4. ASSUME NEW d \in Conns, d # c, Registrant(d)'
        PROVE  Registrant(d) /\ buf[d].user # buf[c].user
    <3>1. Registrant(d)
      BY <2>1, <2>4 DEF TypeInv, TypeOK, Registrant
    <3>2. buf[d] \in accounts
      BY <3>1 DEF TruthInv, Honest
    <3> QED
      BY <1>2, <3>1, <3>2 DEF Named
  <2>5. OneRegistrantPerName'
    BY <1>1, <2>4 DEF TruthInv, OneRegistrantPerName
  <2>6. AccountsAreMade'
    <3> SUFFICES ASSUME NEW a \in accounts' PROVE \E d \in Conns : Made(d, a)'
      BY DEF AccountsAreMade
    <3>1. CASE a = buf[c]
      BY <1>1, <2>1, <2>2, <3>1 DEF TypeInv, TypeOK, Made
    <3>2. CASE a \in accounts
      BY <1>1, <2>1, <3>2 DEF TruthInv, TypeInv, TypeOK, AccountsAreMade, Made
    <3> QED
      BY <2>1, <3>1, <3>2
  <2> QED
    BY <2>3, <2>5, <2>6 DEF TruthInv
<1>3. CASE Named(buf[c].user) # {}
  <2>1. Report(c, "refused", "exited") /\ accounts' = accounts
    BY <1>3 DEF EndPut, StoreOrRefuse
  <2> QED
    BY <1>1, <2>1, TruthKeptByRefusal
<1> QED
  BY <1>2, <1>3

\* Every step keeps the truth.
LEMMA TruthInvariant ==
  ASSUME TypeInv, TruthInv, [Next]_vars
  PROVE  TruthInv'
<1> USE DEF requestVars, dbVars, gatewayVars
<1>1. CASE Listen \/ GatewayEnds
  <2>1. Silent
    BY <1>1 DEF Listen, GatewayEnds, Silent
  <2> QED
    BY <2>1, TruthKeptInSilence
<1>2. ASSUME NEW c \in Conns, Accept(c) PROVE TruthInv'
  <2>1. Silent
    BY <1>2 DEF Accept, Queued, Silent, TypeInv, TypeOK
  <2> QED
    BY <2>1, TruthKeptInSilence
<1>3. ASSUME NEW c \in Conns, ForkFails(c) PROVE TruthInv'
  <2>1. Silent
    BY <1>3 DEF ForkFails, Queued, Silent, TypeInv, TypeOK
  <2> QED
    BY <2>1, TruthKeptInSilence
<1>4. ASSUME NEW c \in Conns, Connect(c) PROVE TruthInv'
  <2>1. Silent
    BY <1>4 DEF Connect, Silent, TypeInv, TypeOK
  <2> QED
    BY <2>1, TruthKeptInSilence
<1>5. ASSUME NEW c \in Conns, SendSegment(c) PROVE TruthInv'
  <2>1. Silent
    BY <1>5 DEF SendSegment, Silent, TypeInv, TypeOK
  <2> QED
    BY <2>1, TruthKeptInSilence
<1>6. ASSUME NEW c \in Conns, HangUp(c) PROVE TruthInv'
  <2>1. Silent
    BY <1>6 DEF HangUp, Silent, TypeInv, TypeOK
  <2> QED
    BY <2>1, TruthKeptInSilence
<1>7. ASSUME NEW c \in Conns, ReadByte(c) PROVE TruthInv'
  <2>1. Silent
    BY <1>7 DEF ReadByte, Reads, ByteRead, Silent, TypeInv, TypeOK
  <2> QED
    BY <2>1, TruthKeptInSilence
<1>8. ASSUME NEW c \in Conns, ReadChars(c) PROVE TruthInv'
  <2>1. Silent
    BY <1>8 DEF ReadChars, Reads, Silent, TypeInv, TypeOK
  <2> QED
    BY <2>1, TruthKeptInSilence
<1>9. ASSUME NEW c \in Conns, ReadFails(c) PROVE TruthInv'
  <2>1. Silent
    BY <1>9 DEF ReadFails, Silent, TypeInv, TypeOK
  <2> QED
    BY <2>1, TruthKeptInSilence
<1>10. ASSUME NEW c \in Conns, Exec(c) PROVE TruthInv'
  <2>1. Silent
    BY <1>10 DEF Exec, Silent, TypeInv, TypeOK
  <2> QED
    BY <2>1, TruthKeptInSilence
<1>11. ASSUME NEW c \in Conns, InitDb(c) PROVE TruthInv'
  <2>1. Silent
    BY <1>11 DEF InitDb, Silent, TypeInv, TypeOK
  <2> QED
    BY <2>1, TruthKeptInSilence
<1>12. ASSUME NEW c \in Conns, Leave(c) PROVE TruthInv'
  <2>1. Silent
    BY <1>12 DEF Leave, Silent, TypeInv, TypeOK
  <2> QED
    BY <2>1, TruthKeptInSilence
<1>13. ASSUME NEW c \in Conns, InitFails(c) PROVE TruthInv'
  <2>1. Silent
    BY <1>13 DEF InitFails, Silent, TypeInv, TypeOK
  <2> QED
    BY <2>1, TruthKeptInSilence
<1>14. ASSUME NEW c \in Conns, Killed(c) PROVE TruthInv'
  <2>1. Silent
    BY <1>14 DEF Killed, Silent, TypeInv, TypeOK
  <2> QED
    BY <2>1, TruthKeptInSilence
<1>15. ASSUME NEW c \in Conns, BeginPut(c) PROVE TruthInv'
  <2>1. Silent
    BY <1>15 DEF BeginPut, Registers, Silent, TypeInv, TypeOK
  <2> QED
    BY <2>1, TruthKeptInSilence
<1>16. ASSUME NEW c \in Conns, RefuseReserved(c) PROVE TruthInv'
  BY <1>16, TruthKeptByRefusal DEF RefuseReserved
<1>17. ASSUME NEW c \in Conns, DbFails(c) PROVE TruthInv'
  BY <1>17, TruthKeptByRefusal DEF DbFails
<1>18. ASSUME NEW c \in Conns, SaltFails(c) PROVE TruthInv'
  BY <1>18, TruthKeptByRefusal DEF SaltFails, Registers
<1>19. ASSUME NEW c \in Conns, BeginGet(c) PROVE TruthInv'
  <2>1. Silent
    BY <1>19 DEF BeginGet, Silent, TypeInv, TypeOK
  <2> QED
    BY <2>1, TruthKeptInSilence
<1>20. ASSUME NEW c \in Conns, CryptFails(c) PROVE TruthInv'
  <2>1. Silent
    BY <1>20 DEF CryptFails, Silent, TypeInv, TypeOK
  <2> QED
    BY <2>1, TruthKeptInSilence
<1>21. CASE UNCHANGED vars
  <2>1. Silent
    BY <1>21 DEF vars, Silent
  <2> QED
    BY <2>1, TruthKeptInSilence
<1> QED
  BY <1>1, <1>2, <1>3, <1>4, <1>5, <1>6, <1>7, <1>8, <1>9, <1>10, <1>11, <1>12, <1>13, <1>14, <1>15, <1>16, <1>17, <1>18,
     <1>19, <1>20, <1>21,
     TruthKeptByRegistered, TruthKeptByGet, TruthKeptByPut
  DEF Next, Child, Client

-----------------------------------------------------------------------------
(* Types: what the bytes of a request become on their way to argv. *)

\* Strings are what their lengths say.
LEMMA RequestType ==
  ASSUME NEW r \in Requests
  PROVE  /\ r.user \in Seq(Chars) /\ r.pass \in Seq(Chars)
         /\ Len(r.user) \in Nat /\ Len(r.pass) \in Nat
         /\ EndOfUser(r) = 2 + Len(r.user)
         /\ Total(r) = EndOfUser(r) + 1 + Len(r.pass)
<1>1. r \in [cmd: {"LOGIN", "REGISTER", "OTHER"}, user: Seq(Chars), pass: Seq(Chars)]
  BY LoginAssumption
<1>2. r.user \in Seq(Chars) /\ r.pass \in Seq(Chars)
  BY <1>1
<1>3. Len(r.user) \in Nat /\ Len(r.pass) \in Nat
  BY <1>2
<1>4. EndOfUser(r) = 2 + Len(r.user)
  BY DEF EndOfUser
<1>5. Total(r) = EndOfUser(r) + 1 + Len(r.pass)
  BY DEF Total
<1> QED
  BY <1>2, <1>3, <1>4, <1>5

\* A buffer that waits for a string has its length.
LEMMA BlankType ==
  ASSUME NEW s \in Seq(Chars)
  PROVE  Blank(s) \in Strings /\ Len(Blank(s)) = Len(s)
<1> QED
  BY DEF Blank, Strings

\* A chunk goes over the start of a buffer, whose length stays.
LEMMA ChunkType ==
  ASSUME NEW chars \in Seq(Chars), NEW old \in Strings, Len(old) = Len(chars),
         NEW done \in Nat, NEW n \in Nat, done + n <= Len(chars)
  PROVE  LET chunk == SubSeq(chars, done + 1, done + n)
             dst   == chunk \o SubSeq(old, Len(chunk) + 1, Len(chars))
         IN  dst \in Strings /\ Len(dst) = Len(chars)
<1> DEFINE chunk == SubSeq(chars, done + 1, done + n)
           rest  == SubSeq(old, n + 1, Len(chars))
<1>1. chunk \in Strings /\ Len(chunk) = n
  BY DEF Strings
<1>2. rest \in Strings /\ Len(rest) = Len(chars) - n
  BY DEF Strings
<1>3. chunk \o rest \in Strings /\ Len(chunk \o rest) = Len(chunk) + Len(rest)
  <2> HIDE DEF chunk, rest
  <2> QED
    BY <1>1, <1>2 DEF Strings
<1>4. rest = SubSeq(old, Len(chunk) + 1, Len(chars))
  BY <1>1
<1>5. Len(chars) \in Nat
  OBVIOUS
<1> HIDE DEF chunk, rest
<1>6. Len(chunk \o rest) = Len(chars)
  BY <1>1, <1>2, <1>3, <1>5
<1>7. /\ chunk \o SubSeq(old, Len(chunk) + 1, Len(chars)) \in Strings
      /\ Len(chunk \o SubSeq(old, Len(chunk) + 1, Len(chars))) = Len(chars)
  BY <1>3, <1>4, <1>6
<1> QED
  BY <1>7 DEF chunk

\* A C string is no longer than its buffer, and has been written.
LEMMA ContentsType ==
  ASSUME NEW b \in Strings, NEW s \in Contents(b)
  PROVE  s \in Seq(Chars) /\ s \in Strings /\ Len(s) <= Len(b)
<1>1. PICK t \in [1 .. Len(b) -> Chars], n \in 0 .. Len(b) : s = SubSeq(t, 1, n)
  BY DEF Contents
<1>2. Len(b) \in Nat
  BY DEF Strings
<1>3. t \in Seq(Chars) /\ Len(t) = Len(b)
  BY <1>2
<1>4. s \in Seq(Chars) /\ Len(s) = n
  BY <1>1, <1>2, <1>3
<1> QED
  BY <1>2, <1>4 DEF Strings

\* What TypeOK and Filled say of the bytes and the buffers of c.
Bytes(c) ==
  /\ sent[c] \in Nat /\ got[c] \in Nat
  /\ got[c] <= sent[c] /\ sent[c] <= Total(request[c])
  /\ buf[c] \in [user: Strings, pass: Strings]
  /\ Len(buf[c].user) <= Len(request[c].user)
  /\ Len(buf[c].pass) <= Len(request[c].pass)
  /\ Filled(c)

\* A step that leaves requests, bytes and buffers as they are, and brings no
\* process back to an earlier place, keeps them typed.
Undisturbed ==
  /\ UNCHANGED <<request, sent, got, buf>>
  /\ \A c \in Conns :
       \/ pc'[c] \in {"leaked", "exited"}
       \/ pc[c] \in {"idle", "queued"} /\ pc'[c] \in {"queued", "read"}
       \/ /\ pc[c] \in {"exec", "check", "get", "put", "answer"}
          /\ pc'[c] \in {"check", "get", "put", "answer", "playing"}
       \/ pc'[c] = pc[c]

BytesInv ==
  /\ request \in [Conns -> Requests]
  /\ sent \in [Conns -> Nat] /\ got \in [Conns -> Nat]
  /\ buf \in [Conns -> [user: Strings, pass: Strings]]
  /\ \A c \in Conns : Bytes(c)

\* Steps that touch no request, no byte and no buffer keep what is said of them.
LEMMA BytesUndisturbed ==
  ASSUME BytesInv, Undisturbed PROVE BytesInv'
<1>1. ASSUME NEW c \in Conns PROVE Bytes(c)'
  BY <1>1 DEF BytesInv, Bytes, Filled, Undisturbed
<1> QED
  BY <1>1 DEF BytesInv, Undisturbed

\* It is enough to look at the connection whose bytes or buffers change.
LEMMA BytesOfOne ==
  ASSUME BytesInv, NEW c \in Conns, request' = request, Bytes(c)',
         NEW s, NEW g, NEW b, NEW p,
         sent' = [sent EXCEPT ![c] = s],
         got' = [got EXCEPT ![c] = g],
         buf' = [buf EXCEPT ![c] = b],
         pc' = [pc EXCEPT ![c] = p],
         pc \in [Conns -> Places]
  PROVE  BytesInv'
<1>1. ASSUME NEW d \in Conns PROVE Bytes(d)'
  BY <1>1 DEF BytesInv, Bytes, Filled
<1>2. s \in Nat /\ g \in Nat /\ b \in [user: Strings, pass: Strings]
  BY DEF BytesInv, Bytes
<1> QED
  BY <1>1, <1>2 DEF BytesInv

\* Where in the request the next byte is.
LEMMA FieldIs ==
  ASSUME NEW c \in Conns, request[c] \in Requests,
         got[c] \in Nat, got[c] < Total(request[c])
  PROVE  LET r == request[c]
         IN  /\ Field(c) \in {"user", "pass", "none"}
             /\ Field(c) = "user" => 2 <= got[c] /\ got[c] < EndOfUser(r)
             /\ Field(c) = "pass" => EndOfUser(r) + 1 <= got[c]
             /\ Field(c) = "none" => got[c] < 2 \/ got[c] = EndOfUser(r)
<1> DEFINE e == EndOfUser(request[c])
           t == Total(request[c])
           g == got[c]
<1>1. e \in Nat /\ t \in Nat /\ g \in Nat /\ g < t /\ 2 <= e
  BY RequestType
<1>2. Field(c) = IF g \in 2 .. e - 1 THEN "user"
                 ELSE IF g \in e + 1 .. t - 1 THEN "pass" ELSE "none"
  BY DEF Field
<1>3. /\ Field(c) \in {"user", "pass", "none"}
      /\ Field(c) = "user" => 2 <= g /\ g < e
      /\ Field(c) = "pass" => e + 1 <= g
      /\ Field(c) = "none" => g < 2 \/ g = e
  <2> HIDE DEF e, t, g
  <2> QED
    BY <1>1, <1>2
<1> QED
  BY <1>3

\* The command and the two lengths: a length makes room for its string.
LEMMA ReadByteKeepsBytes ==
  ASSUME BytesInv, pc \in [Conns -> Places], NEW c \in Conns, ReadByte(c)
  PROVE  BytesInv'
<1> DEFINE r == request[c]
<1>1. /\ pc' = pc /\ request' = request /\ sent' = sent
      /\ got' = [got EXCEPT ![c] = got[c] + 1]
      /\ pc[c] = "read" /\ got[c] < sent[c]
  BY DEF ReadByte, Reads, ByteRead
<1>2. r \in Requests /\ Bytes(c)
  BY DEF BytesInv
<1>3. /\ Len(r.user) \in Nat /\ Len(r.pass) \in Nat
      /\ EndOfUser(r) = 2 + Len(r.user)
      /\ Total(r) = EndOfUser(r) + 1 + Len(r.pass)
      /\ Blank(r.user) \in Strings /\ Len(Blank(r.user)) = Len(r.user)
      /\ Blank(r.pass) \in Strings /\ Len(Blank(r.pass)) = Len(r.pass)
  BY <1>2, RequestType, BlankType
<1>4. got[c] < 2 \/ got[c] = EndOfUser(r)
  BY <1>1, <1>2, FieldIs DEF ReadByte, Reads, Bytes
<1> DEFINE b == IF got[c] = 1 THEN [buf[c] EXCEPT !.user = Blank(r.user)]
                ELSE IF got[c] = EndOfUser(r)
                  THEN [buf[c] EXCEPT !.pass = Blank(r.pass)]
                ELSE buf[c]
<1>5. buf' = [buf EXCEPT ![c] = b]
  BY DEF ReadByte, ByteRead
<1>6. /\ got'[c] = got[c] + 1 /\ sent'[c] = sent[c] /\ pc'[c] = "read"
      /\ buf'[c] = b /\ request'[c] = r
  BY <1>1, <1>5 DEF BytesInv
<1>7. b \in [user: Strings, pass: Strings]
  BY <1>2, <1>3 DEF Bytes
<1>8. /\ got[c] = 1 => b.user = Blank(r.user) /\ b.pass = buf[c].pass
      /\ got[c] = EndOfUser(r) => b.user = buf[c].user /\ b.pass = Blank(r.pass)
      /\ got[c] = 0 => b = buf[c]
  BY <1>2, <1>3 DEF Bytes
<1>9. Bytes(c)'
  <2> HIDE DEF b, r
  <2>1. /\ Len(b.user) <= Len(r.user)
        /\ Len(b.pass) <= Len(r.pass)
        /\ got[c] + 1 >= 2 => Len(b.user) = Len(r.user)
        /\ got[c] + 1 >= EndOfUser(r) + 1 => Len(b.pass) = Len(r.pass)
    <3>1. /\ Len(buf[c].user) <= Len(r.user)
          /\ Len(buf[c].pass) <= Len(r.pass)
          /\ got[c] >= 2 => Len(buf[c].user) = Len(r.user)
          /\ got[c] \in Nat
      BY <1>1, <1>2 DEF Bytes, Filled, r
    <3> QED
      BY <1>3, <1>4, <1>8, <3>1
  <2>2. /\ got'[c] \in Nat /\ got'[c] <= sent'[c]
        /\ sent'[c] \in Nat /\ sent'[c] <= Total(request'[c])
    BY <1>1, <1>2, <1>6 DEF Bytes, r
  <2> QED
    BY <1>6, <1>7, <2>1, <2>2 DEF Bytes, Filled
<1> QED
  <2> HIDE DEF b, r
  <2>1. sent' = [sent EXCEPT ![c] = sent[c]] /\ pc' = [pc EXCEPT ![c] = pc[c]]
    BY <1>1 DEF BytesInv
  <2> QED
    BY <1>1, <1>5, <1>9, <2>1, BytesOfOne

\* A chunk stays within its buffer, wherever the string was cut.
LEMMA ReadCharsKeepsBytes ==
  ASSUME BytesInv, pc \in [Conns -> Places], NEW c \in Conns, ReadChars(c)
  PROVE  BytesInv'
<1> DEFINE r     == request[c]
           field == Field(c)
           next  == IF sent[c] < EndOf(field, r) THEN sent[c] ELSE EndOf(field, r)
           chars == r[field]
           done  == Len(chars) - (EndOf(field, r) - got[c])
           chunk == SubSeq(chars, done + 1, done + next - got[c])
           dst   == chunk \o SubSeq(buf[c][field], Len(chunk) + 1, Len(chars))
           b     == [buf[c] EXCEPT ![field] = dst]
<1>1. /\ pc' = pc /\ request' = request /\ sent' = sent
      /\ pc[c] = "read" /\ got[c] < sent[c] /\ got[c] < Total(r)
      /\ field # "none"
      /\ got' = [got EXCEPT ![c] = next]
      /\ buf' = [buf EXCEPT ![c][field] = dst]
  BY DEF ReadChars, Reads
<1>2. buf' = [buf EXCEPT ![c] = b]
  BY <1>1
<1>3. r \in Requests /\ Bytes(c)
  BY DEF BytesInv
<1>4. /\ r.user \in Seq(Chars) /\ r.pass \in Seq(Chars)
      /\ Len(r.user) \in Nat /\ Len(r.pass) \in Nat
      /\ EndOfUser(r) = 2 + Len(r.user)
      /\ Total(r) = EndOfUser(r) + 1 + Len(r.pass)
  BY <1>3, RequestType
<1>5. /\ field = "user" => 2 <= got[c] /\ got[c] < EndOfUser(r)
      /\ field = "pass" => EndOfUser(r) + 1 <= got[c]
      /\ field \in {"user", "pass"}
  BY <1>1, <1>3, FieldIs DEF Bytes
<1>6. /\ EndOf(field, r) \in Nat
      /\ got[c] < EndOf(field, r)
      /\ EndOf(field, r) - Len(chars) <= got[c]
      /\ EndOf(field, r) <= Total(r)
      /\ chars \in Seq(Chars) /\ Len(chars) \in Nat
  <2> got[c] \in Nat
    BY <1>3 DEF Bytes
  <2> DEFINE e == EndOfUser(r)
             m == Total(r)
             u == Len(r.user)
             p == Len(r.pass)
  <2>1. /\ e \in Nat /\ m \in Nat /\ u \in Nat /\ p \in Nat
        /\ e - u <= 2 /\ m - p <= e + 1 /\ e <= m
    <3>1. u \in Nat /\ p \in Nat /\ e = 2 + u /\ m = e + 1 + p
      BY <1>4
    <3> HIDE DEF e, m, u, p
    <3> QED
      BY <3>1
  <2>2. CASE field = "user"
    <3>1. EndOf(field, r) = e /\ chars = r.user /\ Len(chars) = u /\ m = Total(r)
      BY <2>2 DEF EndOf
    <3>2. 2 <= got[c] /\ got[c] < e
      BY <2>2, <1>5
    <3>3. chars \in Seq(Chars)
      BY <3>1, <1>4
    <3> HIDE DEF e, m, u, field, chars, r
    <3> QED
      BY <2>1, <3>1, <3>2, <3>3
  <2>3. CASE field = "pass"
    <3>1. EndOf(field, r) = m /\ chars = r.pass /\ Len(chars) = p /\ m = Total(r)
      BY <2>3 DEF EndOf
    <3>2. e + 1 <= got[c] /\ got[c] < m
      BY <2>3, <1>1, <1>5
    <3>3. chars \in Seq(Chars)
      BY <3>1, <1>4
    <3> HIDE DEF e, m, p, field, chars, r
    <3> QED
      BY <2>1, <3>1, <3>2, <3>3
  <2> QED
    BY <1>5, <2>2, <2>3
<1>7. /\ buf[c][field] \in Strings
      /\ Len(buf[c][field]) = Len(chars)
  <2>1. CASE field = "user"
    BY <2>1, <1>1, <1>3, <1>5 DEF Bytes, Filled
  <2>2. CASE field = "pass"
    BY <2>2, <1>1, <1>3, <1>5 DEF Bytes, Filled
  <2> QED
    BY <1>5, <2>1, <2>2
<1>8. /\ next \in Nat /\ got[c] < next /\ next <= sent[c]
      /\ next <= EndOf(field, r)
  <2> HIDE DEF field, r
  <2> QED
    BY <1>1, <1>3, <1>6 DEF Bytes
<1>9. /\ done \in Nat /\ next - got[c] \in Nat
      /\ done + (next - got[c]) <= Len(chars)
      /\ done + next - got[c] = done + (next - got[c])
  <2> HIDE DEF field, r, next, chars
  <2> QED
    BY <1>3, <1>6, <1>8 DEF Bytes
<1>10. dst \in Strings /\ Len(dst) = Len(chars)
  <2> DEFINE n    == next - got[c]
             part == SubSeq(chars, done + 1, done + n)
  <2>1. n \in Nat /\ done + n <= Len(chars) /\ chunk = part
    BY <1>9
  <2> HIDE DEF field, r, next, chars, done, n
  <2> DEFINE old == buf[c][field]
  <2>2. chars \in Seq(Chars) /\ old \in Strings /\ Len(old) = Len(chars)
    BY <1>6, <1>7
  <2>3. done \in Nat
    BY <1>9
  <2> HIDE DEF old
  <2>4. LET all == part \o SubSeq(old, Len(part) + 1, Len(chars))
        IN  all \in Strings /\ Len(all) = Len(chars)
    BY <2>1, <2>2, <2>3, ChunkType
  <2> QED
    BY <2>1, <2>4 DEF old
<1>11. /\ b \in [user: Strings, pass: Strings]
       /\ field = "user" => /\ Len(b.user) = Len(r.user)
                            /\ b.pass = buf[c].pass
       /\ field = "pass" => /\ Len(b.pass) = Len(r.pass)
                            /\ b.user = buf[c].user
  <2> HIDE DEF dst
  <2>1. CASE field = "user"
    <3> HIDE DEF field
    <3> QED
      BY <2>1, <1>3, <1>10 DEF Bytes
  <2>2. CASE field = "pass"
    <3> HIDE DEF field
    <3> QED
      BY <2>2, <1>3, <1>10 DEF Bytes
  <2> QED
    BY <1>5, <2>1, <2>2
<1> HIDE DEF b, dst, done, chunk, chars
<1>12. /\ got'[c] = next /\ sent'[c] = sent[c] /\ pc'[c] = "read"
       /\ buf'[c] = b /\ request'[c] = r
  BY <1>1, <1>2 DEF BytesInv
<1>13. /\ Len(b.user) <= Len(r.user)
       /\ Len(b.pass) <= Len(r.pass)
       /\ next >= 2 => Len(b.user) = Len(r.user)
       /\ next >= EndOfUser(r) + 1 => Len(b.pass) = Len(r.pass)
  <2>1. /\ Len(buf[c].user) <= Len(r.user)
        /\ Len(buf[c].pass) <= Len(r.pass)
        /\ got[c] >= 2 => Len(buf[c].user) = Len(r.user)
        /\ got[c] \in Nat
    BY <1>1, <1>3 DEF Bytes, Filled
  <2>2. /\ field = "user" => next <= EndOfUser(r)
    BY <1>8 DEF EndOf
  <2> HIDE DEF field, next, r
  <2> QED
    BY <1>4, <1>5, <1>8, <1>11, <2>1, <2>2
<1>14. Bytes(c)'
  <2> HIDE DEF field, next, r
  <2>1. /\ got'[c] \in Nat /\ got'[c] <= sent'[c]
        /\ sent'[c] \in Nat /\ sent'[c] <= Total(request'[c])
    BY <1>3, <1>8, <1>12 DEF Bytes, r
  <2> QED
    BY <1>11, <1>12, <1>13, <2>1 DEF Bytes, Filled
<1> QED
  <2> HIDE DEF field, next, r
  <2>1. /\ sent' = [sent EXCEPT ![c] = sent[c]]
        /\ pc' = [pc EXCEPT ![c] = pc[c]]
        /\ request' = request
        /\ got' = [got EXCEPT ![c] = next]
    BY <1>1 DEF BytesInv
  <2> QED
    BY <1>2, <1>14, <2>1, BytesOfOne

\* execl() and exit() take over what is in the buffers.
LEMMA ExecKeepsBytes ==
  ASSUME BytesInv, pc \in [Conns -> Places], NEW c \in Conns, Exec(c)
  PROVE  BytesInv'
<1> DEFINE place == IF request[c].cmd = "OTHER" THEN "exited" ELSE "exec"
<1>1. /\ request' = request
      /\ sent' = [sent EXCEPT ![c] = sent[c]]
      /\ got' = [got EXCEPT ![c] = got[c]]
      /\ pc' = [pc EXCEPT ![c] = place]
  BY DEF Exec, BytesInv
<1>2. PICK u \in Contents(buf[c].user), p \in Contents(buf[c].pass) :
        buf' = [buf EXCEPT ![c] = [user |-> u, pass |-> p]]
  BY DEF Exec
<1>3. Bytes(c) /\ buf[c].user \in Strings /\ buf[c].pass \in Strings
  BY DEF BytesInv, Bytes
<1>4. /\ u \in Seq(Chars) /\ u \in Strings /\ Len(u) <= Len(buf[c].user)
      /\ p \in Seq(Chars) /\ p \in Strings /\ Len(p) <= Len(buf[c].pass)
  BY <1>3, ContentsType
<1>5. /\ Len(u) \in Nat /\ Len(buf[c].user) \in Nat
      /\ Len(p) \in Nat /\ Len(buf[c].pass) \in Nat
      /\ Len(request[c].user) \in Nat /\ Len(request[c].pass) \in Nat
  BY <1>3, <1>4, RequestType DEF Strings, BytesInv
<1>6. Len(u) <= Len(request[c].user) /\ Len(p) <= Len(request[c].pass)
  BY <1>3, <1>4, <1>5 DEF Bytes
<1> DEFINE b == [user |-> u, pass |-> p]
<1>7. /\ b \in [user: Strings, pass: Strings] /\ b \in Accounts
      /\ b.user = u /\ b.pass = p
  BY <1>4 DEF Accounts
<1>8. /\ request'[c] = request[c] /\ sent'[c] = sent[c] /\ got'[c] = got[c]
      /\ buf'[c] = b /\ pc'[c] \in {"exited", "exec"}
  BY <1>1, <1>2 DEF BytesInv
<1> HIDE DEF b, place
<1>9. Bytes(c)'
  BY <1>3, <1>6, <1>7, <1>8 DEF Bytes, Filled
<1> QED
  <2>1. buf' = [buf EXCEPT ![c] = b]
    BY <1>2 DEF b
  <2> QED
    BY <1>1, <1>9, <2>1, BytesOfOne

\* What arrives, or is lost, has not been read.
LEMMA ArrivalKeepsBytes ==
  ASSUME BytesInv, pc \in [Conns -> Places], NEW c \in Conns,
         SendSegment(c) \/ HangUp(c)
  PROVE  BytesInv'
<1>1. /\ request' = request
      /\ got' = [got EXCEPT ![c] = got[c]]
      /\ buf' = [buf EXCEPT ![c] = buf[c]]
      /\ pc' = [pc EXCEPT ![c] = pc[c]]
  BY DEF SendSegment, HangUp, BytesInv
<1>2. Bytes(c) /\ Total(request[c]) \in Nat
  <2> request[c] \in Requests /\ Bytes(c)
    BY DEF BytesInv
  <2> QED
    BY RequestType
<1>3. PICK n \in Nat : /\ sent' = [sent EXCEPT ![c] = n]
                       /\ got[c] <= n /\ n <= Total(request[c])
  <2>1. CASE SendSegment(c)
    <3>1. PICK n \in Cuts \cup {Total(request[c])} :
            /\ sent[c] < n /\ n <= Total(request[c])
            /\ sent' = [sent EXCEPT ![c] = n]
      BY <2>1 DEF SendSegment
    <3>2. n \in Nat
      BY <1>2, LoginAssumption
    <3>3. got[c] <= n
      BY <1>2, <3>1, <3>2 DEF Bytes
    <3> QED
      BY <3>1, <3>2, <3>3
  <2>2. CASE HangUp(c)
    <3>1. \/ sent' = [sent EXCEPT ![c] = sent[c]]
          \/ sent' = [sent EXCEPT ![c] = got[c]]
      BY <2>2 DEF HangUp, BytesInv
    <3>2. /\ sent[c] \in Nat /\ got[c] \in Nat
          /\ got[c] <= sent[c] /\ sent[c] <= Total(request[c])
          /\ got[c] <= Total(request[c])
      BY <1>2 DEF Bytes
    <3> QED
      BY <3>1, <3>2
  <2> QED
    BY <2>1, <2>2
<1>4. /\ request'[c] = request[c] /\ sent'[c] = n /\ got'[c] = got[c]
      /\ buf'[c] = buf[c] /\ pc'[c] = pc[c]
  BY <1>1, <1>3 DEF BytesInv
<1>5. Bytes(c)'
  BY <1>2, <1>3, <1>4 DEF Bytes, Filled
<1> QED
  BY <1>1, <1>3, <1>5, BytesOfOne

\* The rest of TypeOK.
Others ==
  /\ up \in BOOLEAN /\ gateway \in 0 .. MaxGateways
  /\ pc \in [Conns -> Places]
  /\ from \in [Conns -> 0 .. MaxGateways]
  /\ hungup \in [Conns -> {"no", "closed", "reset"}]
  /\ accounts \subseteq Accounts
  /\ lock \in Conns \cup {NONE} /\ readers \subseteq Conns
  /\ told \in [Conns -> Answers \cup {"none"}]
  /\ faults \in 0 .. MaxFaults

\* TypeOK, regrouped by what the steps change.
LEMMA TypeInvParts == TypeInv <=> BytesInv /\ Others
<1>1. ASSUME TypeInv PROVE BytesInv /\ Others
  <2>1. Others
    BY <1>1 DEF TypeInv, TypeOK, Others, Accounts
  <2>2. BytesInv
    <3>1. ASSUME NEW c \in Conns PROVE Bytes(c)
      BY <1>1, <3>1 DEF TypeInv, TypeOK, Bytes
    <3> QED
      BY <1>1, <3>1 DEF TypeInv, TypeOK, BytesInv
  <2> QED
    BY <2>1, <2>2
<1>2. ASSUME BytesInv, Others PROVE TypeInv
  BY <1>2 DEF TypeInv, TypeOK, BytesInv, Bytes, Others, Accounts
<1> QED
  BY <1>1, <1>2

\* Every step keeps bytes and buffers typed.
LEMMA BytesInvariant ==
  ASSUME BytesInv, Others, [Next]_vars
  PROVE  BytesInv'
<1> USE DEF requestVars, dbVars, gatewayVars
<1> pc \in [Conns -> Places]
  BY DEF Others
<1>1. CASE Listen \/ GatewayEnds \/ UNCHANGED vars
  <2>1. Undisturbed
    BY <1>1 DEF Listen, GatewayEnds, vars, Undisturbed
  <2> QED
    BY <2>1, BytesUndisturbed
<1>2. ASSUME NEW c \in Conns, Accept(c) PROVE BytesInv'
  <2>1. Undisturbed
    BY <1>2 DEF Accept, Queued, Undisturbed
  <2> QED
    BY <2>1, BytesUndisturbed
<1>3. ASSUME NEW c \in Conns, ForkFails(c) PROVE BytesInv'
  <2>1. Undisturbed
    BY <1>3 DEF ForkFails, Undisturbed
  <2> QED
    BY <2>1, BytesUndisturbed
<1>4. ASSUME NEW c \in Conns, Connect(c) PROVE BytesInv'
  <2>1. Undisturbed
    BY <1>4 DEF Connect, Undisturbed
  <2> QED
    BY <2>1, BytesUndisturbed
<1>5. ASSUME NEW c \in Conns, ReadFails(c) PROVE BytesInv'
  <2>1. Undisturbed
    BY <1>5 DEF ReadFails, Undisturbed
  <2> QED
    BY <2>1, BytesUndisturbed
<1>6. ASSUME NEW c \in Conns, Leave(c) PROVE BytesInv'
  <2>1. Undisturbed
    BY <1>6 DEF Leave, Undisturbed
  <2> QED
    BY <2>1, BytesUndisturbed
<1>7. ASSUME NEW c \in Conns, InitFails(c) PROVE BytesInv'
  <2>1. Undisturbed
    BY <1>7 DEF InitFails, Undisturbed
  <2> QED
    BY <2>1, BytesUndisturbed
<1>8. ASSUME NEW c \in Conns, Killed(c) PROVE BytesInv'
  <2>1. Undisturbed
    BY <1>8 DEF Killed, Undisturbed
  <2> QED
    BY <2>1, BytesUndisturbed
<1>9. ASSUME NEW c \in Conns, InitDb(c) PROVE BytesInv'
  <2>1. Undisturbed
    BY <1>9 DEF InitDb, Undisturbed
  <2> QED
    BY <2>1, BytesUndisturbed
<1>10. ASSUME NEW c \in Conns, BeginPut(c) PROVE BytesInv'
  <2>1. Undisturbed
    BY <1>10 DEF BeginPut, Registers, Undisturbed
  <2> QED
    BY <2>1, BytesUndisturbed
<1>11. ASSUME NEW c \in Conns, RefuseReserved(c) PROVE BytesInv'
  <2>1. Undisturbed
    BY <1>11, ReportIs DEF RefuseReserved, Undisturbed
  <2> QED
    BY <2>1, BytesUndisturbed
<1>12. ASSUME NEW c \in Conns, EndPut(c) PROVE BytesInv'
  <2>1. Undisturbed
    BY <1>12, ReportIs DEF EndPut, StoreOrRefuse, Undisturbed
  <2> QED
    BY <2>1, BytesUndisturbed
<1>13. ASSUME NEW c \in Conns, AnswerRegistered(c) PROVE BytesInv'
  <2>1. Undisturbed
    BY <1>13, ReportIs DEF AnswerRegistered, Undisturbed
  <2> QED
    BY <2>1, BytesUndisturbed
<1>14. ASSUME NEW c \in Conns, EndGet(c) PROVE BytesInv'
  <2>1. Undisturbed
    BY <1>14, ReportIs DEF EndGet, Undisturbed
  <2> QED
    BY <2>1, BytesUndisturbed
<1>15. ASSUME NEW c \in Conns, DbFails(c) PROVE BytesInv'
  <2>1. Undisturbed
    BY <1>15, ReportIs DEF DbFails, Undisturbed
  <2> QED
    BY <2>1, BytesUndisturbed
<1>16. ASSUME NEW c \in Conns, SaltFails(c) PROVE BytesInv'
  <2>1. Undisturbed
    BY <1>16, ReportIs DEF SaltFails, Registers, Undisturbed
  <2> QED
    BY <2>1, BytesUndisturbed
<1>17. ASSUME NEW c \in Conns, BeginGet(c) PROVE BytesInv'
  <2>1. Undisturbed
    BY <1>17 DEF BeginGet, Undisturbed
  <2> QED
    BY <2>1, BytesUndisturbed
<1>18. ASSUME NEW c \in Conns, CryptFails(c) PROVE BytesInv'
  <2>1. Undisturbed
    BY <1>18 DEF CryptFails, Undisturbed
  <2> QED
    BY <2>1, BytesUndisturbed
<1> QED
  BY <1>1, <1>2, <1>3, <1>4, <1>5, <1>6, <1>7, <1>8, <1>9, <1>10, <1>11, <1>12, <1>13, <1>14, <1>15,
     <1>16, <1>17, <1>18,
     ReadByteKeepsBytes, ReadCharsKeepsBytes, ExecKeepsBytes, ArrivalKeepsBytes
  DEF Next, Child, Client

\* register_user() alone writes to the database.
LEMMA AccountsOnlyByPut ==
  [Next]_vars => accounts' = accounts \/ \E c \in Conns : EndPut(c)
  BY DEF requestVars, dbVars, gatewayVars, Next, Child, Client, vars, ByteRead,
         Listen, GatewayEnds, Accept, ForkFails, Connect, SendSegment, HangUp,
         ReadByte, ReadChars, ReadFails, Exec, RefuseReserved, BeginPut,
         AnswerRegistered, InitDb, BeginGet, EndGet, Leave, InitFails, SaltFails,
         CryptFails, DbFails, Killed

\* What one step may do to each of the variables that Others types.
LEMMA OneAtATime ==
  ASSUME [Next]_vars
  PROVE  /\ \/ UNCHANGED <<up, gateway>>
            \/ up' = FALSE /\ gateway' = gateway
            \/ up' = TRUE /\ gateway < MaxGateways /\ gateway' = gateway + 1
         /\ \/ from' = from
            \/ \E c \in Conns, g \in 1 .. gateway : from' = [from EXCEPT ![c] = g]
         /\ \/ hungup' = hungup
            \/ \E c \in Conns, h \in {"closed", "reset"} :
                 hungup' = [hungup EXCEPT ![c] = h]
         /\ lock' = lock \/ lock' = NONE \/ lock' \in Conns
         /\ readers' \subseteq readers \cup Conns
         /\ \/ told' = told
            \/ \E c \in Conns, a \in Answers : told' = [told EXCEPT ![c] = a]
         /\ faults' = faults \/ (faults < MaxFaults /\ faults' = faults + 1)
         /\ \/ pc' = pc
            \/ \E c \in Conns, p \in Places : pc' = [pc EXCEPT ![c] = p]
<1> USE DEF requestVars, dbVars, gatewayVars, vars, Child, Client
<1>1. CASE Listen \/ GatewayEnds \/ UNCHANGED vars
  BY <1>1 DEF Listen, GatewayEnds, Fault
<1>2. ASSUME NEW c \in Conns, Connect(c) \/ HangUp(c)
      PROVE  /\ UNCHANGED <<up, gateway, lock, readers, told, faults>>
             /\ \/ from' = from
                \/ \E g \in 1 .. gateway : from' = [from EXCEPT ![c] = g]
             /\ \/ hungup' = hungup
                \/ \E h \in {"closed", "reset"} : hungup' = [hungup EXCEPT ![c] = h]
             /\ \/ pc' = pc
                \/ \E p \in Places : pc' = [pc EXCEPT ![c] = p]
  BY <1>2 DEF Connect, HangUp, Places
<1>3. ASSUME NEW c \in Conns, ReadByte(c) \/ ReadChars(c) \/ SendSegment(c)
      PROVE  UNCHANGED <<gatewayVars, from, hungup, lock, readers, told, faults, pc>>
  BY <1>3 DEF ReadByte, ByteRead, ReadChars, SendSegment
<1>4. ASSUME NEW c \in Conns,
             \/ Accept(c) \/ ForkFails(c) \/ ReadFails(c) \/ Exec(c) \/ BeginPut(c)
             \/ InitDb(c) \/ BeginGet(c) \/ CryptFails(c) \/ Leave(c)
             \/ InitFails(c) \/ Killed(c)
      PROVE  /\ UNCHANGED <<gatewayVars, from, hungup, told>>
             /\ lock' = lock \/ lock' \in Conns
             /\ readers' \subseteq readers \cup Conns
             /\ faults' = faults \/ (faults < MaxFaults /\ faults' = faults + 1)
             /\ \E p \in Places : pc' = [pc EXCEPT ![c] = p]
  BY <1>4 DEF Accept, ForkFails, ReadFails, Exec, BeginPut, InitDb, BeginGet,
              CryptFails, Leave, InitFails, Killed, Fault, Places
<1>5. ASSUME NEW c \in Conns, NEW answer \in Answers,
             NEW place \in {"playing", "exited"}, Report(c, answer, place)
      PROVE  /\ \E a \in Answers : told' = [told EXCEPT ![c] = a]
             /\ \E p \in Places : pc' = [pc EXCEPT ![c] = p]
  BY <1>5, ReportIs DEF Places
<1>6. ASSUME NEW c \in Conns,
             \/ RefuseReserved(c) \/ SaltFails(c) \/ AnswerRegistered(c)
             \/ EndGet(c) \/ DbFails(c)
      PROVE  /\ UNCHANGED <<gatewayVars, from, hungup>>
             /\ lock' = lock \/ lock' = NONE
             /\ readers' \subseteq readers \cup Conns
             /\ faults' = faults \/ (faults < MaxFaults /\ faults' = faults + 1)
             /\ \E answer \in Answers, place \in {"playing", "exited"} :
                  Report(c, answer, place)
  BY <1>6 DEF RefuseReserved, SaltFails, AnswerRegistered, EndGet, DbFails,
              Fault, Answers
<1>7. ASSUME NEW c \in Conns, EndPut(c)
      PROVE  /\ UNCHANGED <<gatewayVars, from, hungup, readers, faults>>
             /\ lock' = NONE
             /\ \/ UNCHANGED told /\ pc' = [pc EXCEPT ![c] = "answer"]
                \/ Report(c, "refused", "exited")
  BY <1>7 DEF EndPut, StoreOrRefuse
<1> HIDE DEF requestVars, dbVars, vars
<1>8. ASSUME NEW c \in Conns, EndPut(c)
      PROVE  /\ told' = told \/ \E a \in Answers : told' = [told EXCEPT ![c] = a]
             /\ \E p \in Places : pc' = [pc EXCEPT ![c] = p]
  BY <1>5, <1>7, <1>8 DEF Places, Answers
<1>9. Next \/ UNCHANGED vars
  OBVIOUS
<1>10. CASE \E c \in Conns : Connect(c) \/ HangUp(c)
  BY <1>2, <1>10
<1>11. CASE \E c \in Conns : ReadByte(c) \/ ReadChars(c) \/ SendSegment(c)
  BY <1>3, <1>11
<1>12. CASE \E c \in Conns :
             \/ Accept(c) \/ ForkFails(c) \/ ReadFails(c) \/ Exec(c) \/ BeginPut(c)
             \/ InitDb(c) \/ BeginGet(c) \/ CryptFails(c) \/ Leave(c)
             \/ InitFails(c) \/ Killed(c)
  BY <1>4, <1>12
<1>13. CASE \E c \in Conns :
              \/ RefuseReserved(c) \/ SaltFails(c) \/ AnswerRegistered(c)
              \/ EndGet(c) \/ DbFails(c)
  <2>1. PICK c \in Conns :
          \/ RefuseReserved(c) \/ SaltFails(c) \/ AnswerRegistered(c)
          \/ EndGet(c) \/ DbFails(c)
    BY <1>13
  <2>2. PICK answer \in Answers, place \in {"playing", "exited"} :
          Report(c, answer, place)
    BY <1>6, <2>1
  <2>3. /\ \E a \in Answers : told' = [told EXCEPT ![c] = a]
        /\ \E p \in Places : pc' = [pc EXCEPT ![c] = p]
    BY <1>5, <2>2
  <2> QED
    BY <1>6, <2>1, <2>3
<1>14. CASE \E c \in Conns : EndPut(c)
  BY <1>7, <1>8, <1>14
<1> QED
  BY <1>1, <1>9, <1>10, <1>11, <1>12, <1>13, <1>14 DEF Next

\* The bounds that types mention.
LEMMA Bounds == MaxGateways \in Nat /\ MaxFaults \in Nat
  BY LoginAssumption

\* Every step keeps the other variables typed.
LEMMA OthersInvariant ==
  ASSUME BytesInv, Others, [Next]_vars
  PROVE  Others'
<1>1. accounts' \subseteq Accounts
  <2>1. ASSUME NEW c \in Conns, EndPut(c) PROVE accounts' \subseteq Accounts
    <3>1. buf[c] \in Accounts
      BY <2>1 DEF EndPut, BytesInv, Bytes, Filled
    <3> QED
      BY <2>1, <3>1 DEF EndPut, StoreOrRefuse, Others
  <2>2. CASE accounts' = accounts
    BY <2>2 DEF Others
  <2> QED
    BY <2>1, <2>2, AccountsOnlyByPut
<1>2. up' \in BOOLEAN /\ gateway' \in 0 .. MaxGateways
  <2>1. gateway \in 0 .. MaxGateways /\ up \in BOOLEAN
    BY DEF Others
  <2>2. CASE UNCHANGED <<up, gateway>>
    BY <2>1, <2>2
  <2>3. CASE up' = FALSE /\ gateway' = gateway
    BY <2>1, <2>3
  <2>4. CASE up' = TRUE /\ gateway < MaxGateways /\ gateway' = gateway + 1
    BY <2>1, <2>4, Bounds
  <2> QED
    BY <2>2, <2>3, <2>4, OneAtATime
<1>3. from' \in [Conns -> 0 .. MaxGateways]
  <2>1. gateway \in 0 .. MaxGateways /\ from \in [Conns -> 0 .. MaxGateways]
    BY DEF Others
  <2>2. 1 .. gateway \subseteq 0 .. MaxGateways
    BY <2>1, Bounds
  <2>3. ASSUME NEW c \in Conns, NEW g \in 1 .. gateway, from' = [from EXCEPT ![c] = g]
        PROVE  from' \in [Conns -> 0 .. MaxGateways]
    BY <2>1, <2>2, <2>3
  <2> QED
    BY <2>1, <2>3, OneAtATime
<1>4. hungup' \in [Conns -> {"no", "closed", "reset"}]
  BY OneAtATime DEF Others
<1>5. lock' \in Conns \cup {NONE} /\ readers' \subseteq Conns
  BY OneAtATime DEF Others
<1>6. told' \in [Conns -> Answers \cup {"none"}]
  BY OneAtATime DEF Others
<1>7. faults' \in 0 .. MaxFaults
  <2>1. faults \in 0 .. MaxFaults
    BY DEF Others
  <2>2. CASE faults < MaxFaults /\ faults' = faults + 1
    BY <2>1, <2>2, Bounds
  <2> QED
    BY <2>1, <2>2, OneAtATime
<1>8. pc' \in [Conns -> Places]
  BY OneAtATime DEF Others
<1> QED
  BY <1>1, <1>2, <1>3, <1>4, <1>5, <1>6, <1>7, <1>8 DEF Others

-----------------------------------------------------------------------------
\* The inductive invariant.
LoginInv == BytesInv /\ Others /\ TruthInv

\* Nobody is connected, and nobody has an account.
LEMMA LoginInvInit ==
  Init => LoginInv
<1> SUFFICES ASSUME Init PROVE LoginInv
  OBVIOUS
<1>1. TruthInv
  BY DEF Init, TruthInv, Honest, Registrant, OneRegistrantPerName, AccountsAreMade
<1>2. Others
  <2>1. 0 \in 0 .. MaxGateways /\ 0 \in 0 .. MaxFaults
    BY Bounds
  <2>2. accounts \subseteq Accounts
    BY DEF Init
  <2> QED
    BY <2>1, <2>2 DEF Init, Others, Places
<1>3. BytesInv
  <2>1. /\ request \in [Conns -> Requests]
        /\ sent = [c \in Conns |-> 0] /\ got = [c \in Conns |-> 0]
        /\ buf = [c \in Conns |-> Empty] /\ pc = [c \in Conns |-> "idle"]
    BY DEF Init
  <2>2. Empty \in [user: Strings, pass: Strings]
        /\ Len(Empty.user) = 0 /\ Len(Empty.pass) = 0
    BY DEF Empty, Strings
  <2>3. ASSUME NEW c \in Conns PROVE Bytes(c)
    <3>1. /\ Len(request[c].user) \in Nat /\ Len(request[c].pass) \in Nat
          /\ EndOfUser(request[c]) \in Nat /\ Total(request[c]) \in Nat
      <4> request[c] \in Requests
        BY <2>1
      <4> QED
        BY RequestType
    <3>2. sent[c] = 0 /\ got[c] = 0 /\ buf[c] = Empty /\ pc[c] = "idle"
      BY <2>1
    <3> QED
      BY <2>2, <3>1, <3>2 DEF Bytes, Filled
  <2> QED
    BY <2>1, <2>2, <2>3 DEF BytesInv
<1> QED
  BY <1>1, <1>2, <1>3 DEF LoginInv

\* Bytes are typed and answers are true at every time.
THEOREM LoginInvariant == Spec => []LoginInv
<1>1. LoginInv /\ [Next]_vars => LoginInv'
  <2> SUFFICES ASSUME LoginInv, [Next]_vars PROVE LoginInv'
    OBVIOUS
  <2>1. TypeInv
    BY TypeInvParts DEF LoginInv
  <2> QED
    BY <2>1, BytesInvariant, OthersInvariant, TruthInvariant DEF LoginInv
<1> QED
  BY LoginInvInit, <1>1, PTL DEF Spec

\* Every variable keeps its type, and no buffer is ever longer than the string
\* that was announced for it.
THEOREM TypeCorrect == Spec => []TypeOK
<1>1. LoginInv => TypeOK
  BY TypeInvParts DEF LoginInv, TypeInv
<1> QED
  BY <1>1, LoginInvariant, PTL

\* Whoever is told "registered" or is let in has an account with its own
\* password (src/client/users.c), and no two are told to have one name, for any
\* number of clients, in any order, with any failures and kills.
THEOREM AnswersTrue == Spec => []AnswersAreTrue
<1>1. LoginInv => AnswersAreTrue
  BY DEF LoginInv, TruthInv, Honest, OneRegistrantPerName, Registrant, AnswersAreTrue
<1> QED
  BY <1>1, LoginInvariant, PTL

\* Nobody plays without an account that a client of this database has made: the
\* account was in the database when the user was let in, and accounts are made
\* by register_user() alone.
THEOREM PlayersAreRegistered == Spec => []PlayersRegistered
<1>1. LoginInv => PlayersRegistered
  <2> SUFFICES ASSUME LoginInv, NEW c \in Conns, pc[c] = "playing"
               PROVE  \E d \in Conns : /\ request[d].cmd = "REGISTER"
                                       /\ buf[d] = buf[c]
                                       /\ told[d] \in {"registered", "none"}
    BY DEF PlayersRegistered
  <2>1. buf[c] \in accounts
    BY DEF LoginInv, TruthInv, Honest
  <2> QED
    BY <2>1 DEF LoginInv, TruthInv, AccountsAreMade, Made
<1> QED
  BY <1>1, LoginInvariant, PTL
=============================================================================
