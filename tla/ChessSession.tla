---------------------------- MODULE ChessSession ----------------------------
(***************************************************************************)
(* The two clients of Session with the rules of Engine: each of them calls *)
(* the make_move() of chess.c on a board of its own.                       *)
(***************************************************************************)
EXTENDS Session, Positions

\* The parameters of Session are the Engine's, and its game begins with a
\* position of chess.
ASSUME ChessAssumption ==
  /\ \A g \in Games : /\ IsGame(g) /\ AtHome(g.board)
                      /\ PlayerOf(g) = GetPlayer(g)
  /\ \A g \in Games, w \in Submissions :
       EngineMove(g, ApiGetMove(w)) = MakeMove(g, ApiGetMove(w))
  /\ MayStart(StartGame)

-----------------------------------------------------------------------------
\* A rejected promotion may stay on the board of the client that tried it
\* (chess.c:471).  Still, the boards of two clients in a game show men of the
\* same colours and the same past on the same squares at the same time.  Only
\* what they take a man for may differ: for two pieces that a pawn can become,
\* or for the pawn itself as long as it stands beside its last row.
PromotedApart(s, a, b) ==
  \A man \in {a, b} : man.type \in Promotions \/ MayPromote(s, man)

SameBoard(b, c) ==
  /\ DOMAIN b = DOMAIN c
  /\ \A s \in DOMAIN b :
       /\ b[s].player = c[s].player /\ b[s].moves = c[s].moves
       /\ b[s].last_move = c[s].last_move
       /\ b[s].type # c[s].type => PromotedApart(s, b[s], c[s])

SameMen(g, h) == g.duration = h.duration /\ SameBoard(g.board, h.board)

BoardsDifferOnlyInPromotion ==
  \A p \in Players :
    pc[p] = "user" /\ pc[Opponent(p)] = "peer" =>
      SameMen(game[p], game[Opponent(p)])

\* There is no server that watches the rules: what comes out of a pipe is as
\* good as the client that wrote it.  Still every board, taken by itself, goes
\* on as a game of chess does: a step of the two processes leaves it alone, but
\* for rejected promotions, or plays a move that was submitted and is legal in
\* the position which this board shows.
EveryBoardPlaysChess ==
  [][\A p \in Players :
       \/ /\ game'[p].duration = game[p].duration
          /\ OnlyPromotes(game[p].board, game'[p].board)
       \/ \E w \in Submissions :
            PlaysLegally(game[p], ApiGetMove(w), game'[p])]_vars

\* doc/api.txt:126-128: a MAKE_MOVE received by the server is sent to the
\* opponent, whose client executes it; so no move that was accepted is refused
\* on the other side.  What the code does: after a rejected promotion or
\* castling the two boards may differ, and the opponent's client ends the game
\* with "internal server error" over a move that its sender's client accepted.
AcceptedMovesAreExecuted == NoUnknownError
=============================================================================
