------------------------------ MODULE Pairing -------------------------------
(***************************************************************************)
(* What the matchmaker promises to the two clients it makes a pair of, and *)
(* all that a game relies on: two seats, taken once, and a matchmaker that *)
(* lets go of the pipes in the end.  It is the interface between           *)
(* Matchmaker, which implements it for each of its rounds, and Session,    *)
(* which is one such pair seen from inside.                                *)
(***************************************************************************)
CONSTANT Seats   \* white and black

VARIABLES
  seat,   \* where the client of each seat is
  held    \* the matchmaker still holds the ends of the pipes

pairVars == <<seat, held>>

\* "vacant": no pair yet        "starting": the client waits in recvfds()
\* "playing": it has its ends   "exited":   it is gone, with what it held
SeatPlaces == {"vacant", "starting", "playing", "exited"}

\* A pair is looked at from before it is made, or from when it is.
PairInit ==
  \/ seat = [p \in Seats |-> "vacant"] /\ held = FALSE
  \/ seat = [p \in Seats |-> "starting"] /\ held = TRUE

\* The client of one seat has been sent its ends; the other client may have
\* gone by then.
Open ==
  /\ \A p \in Seats : seat[p] = "vacant"
  /\ held' = TRUE
  /\ seat' \in [Seats -> {"starting", "exited"}]
  /\ \E p \in Seats : seat'[p] = "starting"

\* recvfds() returns; printing INIT_GAME to nobody may end the process.
Sit(p) ==
  /\ seat[p] = "starting"
  /\ \E place \in {"playing", "exited"} : seat' = [seat EXCEPT ![p] = place]
  /\ UNCHANGED held

Rise(p) ==
  /\ seat[p] \in {"starting", "playing"}
  /\ seat' = [seat EXCEPT ![p] = "exited"]
  /\ UNCHANGED held

\* The matchmaker lets go of the pipes.  Whoever has not been sent its ends by
\* then will never get them.
LetGo ==
  /\ held
  /\ held' = FALSE
  /\ \E lost \in SUBSET {p \in Seats : seat[p] = "starting"} :
       seat' = [p \in Seats |-> IF p \in lost THEN "exited" ELSE seat[p]]

PairNext == Open \/ LetGo \/ \E p \in Seats : Sit(p) \/ Rise(p)

PairFairness == WF_pairVars(LetGo) /\ \A p \in Seats : WF_pairVars(Sit(p))

PairSafety == PairInit /\ [][PairNext]_pairVars

PairSpec == PairSafety /\ PairFairness
=============================================================================
