----------------------------- MODULE GameFleet ------------------------------
(***************************************************************************)
(* The human's fleet in the hands of both tasks (GameTask) is a fleet of   *)
(* GameLogic whose setups begin before the game, for the first time or     *)
(* after a refusal: although either task may be the one that sets it up,   *)
(* a sunk ship is concluded seconds after it was marked, and a restart may *)
(* be asked for at any moment.                                             *)
(*                                                                         *)
(* GameTask keeps neither the answer of a shot nor what a setup has come   *)
(* to; two history variables record them.                                  *)
(***************************************************************************)
EXTENDS GameTask

ASSUME GameFleetAssumption == Disciplined

VARIABLES reply,     \* what apply_guess(&game->player, ...) returned last
          stage      \* what the human's fleet is: "idle", "playing" or "over"

history == <<reply, stage>>

FleetInit == Init /\ reply = "-" /\ stage = "idle"

\* A setup is accepted by this step.
Accepted == (~game_ready /\ game_ready') \/ (pc = "draw" /\ pc' = "settle")

FleetNext ==
  \/ \E c \in Coordinate :
       /\ OpponentShot(c)
       /\ reply' = GuessResult(player, c)
       /\ stage' = IF reply' # "0" /\ all_ships_sunk(player') THEN "over" ELSE stage
  \/ /\ Steps \/ Server
     /\ UNCHANGED reply
     /\ stage' = IF Accepted THEN "playing" ELSE IF pc' = "init" THEN "idle" ELSE stage

FleetSpec == FleetInit /\ [][FleetNext]_<<vars, history>> /\ Fairness

\* The types of the two tasks' variables and of what is recorded of them.
FleetTypeOK ==
  /\ TypeOK
  /\ reply \in {"-", "M", "H", "S", "0"}
  /\ stage \in {"idle", "playing", "over"}

\* What a setup is about, whichever task serves it.
Setup ==
  CASE pc = "held" \/ http = "held" -> "held"
    [] ~(pc = "held" \/ http = "held") /\ (pc = "draw" \/ http # "idle") -> "open"
    [] OTHER -> "none"

L == INSTANCE GameLogic WITH
       Lengths   <- {ship_lengths[i] : i \in DOMAIN ship_lengths},
       Policies  <- {"retry"},
       policy    <- "retry",
       setup     <- Setup

\* Whatever the two tasks do in each other's delays, each of their steps is one of
\* GameLogic's for the human's fleet, or none: so what GameLogicProofs proves of a fleet
\* that is set up before the game, on any board, is true of it.
ImplementsGameLogic == L!Spec

\* The computer chooses a cell that it has not noted, and is told that it was shot at
\* before only if a refused setup left a ship there that has no boat: through setups,
\* restarts and sunk ships its notes miss no other shot.
NoTurnWasted ==
  [][\A c \in Coordinate :
       OpponentShot(c) /\ reply' = "0" => c \in Orphans(player)]_<<vars, history>>
=============================================================================
