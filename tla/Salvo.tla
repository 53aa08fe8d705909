------------------------------- MODULE Salvo --------------------------------
(***************************************************************************)
(* What one player's fleet promises to the side that fires at it, with no  *)
(* board cells, boat array or hit counter: ships are sets of cells, and    *)
(* the answer to a shot depends only on the ships and the earlier shots.   *)
(*                                                                         *)
(* The answers are those of apply_guess (include/game_logic.h:18 and       *)
(* src/battleship/game_logic.c:111): "M" miss, "H" hit, "S" sunk, "0" for  *)
(* a cell that has been fired at before.                                   *)
(***************************************************************************)
CONSTANTS Cells,    \* the cells of the board
          Shapes    \* the sets of cells a ship may cover

VARIABLES ships,    \* the deployed ships
          shots,    \* the cells fired at
          answer,   \* the answer to the last shot
          phase     \* "deploy", "fire" or "over"

vars == <<ships, shots, answer, phase>>

Init == ships = {} /\ shots = {} /\ answer = "-" /\ phase = "deploy"

Verdict(c) ==
  CASE c \in shots                                          -> "0"
    [] c \notin shots /\ c \notin UNION ships               -> "M"
    [] \E s \in ships : c \in s \ shots /\ s \ shots = {c}  -> "S"
    [] OTHER                                                -> "H"

\* One more ship, clear of those already out.
Deploy(s) ==
  /\ phase = "deploy"
  /\ \A t \in ships : s \cap t = {}
  /\ ships' = ships \cup {s}
  /\ UNCHANGED <<shots, answer, phase>>

Open ==
  /\ phase = "deploy"
  /\ phase' = "fire"
  /\ UNCHANGED <<ships, shots, answer>>

\* The match is over as soon as a new shot leaves no ship afloat.
Fire(c) ==
  /\ phase = "fire"
  /\ answer' = Verdict(c)
  /\ shots' = shots \cup {c}
  /\ phase' = IF c \notin shots /\ UNION ships \subseteq shots' THEN "over" ELSE "fire"
  /\ UNCHANGED ships

Clear == ships' = {} /\ shots' = {} /\ phase' = "deploy" /\ UNCHANGED answer

Next == \/ \E s \in Shapes : Deploy(s)
        \/ Open
        \/ \E c \in Cells : Fire(c)
        \/ Clear

Spec == Init /\ [][Next]_vars
=============================================================================
