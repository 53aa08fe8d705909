----------------------------- MODULE GameLogic ------------------------------
(***************************************************************************)
(* The life of one player's fleet: it is set up ship by ship (by           *)
(* place_random_ships or by a setup request), fired at through             *)
(* apply_guess, and wiped by Game_Init.                                    *)
(*                                                                         *)
(* Where the robot puts a piece down, seconds of delay lie between         *)
(* place_ship and the boat_count++ that makes the ship count.  Neither     *)
(* place_random_ships nor post_setup_game_handler clears the board before  *)
(* it sets boat_count to 0 (the call of reset_board is commented out,      *)
(* src/http_server.c:197), and no handler looks at the state of the game.  *)
(* So a setup can begin on a board that carries the ships of a refused     *)
(* one, or in mid-game, where the game task goes on shooting and may call  *)
(* Game_Init in its delays.  policy says how far the callers go.           *)
(***************************************************************************)
EXTENDS Fleet

CONSTANTS Lengths,    \* the ship lengths that placements use
          Policies    \* the values that policy may have

ASSUME GameLogicAssumption ==
  Lengths \subseteq 1 .. GRID_SIZE /\ Policies \subseteq {"fresh", "retry", "any"}

VARIABLES player,    \* the Player record
          stage,     \* "idle", "playing" or "over"
          setup,     \* "none", "open", or "held": a ship was put down and not counted yet
          reply,     \* what the last apply_guess returned; "-" before the first
          policy     \* "fresh": a setup begins before the game, on an empty board; "retry":
                     \* before the game, on any board; "any": at any time

vars == <<player, stage, setup, reply, policy>>

Init == /\ player = FreshPlayer /\ stage = "idle" /\ setup = "none"
        /\ reply = "-" /\ policy \in Policies

\* boat_count = 0, and nothing else, starts a placement.  Bound: one at a time.
BeginPlacement ==
  /\ setup = "none"
  /\ policy # "any" => stage = "idle"
  /\ policy = "fresh" => player.cells = EmptyCells
  /\ player' = [player EXCEPT !.boat_count = 0]
  /\ setup' = "open"
  /\ UNCHANGED <<stage, reply, policy>>

\* Mutant: no bound on the number of boats.
PlaceShipUnbounded(row, col, length, horizontal) ==
  /\ setup = "open"
  /\ can_place_ship(player.cells, row, col, length, horizontal)
  /\ player' = place_ship(player, row, col, length, horizontal)
  /\ setup' = "held"
  /\ UNCHANGED <<stage, reply, policy>>

\* post_setup_game_handler and place_random_ships for the player: the delay follows.
PlaceShip(row, col, length, horizontal) ==
  /\ setup = "open"
  /\ player.boat_count < MAX_SHIPS
  /\ can_place_ship(player.cells, row, col, length, horizontal)
  /\ player' = place_ship(player, row, col, length, horizontal)
  /\ setup' = "held"
  /\ UNCHANGED <<stage, reply, policy>>

\* The delay is over, whatever boat_count is by then.
CountShip ==
  /\ setup = "held"
  /\ player' = [player EXCEPT !.boat_count = @ + 1]
  /\ setup' = "open"
  /\ UNCHANGED <<stage, reply, policy>>

\* post_place_ships_handler, which counts before the delay, and place_random_ships for
\* the opponent, which has none.
PlaceCounted(row, col, length, horizontal) ==
  /\ setup = "open"
  /\ player.boat_count < MAX_SHIPS
  /\ can_place_ship(player.cells, row, col, length, horizontal)
  /\ player' = [place_ship(player, row, col, length, horizontal) EXCEPT !.boat_count = @ + 1]
  /\ UNCHANGED <<stage, setup, reply, policy>>

\* The rows of the places that the requests ask for: post_place_ships_handler adds to them.
RequestRows == 0 .. 2 * (GRID_SIZE - 1)

\* The request is refused at its first ship that does not fit; the ships
\* placed before it stay on the board.
RejectPlacement(row, col, length, horizontal) ==
  /\ setup = "open"
  /\ player.boat_count < MAX_SHIPS
  /\ ~can_place_ship(player.cells, row, col, length, horizontal)
  /\ setup' = "none"
  /\ UNCHANGED <<player, stage, reply, policy>>

\* Mutant: the last ship put on the board is not counted.
FinishPlacementUncounted ==
  /\ setup = "open"
  /\ setup' = "none"
  /\ stage' \in {"playing"} \cup ({stage} \ {"idle"})
  /\ player' = [player EXCEPT !.boat_count = IF @ > 1 THEN @ - 1 ELSE @]
  /\ UNCHANGED <<reply, policy>>

\* game_ready = true, or the state of play: it begins the game before one and changes
\* nothing, or begins it again, in the middle of one or after it.
FinishPlacement ==
  /\ setup = "open"
  /\ setup' = "none"
  /\ stage' \in {"playing"} \cup ({stage} \ {"idle"})
  /\ UNCHANGED <<player, reply, policy>>

\* One shot, and the end-of-game test the game task makes after an answer other than
\* "already guessed"; a setup may be going on.  Bound: none while boat_count is larger
\* than the array, for apply_guess would read behind it.
Guess(c) ==
  /\ stage = "playing"
  /\ player.boat_count <= MAX_SHIPS
  /\ player' = AfterGuess(player, c)
  /\ reply' = GuessResult(player, c)
  /\ stage' = IF reply' # "0" /\ all_ships_sunk(player') THEN "over" ELSE "playing"
  /\ UNCHANGED <<setup, policy>>

\* Game_Init: a setup that is going on, if callers let it, goes on.
Restart ==
  /\ policy # "any" => setup = "none"
  /\ player' = FreshPlayer
  /\ stage' = "idle"
  /\ UNCHANGED <<setup, reply, policy>>

Next == \/ BeginPlacement
        \/ CountShip
        \/ FinishPlacement
        \/ Restart
        \/ \E row, col \in Index, length \in Lengths, horizontal \in BOOLEAN :
              \/ PlaceShip(row, col, length, horizontal)
              \/ PlaceCounted(row, col, length, horizontal)
        \/ \E row \in RequestRows, col \in Index, length \in Lengths, horizontal \in BOOLEAN :
              RejectPlacement(row, col, length, horizontal)
        \/ \E c \in Coordinate : Guess(c)

Spec == Init /\ [][Next]_vars
-----------------------------------------------------------------------------
\* The live boats, those that are boats of the array.
Boats == LiveBoats(player) \cap BoatIndex

\* Every variable keeps its type.  boat_count stays in the array unless a setup begins in
\* mid-game: Game_Init sets it to MAX_SHIPS, and if a ship of that setup is waiting to
\* be counted it goes one beyond (src/http_server.c:231, src/battleship/game.c:25).
TypeOK ==
  /\ player \in [cells      : [Coordinate -> CellState],
                 boats      : [BoatIndex -> Boat],
                 boat_count : 0 .. MAX_SHIPS + 1]
  /\ policy # "any" => player.boat_count <= MAX_SHIPS
  /\ stage \in {"idle", "playing", "over"}
  /\ setup \in {"none", "open", "held"}
  /\ reply \in {"-", "M", "H", "S", "0"}
  /\ policy \in Policies

\* The live boats lie on the board, no two of them share a cell, and every cell
\* of theirs is marked as a ship, hit or not: what makes "the first boat that
\* contains the cell" in apply_guess the only one, wherever a setup begins.
FleetLayout ==
  \A b \in Boats :
    /\ coords(player.boats[b]) \subseteq Coordinate
    /\ \A c \in coords(player.boats[b]) : player.cells[c] \in {"SHIP", "HIT", "SUNK"}
    /\ \A d \in Boats \ {b} :
         coords(player.boats[b]) \cap coords(player.boats[d]) = {}

\* The counter that all_ships_sunk reads agrees with the board: hit_count is the number of
\* cells of the boat that are no longer CELL_SHIP.  In a setup begun in mid-game a ship may
\* be shot at before it is counted; then the counter stays behind the board for good, but
\* it never runs ahead of it.
HitCountExact ==
  \A b \in Boats :
    /\ player.boats[b].hit_count <= Cardinality(Struck(player, b))
    /\ policy # "any" => player.boats[b].hit_count = Cardinality(Struck(player, b))

\* A boat's cells turn to CELL_SUNK all together and exactly when hit_count reaches its
\* length, so the board the players see and all_ships_sunk tell the same story, wherever
\* a setup begins.
SunkTogether ==
  \A b \in Boats, c \in Coordinate :
    c \in coords(player.boats[b]) =>
      (player.cells[c] = "SUNK" <=> player.boats[b].hit_count = player.boats[b].length)

\* If setups begin on an empty board: but for a ship that waits to be counted, a cell shows
\* a ship, hit or not, only if a live boat covers it, so that no CELL_SHIP is left that no
\* shot can sink, also by a setup that is refused.
NoOrphanCell ==
  policy = "fresh" /\ setup # "held" =>
    \A c \in Coordinate : player.cells[c] \in {"SHIP", "HIT", "SUNK"} => Owners(player, c) # {}

\* If setups begin before the game: it is over when no ship cell of a live boat is left
\* unhit, and while it is being played (by a fleet of at least one boat) some is,
\* whatever a refused setup left on the board.
GameEndsExactly ==
  policy # "any" =>
    /\ stage = "over" =>
         \A c \in Coordinate : player.cells[c] = "SHIP" => Owners(player, c) = {}
    /\ stage = "playing" /\ player.boat_count > 0 =>
         \E c \in Coordinate : player.cells[c] = "SHIP" /\ Owners(player, c) # {}

\* src/battleship/game_logic.c:111 "return 0; // already guessed": a shot is
\* answered with 0 only if its cell had been fired at.
ZeroMeansGuessed ==
  [][\A c \in Coordinate : Guess(c) /\ reply' = "0" => player.cells[c] \in Fired]_vars

\* The sets of cells a ship can cover; on the board, those that fit.
Shapes == {Span(row, col, length, horizontal) :
             row \in Index, col \in Index, length \in Lengths, horizontal \in BOOLEAN}

S == INSTANCE Salvo WITH
       Cells  <- Coordinate,
       Shapes <- Shapes,
       ships  <- IF policy = "fresh"
                 THEN {coords(player.boats[b]) : b \in LiveBoats(player)} \ {{}} ELSE {},
       shots  <- IF policy = "fresh" THEN {c \in Coordinate : player.cells[c] \in Fired} ELSE {},
       answer <- IF policy = "fresh" THEN reply ELSE "-",
       phase  <- CASE policy # "fresh" \/ stage = "idle" -> "deploy"
                   [] policy = "fresh" /\ stage = "playing" -> "fire"
                   [] policy = "fresh" /\ stage = "over" -> "over"

\* If setups begin on an empty board, board, boats and counters together implement the
\* abstract fleet (what is left of it otherwise is a Salvo that never begins).
ImplementsSalvo == S!Spec
=============================================================================
