------------------------------- MODULE Fleet --------------------------------
(***************************************************************************)
(* One player's board and boats: the data of include/game.h and the        *)
(* functions of src/battleship/game_logic.c as operators on Player records.*)
(*                                                                         *)
(* The array coords[] of a boat is written only by place_ship, from the    *)
(* anchor, the length and the orientation, so it is derived here           *)
(* (coords) instead of stored.  The zeroed boat of a fresh Game has length *)
(* 0 and therefore no coordinates: every loop over it is empty.            *)
(***************************************************************************)
EXTENDS Integers, FiniteSets

CONSTANTS GRID_SIZE,   \* width and height of a board
          MAX_SHIPS    \* length of the array Player.boats

ASSUME FleetAssumption == GRID_SIZE \in Nat \ {0} /\ MAX_SHIPS \in Nat \ {0}

Index      == 0 .. GRID_SIZE - 1
Coordinate == Index \X Index                      \* <<row, col>>
CellState  == {"EMPTY", "SHIP", "HIT", "MISS", "SUNK"}
BoatIndex  == 0 .. MAX_SHIPS - 1

\* A cell that has been fired at: apply_guess leaves one of these behind.
Fired == {"HIT", "MISS", "SUNK"}

Boat == [length : 0 .. GRID_SIZE, row : Index, col : Index,
         horizontal : BOOLEAN, hit_count : Nat]

Player == [cells      : [Coordinate -> CellState],
           boats      : [BoatIndex -> Boat],
           boat_count : 0 .. MAX_SHIPS]
-----------------------------------------------------------------------------
\* The cells from (row, col) onward that a ship of the given length covers.
Span(row, col, length, horizontal) ==
  {<<row + (IF horizontal THEN 0 ELSE i), col + (IF horizontal THEN i ELSE 0)>> :
     i \in 0 .. length - 1}

coords(boat) == Span(boat.row, boat.col, boat.length, boat.horizontal)

EmptyCells == [c \in Coordinate |-> "EMPTY"]

\* The boat slot that memset leaves behind.
ZeroBoat == [length |-> 0, row |-> 0, col |-> 0, horizontal |-> FALSE, hit_count |-> 0]

\* A player as Game_Init leaves it: no ship, yet boat_count already at its maximum.
FreshPlayer == [cells |-> EmptyCells,
                boats |-> [b \in BoatIndex |-> ZeroBoat],
                boat_count |-> MAX_SHIPS]

\* Mutant: only the anchor cell is tested.
can_place_shipAnchor(cells, row, col, length, horizontal) ==
  /\ (IF horizontal THEN col ELSE row) + length <= GRID_SIZE
  /\ <<row, col>> \in Coordinate => cells[<<row, col>>] = "EMPTY"

\* What a ship outside the board finds there is left to the callers.
can_place_ship(cells, row, col, length, horizontal) ==
  /\ (IF horizontal THEN col ELSE row) + length <= GRID_SIZE
  /\ \A c \in Span(row, col, length, horizontal) \cap Coordinate : cells[c] = "EMPTY"

\* Mutant: the slot keeps the hit_count of the boat it held before.
place_shipKeepHits(p, row, col, length, horizontal) ==
  [p EXCEPT
     !.cells = [c \in Coordinate |->
                  IF c \in Span(row, col, length, horizontal) THEN "SHIP" ELSE @[c]],
     !.boats[p.boat_count] =
        [length |-> length, row |-> row, col |-> col,
         horizontal |-> horizontal, hit_count |-> @.hit_count]]

\* The caller passes &boats[boat_count] and raises boat_count afterwards.
place_ship(p, row, col, length, horizontal) ==
  [p EXCEPT
     !.cells = [c \in Coordinate |->
                  IF c \in Span(row, col, length, horizontal) THEN "SHIP" ELSE @[c]],
     !.boats[p.boat_count] =
        [length |-> length, row |-> row, col |-> col,
         horizontal |-> horizontal, hit_count |-> 0]]
-----------------------------------------------------------------------------
\* The boats the loops over b < boat_count see.
LiveBoats(p) == 0 .. p.boat_count - 1

Owners(p, c) == {b \in LiveBoats(p) : c \in coords(p.boats[b])}

\* The first boat of the loop that contains c.
OwnerOf(p, c) == CHOOSE b \in Owners(p, c) : \A d \in Owners(p, c) : b <= d

\* Mutant: hit_count is compared before it is incremented.
GuessResultEarly(p, c) ==
  CASE p.cells[c] = "EMPTY" -> "M"
    [] p.cells[c] # "EMPTY" /\ (p.cells[c] \in Fired \/ Owners(p, c) = {}) -> "0"
    [] OTHER -> LET boat == p.boats[OwnerOf(p, c)]
                IN  IF boat.hit_count = boat.length THEN "S" ELSE "H"

\* What apply_guess returns; "0" is its "already guessed".
GuessResult(p, c) ==
  CASE p.cells[c] = "EMPTY" -> "M"
    [] p.cells[c] # "EMPTY" /\ (p.cells[c] \in Fired \/ Owners(p, c) = {}) -> "0"
    [] OTHER -> LET boat == p.boats[OwnerOf(p, c)]
                IN  IF boat.hit_count + 1 = boat.length THEN "S" ELSE "H"

Hit(boat) == [boat EXCEPT !.hit_count = @ + 1]

Mark(cell) == CASE cell = "EMPTY" -> "MISS" [] cell = "SHIP" -> "HIT" [] OTHER -> cell

\* Mutant: the last hit marks its own cell only.
AfterGuessOneCell(p, c) ==
  LET res == GuessResult(p, c)
      b   == OwnerOf(p, c)
  IN  [p EXCEPT
         !.cells[c] = IF res = "S" THEN "SUNK" ELSE Mark(@),
         !.boats = [d \in BoatIndex |->
                      IF res \in {"H", "S"} /\ d = b
                      THEN Hit(@[d]) ELSE @[d]]]

\* The player after apply_guess: c is marked first, whether or not a boat owns
\* it, and the last hit on a boat marks every cell of it.
AfterGuess(p, c) ==
  LET res == GuessResult(p, c)
      b   == OwnerOf(p, c)
  IN  [p EXCEPT
         !.cells = [x \in Coordinate |->
                      IF res = "S" /\ x \in coords(p.boats[b]) THEN "SUNK"
                      ELSE IF x = c THEN Mark(@[x]) ELSE @[x]],
         !.boats = [d \in BoatIndex |->
                      IF res \in {"H", "S"} /\ d = b
                      THEN Hit(@[d]) ELSE @[d]]]

\* Mutant: the loop misses the last boat.
all_ships_sunkButLast(p) ==
  \A b \in LiveBoats(p) \ {p.boat_count - 1} : p.boats[b].hit_count >= p.boats[b].length

all_ships_sunk(p) == \A b \in LiveBoats(p) : p.boats[b].hit_count >= p.boats[b].length

\* Cells marked as a ship, hit or not, that no live boat covers: no shot there is counted.
Orphans(p) == {c \in Coordinate : p.cells[c] \in {"SHIP", "HIT", "SUNK"} /\ Owners(p, c) = {}}

\* The cells of a boat that have been fired at.
Struck(p, b) == {c \in coords(p.boats[b]) : p.cells[c] # "SHIP"}
=============================================================================
