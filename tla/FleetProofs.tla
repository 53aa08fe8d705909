---------------------------- MODULE FleetProofs -----------------------------
(***************************************************************************)
(* Lemmas about the operators of Fleet, for every board size and number of *)
(* boats: what a placement and a shot make of a Player record.  The proofs *)
(* about the modules that keep such records rest on them.                  *)
(***************************************************************************)
EXTENDS Fleet, FiniteSetTheorems, WellFoundedInduction, TLAPS

USE FleetAssumption

\* The live boats lie on the board, apart from each other, on cells marked as ships.
Layout(p) ==
  \A b \in LiveBoats(p) :
    /\ coords(p.boats[b]) \subseteq Coordinate
    /\ \A c \in coords(p.boats[b]) : p.cells[c] \in {"SHIP", "HIT", "SUNK"}
    /\ \A d \in LiveBoats(p) \ {b} : coords(p.boats[b]) \cap coords(p.boats[d]) = {}

\* hit_count is the number of struck cells.
Counts(p) == \A b \in LiveBoats(p) : p.boats[b].hit_count = Cardinality(Struck(p, b))

\* A boat's cells are marked sunk together, exactly when all are struck.
Sinks(p) ==
  \A b \in LiveBoats(p), c \in Coordinate :
    c \in coords(p.boats[b]) =>
      (p.cells[c] = "SUNK" <=> p.boats[b].hit_count = p.boats[b].length)

\* Whether a cell has one owner, whether hit_count can be trusted and whether a boat
\* sinks as a whole depend on each other: only together do they survive a shot.
Sound(p) == p \in Player /\ Layout(p) /\ Counts(p) /\ Sinks(p)

\* No cell shows a ship that is not there.
Owned(p) == \A c \in Coordinate : p.cells[c] \in {"SHIP", "HIT", "SUNK"} => Owners(p, c) # {}

\* A boat has been placed in every live slot and none has been hit.
Unhurt(p) == \A b \in LiveBoats(p) : p.boats[b].hit_count = 0 /\ p.boats[b].length > 0
-----------------------------------------------------------------------------
\* A ship of a given length covers that many cells (the loop of place_ship,
\* src/battleship/game_logic.c:61-68, writes length distinct coordinates).
LEMMA SpanFacts ==
  ASSUME NEW row \in Int, NEW col \in Int, NEW length \in Nat, NEW horizontal \in BOOLEAN
  PROVE  /\ IsFiniteSet(Span(row, col, length, horizontal))
         /\ Cardinality(Span(row, col, length, horizontal)) = length
<1> DEFINE cell(i) == <<row + (IF horizontal THEN 0 ELSE i), col + (IF horizontal THEN i ELSE 0)>>
           f == [i \in 1 .. length |-> cell(i - 1)]
           T == Span(row, col, length, horizontal)
<1>1. \A i \in 0 .. length - 1 : cell(i) \in T
  BY DEF Span
<1>2. \A x \in T : \E i \in 0 .. length - 1 : x = cell(i)
  BY DEF Span
<1>3. \A i, j \in Int : cell(i) = cell(j) => i = j
  <2>1. CASE horizontal  BY <2>1
  <2>2. CASE ~horizontal  BY <2>2
  <2> QED BY <2>1, <2>2
<1> HIDE DEF cell, T
<1>4. f \in [1 .. length -> T]
  BY <1>1
<1>5. \A i, j \in 1 .. length : f[i] = f[j] => i = j
  BY <1>3
<1>6. \A x \in T : \E i \in 1 .. length : f[i] = x
  <2> TAKE x \in T
  <2>1. PICK i \in 0 .. length - 1 : x = cell(i)  BY <1>2
  <2>2. i + 1 \in 1 .. length /\ f[i + 1] = cell(i)  OBVIOUS
  <2> QED BY <2>1, <2>2
<1>7. f \in Bijection(1 .. length, T)
  BY <1>4, <1>5, <1>6 DEF Bijection, Injection, Surjection, IsInjective
<1>8. ExistsBijection(1 .. length, T)
  BY <1>7 DEF ExistsBijection
<1> QED
  BY <1>8, FS_CountingElements, FS_NatBijection DEF T

\* Every live boat is a member of Boat and covers as many cells as it is long.
LEMMA LiveBoatFacts ==
  ASSUME NEW p \in Player, NEW b \in LiveBoats(p)
  PROVE  /\ b \in BoatIndex
         /\ p.boats[b] \in Boat
         /\ IsFiniteSet(coords(p.boats[b]))
         /\ Cardinality(coords(p.boats[b])) = p.boats[b].length
<1>1. b \in BoatIndex /\ p.boats[b] \in Boat
  BY DEF LiveBoats, BoatIndex, Player
<1>2. /\ p.boats[b].row \in Int /\ p.boats[b].col \in Int
      /\ p.boats[b].length \in Nat /\ p.boats[b].horizontal \in BOOLEAN
  BY <1>1 DEF Boat, Index
<1> QED
  BY <1>1, <1>2, SpanFacts DEF coords

\* A boat covers its anchor.
LEMMA AnchorCovered ==
  ASSUME NEW boat \in Boat, boat.length > 0
  PROVE  <<boat.row, boat.col>> \in coords(boat)
<1>1. 0 \in 0 .. boat.length - 1 /\ boat.row \in Int /\ boat.col \in Int
  BY DEF Boat, Index
<1>2. <<boat.row, boat.col>> = <<boat.row + (IF boat.horizontal THEN 0 ELSE 0),
                                 boat.col + (IF boat.horizontal THEN 0 ELSE 0)>>
  BY <1>1
<1> QED
  BY <1>1, <1>2 DEF coords, Span

\* GuessResult is one of the four answers.
LEMMA GuessResultType ==
  ASSUME NEW p \in Player, NEW c \in Coordinate
  PROVE  GuessResult(p, c) \in {"M", "H", "S", "0"}
<1>1. p.cells[c] \in CellState
  BY DEF Player
<1> QED
  BY <1>1 DEF GuessResult, CellState, Fired

\* On a board without orphan cells only a cell that was fired at is answered with 0.
LEMMA ZeroOnlyFired ==
  ASSUME NEW p \in Player, Owned(p), NEW c \in Coordinate, GuessResult(p, c) = "0"
  PROVE  p.cells[c] \in Fired
<1>1. p.cells[c] \in CellState
  BY DEF Player
<1>2. p.cells[c] # "EMPTY"
  BY DEF GuessResult
<1>3. CASE p.cells[c] = "SHIP"
  <2>1. Owners(p, c) # {}
    BY <1>3 DEF Owned
  <2>2. GuessResult(p, c) \in {"S", "H"}
    BY <1>3, <2>1, Zenon DEF GuessResult, Fired
  <2> QED BY <2>2
<1> QED
  BY <1>1, <1>2, <1>3 DEF CellState, Fired
-----------------------------------------------------------------------------
(***************************************************************************)
(* Fresh and emptied records.                                              *)
(***************************************************************************)
\* A fresh player's boats cover no cell.
LEMMA FreshFacts ==
  /\ FreshPlayer \in Player
  /\ \A b \in BoatIndex : coords(FreshPlayer.boats[b]) = {} /\ FreshPlayer.boats[b] = ZeroBoat
  /\ LiveBoats(FreshPlayer) = BoatIndex
  /\ FreshPlayer.cells = EmptyCells
<1>1. ZeroBoat \in Boat
  BY DEF ZeroBoat, Boat, Index
<1>2. FreshPlayer \in Player
  BY <1>1 DEF FreshPlayer, Player, EmptyCells, CellState
<1>3. coords(ZeroBoat) = {}
  BY DEF coords, Span, ZeroBoat
<1> QED
  BY <1>2, <1>3 DEF FreshPlayer, LiveBoats, BoatIndex

LEMMA FreshSound == Sound(FreshPlayer) /\ Owned(FreshPlayer)
<1>1. Layout(FreshPlayer) /\ Sinks(FreshPlayer) /\ Owned(FreshPlayer)
  BY FreshFacts DEF Layout, Sinks, Owned, EmptyCells
<1>2. Counts(FreshPlayer)
  BY FreshFacts, FS_EmptySet DEF Counts, Struck, ZeroBoat
<1> QED
  BY <1>1, <1>2, FreshFacts DEF Sound

\* boat_count = 0 leaves no live boat.
LEMMA EmptiedSound ==
  ASSUME NEW p \in Player, NEW q, q = [p EXCEPT !.boat_count = 0]
  PROVE  /\ Sound(q) /\ LiveBoats(q) = {}
         /\ q.cells = p.cells /\ q.boats = p.boats /\ q.boat_count = 0
         /\ p.cells = EmptyCells => Owned(q)
<1>1. /\ q \in Player /\ LiveBoats(q) = {}
      /\ q.cells = p.cells /\ q.boats = p.boats /\ q.boat_count = 0
  BY DEF Player, LiveBoats
<1> QED
  BY <1>1 DEF Sound, Layout, Counts, Sinks, Owned, EmptyCells
-----------------------------------------------------------------------------
(***************************************************************************)
(* One ship put on the board and counted.                                  *)
(***************************************************************************)
Put(p, row, col, length, horizontal) ==
  [place_ship(p, row, col, length, horizontal) EXCEPT !.boat_count = @ + 1]

\* The cells that can_place_ship accepts lie on the board.
LEMMA OnBoard ==
  ASSUME NEW cells, NEW row \in Index, NEW col \in Index, NEW length \in 1 .. GRID_SIZE,
         NEW horizontal \in BOOLEAN, can_place_ship(cells, row, col, length, horizontal)
  PROVE  Span(row, col, length, horizontal) \subseteq Coordinate
<1>1. CASE horizontal  BY <1>1 DEF Span, Coordinate, Index, can_place_ship
<1>2. CASE ~horizontal  BY <1>2 DEF Span, Coordinate, Index, can_place_ship
<1> QED BY <1>1, <1>2

\* What one successful placement does to the player.
LEMMA PutFacts ==
  ASSUME NEW p \in Player, p.boat_count < MAX_SHIPS,
         NEW row \in Index, NEW col \in Index, NEW length \in 1 .. GRID_SIZE,
         NEW horizontal \in BOOLEAN, can_place_ship(p.cells, row, col, length, horizontal),
         NEW q, q = Put(p, row, col, length, horizontal)
  PROVE  /\ p.boat_count \in BoatIndex
         /\ Span(row, col, length, horizontal) \subseteq Coordinate
         /\ \A c \in Span(row, col, length, horizontal) : p.cells[c] = "EMPTY"
         /\ q \in Player
         /\ q.boat_count = p.boat_count + 1
         /\ \A c \in Coordinate : q.cells[c] = IF c \in Span(row, col, length, horizontal)
                                              THEN "SHIP" ELSE p.cells[c]
         /\ \A b \in BoatIndex \ {p.boat_count} : q.boats[b] = p.boats[b]
         /\ q.boats[p.boat_count] = [length |-> length, row |-> row, col |-> col,
                                     horizontal |-> horizontal, hit_count |-> 0]
<1> DEFINE new == p.boat_count
           s   == Span(row, col, length, horizontal)
           boat == [length |-> length, row |-> row, col |-> col,
                    horizontal |-> horizontal, hit_count |-> 0]
           cells == [c \in Coordinate |-> IF c \in s THEN "SHIP" ELSE p.cells[c]]
<1>1. new \in BoatIndex
  BY DEF Player, BoatIndex
<1>2. s \subseteq Coordinate
  BY OnBoard
<1>3. \A c \in s : p.cells[c] = "EMPTY"
  BY <1>2 DEF can_place_ship
<1>4. boat \in Boat
  BY DEF Boat
<1>5. q = [cells |-> cells, boats |-> [p.boats EXCEPT ![new] = boat], boat_count |-> new + 1]
  <2> HIDE DEF s, boat
  <2> QED BY DEF Player, Put, place_ship, boat, s
<1> HIDE DEF s, boat
<1>6. cells \in [Coordinate -> CellState]
  BY DEF Player, CellState
<1>7. new + 1 \in 0 .. MAX_SHIPS
  BY <1>1 DEF BoatIndex
<1>8. [p.boats EXCEPT ![new] = boat] \in [BoatIndex -> Boat]
  BY <1>4 DEF Player
<1> HIDE DEF cells, new
<1>9. q \in Player
  BY <1>5, <1>6, <1>7, <1>8 DEF Player
<1>10. \A c \in Coordinate : q.cells[c] = IF c \in s THEN "SHIP" ELSE p.cells[c]
  BY <1>5 DEF cells
<1>11. /\ \A b \in BoatIndex \ {new} : q.boats[b] = p.boats[b]
       /\ q.boats[new] = boat
  BY <1>1, <1>5 DEF Player
<1> QED
  BY <1>1, <1>2, <1>3, <1>5, <1>9, <1>10, <1>11 DEF new, s, boat

\* The same in parts.
LEMMA PutBoard ==
  ASSUME NEW p \in Player, p.boat_count < MAX_SHIPS,
         NEW row \in Index, NEW col \in Index, NEW length \in 1 .. GRID_SIZE,
         NEW horizontal \in BOOLEAN, can_place_ship(p.cells, row, col, length, horizontal),
         NEW q, q = Put(p, row, col, length, horizontal)
  PROVE  \A c \in Coordinate : q.cells[c] = IF c \in Span(row, col, length, horizontal)
                                           THEN "SHIP" ELSE p.cells[c]
BY DEF Put, place_ship, Player

LEMMA PutCount ==
  ASSUME NEW p \in Player, p.boat_count < MAX_SHIPS,
         NEW row \in Index, NEW col \in Index, NEW length \in 1 .. GRID_SIZE,
         NEW horizontal \in BOOLEAN, can_place_ship(p.cells, row, col, length, horizontal),
         NEW q, q = Put(p, row, col, length, horizontal)
  PROVE  p.boat_count \in BoatIndex /\ q.boat_count = p.boat_count + 1
BY DEF Put, place_ship, Player, BoatIndex

LEMMA PutBoats ==
  ASSUME NEW p \in Player, p.boat_count < MAX_SHIPS,
         NEW row \in Index, NEW col \in Index, NEW length \in 1 .. GRID_SIZE,
         NEW horizontal \in BOOLEAN, can_place_ship(p.cells, row, col, length, horizontal),
         NEW q, q = Put(p, row, col, length, horizontal)
  PROVE  /\ \A b \in BoatIndex \ {p.boat_count} : q.boats[b] = p.boats[b]
         /\ q.boats[p.boat_count] = [length |-> length, row |-> row, col |-> col,
                                     horizontal |-> horizontal, hit_count |-> 0]
BY PutFacts

\* A placement covers empty cells only, which no boat owns: the fleet stays sound, and
\* unhurt and without orphan cells if it was.
LEMMA PutSound ==
  ASSUME NEW p, Sound(p), p.boat_count < MAX_SHIPS,
         NEW row \in Index, NEW col \in Index, NEW length \in 1 .. GRID_SIZE,
         NEW horizontal \in BOOLEAN, can_place_ship(p.cells, row, col, length, horizontal),
         NEW q, q = Put(p, row, col, length, horizontal)
  PROVE  /\ Sound(q)
         /\ Owned(p) => Owned(q)
         /\ Unhurt(p) => Unhurt(q)
<1> DEFINE new == p.boat_count
           s   == Span(row, col, length, horizontal)
<1> USE DEF Sound
<1>1. /\ new \in BoatIndex
      /\ s \subseteq Coordinate
      /\ \A c \in s : p.cells[c] = "EMPTY"
      /\ q \in Player
      /\ q.boat_count = new + 1
      /\ \A c \in Coordinate : q.cells[c] = IF c \in s THEN "SHIP" ELSE p.cells[c]
      /\ \A b \in BoatIndex \ {new} : q.boats[b] = p.boats[b]
      /\ q.boats[new] = [length |-> length, row |-> row, col |-> col,
                         horizontal |-> horizontal, hit_count |-> 0]
  BY PutFacts
<1>2. coords(q.boats[new]) = s
  BY <1>1 DEF coords
<1> HIDE DEF s
<1>3. /\ LiveBoats(q) = LiveBoats(p) \cup {new}
      /\ new \notin LiveBoats(p)
      /\ LiveBoats(p) \subseteq BoatIndex
  BY <1>1 DEF LiveBoats, BoatIndex
<1>4. \A b \in LiveBoats(p) : q.boats[b] = p.boats[b]
  BY <1>1, <1>3
<1> HIDE DEF new
<1>5. \A b \in LiveBoats(p) : coords(p.boats[b]) \cap s = {}
  BY <1>1 DEF Layout
<1>6. \A b \in LiveBoats(p) : \A c \in coords(p.boats[b]) : q.cells[c] = p.cells[c]
  BY <1>1, <1>5 DEF Layout
<1>7. Layout(q)
  <2> SUFFICES ASSUME NEW b \in LiveBoats(q)
               PROVE  /\ coords(q.boats[b]) \subseteq Coordinate
                      /\ \A c \in coords(q.boats[b]) : q.cells[c] \in {"SHIP", "HIT", "SUNK"}
                      /\ \A d \in LiveBoats(q) \ {b} : coords(q.boats[b]) \cap coords(q.boats[d]) = {}
    BY DEF Layout
  <2>1. CASE b = new
    BY <2>1, <1>1, <1>2, <1>3, <1>4, <1>5
  <2>2. CASE b \in LiveBoats(p)
    BY <2>2, <1>2, <1>3, <1>4, <1>5, <1>6 DEF Layout
  <2> QED BY <2>1, <2>2, <1>3
<1>8. Counts(q)
  <2> SUFFICES ASSUME NEW b \in LiveBoats(q)
               PROVE  q.boats[b].hit_count = Cardinality(Struck(q, b))
    BY DEF Counts
  <2>1. CASE b = new
    <3>1. Struck(q, b) = {}
      BY <2>1, <1>1, <1>2 DEF Struck
    <3> QED BY <3>1, <2>1, <1>1, FS_EmptySet
  <2>2. CASE b \in LiveBoats(p)
    <3>1. Struck(q, b) = Struck(p, b)
      BY <2>2, <1>4, <1>6 DEF Struck
    <3> QED BY <3>1, <2>2, <1>4 DEF Counts
  <2> QED BY <2>1, <2>2, <1>3
<1>9. Sinks(q)
  <2> SUFFICES ASSUME NEW b \in LiveBoats(q), NEW c \in Coordinate, c \in coords(q.boats[b])
               PROVE  (q.cells[c] = "SUNK" <=> q.boats[b].hit_count = q.boats[b].length)
    BY DEF Sinks
  <2>1. CASE b = new
    <3>1. q.cells[c] = "SHIP" /\ q.boats[b].hit_count = 0
      BY <2>1, <1>1, <1>2
    <3>2. q.boats[b].length = length /\ length # 0
      BY <2>1, <1>1
    <3> QED BY <3>1, <3>2
  <2>2. CASE b \in LiveBoats(p)
    BY <2>2, <1>4, <1>6 DEF Sinks
  <2> QED BY <2>1, <2>2, <1>3
<1>10. ASSUME Owned(p)  PROVE Owned(q)
  <2> SUFFICES ASSUME NEW c \in Coordinate, q.cells[c] \in {"SHIP", "HIT", "SUNK"}
               PROVE  \E b \in LiveBoats(q) : c \in coords(q.boats[b])
    BY DEF Owned, Owners
  <2>1. CASE c \in s
    BY <2>1, <1>2, <1>3
  <2>2. CASE c \notin s
    BY <2>2, <1>1, <1>3, <1>4, <1>10 DEF Owned, Owners
  <2> QED BY <2>1, <2>2
<1>11. ASSUME Unhurt(p)  PROVE Unhurt(q)
  BY <1>1, <1>3, <1>4, <1>11 DEF Unhurt
<1> QED
  BY <1>1, <1>7, <1>8, <1>9, <1>10, <1>11
-----------------------------------------------------------------------------
(***************************************************************************)
(* One shot.                                                               *)
(***************************************************************************)
\* A shot at an empty cell, or at one that no live boat owns, touches no boat.
LEMMA MissFacts ==
  ASSUME NEW p \in Player, NEW c \in Coordinate, GuessResult(p, c) \in {"M", "0"},
         NEW q, q = AfterGuess(p, c)
  PROVE  /\ q \in Player
         /\ q.boats = p.boats
         /\ q.boat_count = p.boat_count
         /\ \A x \in Coordinate : q.cells[x] = IF x = c THEN Mark(p.cells[c]) ELSE p.cells[x]
<1>1. q.cells = [x \in Coordinate |-> IF x = c THEN Mark(p.cells[x]) ELSE p.cells[x]]
  BY DEF AfterGuess, Player
<1>2. q.boats = [d \in BoatIndex |-> p.boats[d]]
  BY DEF AfterGuess, Player
<1>3. q = [cells |-> q.cells, boats |-> q.boats, boat_count |-> p.boat_count]
  BY DEF AfterGuess, Player
<1>4. q.cells \in [Coordinate -> CellState]
  BY <1>1 DEF Player, CellState, Mark
<1>5. q.boats = p.boats
  BY <1>2 DEF Player
<1> QED
  BY <1>1, <1>3, <1>4, <1>5 DEF Player

\* While boats share no cell, the boat at which the loop of apply_guess stops is the
\* only one that owns the cell.
LEMMA OwnerOfUnique ==
  ASSUME NEW p \in Player, Layout(p), NEW c \in Coordinate, NEW b \in Owners(p, c)
  PROVE  OwnerOf(p, c) = b
<1> DEFINE first(x) == x \in Owners(p, c) /\ \A d \in Owners(p, c) : x <= d
<1>1. \A d \in Owners(p, c) : d = b
  BY DEF Owners, Layout
<1>2. b <= b
  BY DEF Owners, LiveBoats, Player
<1>3. first(b)
  BY <1>1, <1>2
<1>4. first(CHOOSE x : first(x))
  BY <1>3, Zenon
<1>5. OwnerOf(p, c) = CHOOSE x : first(x)
  BY DEF OwnerOf
<1> QED
  BY <1>1, <1>4, <1>5

\* A shot that hits raises the hit_count of one live boat that owns the cell, and
\* marks the cell or, when it was the boat's last, all of its cells.
LEMMA HitFacts ==
  ASSUME NEW p \in Player, Layout(p), NEW c \in Coordinate, GuessResult(p, c) \in {"H", "S"},
         NEW q, q = AfterGuess(p, c)
  PROVE  LET b == OwnerOf(p, c)
         IN  /\ b \in Owners(p, c)
             /\ p.cells[c] = "SHIP"
             /\ q \in Player
             /\ q.boat_count = p.boat_count
             /\ \A d \in BoatIndex \ {b} : q.boats[d] = p.boats[d]
             /\ q.boats[b] = Hit(p.boats[b])
             /\ (GuessResult(p, c) = "S" <=> q.boats[b].hit_count = p.boats[b].length)
             /\ \A x \in Coordinate :
                   q.cells[x] = IF GuessResult(p, c) = "S" /\ x \in coords(p.boats[b]) THEN "SUNK"
                                ELSE IF x = c THEN "HIT" ELSE p.cells[x]
<1> DEFINE b == OwnerOf(p, c)
           res == GuessResult(p, c)
<1>1. p.cells[c] = "SHIP" /\ Owners(p, c) # {}
  BY DEF GuessResult, Player, CellState, Fired
<1>2. b \in Owners(p, c)
  BY <1>1, OwnerOfUnique
<1>3. b \in BoatIndex /\ p.boats[b] \in Boat
  BY <1>2 DEF Owners, LiveBoats, BoatIndex, Player
<1>4. res = "S" <=> p.boats[b].hit_count + 1 = p.boats[b].length
  BY <1>1 DEF GuessResult, Fired
<1> HIDE DEF b, res
<1>5. q.cells = [x \in Coordinate |->
                   IF res = "S" /\ x \in coords(p.boats[b]) THEN "SUNK"
                   ELSE IF x = c THEN Mark(p.cells[x]) ELSE p.cells[x]]
  BY DEF AfterGuess, Player, b, res
<1>6. q.boats = [d \in BoatIndex |-> IF d = b THEN Hit(p.boats[d]) ELSE p.boats[d]]
  BY DEF AfterGuess, Player, b, res
<1>7. q = [cells |-> q.cells, boats |-> q.boats, boat_count |-> p.boat_count]
  BY DEF AfterGuess, Player
<1>8. q.cells \in [Coordinate -> CellState]
  BY <1>5 DEF Player, CellState, Mark
<1>9. Hit(p.boats[b]) \in Boat
  BY <1>3 DEF Boat, Hit
<1>10. q.boats \in [BoatIndex -> Boat]
  BY <1>6, <1>9 DEF Player
<1>11. q \in Player
  BY <1>7, <1>8, <1>10 DEF Player
<1>12. \A d \in BoatIndex \ {b} : q.boats[d] = p.boats[d]
  BY <1>6
<1>13. q.boats[b] = Hit(p.boats[b])
  BY <1>3, <1>6
<1>14. q.boats[b].hit_count = p.boats[b].hit_count + 1
  BY <1>3, <1>13 DEF Boat, Hit
<1>15. \A x \in Coordinate :
         q.cells[x] = IF res = "S" /\ x \in coords(p.boats[b]) THEN "SUNK"
                      ELSE IF x = c THEN "HIT" ELSE p.cells[x]
  BY <1>1, <1>5 DEF Mark
<1> QED
  BY <1>1, <1>2, <1>4, <1>7, <1>11, <1>12, <1>13, <1>14, <1>15 DEF b, res

\* A miss, and a shot at a cell no boat owns, leave every boat and its cells alone.
LEMMA MissSound ==
  ASSUME NEW p, Sound(p), NEW c \in Coordinate, GuessResult(p, c) \in {"M", "0"},
         NEW q, q = AfterGuess(p, c)
  PROVE  Sound(q)
<1> USE DEF Sound
<1>1. /\ q \in Player
      /\ q.boats = p.boats
      /\ LiveBoats(q) = LiveBoats(p)
      /\ \A x \in Coordinate : q.cells[x] = IF x = c THEN Mark(p.cells[c]) ELSE p.cells[x]
  BY MissFacts DEF LiveBoats
<1>2. \A b \in LiveBoats(p) : \A x \in coords(p.boats[b]) : q.cells[x] = p.cells[x]
  <2> SUFFICES ASSUME NEW b \in LiveBoats(p), c \in coords(p.boats[b])
               PROVE  q.cells[c] = p.cells[c]
    BY <1>1 DEF Layout
  <2>1. p.cells[c] \in {"SHIP", "HIT", "SUNK"} /\ Owners(p, c) # {}
    BY DEF Layout, Owners
  <2>2. p.cells[c] \in Fired
    BY <2>1 DEF GuessResult
  <2> QED BY <1>1, <2>1, <2>2 DEF Mark, Fired
<1>3. Layout(q)
  BY <1>1, <1>2 DEF Layout
<1>4. \A b \in LiveBoats(p) : Struck(q, b) = Struck(p, b)
  BY <1>1, <1>2 DEF Struck
<1>5. Counts(q)
  BY <1>1, <1>4 DEF Counts
<1>6. Sinks(q)
  BY <1>1, <1>2 DEF Sinks
<1> QED
  BY <1>1, <1>3, <1>5, <1>6

\* A hit strikes one new cell of the boat that owns it; when hit_count reaches the
\* length, the struck cells are all its cells, so marking them sunk marks no cell that
\* was not hit.
LEMMA HitSound ==
  ASSUME NEW p, Sound(p), NEW c \in Coordinate, GuessResult(p, c) \in {"H", "S"},
         NEW q, q = AfterGuess(p, c)
  PROVE  Sound(q)
<1> DEFINE o == OwnerOf(p, c)
           sinks == GuessResult(p, c) = "S"
<1> USE DEF Sound
<1>1. /\ o \in Owners(p, c)
      /\ p.cells[c] = "SHIP"
      /\ q \in Player
      /\ LiveBoats(q) = LiveBoats(p)
      /\ \A d \in BoatIndex \ {o} : q.boats[d] = p.boats[d]
      /\ q.boats[o] = Hit(p.boats[o])
      /\ (sinks <=> q.boats[o].hit_count = p.boats[o].length)
      /\ \A x \in Coordinate :
           q.cells[x] = IF sinks /\ x \in coords(p.boats[o]) THEN "SUNK"
                        ELSE IF x = c THEN "HIT" ELSE p.cells[x]
  BY HitFacts DEF LiveBoats
<1> HIDE DEF o, sinks
<1>2. /\ o \in LiveBoats(p)
      /\ c \in coords(p.boats[o])
      /\ p.boats[o] \in Boat
      /\ IsFiniteSet(coords(p.boats[o]))
      /\ Cardinality(coords(p.boats[o])) = p.boats[o].length
  BY <1>1, LiveBoatFacts DEF Owners
<1>3. /\ q.boats[o].hit_count = p.boats[o].hit_count + 1
      /\ q.boats[o].length = p.boats[o].length
      /\ coords(q.boats[o]) = coords(p.boats[o])
  BY <1>1, <1>2 DEF Hit, Boat, coords
<1>4. \A b \in LiveBoats(p) : b # o => q.boats[b] = p.boats[b]
  BY <1>1, LiveBoatFacts
<1>5. \A b \in LiveBoats(p) : coords(q.boats[b]) = coords(p.boats[b])
  BY <1>3, <1>4
<1>6. \A b \in LiveBoats(p) : b # o => \A x \in coords(p.boats[b]) : q.cells[x] = p.cells[x]
  BY <1>1, <1>2 DEF Layout
<1>7. coords(p.boats[o]) \subseteq Coordinate
  BY <1>2 DEF Layout
<1>8. /\ IsFiniteSet(Struck(p, o) \cup {c})
      /\ Cardinality(Struck(p, o) \cup {c}) = q.boats[o].hit_count
  <2>1. Struck(p, o) \subseteq coords(p.boats[o]) /\ c \notin Struck(p, o)
    BY <1>1 DEF Struck
  <2>2. IsFiniteSet(Struck(p, o))
    BY <1>2, <2>1, FS_Subset
  <2> QED BY <1>2, <1>3, <2>1, <2>2, FS_AddElement DEF Counts
<1>9. sinks => Struck(p, o) \cup {c} = coords(p.boats[o])
  <2>1. Struck(p, o) \cup {c} \in SUBSET coords(p.boats[o])
    BY <1>2 DEF Struck
  <2> QED BY <1>1, <1>2, <1>8, <2>1, FS_Subset
<1>10. Struck(q, o) = Struck(p, o) \cup {c}
  <2>1. CASE sinks
    BY <2>1, <1>1, <1>5, <1>2, <1>7, <1>9 DEF Struck
  <2>2. CASE ~sinks
    BY <2>2, <1>1, <1>5, <1>2, <1>7 DEF Struck
  <2> QED BY <2>1, <2>2
<1>11. Layout(q)
  <2> SUFFICES ASSUME NEW b \in LiveBoats(p)
               PROVE  /\ coords(p.boats[b]) \subseteq Coordinate
                      /\ \A x \in coords(p.boats[b]) : q.cells[x] \in {"SHIP", "HIT", "SUNK"}
                      /\ \A d \in LiveBoats(p) \ {b} : coords(p.boats[b]) \cap coords(p.boats[d]) = {}
    BY <1>1, <1>5 DEF Layout
  <2>1. \A x \in coords(p.boats[b]) : q.cells[x] \in {"SHIP", "HIT", "SUNK"}
    BY <1>1, <1>6, <1>7 DEF Layout
  <2> QED BY <2>1 DEF Layout
<1>12. Counts(q)
  <2> SUFFICES ASSUME NEW b \in LiveBoats(p)
               PROVE  q.boats[b].hit_count = Cardinality(Struck(q, b))
    BY <1>1 DEF Counts
  <2>1. CASE b = o
    BY <2>1, <1>8, <1>10
  <2>2. CASE b # o
    <3>1. Struck(q, b) = Struck(p, b)
      BY <2>2, <1>5, <1>6 DEF Struck
    <3> QED BY <3>1, <2>2, <1>4 DEF Counts
  <2> QED BY <2>1, <2>2
<1>13. Sinks(q)
  <2> SUFFICES ASSUME NEW b \in LiveBoats(p), NEW x \in Coordinate, x \in coords(p.boats[b])
               PROVE  (q.cells[x] = "SUNK" <=> q.boats[b].hit_count = q.boats[b].length)
    BY <1>1, <1>5 DEF Sinks
  <2>1. CASE b = o /\ sinks
    BY <2>1, <1>1, <1>3
  <2>2. CASE b = o /\ ~sinks
    <3>1. p.boats[o].hit_count # p.boats[o].length
      BY <1>1, <1>2, <1>7 DEF Sinks
    <3>2. p.cells[x] # "SUNK"
      BY <2>2, <3>1 DEF Sinks
    <3> QED BY <2>2, <3>2, <1>1, <1>3
  <2>3. CASE b # o
    BY <2>3, <1>4, <1>6 DEF Sinks
  <2> QED BY <2>1, <2>2, <2>3
<1> QED
  BY <1>1, <1>11, <1>12, <1>13

\* Every shot keeps the fleet sound, moves no boat and uncovers no orphan cell.
LEMMA GuessSound ==
  ASSUME NEW p, Sound(p), NEW c \in Coordinate, NEW q, q = AfterGuess(p, c)
  PROVE  /\ Sound(q)
         /\ LiveBoats(q) = LiveBoats(p)
         /\ \A b \in BoatIndex : q.boats[b] = p.boats[b] \/ q.boats[b] = Hit(p.boats[b])
         /\ \A b \in BoatIndex : coords(q.boats[b]) = coords(p.boats[b])
         /\ Owned(p) => Owned(q)
<1> USE DEF Sound
<1>1. GuessResult(p, c) \in {"M", "H", "S", "0"}
  BY GuessResultType
<1>2. Sound(q)
  BY <1>1, MissSound, HitSound
<1>3. CASE GuessResult(p, c) \in {"M", "0"}
  <2>1. /\ q.boats = p.boats /\ LiveBoats(q) = LiveBoats(p)
        /\ \A x \in Coordinate : q.cells[x] = IF x = c THEN Mark(p.cells[c]) ELSE p.cells[x]
    BY <1>3, MissFacts DEF LiveBoats
  <2>2. \A x \in Coordinate : Owners(q, x) = Owners(p, x)
    BY <2>1 DEF Owners
  <2> QED BY <1>2, <2>1, <2>2 DEF Owned, Mark
<1>4. CASE GuessResult(p, c) \in {"H", "S"}
  <2> DEFINE o == OwnerOf(p, c)
  <2>1. /\ o \in Owners(p, c)
        /\ LiveBoats(q) = LiveBoats(p)
        /\ \A d \in BoatIndex \ {o} : q.boats[d] = p.boats[d]
        /\ q.boats[o] = Hit(p.boats[o])
        /\ \A x \in Coordinate :
             q.cells[x] = IF GuessResult(p, c) = "S" /\ x \in coords(p.boats[o]) THEN "SUNK"
                          ELSE IF x = c THEN "HIT" ELSE p.cells[x]
    BY <1>4, HitFacts DEF LiveBoats
  <2> HIDE DEF o
  <2>2. o \in BoatIndex /\ p.boats[o] \in Boat
    BY <2>1, LiveBoatFacts DEF Owners
  <2>3. coords(q.boats[o]) = coords(p.boats[o])
    BY <2>1, <2>2 DEF Hit, Boat, coords
  <2>4. \A b \in BoatIndex : coords(q.boats[b]) = coords(p.boats[b])
    BY <2>1, <2>3
  <2>5. \A x \in Coordinate : Owners(q, x) = Owners(p, x)
    BY <2>1, <2>4, LiveBoatFacts DEF Owners
  <2>6. Owned(p) => Owned(q)
    BY <2>1, <2>5 DEF Owned, Owners
  <2>7. \A b \in BoatIndex : q.boats[b] = p.boats[b] \/ q.boats[b] = Hit(p.boats[b])
    BY <2>1
  <2> QED BY <1>2, <2>1, <2>4, <2>6, <2>7
<1> QED
  BY <1>1, <1>3, <1>4
-----------------------------------------------------------------------------
(***************************************************************************)
(* Counters against cells.                                                 *)
(***************************************************************************)
\* A boat is afloat exactly if one of its cells is still CELL_SHIP.
LEMMA AfloatShowsShip ==
  ASSUME NEW p, Sound(p), NEW b \in LiveBoats(p)
  PROVE  p.boats[b].hit_count < p.boats[b].length
           <=> \E c \in coords(p.boats[b]) : p.cells[c] = "SHIP"
<1> USE DEF Sound
<1>1. /\ IsFiniteSet(coords(p.boats[b]))
      /\ Cardinality(coords(p.boats[b])) = p.boats[b].length
      /\ p.boats[b].length \in Nat
      /\ p.boats[b].hit_count \in Nat
  BY LiveBoatFacts DEF Boat
<1>2. Struck(p, b) \in SUBSET coords(p.boats[b])
  BY DEF Struck
<1>3. /\ p.boats[b].hit_count <= p.boats[b].length
      /\ p.boats[b].hit_count = p.boats[b].length => Struck(p, b) = coords(p.boats[b])
  BY <1>1, <1>2, FS_Subset DEF Counts
<1>4. p.boats[b].hit_count = p.boats[b].length <=> Struck(p, b) = coords(p.boats[b])
  BY <1>1, <1>3 DEF Counts
<1> QED
  BY <1>1, <1>3, <1>4 DEF Struck

\* When all_ships_sunk answers true, only orphans show an unhit ship.
LEMMA SunkShowsOrphans ==
  ASSUME NEW p, Sound(p), all_ships_sunk(p), NEW c \in Coordinate, p.cells[c] = "SHIP"
  PROVE  c \in Orphans(p)
<1> SUFFICES ASSUME c \notin Orphans(p)  PROVE FALSE
  OBVIOUS
<1>1. PICK b \in LiveBoats(p) : c \in coords(p.boats[b])
  BY DEF Orphans, Owners
<1>2. p.boats[b].hit_count < p.boats[b].length
  BY <1>1, AfloatShowsShip
<1>3. p.boats[b].hit_count >= p.boats[b].length
  BY DEF all_ships_sunk
<1>4. p.boats[b].hit_count \in Nat /\ p.boats[b].length \in Nat
  BY LiveBoatFacts DEF Sound, Boat
<1> QED BY <1>2, <1>3, <1>4

LEMMA OwnedNoOrphans == ASSUME NEW p, Owned(p) PROVE Orphans(p) = {}
BY DEF Owned, Orphans

\* Without orphans, none does.
LEMMA SunkShowsNone ==
  ASSUME NEW p, Sound(p), Owned(p), all_ships_sunk(p), NEW c \in Coordinate
  PROVE  p.cells[c] # "SHIP"
BY SunkShowsOrphans, OwnedNoOrphans

\* The last cell of a boat is the one without which hit_count is its length.
LEMMA OneCellLeft ==
  ASSUME NEW p, Sound(p), NEW b \in LiveBoats(p), NEW c \in coords(p.boats[b]), p.cells[c] = "SHIP"
  PROVE  p.boats[b].hit_count + 1 = p.boats[b].length
           <=> \A x \in coords(p.boats[b]) : x = c \/ p.cells[x] # "SHIP"
<1> DEFINE struck == Struck(p, b) \cup {c}
<1>1. /\ IsFiniteSet(coords(p.boats[b]))
      /\ Cardinality(coords(p.boats[b])) = p.boats[b].length
  BY LiveBoatFacts DEF Sound
<1>2. Struck(p, b) \subseteq coords(p.boats[b]) /\ c \notin Struck(p, b)
  BY DEF Struck
<1>3. IsFiniteSet(Struck(p, b))
  BY <1>1, <1>2, FS_Subset
<1>4. IsFiniteSet(struck) /\ Cardinality(struck) = p.boats[b].hit_count + 1
  <2>1. Cardinality(Struck(p, b)) = p.boats[b].hit_count
    BY DEF Sound, Counts
  <2>2. IsFiniteSet(struck) /\ Cardinality(struck) = Cardinality(Struck(p, b)) + 1
    BY <1>2, <1>3, FS_AddElement
  <2> QED
    BY <2>1, <2>2
<1>5. struck \in SUBSET coords(p.boats[b])
  BY <1>2
<1>6. Cardinality(struck) = Cardinality(coords(p.boats[b])) <=> struck = coords(p.boats[b])
  <2> HIDE DEF struck
  <2> QED BY <1>1, <1>5, FS_Subset
<1>7. struck = coords(p.boats[b]) <=> \A x \in coords(p.boats[b]) : x = c \/ p.cells[x] # "SHIP"
  BY DEF Struck
<1> QED
  BY <1>1, <1>4, <1>6, <1>7

\* A shot strikes the cell it is fired at and no other: the cells of a ship that it sinks
\* had all been struck before.
LEMMA OneCellStruck ==
  ASSUME NEW p, Sound(p), NEW c \in Coordinate, NEW q, q = AfterGuess(p, c)
  PROVE  /\ {x \in Coordinate : q.cells[x] \in Fired} = {x \in Coordinate : p.cells[x] \in Fired} \cup {c}
         /\ \A x \in Coordinate : p.cells[x] = "EMPTY" /\ x # c => q.cells[x] = "EMPTY"
<1> USE DEF Sound
<1>1. GuessResult(p, c) \in {"M", "H", "S", "0"} /\ p.cells[c] \in CellState
  BY GuessResultType DEF Player
<1>2. CASE GuessResult(p, c) \in {"M", "0"}
  <2>1. \A x \in Coordinate : q.cells[x] = IF x = c THEN Mark(p.cells[c]) ELSE p.cells[x]
    BY <1>2, MissFacts
  <2>2. Mark(p.cells[c]) \in Fired
    BY <1>1, <1>2 DEF Mark, Fired, CellState
  <2> QED
    BY <2>1, <2>2
<1>3. CASE GuessResult(p, c) \in {"H", "S"}
  <2> DEFINE o == OwnerOf(p, c)
             sinks == GuessResult(p, c) = "S"
  <2>1. /\ o \in Owners(p, c)
        /\ p.cells[c] = "SHIP"
        /\ q.boats[o] = Hit(p.boats[o])
        /\ (sinks <=> q.boats[o].hit_count = p.boats[o].length)
        /\ \A x \in Coordinate :
             q.cells[x] = IF sinks /\ x \in coords(p.boats[o]) THEN "SUNK"
                          ELSE IF x = c THEN "HIT" ELSE p.cells[x]
    BY <1>3, HitFacts
  <2> HIDE DEF o, sinks
  <2>2. o \in LiveBoats(p) /\ c \in coords(p.boats[o]) /\ p.boats[o] \in Boat
    BY <2>1, LiveBoatFacts DEF Owners
  <2>3. q.boats[o].hit_count = p.boats[o].hit_count + 1
    BY <2>1, <2>2 DEF Hit, Boat
  <2>4. sinks => \A x \in coords(p.boats[o]) : x = c \/ p.cells[x] \in {"HIT", "SUNK"}
    <3>1. p.boats[o].hit_count + 1 = p.boats[o].length
            <=> \A x \in coords(p.boats[o]) : x = c \/ p.cells[x] # "SHIP"
      BY <2>1, <2>2, OneCellLeft
    <3>2. sinks => \A x \in coords(p.boats[o]) : x = c \/ p.cells[x] # "SHIP"
      BY <2>1, <2>3, <3>1
    <3> QED
      BY <2>2, <3>2 DEF Layout
  <2> QED
    BY <2>1, <2>2, <2>4 DEF Fired
<1> QED
  BY <1>1, <1>2, <1>3

\* A set of natural numbers has a least element: induction on a counterexample.
LEMMA Least ==
  ASSUME NEW T \in SUBSET Nat, T # {}
  PROVE  \E x \in T : \A y \in T : x <= y
<1> DEFINE R == {ss \in Nat \X Nat : ss[1] < ss[2]}
<1>1. IsWellFoundedOn(R, Nat)
  BY NatLessThanWellFounded DEF OpToRel
<1> HIDE DEF R
<1>2. PICK x \in T : \A y \in T : ~ (<<y, x>> \in R)
  BY <1>1, WFMin
<1>3. \A y \in T : ~ (y < x)
  BY <1>2 DEF R
<1> QED BY <1>3
-----------------------------------------------------------------------------
(***************************************************************************)
(* All slots of the array, counted or not.                                 *)
(***************************************************************************)
Crowded == [cells      : [Coordinate -> CellState],
            boats      : [BoatIndex -> Boat],
            boat_count : 0 .. MAX_SHIPS + 1]

\* Every slot of the array, counted or not, holds a boat on cells of its own that are
\* marked as ships, sunk together with its counter: no setup, shot or Game_Init undoes
\* that, in whatever order they come.
Kept(p, b) ==
  /\ coords(p.boats[b]) \subseteq Coordinate
  /\ p.boats[b].hit_count <= p.boats[b].length
  /\ \A c \in coords(p.boats[b]) :
       /\ p.cells[c] \in {"SHIP", "HIT", "SUNK"}
       /\ p.cells[c] = "SUNK" <=> p.boats[b].hit_count = p.boats[b].length

Apart(p, b, d) == coords(p.boats[b]) \cap coords(p.boats[d]) = {}

Loose(p) ==
  /\ p \in Crowded
  /\ \A b \in BoatIndex : Kept(p, b)
  /\ \A b, d \in BoatIndex : b # d => Apart(p, b, d)

LEMMA FreshLoose == Loose(FreshPlayer)
<1>1. /\ FreshPlayer \in Player
      /\ \A b \in BoatIndex : coords(FreshPlayer.boats[b]) = {} /\ FreshPlayer.boats[b] = ZeroBoat
  BY FreshFacts
<1>2. FreshPlayer \in Crowded
  BY <1>1 DEF Crowded, Player
<1>3. \A b \in BoatIndex : FreshPlayer.boats[b].hit_count = 0 /\ FreshPlayer.boats[b].length = 0
  BY <1>1 DEF ZeroBoat
<1> QED
  BY <1>1, <1>2, <1>3 DEF Loose, Kept, Apart

\* boat_count is no part of it.
LEMMA CountLoose ==
  ASSUME NEW p, Loose(p), NEW n \in 0 .. MAX_SHIPS + 1, NEW q, q = [p EXCEPT !.boat_count = n]
  PROVE  Loose(q)
<1>1. q \in Crowded /\ q.cells = p.cells /\ q.boats = p.boats
  BY DEF Loose, Crowded
<1> QED
  BY <1>1 DEF Loose, Kept, Apart

\* A ship goes to empty cells, which no slot's boat covers.
LEMMA PlaceLoose ==
  ASSUME NEW p, Loose(p), p.boat_count < MAX_SHIPS,
         NEW row \in Index, NEW col \in Index, NEW length \in 1 .. GRID_SIZE,
         NEW horizontal \in BOOLEAN, can_place_ship(p.cells, row, col, length, horizontal),
         NEW q, q = place_ship(p, row, col, length, horizontal)
  PROVE  Loose(q) /\ q.boat_count = p.boat_count
<1> DEFINE new == p.boat_count
           s   == Span(row, col, length, horizontal)
           r   == Put(p, row, col, length, horizontal)
<1>1. p \in Player /\ new \in BoatIndex
  BY DEF Loose, Crowded, Player, BoatIndex
<1>2. /\ s \subseteq Coordinate
      /\ \A c \in s : p.cells[c] = "EMPTY"
      /\ r \in Player
      /\ \A c \in Coordinate : r.cells[c] = IF c \in s THEN "SHIP" ELSE p.cells[c]
      /\ \A b \in BoatIndex \ {new} : r.boats[b] = p.boats[b]
      /\ r.boats[new] = [length |-> length, row |-> row, col |-> col,
                         horizontal |-> horizontal, hit_count |-> 0]
  BY <1>1, PutFacts
<1>3. q.cells = r.cells /\ q.boats = r.boats /\ q.boat_count = new /\ q \in Crowded
  <2>1. q = [cells |-> r.cells, boats |-> r.boats, boat_count |-> new]
    <3> HIDE DEF s
    <3> QED BY <1>1 DEF Put, place_ship, Player
  <2> QED BY <1>1, <1>2, <2>1 DEF Crowded, Player, BoatIndex
<1>4. coords(q.boats[new]) = s
  BY <1>2, <1>3 DEF coords
<1> HIDE DEF s, new, r
<1>5. \A b \in BoatIndex \ {new} : q.boats[b] = p.boats[b] /\ coords(p.boats[b]) \cap s = {}
  BY <1>2, <1>3 DEF Loose, Kept
<1>6. \A c \in Coordinate : q.cells[c] = IF c \in s THEN "SHIP" ELSE p.cells[c]
  BY <1>2, <1>3
<1>7. ASSUME NEW b \in BoatIndex  PROVE Kept(q, b)
  <2>1. CASE b = new
    BY <2>1, <1>2, <1>3, <1>4, <1>6 DEF Kept
  <2>2. CASE b # new
    BY <2>2, <1>5, <1>6 DEF Loose, Kept
  <2> QED BY <2>1, <2>2
<1>8. ASSUME NEW b \in BoatIndex, NEW d \in BoatIndex, b # d  PROVE Apart(q, b, d)
  BY <1>8, <1>4, <1>5 DEF Loose, Apart
<1> QED
  BY <1>3, <1>7, <1>8 DEF Loose, new

\* A shot that no counted boat is hit by changes no counter, one that hits raises one.
LEMMA GuessLoose ==
  ASSUME NEW p, Loose(p), p.boat_count <= MAX_SHIPS, NEW c \in Coordinate,
         NEW q, q = AfterGuess(p, c)
  PROVE  Loose(q) /\ q.boat_count = p.boat_count
<1>1. p \in Player /\ LiveBoats(p) \subseteq BoatIndex
  BY DEF Loose, Crowded, Player, LiveBoats, BoatIndex
<1>2. Layout(p)
  BY <1>1 DEF Layout, Loose, Kept, Apart
<1>3. CASE GuessResult(p, c) \in {"M", "0"}
  <2>1. /\ q \in Player /\ q.boats = p.boats /\ q.boat_count = p.boat_count
        /\ \A x \in Coordinate : q.cells[x] = IF x = c THEN Mark(p.cells[c]) ELSE p.cells[x]
    BY <1>1, <1>3, MissFacts
  <2>2. q \in Crowded
    BY <2>1 DEF Crowded, Player
  <2>3. ASSUME NEW b \in BoatIndex  PROVE Kept(q, b)
    BY <2>1 DEF Loose, Kept, Mark
  <2> QED BY <2>1, <2>2, <2>3 DEF Loose, Apart
<1>4. CASE GuessResult(p, c) \in {"H", "S"}
  <2> DEFINE o == OwnerOf(p, c)
  <2>1. /\ o \in Owners(p, c)
        /\ p.cells[c] = "SHIP"
        /\ q \in Player
        /\ q.boat_count = p.boat_count
        /\ \A d \in BoatIndex \ {o} : q.boats[d] = p.boats[d]
        /\ q.boats[o] = Hit(p.boats[o])
        /\ (GuessResult(p, c) = "S" <=> q.boats[o].hit_count = p.boats[o].length)
        /\ \A x \in Coordinate :
              q.cells[x] = IF GuessResult(p, c) = "S" /\ x \in coords(p.boats[o]) THEN "SUNK"
                           ELSE IF x = c THEN "HIT" ELSE p.cells[x]
    BY <1>1, <1>2, <1>4, HitFacts
  <2> HIDE DEF o
  <2>2. o \in BoatIndex /\ c \in coords(p.boats[o])
    BY <1>1, <2>1 DEF Owners
  <2>3. /\ p.boats[o] \in Boat
        /\ q.boats[o].length = p.boats[o].length
        /\ q.boats[o].hit_count = p.boats[o].hit_count + 1
        /\ coords(q.boats[o]) = coords(p.boats[o])
    BY <1>1, <2>1, <2>2 DEF Hit, Player, Boat, coords
  <2>4. p.boats[o].hit_count < p.boats[o].length
    BY <2>1, <2>2, <2>3 DEF Loose, Kept, Boat
  <2>5. Kept(q, o)
    BY <2>1, <2>2, <2>3, <2>4 DEF Loose, Kept, Boat
  <2>6. ASSUME NEW b \in BoatIndex, b # o  PROVE Kept(q, b) /\ coords(q.boats[b]) = coords(p.boats[b])
    <3>1. q.boats[b] = p.boats[b] /\ coords(p.boats[b]) \cap coords(p.boats[o]) = {}
      BY <2>1, <2>2, <2>6 DEF Loose, Apart
    <3>2. \A x \in coords(p.boats[b]) : x \in Coordinate /\ q.cells[x] = p.cells[x]
      BY <2>1, <2>2, <3>1 DEF Loose, Kept
    <3> QED BY <3>1, <3>2 DEF Loose, Kept
  <2>7. q \in Crowded
    BY <2>1 DEF Crowded, Player
  <2>8. \A b, d \in BoatIndex : b # d => Apart(q, b, d)
    BY <2>3, <2>6 DEF Loose, Apart
  <2> QED BY <2>1, <2>5, <2>6, <2>7, <2>8 DEF Loose
<1> QED
  BY <1>1, <1>3, <1>4, GuessResultType

\* Every shot at an orphan is answered with 0, and of other cells only at those that were
\* fired at before.
LEMMA OrphanZero ==
  ASSUME NEW p \in Player, NEW c \in Coordinate
  PROVE  /\ c \in Orphans(p) => GuessResult(p, c) = "0"
         /\ c \notin Orphans(p) /\ GuessResult(p, c) = "0" => p.cells[c] \in Fired
<1>1. p.cells[c] \in CellState
  BY DEF Player
<1>2. ASSUME c \in Orphans(p)  PROVE GuessResult(p, c) = "0"
  <2>1. p.cells[c] # "EMPTY" /\ Owners(p, c) = {}
    BY <1>2 DEF Orphans
  <2> QED BY <2>1 DEF GuessResult
<1>3. ASSUME c \notin Orphans(p), GuessResult(p, c) = "0", p.cells[c] \notin Fired  PROVE FALSE
  <2>1. p.cells[c] # "EMPTY"
    BY <1>3 DEF GuessResult
  <2>2. p.cells[c] = "SHIP"
    BY <1>1, <1>3, <2>1 DEF CellState, Fired
  <2>3. Owners(p, c) # {}
    BY <1>3, <2>2 DEF Orphans
  <2>4. GuessResult(p, c) \in {"S", "H"}
    BY <2>2, <2>3, Zenon DEF GuessResult, Fired
  <2> QED BY <1>3, <2>4
<1> QED
  BY <1>2, <1>3

\* No shot makes or removes an orphan.
LEMMA ShotOrphans ==
  ASSUME NEW p, Sound(p), NEW c \in Coordinate
  PROVE  Orphans(AfterGuess(p, c)) = Orphans(p)
<1> DEFINE q == AfterGuess(p, c)
           Marked == {"SHIP", "HIT", "SUNK"}
<1>1. p \in Player /\ Layout(p)
  BY DEF Sound
<1>2. /\ LiveBoats(q) = LiveBoats(p)
      /\ \A b \in BoatIndex : coords(q.boats[b]) = coords(p.boats[b])
  BY GuessSound
<1>3. \A x \in Coordinate : Owners(q, x) = Owners(p, x)
  BY <1>1, <1>2, LiveBoatFacts DEF Owners
<1>4. CASE GuessResult(p, c) \in {"M", "0"}
  <2>1. \A x \in Coordinate : q.cells[x] = IF x = c THEN Mark(p.cells[c]) ELSE p.cells[x]
    BY <1>1, <1>4, MissFacts
  <2>2. \A x \in Coordinate : q.cells[x] \in Marked <=> p.cells[x] \in Marked
    BY <2>1 DEF Mark
  <2> QED BY <1>3, <2>2 DEF Orphans
<1>5. CASE GuessResult(p, c) \in {"H", "S"}
  <2> DEFINE o == OwnerOf(p, c)
  <2>1. /\ o \in Owners(p, c) /\ p.cells[c] = "SHIP"
        /\ \A x \in Coordinate :
             q.cells[x] = IF GuessResult(p, c) = "S" /\ x \in coords(p.boats[o]) THEN "SUNK"
                          ELSE IF x = c THEN "HIT" ELSE p.cells[x]
    BY <1>1, <1>5, HitFacts
  <2> HIDE DEF o, q
  <2>2. \A x \in coords(p.boats[o]) : p.cells[x] \in Marked
    BY <1>1, <2>1 DEF Layout, Owners
  <2>3. \A x \in Coordinate : q.cells[x] \in Marked <=> p.cells[x] \in Marked
    BY <2>1, <2>2
  <2> QED BY <1>3, <2>3 DEF Orphans, q
<1> QED
  BY <1>1, <1>4, <1>5, GuessResultType
-----------------------------------------------------------------------------
(***************************************************************************)
(* The counter of a slot never runs ahead of the board.                    *)
(***************************************************************************)
Behind(p) == \A b \in BoatIndex : p.boats[b].hit_count <= Cardinality(Struck(p, b))

\* The struck cells of a slot's boat can be counted.
LEMMA StruckFinite ==
  ASSUME NEW p, Loose(p), NEW b \in BoatIndex
  PROVE  /\ p.boats[b] \in Boat
         /\ Struck(p, b) \subseteq coords(p.boats[b])
         /\ IsFiniteSet(Struck(p, b)) /\ Cardinality(Struck(p, b)) \in Nat
<1>1. p.boats[b] \in Boat
  BY DEF Loose, Crowded
<1>2. /\ p.boats[b].row \in Int /\ p.boats[b].col \in Int
      /\ p.boats[b].length \in Nat /\ p.boats[b].horizontal \in BOOLEAN
  BY <1>1 DEF Boat, Index
<1>3. IsFiniteSet(coords(p.boats[b]))
  BY <1>2, SpanFacts DEF coords
<1>4. Struck(p, b) \subseteq coords(p.boats[b])
  BY DEF Struck
<1> QED
  BY <1>1, <1>3, <1>4, FS_Subset, FS_CardinalityType

LEMMA FreshBehind == Behind(FreshPlayer)
<1>1. \A b \in BoatIndex : Struck(FreshPlayer, b) = {} /\ FreshPlayer.boats[b].hit_count = 0
  BY FreshFacts DEF Struck, ZeroBoat
<1> QED
  BY <1>1, FS_EmptySet DEF Behind

LEMMA CountBehind ==
  ASSUME NEW p, Loose(p), Behind(p), NEW n, NEW q, q = [p EXCEPT !.boat_count = n]
  PROVE  Behind(q)
<1>1. q.cells = p.cells /\ q.boats = p.boats
  BY DEF Loose, Crowded
<1> QED
  BY <1>1 DEF Behind, Struck

\* A boat keeps its cells and its counter, or is a new one without hits.
LEMMA PlaceBehind ==
  ASSUME NEW p, Loose(p), Behind(p), p.boat_count < MAX_SHIPS,
         NEW row \in Index, NEW col \in Index, NEW length \in 1 .. GRID_SIZE,
         NEW horizontal \in BOOLEAN, can_place_ship(p.cells, row, col, length, horizontal),
         NEW q, q = place_ship(p, row, col, length, horizontal)
  PROVE  Behind(q)
<1> DEFINE new == p.boat_count
           s   == Span(row, col, length, horizontal)
           r   == Put(p, row, col, length, horizontal)
<1>1. p \in Player /\ new \in BoatIndex
  BY DEF Loose, Crowded, Player, BoatIndex
<1>2. /\ s \subseteq Coordinate
      /\ \A c \in s : p.cells[c] = "EMPTY"
      /\ \A c \in Coordinate : r.cells[c] = IF c \in s THEN "SHIP" ELSE p.cells[c]
      /\ \A b \in BoatIndex \ {new} : r.boats[b] = p.boats[b]
      /\ r.boats[new] = [length |-> length, row |-> row, col |-> col,
                         horizontal |-> horizontal, hit_count |-> 0]
  BY <1>1, PutFacts
<1>3. q.cells = r.cells /\ q.boats = r.boats
  BY <1>1 DEF Put, place_ship, Player
<1>4. Loose(q)
  BY PlaceLoose
<1> HIDE DEF s, new, r
<1>5. ASSUME NEW b \in BoatIndex, b # new
      PROVE  q.boats[b].hit_count <= Cardinality(Struck(q, b))
  <2>1. q.boats[b] = p.boats[b] /\ coords(p.boats[b]) \subseteq Coordinate /\ coords(p.boats[b]) \cap s = {}
    BY <1>2, <1>3, <1>5 DEF Loose, Kept
  <2>2. Struck(q, b) = Struck(p, b)
    BY <1>2, <1>3, <2>1 DEF Struck
  <2> QED BY <2>1, <2>2 DEF Behind
<1>6. q.boats[new].hit_count = 0
  BY <1>2, <1>3
<1>7. Cardinality(Struck(q, new)) \in Nat
  BY <1>1, <1>4, StruckFinite DEF new
<1> QED
  BY <1>5, <1>6, <1>7 DEF Behind

\* A shot strikes cells; a counter rises by one when a cell of its boat is struck that
\* was not struck before.
LEMMA GuessBehind ==
  ASSUME NEW p, Loose(p), Behind(p), p.boat_count <= MAX_SHIPS, NEW c \in Coordinate,
         NEW q, q = AfterGuess(p, c)
  PROVE  Behind(q)
<1>1. p \in Player /\ LiveBoats(p) \subseteq BoatIndex
  BY DEF Loose, Crowded, Player, LiveBoats, BoatIndex
<1>2. Layout(p)
  BY <1>1 DEF Layout, Loose, Kept, Apart
<1>3. Loose(q)
  BY GuessLoose
<1>4. CASE GuessResult(p, c) \in {"M", "0"}
  <2>1. /\ q.boats = p.boats
        /\ \A x \in Coordinate : q.cells[x] = IF x = c THEN Mark(p.cells[c]) ELSE p.cells[x]
    BY <1>1, <1>4, MissFacts
  <2>2. ASSUME NEW b \in BoatIndex  PROVE q.boats[b].hit_count <= Cardinality(Struck(q, b))
    <3>1. Struck(p, b) \subseteq Struck(q, b)
      BY <2>1 DEF Struck, Mark, Loose, Kept
    <3>2. Cardinality(Struck(p, b)) <= Cardinality(Struck(q, b))
      BY <1>3, <3>1, StruckFinite, FS_Subset
    <3> QED BY <1>3, <2>1, <3>2, StruckFinite DEF Behind, Boat
  <2> QED BY <2>2 DEF Behind
<1>5. CASE GuessResult(p, c) \in {"H", "S"}
  <2> DEFINE o == OwnerOf(p, c)
  <2>1. /\ o \in Owners(p, c)
        /\ p.cells[c] = "SHIP"
        /\ \A d \in BoatIndex \ {o} : q.boats[d] = p.boats[d]
        /\ q.boats[o] = Hit(p.boats[o])
        /\ \A x \in Coordinate :
              q.cells[x] = IF GuessResult(p, c) = "S" /\ x \in coords(p.boats[o]) THEN "SUNK"
                           ELSE IF x = c THEN "HIT" ELSE p.cells[x]
    BY <1>1, <1>2, <1>5, HitFacts
  <2> HIDE DEF o
  <2>2. o \in BoatIndex /\ c \in coords(p.boats[o]) /\ p.boats[o] \in Boat
    BY <1>1, <2>1 DEF Owners, Player
  <2>3. /\ q.boats[o].hit_count = p.boats[o].hit_count + 1
        /\ coords(q.boats[o]) = coords(p.boats[o])
    BY <2>1, <2>2 DEF Hit, Boat, coords
  <2>4. ASSUME NEW b \in BoatIndex  PROVE coords(q.boats[b]) = coords(p.boats[b]) /\ Struck(p, b) \subseteq Struck(q, b)
    <3>1. coords(q.boats[b]) = coords(p.boats[b])
      BY <2>1, <2>3
    <3>2. \A x \in coords(p.boats[b]) : x \in Coordinate
      BY DEF Loose, Kept
    <3> QED BY <2>1, <3>1, <3>2 DEF Struck
  <2>5. q.boats[o].hit_count <= Cardinality(Struck(q, o))
    <3>1. Struck(p, o) \cup {c} \subseteq Struck(q, o) /\ c \notin Struck(p, o)
      BY <2>1, <2>2, <2>3, <2>4 DEF Struck
    <3>2. IsFiniteSet(Struck(p, o)) /\ Cardinality(Struck(p, o)) \in Nat
      BY <2>2, StruckFinite
    <3>3. Cardinality(Struck(p, o) \cup {c}) = Cardinality(Struck(p, o)) + 1
      BY <3>1, <3>2, FS_AddElement
    <3>4. IsFiniteSet(Struck(q, o)) /\ Cardinality(Struck(q, o)) \in Nat
      BY <1>3, <2>2, StruckFinite
    <3>5. Cardinality(Struck(p, o) \cup {c}) <= Cardinality(Struck(q, o))
      BY <3>1, <3>4, FS_Subset
    <3>6. p.boats[o].hit_count <= Cardinality(Struck(p, o)) /\ p.boats[o].hit_count \in Nat
      BY <2>2 DEF Behind, Boat
    <3> QED BY <2>3, <3>2, <3>3, <3>4, <3>5, <3>6
  <2>6. ASSUME NEW b \in BoatIndex, b # o  PROVE q.boats[b].hit_count <= Cardinality(Struck(q, b))
    <3>1. q.boats[b] = p.boats[b] /\ Struck(p, b) \subseteq Struck(q, b)
      BY <2>1, <2>4, <2>6
    <3>2. Cardinality(Struck(p, b)) <= Cardinality(Struck(q, b))
      BY <1>3, <3>1, StruckFinite, FS_Subset
    <3> QED BY <1>3, <3>1, <3>2, StruckFinite DEF Behind, Boat
  <2> QED BY <2>5, <2>6 DEF Behind
<1> QED
  BY <1>1, <1>4, <1>5, GuessResultType
=============================================================================
