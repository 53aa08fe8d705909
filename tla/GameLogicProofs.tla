-------------------------- MODULE GameLogicProofs ---------------------------
(***************************************************************************)
(* Proofs about GameLogic, for every board size, number of boats and set   *)
(* of ship lengths, and wherever setups begin unless a theorem says so.    *)
(***************************************************************************)
EXTENDS GameLogic, FleetProofs

USE FleetAssumption, GameLogicAssumption

(***************************************************************************)
(* What holds besides when setups begin before the game.                   *)
(***************************************************************************)
\* The control variables; the array is overrun only by setups in mid-game.
Control ==
  /\ stage \in {"idle", "playing", "over"}
  /\ setup \in {"none", "open", "held"}
  /\ reply \in {"-", "M", "H", "S", "0"}
  /\ policy \in Policies

\* The fleet with the ship that waits to be counted.
Human == IF setup = "held" THEN [player EXCEPT !.boat_count = @ + 1] ELSE player

\* A setup before the game, when nothing is shot at.
Orderly == Sound(Human) /\ player \in Player /\ (setup # "none" => stage = "idle")

LEMMA PlacedIsPut ==
  ASSUME NEW row \in Index, NEW col \in Index, NEW length \in Lengths, NEW horizontal \in BOOLEAN,
         Orderly, Control, PlaceShip(row, col, length, horizontal) \/ PlaceCounted(row, col, length, horizontal)
  PROVE  /\ Human = player /\ Human' = Put(player, row, col, length, horizontal)
         /\ Sound(Human') /\ player' \in Player
         /\ Owned(Human) => Owned(Human')
         /\ Unhurt(Human) => Unhurt(Human')
<1>1. /\ player.boat_count < MAX_SHIPS /\ Human = player
      /\ can_place_ship(player.cells, row, col, length, horizontal)
      /\ length \in 1 .. GRID_SIZE
  BY DEF PlaceShip, PlaceCounted, Human
<1>2. Human' = Put(player, row, col, length, horizontal)
  BY DEF PlaceShip, PlaceCounted, Human, Put
<1>5. Sound(player)
  BY <1>1 DEF Orderly
<1>6. /\ Sound(Human')
      /\ Owned(player) => Owned(Human')
      /\ Unhurt(player) => Unhurt(Human')
  BY <1>1, <1>2, <1>5, PutSound
<1>3. Human' \in Player
  BY <1>6 DEF Sound
<1>4. player' \in Player
  <2>1. CASE PlaceShip(row, col, length, horizontal)
    <3> DEFINE r == Put(player, row, col, length, horizontal)
    <3>1. player' = [cells |-> r.cells, boats |-> r.boats, boat_count |-> player.boat_count]
      BY <2>1 DEF PlaceShip, Put, place_ship, Orderly, Player
    <3> QED BY <1>2, <1>3, <3>1 DEF Player, Orderly
  <2>2. CASE PlaceCounted(row, col, length, horizontal)
    BY <2>2, <1>2, <1>3 DEF PlaceCounted, Put
  <2> QED BY <2>1, <2>2
<1> QED
  BY <1>1, <1>2, <1>4, <1>6

-----------------------------------------------------------------------------
(***************************************************************************)
(* The inductive invariant and what follows from it.                       *)
(***************************************************************************)
\* A ship waits to be counted only while there is at most one boat too many to come.
Awaited == setup = "held" => player.boat_count <= MAX_SHIPS

LEMMA LooseStep ==
  ASSUME Loose(player), Control, Awaited, [Next]_vars
  PROVE  Loose(player') /\ Control' /\ Awaited'
<1> USE DEF Awaited
<1>1. player \in Crowded
  BY DEF Loose
<1>2. CASE BeginPlacement
  BY <1>2, CountLoose DEF BeginPlacement, Control
<1>3. CASE CountShip
  <2>1. player.boat_count + 1 \in 0 .. MAX_SHIPS + 1
    BY <1>1, <1>3 DEF CountShip, Crowded
  <2>2. player' = [player EXCEPT !.boat_count = player.boat_count + 1]
    BY <1>3 DEF CountShip
  <2> QED BY <1>3, <2>1, <2>2, CountLoose DEF CountShip, Control
<1>4. CASE FinishPlacement
  BY <1>4 DEF FinishPlacement, Control
<1>5. CASE Restart
  BY <1>5, FreshLoose DEF Restart, Control, FreshPlayer
<1>6. ASSUME NEW row \in Index, NEW col \in Index, NEW length \in Lengths,
             NEW horizontal \in BOOLEAN, PlaceShip(row, col, length, horizontal)
      PROVE  Loose(player') /\ Control' /\ Awaited'
  BY <1>1, <1>6, PlaceLoose DEF PlaceShip, Control, Crowded
<1>7. ASSUME NEW row \in Index, NEW col \in Index, NEW length \in Lengths,
             NEW horizontal \in BOOLEAN, PlaceCounted(row, col, length, horizontal)
      PROVE  Loose(player') /\ Control' /\ Awaited'
  <2> DEFINE q == place_ship(player, row, col, length, horizontal)
  <2>1. player.boat_count < MAX_SHIPS /\ Loose(q) /\ q.boat_count = player.boat_count
    BY <1>7, PlaceLoose DEF PlaceCounted
  <2>2. player' = [q EXCEPT !.boat_count = q.boat_count + 1]
    BY <1>7 DEF PlaceCounted
  <2> HIDE DEF q
  <2>3. q.boat_count + 1 \in 0 .. MAX_SHIPS + 1
    BY <1>1, <2>1 DEF Crowded
  <2> QED BY <1>7, <2>1, <2>2, <2>3, CountLoose DEF PlaceCounted, Control
<1>8. ASSUME NEW row \in RequestRows, NEW col \in Index, NEW length \in Lengths,
             NEW horizontal \in BOOLEAN, RejectPlacement(row, col, length, horizontal)
      PROVE  Loose(player') /\ Control' /\ Awaited'
  BY <1>8 DEF RejectPlacement, Control
<1>9. ASSUME NEW c \in Coordinate, Guess(c)
      PROVE  Loose(player') /\ Control' /\ Awaited'
  <2>1. GuessResult(player, c) \in {"M", "H", "S", "0"}
    BY <1>1, <1>9, GuessResultType DEF Guess, Crowded, Player
  <2> QED BY <1>9, <2>1, GuessLoose DEF Guess, Control
<1>10. CASE UNCHANGED vars
  BY <1>10 DEF vars, Control
<1> QED
  BY <1>2, <1>3, <1>4, <1>5, <1>6, <1>7, <1>8, <1>9, <1>10 DEF Next

LEMMA BehindStep ==
  ASSUME Loose(player), Behind(player), [Next]_vars
  PROVE  Behind(player')
<1>1. CASE BeginPlacement
  BY <1>1, CountBehind DEF BeginPlacement
<1>2. CASE CountShip
  <2>1. player' = [player EXCEPT !.boat_count = player.boat_count + 1]
    BY <1>2 DEF CountShip
  <2> QED BY <2>1, CountBehind
<1>3. CASE Restart
  BY <1>3, FreshBehind DEF Restart
<1>4. ASSUME NEW row \in Index, NEW col \in Index, NEW length \in Lengths,
             NEW horizontal \in BOOLEAN, PlaceShip(row, col, length, horizontal)
      PROVE  Behind(player')
  BY <1>4, PlaceBehind DEF PlaceShip
<1>5. ASSUME NEW row \in Index, NEW col \in Index, NEW length \in Lengths,
             NEW horizontal \in BOOLEAN, PlaceCounted(row, col, length, horizontal)
      PROVE  Behind(player')
  <2> DEFINE q == place_ship(player, row, col, length, horizontal)
  <2>1. Loose(q) /\ Behind(q)
    BY <1>5, PlaceLoose, PlaceBehind DEF PlaceCounted
  <2>2. player' = [q EXCEPT !.boat_count = q.boat_count + 1]
    BY <1>5 DEF PlaceCounted
  <2> HIDE DEF q
  <2> QED BY <2>1, <2>2, CountBehind
<1>6. ASSUME NEW c \in Coordinate, Guess(c)
      PROVE  Behind(player')
  BY <1>6, GuessBehind DEF Guess
<1>7. CASE FinishPlacement \/ UNCHANGED vars
           \/ \E row \in RequestRows, col \in Index, length \in Lengths, horizontal \in BOOLEAN :
                 RejectPlacement(row, col, length, horizontal)
  BY <1>7 DEF FinishPlacement, RejectPlacement, vars
<1> QED
  BY <1>1, <1>2, <1>3, <1>4, <1>5, <1>6, <1>7 DEF Next

LEMMA OrderlyStep ==
  ASSUME policy # "any", Orderly, Control, [Next]_vars
  PROVE  Orderly'
<1>1. CASE BeginPlacement
  <2>1. Sound(player') /\ Human' = player' /\ stage' = "idle"
    BY <1>1, EmptiedSound DEF BeginPlacement, Orderly, Human
  <2> QED BY <2>1 DEF Orderly, Sound
<1>2. CASE CountShip
  <2>1. player' = Human /\ Human' = player'
    BY <1>2 DEF CountShip, Human
  <2> QED BY <1>2, <2>1 DEF CountShip, Orderly, Sound
<1>3. CASE FinishPlacement
  BY <1>3 DEF FinishPlacement, Orderly, Human
<1>4. CASE Restart
  <2>1. player' = FreshPlayer /\ setup' = "none"
    BY <1>4 DEF Restart
  <2>2. Human' = player'
    BY <2>1 DEF Human
  <2> QED BY <2>1, <2>2, FreshSound DEF Orderly, Sound
<1>5. ASSUME NEW row \in Index, NEW col \in Index, NEW length \in Lengths, NEW horizontal \in BOOLEAN,
             PlaceShip(row, col, length, horizontal) \/ PlaceCounted(row, col, length, horizontal)
      PROVE  Orderly'
  <2>1. Sound(Human') /\ player' \in Player
    BY <1>5, PlacedIsPut
  <2>2. stage' = "idle"
    BY <1>5 DEF PlaceShip, PlaceCounted, Orderly
  <2> QED BY <2>1, <2>2 DEF Orderly
<1>6. ASSUME NEW row \in RequestRows, NEW col \in Index, NEW length \in Lengths,
             NEW horizontal \in BOOLEAN, RejectPlacement(row, col, length, horizontal)
      PROVE  Orderly'
  BY <1>6 DEF RejectPlacement, Orderly, Human
<1>7. ASSUME NEW c \in Coordinate, Guess(c)
      PROVE  Orderly'
  <2>1. Human = player /\ Human' = player' /\ setup' = "none" /\ player' = AfterGuess(player, c)
    BY <1>7 DEF Guess, Orderly, Human, Control
  <2> QED BY <2>1, GuessSound DEF Orderly, Sound
<1>8. CASE UNCHANGED vars
  BY <1>8 DEF vars, Orderly, Human
<1> QED
  BY <1>1, <1>2, <1>3, <1>4, <1>5, <1>6, <1>7, <1>8 DEF Next

\* Its parts are one another's hypotheses.
FleetInv ==
  Control /\ Loose(player) /\ Behind(player) /\ Awaited /\ (policy # "any" => Orderly)

LEMMA PolicyKept == ASSUME [Next]_vars  PROVE policy' = policy
BY DEF Next, BeginPlacement, CountShip, FinishPlacement, Restart, PlaceShip, PlaceCounted,
       RejectPlacement, Guess, vars

\* FleetInv holds in every reachable state, wherever setups begin.
THEOREM FleetInvariant == Spec => []FleetInv
<1>1. Init => FleetInv
  BY FreshLoose, FreshBehind, FreshSound DEF Init, FleetInv, Control, Awaited, Orderly, Human, Sound
<1>2. FleetInv /\ [Next]_vars => FleetInv'
  BY LooseStep, BehindStep, OrderlyStep, PolicyKept DEF FleetInv
<1> QED
  BY <1>1, <1>2, PTL DEF Spec

\* No variable leaves its type; &boats[boat_count] stays inside the array unless setups
\* begin in mid-game, and then it is passed by one at most.
THEOREM TypeCorrect == Spec => []TypeOK
<1>1. FleetInv => TypeOK
  BY DEF FleetInv, TypeOK, Control, Loose, Crowded, Orderly, Player
<1> QED
  BY <1>1, FleetInvariant, PTL

\* Live boats stay on the board and apart, on cells marked as ships, wherever setups begin.
THEOREM LayoutCorrect == Spec => []FleetLayout
<1>1. FleetInv => FleetLayout
  BY DEF FleetInv, FleetLayout, Boats, Loose, Kept, Apart
<1> QED
  BY <1>1, FleetInvariant, PTL

\* A boat's cells are marked sunk together, exactly when hit_count reaches its length,
\* wherever setups begin.
THEOREM SunkCorrect == Spec => []SunkTogether
<1>1. FleetInv => SunkTogether
  BY DEF FleetInv, SunkTogether, Boats, Loose, Kept
<1> QED
  BY <1>1, FleetInvariant, PTL

\* hit_count never exceeds the number of struck cells of its boat, wherever setups begin,
\* and equals it if they begin before the game, also on a board that carries the remains
\* of a refused setup.
THEOREM HitCountCorrect == Spec => []HitCountExact
<1>1. FleetInv => HitCountExact
  <2>1. ASSUME Behind(player), NEW b \in Boats
        PROVE  player.boats[b].hit_count <= Cardinality(Struck(player, b))
    BY <2>1 DEF Behind, Boats
  <2>2. ASSUME Sound(Human), player \in Player, NEW b \in Boats
        PROVE  player.boats[b].hit_count = Cardinality(Struck(player, b))
    <3>1. Human.cells = player.cells /\ Human.boats = player.boats /\ b \in LiveBoats(Human)
      BY <2>2 DEF Human, Boats, LiveBoats, Player
    <3>2. Struck(Human, b) = Struck(player, b)
      BY <3>1 DEF Struck
    <3> QED BY <2>2, <3>1, <3>2 DEF Sound, Counts
  <2> QED BY <2>1, <2>2 DEF FleetInv, HitCountExact, Orderly
<1> QED
  BY <1>1, FleetInvariant, PTL
-----------------------------------------------------------------------------
(***************************************************************************)
(* The course of a game that setups do not disturb.                        *)
(***************************************************************************)
\* What the stage says about the boats: unscathed while they are placed, one afloat
\* while the game is played, none when it is over.
Afloat ==
  /\ setup # "none" => Unhurt(Human)
  /\ stage = "playing" /\ player.boat_count > 0 =>
       \E b \in LiveBoats(player) : player.boats[b].hit_count < player.boats[b].length
  /\ stage = "over" => all_ships_sunk(player)

\* No ship without a boat, if no setup begins on the ships of another.
MatchInv == Control /\ Orderly /\ Afloat /\ (policy = "fresh" => Owned(Human))

\* The stage after a shot is the one the boats call for.
LEMMA GuessMatch ==
  ASSUME MatchInv, NEW c \in Coordinate, Guess(c)
  PROVE  (Owned(player) => Owned(player')) /\ Afloat'
<1>1. player' = AfterGuess(player, c) /\ Sound(player) /\ setup' = "none"
  BY DEF Guess, MatchInv, Orderly, Human, Control
<1>2. Sound(player') /\ LiveBoats(player') = LiveBoats(player) /\ (Owned(player) => Owned(player'))
  BY <1>1, GuessSound
<1>3. CASE stage' = "over"
  BY <1>1, <1>2, <1>3 DEF Guess, Afloat
<1>4. CASE stage' = "playing" /\ GuessResult(player, c) = "0"
  <2>1. player'.boats = player.boats /\ player'.boat_count = player.boat_count
    BY <1>1, <1>4, MissFacts DEF Sound
  <2> QED BY <1>1, <1>2, <1>4, <2>1 DEF Guess, MatchInv, Afloat
<1>5. CASE stage' = "playing" /\ GuessResult(player, c) # "0"
  <2>1. \E b \in LiveBoats(player') : ~(player'.boats[b].hit_count >= player'.boats[b].length)
    BY <1>5 DEF Guess, all_ships_sunk
  <2>2. \A b \in LiveBoats(player') :
          player'.boats[b].hit_count \in Nat /\ player'.boats[b].length \in Nat
    BY <1>2, LiveBoatFacts DEF Sound, Boat
  <2> QED BY <1>1, <1>2, <1>5, <2>1, <2>2 DEF Afloat
<1> QED
  BY <1>2, <1>3, <1>4, <1>5 DEF Guess

\* MatchInv holds in every reachable state if setups begin before the game.
THEOREM MatchInvariant == Spec => [](policy # "any" => MatchInv)
<1>1. Init => Owned(Human) /\ Afloat
  BY FreshSound DEF Init, Afloat, Human
<1>2. FleetInv' /\ (policy # "any" => MatchInv) /\ [Next]_vars => (policy # "any" => MatchInv)'
  <2> SUFFICES ASSUME MatchInv, policy # "any", [Next]_vars, Control', Orderly'
               PROVE  Afloat' /\ (policy' = "fresh" => Owned(Human'))
    BY PolicyKept DEF FleetInv, MatchInv
  <2>1. CASE BeginPlacement
    <3>1. /\ LiveBoats(player') = {} /\ stage' = "idle" /\ setup' = "open"
          /\ policy' = "fresh" => Owned(player')
      BY <2>1, EmptiedSound DEF MatchInv, Orderly, BeginPlacement
    <3> QED BY <3>1 DEF Afloat, Unhurt, Human
  <2>2. CASE CountShip
    <3>1. player' = Human /\ Human' = Human /\ setup' = "open" /\ stage' = "idle"
      BY <2>2 DEF CountShip, Human, MatchInv, Orderly
    <3> QED BY <2>2, <3>1 DEF CountShip, MatchInv, Afloat
  <2>3. CASE FinishPlacement
    <3>1. /\ player' = player /\ Human = player /\ Human' = player /\ setup' = "none"
          /\ stage' = "playing" /\ Unhurt(player) /\ policy' = policy
      BY <2>3 DEF FinishPlacement, Human, MatchInv, Orderly, Afloat
    <3>2. player.boat_count > 0 => 0 \in LiveBoats(player)
      BY DEF LiveBoats, MatchInv, Orderly, Player
    <3> QED BY <3>1, <3>2 DEF MatchInv, Unhurt, Afloat
  <2>4. CASE Restart
    <3>1. player' = FreshPlayer /\ setup' = "none" /\ stage' = "idle"
      BY <2>4 DEF Restart
    <3> QED BY <3>1, FreshSound DEF Afloat, Human
  <2>5. ASSUME NEW row \in Index, NEW col \in Index, NEW length \in Lengths, NEW horizontal \in BOOLEAN,
               PlaceShip(row, col, length, horizontal) \/ PlaceCounted(row, col, length, horizontal)
        PROVE  Afloat' /\ (policy' = "fresh" => Owned(Human'))
    <3>1. /\ Owned(Human) => Owned(Human')
          /\ Unhurt(Human) => Unhurt(Human')
      BY <2>5, PlacedIsPut DEF MatchInv
    <3>2. setup # "none" /\ stage' = "idle" /\ policy' = policy
      BY <2>5 DEF PlaceShip, PlaceCounted, MatchInv, Orderly
    <3> QED BY <3>1, <3>2 DEF Afloat, MatchInv
  <2>6. ASSUME NEW row \in RequestRows, NEW col \in Index, NEW length \in Lengths,
               NEW horizontal \in BOOLEAN, RejectPlacement(row, col, length, horizontal)
        PROVE  Afloat' /\ (policy' = "fresh" => Owned(Human'))
    BY <2>6 DEF RejectPlacement, MatchInv, Orderly, Afloat, Human
  <2>7. ASSUME NEW c \in Coordinate, Guess(c)
        PROVE  Afloat' /\ (policy' = "fresh" => Owned(Human'))
    <3>1. Human = player /\ Human' = player' /\ policy' = policy
      BY <2>7 DEF Guess, MatchInv, Orderly, Human, Control
    <3> QED BY <2>7, <3>1, GuessMatch DEF MatchInv
  <2>8. CASE UNCHANGED vars
    BY <2>8 DEF vars, MatchInv, Afloat, Human
  <2> QED
    BY <2>1, <2>2, <2>3, <2>4, <2>5, <2>6, <2>7, <2>8 DEF Next
<1>3. Init => (policy # "any" => MatchInv)
  BY <1>1, FreshSound DEF Init, MatchInv, Control, Orderly, Human, Sound
<1> QED
  BY <1>2, <1>3, FleetInvariant, PTL DEF Spec

\* If setups begin on an empty board, every ship cell that is counted, or was refused,
\* belongs to a boat.
THEOREM NoOrphans == Spec => []NoOrphanCell
<1>1. (policy # "any" => MatchInv) => NoOrphanCell
  BY DEF MatchInv, Owned, Human, NoOrphanCell
<1> QED
  BY <1>1, MatchInvariant, PTL

\* If setups begin before the game, it ends when, and not before, the last ship cell of a
\* boat is hit.
THEOREM EndsExactly == Spec => []GameEndsExactly
<1>1. (policy # "any" => MatchInv) => GameEndsExactly
  <2> SUFFICES ASSUME MatchInv PROVE GameEndsExactly
    BY DEF GameEndsExactly
  <2> SUFFICES ASSUME Sound(player)  PROVE GameEndsExactly
    BY DEF MatchInv, Orderly, Human, GameEndsExactly
  <2>1. ASSUME stage = "over", NEW c \in Coordinate, player.cells[c] = "SHIP", Owners(player, c) # {}
        PROVE  FALSE
    <3>1. PICK b \in LiveBoats(player) : c \in coords(player.boats[b])
      BY <2>1 DEF Owners
    <3>2. player.boats[b].hit_count < player.boats[b].length
      BY <2>1, <3>1, AfloatShowsShip
    <3>3. player.boats[b].hit_count >= player.boats[b].length
      BY <2>1 DEF MatchInv, Afloat, all_ships_sunk
    <3>4. player.boats[b].hit_count \in Nat /\ player.boats[b].length \in Nat
      BY LiveBoatFacts DEF Sound, Boat
    <3> QED BY <3>2, <3>3, <3>4
  <2>2. ASSUME stage = "playing", player.boat_count > 0
        PROVE  \E c \in Coordinate : player.cells[c] = "SHIP" /\ Owners(player, c) # {}
    <3>1. PICK b \in LiveBoats(player) : player.boats[b].hit_count < player.boats[b].length
      BY <2>2 DEF MatchInv, Afloat
    <3>2. PICK c \in coords(player.boats[b]) : player.cells[c] = "SHIP"
      BY <3>1, AfloatShowsShip
    <3>3. c \in Coordinate /\ b \in Owners(player, c)
      BY <3>2 DEF Sound, Layout, Owners
    <3> QED BY <3>2, <3>3
  <2> QED BY <2>1, <2>2 DEF GameEndsExactly
<1> QED
  BY <1>1, MatchInvariant, PTL

\* If setups begin on an empty board, a shot is answered "already guessed" only if it was.
THEOREM ZeroGuessed == Spec /\ [](policy = "fresh") => ZeroMeansGuessed
<1>1. MatchInv /\ policy = "fresh" =>
        [\A c \in Coordinate : Guess(c) /\ reply' = "0" => player.cells[c] \in Fired]_vars
  <2> SUFFICES ASSUME MatchInv, policy = "fresh", NEW c \in Coordinate, Guess(c), reply' = "0"
               PROVE  player.cells[c] \in Fired
    OBVIOUS
  <2>1. player \in Player /\ Owned(player) /\ GuessResult(player, c) = "0"
    BY DEF MatchInv, Orderly, Human, Guess, Control
  <2> QED BY <2>1, ZeroOnlyFired
<1>2. policy = "fresh" => policy # "any"
  OBVIOUS
<1> QED
  BY <1>1, <1>2, MatchInvariant, PTL DEF ZeroMeansGuessed
-----------------------------------------------------------------------------
(***************************************************************************)
(* The refinement of Salvo, step by step.                                  *)
(***************************************************************************)
\* The mapping of a fleet that is set up on an empty board.
Ships(p) == {coords(p.boats[b]) : b \in LiveBoats(p)} \ {{}}
Shots(p) == {c \in Coordinate : p.cells[c] \in Fired}
Phase(s) == IF s = "idle" THEN "deploy" ELSE IF s = "playing" THEN "fire" ELSE "over"

\* S!Next with the mapping written out.
Deploys(s) ==
  /\ Phase(stage) = "deploy"
  /\ \A t \in Ships(player) : s \cap t = {}
  /\ Ships(player') = Ships(player) \cup {s}
  /\ Shots(player') = Shots(player) /\ reply' = reply /\ Phase(stage') = Phase(stage)

Opens ==
  /\ Phase(stage) = "deploy" /\ Phase(stage') = "fire"
  /\ Ships(player') = Ships(player) /\ Shots(player') = Shots(player) /\ reply' = reply

Verdict(p, c) ==
  CASE c \in Shots(p)                                                    -> "0"
    [] c \notin Shots(p) /\ c \notin UNION Ships(p)                      -> "M"
    [] \E s \in Ships(p) : c \in s \ Shots(p) /\ s \ Shots(p) = {c}      -> "S"
    [] OTHER                                                             -> "H"

Fires(c) ==
  /\ Phase(stage) = "fire"
  /\ reply' = Verdict(player, c)
  /\ Shots(player') = Shots(player) \cup {c}
  /\ Phase(stage') = IF c \notin Shots(player) /\ UNION Ships(player) \subseteq Shots(player')
                     THEN "over" ELSE "fire"
  /\ Ships(player') = Ships(player)

Clears == Ships(player') = {} /\ Shots(player') = {} /\ Phase(stage') = "deploy" /\ reply' = reply

Rests ==
  /\ Ships(player') = Ships(player) /\ Shots(player') = Shots(player)
  /\ reply' = reply /\ Phase(stage') = Phase(stage)

LEMMA NoShips ==
  ASSUME NEW p, Sound(p), p.cells = EmptyCells
  PROVE  Ships(p) = {} /\ Shots(p) = {}
BY DEF Sound, Layout, EmptyCells, Ships, Shots, Fired

\* A ship is deployed when it is counted, at once or after the delay.
LEMMA PutDeploys ==
  ASSUME NEW p, Sound(p), NEW row \in Index, NEW col \in Index, NEW length \in Lengths,
         NEW horizontal \in BOOLEAN, p.boat_count < MAX_SHIPS,
         can_place_ship(p.cells, row, col, length, horizontal),
         NEW q, q = Put(p, row, col, length, horizontal)
  PROVE  /\ \A t \in Ships(p) : Span(row, col, length, horizontal) \cap t = {}
         /\ Ships(q) = Ships(p) \cup {Span(row, col, length, horizontal)}
         /\ Shots(q) = Shots(p)
<1> DEFINE new == p.boat_count
           s   == Span(row, col, length, horizontal)
<1>1. p \in Player /\ length \in 1 .. GRID_SIZE
  BY DEF Sound
<1>2. /\ new \in BoatIndex
      /\ s \subseteq Coordinate
      /\ \A c \in s : p.cells[c] = "EMPTY"
      /\ q.boat_count = new + 1
      /\ \A c \in Coordinate : q.cells[c] = IF c \in s THEN "SHIP" ELSE p.cells[c]
      /\ \A b \in BoatIndex \ {new} : q.boats[b] = p.boats[b]
      /\ q.boats[new] = [length |-> length, row |-> row, col |-> col,
                         horizontal |-> horizontal, hit_count |-> 0]
  BY <1>1, PutFacts
<1>3. coords(q.boats[new]) = s
  BY <1>2 DEF coords
<1>4. <<row, col>> \in s
  <2>1. /\ q.boats[new] \in Boat /\ q.boats[new].length > 0
        /\ q.boats[new].row = row /\ q.boats[new].col = col
    BY <1>1, <1>2 DEF Boat
  <2> QED BY <1>3, <2>1, AnchorCovered
<1> HIDE DEF s
<1>6. /\ LiveBoats(q) = LiveBoats(p) \cup {new}
      /\ new \notin LiveBoats(p) /\ LiveBoats(p) \subseteq BoatIndex
      /\ \A b \in LiveBoats(p) : q.boats[b] = p.boats[b]
  <2>1. /\ LiveBoats(q) = LiveBoats(p) \cup {new}
        /\ new \notin LiveBoats(p) /\ LiveBoats(p) \subseteq BoatIndex
    BY <1>2 DEF LiveBoats, BoatIndex
  <2> QED BY <1>2, <2>1
<1> HIDE DEF new
<1>7. Ships(q) = Ships(p) \cup {s}
  BY <1>3, <1>4, <1>6 DEF Ships
<1>8. \A t \in Ships(p) : s \cap t = {}
  BY <1>2 DEF Ships, Sound, Layout
<1>9. Shots(q) = Shots(p)
  BY <1>2 DEF Shots, Fired
<1> QED
  BY <1>7, <1>8, <1>9 DEF s

\* The ship that waits in the slot boat_count, once it counts.
LEMMA CountDeploys ==
  ASSUME NEW p \in Player, NEW q, q = [p EXCEPT !.boat_count = @ + 1], Sound(q),
         \E row \in Index, col \in Index, length \in Lengths, horizontal \in BOOLEAN :
            coords(p.boats[p.boat_count]) = Span(row, col, length, horizontal),
         coords(p.boats[p.boat_count]) # {}
  PROVE  \E s \in Shapes : /\ \A t \in Ships(p) : s \cap t = {}
                           /\ Ships(q) = Ships(p) \cup {s}
                           /\ Shots(q) = Shots(p)
<1> DEFINE new == p.boat_count
           s   == coords(p.boats[new])
<1>1. q.cells = p.cells /\ q.boats = p.boats /\ q.boat_count = new + 1 /\ new \in Nat
  BY DEF Player
<1>2. /\ LiveBoats(q) = LiveBoats(p) \cup {new} /\ new \notin LiveBoats(p)
  BY <1>1 DEF LiveBoats
<1>3. s \in Shapes /\ s # {}
  BY DEF Shapes
<1> HIDE DEF new
<1>4. Ships(q) = Ships(p) \cup {s}
  BY <1>1, <1>2, <1>3 DEF Ships
<1>5. \A t \in Ships(p) : s \cap t = {}
  BY <1>1, <1>2 DEF Ships, Sound, Layout
<1>6. Shots(q) = Shots(p)
  BY <1>1 DEF Shots
<1> QED
  BY <1>3, <1>4, <1>5, <1>6

\* apply_guess answers as the ships and the earlier shots alone decide.
LEMMA AnswersAsVerdict ==
  ASSUME NEW p, Sound(p), Owned(p), NEW c \in Coordinate
  PROVE  GuessResult(p, c) = Verdict(p, c)
<1>1. p.cells[c] \in CellState /\ p \in Player
  BY DEF Sound, Player
<1>2. CASE p.cells[c] \in Fired
  <2>1. GuessResult(p, c) = "0"
    BY <1>2 DEF GuessResult, Fired
  <2>2. Verdict(p, c) = "0"
    BY <1>2 DEF Verdict, Shots
  <2> QED BY <2>1, <2>2
<1>3. CASE p.cells[c] = "EMPTY"
  <2>1. c \notin Shots(p) /\ c \notin UNION Ships(p)
    BY <1>3 DEF Shots, Fired, Ships, Sound, Layout
  <2>2. Verdict(p, c) = "M"
    BY <2>1, Zenon DEF Verdict
  <2> QED BY <1>3, <2>2 DEF GuessResult
<1>4. CASE p.cells[c] = "SHIP"
  <2> DEFINE o == OwnerOf(p, c)
  <2>1. Owners(p, c) # {}
    BY <1>4 DEF Owned
  <2>2. o \in Owners(p, c)
    BY <2>1, OwnerOfUnique DEF Sound
  <2>3. GuessResult(p, c) = IF p.boats[o].hit_count + 1 = p.boats[o].length THEN "S" ELSE "H"
    BY <1>4, <2>1 DEF GuessResult, Fired
  <2> HIDE DEF o
  <2>4. o \in LiveBoats(p) /\ c \in coords(p.boats[o]) /\ coords(p.boats[o]) \in Ships(p)
    BY <2>2 DEF Owners, Ships
  <2>5. \A s \in Ships(p) : c \in s => s = coords(p.boats[o])
    BY <2>4 DEF Ships, Sound, Layout
  <2>6. \A x \in coords(p.boats[o]) : x \in Shots(p) <=> p.cells[x] # "SHIP"
    BY <2>4 DEF Shots, Fired, Sound, Layout
  <2>7. p.boats[o].hit_count + 1 = p.boats[o].length
          <=> \A x \in coords(p.boats[o]) : x = c \/ p.cells[x] # "SHIP"
    BY <1>4, <2>4, OneCellLeft
  <2>8. c \notin Shots(p) /\ c \in UNION Ships(p)
    BY <1>4, <2>4 DEF Shots, Fired
  <2> DEFINE last == \E s \in Ships(p) : c \in s \ Shots(p) /\ s \ Shots(p) = {c}
  <2>9. last <=> p.boats[o].hit_count + 1 = p.boats[o].length
    BY <2>4, <2>5, <2>6, <2>7, <2>8
  <2>10. Verdict(p, c) = IF last THEN "S" ELSE "H"
    BY <2>8, Zenon DEF Verdict
  <2> QED BY <2>3, <2>9, <2>10
<1> QED
  BY <1>1, <1>2, <1>3, <1>4 DEF CellState, Fired

\* A shot is one of Salvo's.
LEMMA GuessFires ==
  ASSUME MatchInv, policy = "fresh", NEW c \in Coordinate, Guess(c)
  PROVE  Fires(c)
<1>1. player' = AfterGuess(player, c) /\ Sound(player) /\ Owned(player)
  BY DEF Guess, MatchInv, Orderly, Human, Control
<1>2. /\ Sound(player') /\ Owned(player')
      /\ LiveBoats(player') = LiveBoats(player)
      /\ \A b \in BoatIndex : coords(player'.boats[b]) = coords(player.boats[b])
  BY <1>1, GuessSound
<1>3. Ships(player') = Ships(player)
  BY <1>1, <1>2, LiveBoatFacts DEF Ships, Sound
<1>4. Shots(player') = Shots(player) \cup {c}
  BY <1>1, OneCellStruck DEF Shots
<1>5. reply' = Verdict(player, c)
  BY <1>1, AnswersAsVerdict DEF Guess
<1>6. reply' # "0" <=> c \notin Shots(player)
  <2>1. c \notin Shots(player) => reply' # "0"
    BY <1>1, ZeroOnlyFired DEF Guess, Shots, Sound
  <2>2. c \in Shots(player) => reply' = "0"
    BY DEF Guess, GuessResult, Shots, Fired
  <2> QED BY <2>1, <2>2
<1>7. all_ships_sunk(player') <=> UNION Ships(player) \subseteq Shots(player')
  <2>1. ASSUME all_ships_sunk(player'), NEW x \in UNION Ships(player)
        PROVE  x \in Shots(player')
    <3>1. PICK b \in LiveBoats(player') : x \in coords(player'.boats[b])
      BY <1>3 DEF Ships
    <3>2. x \in Coordinate /\ player'.cells[x] \in {"SHIP", "HIT", "SUNK"}
      BY <1>2, <3>1 DEF Sound, Layout
    <3>3. player'.cells[x] # "SHIP"
      BY <1>2, <2>1, <3>2, SunkShowsNone
    <3> QED BY <3>2, <3>3 DEF Shots, Fired
  <2>2. ASSUME UNION Ships(player) \subseteq Shots(player'), NEW b \in LiveBoats(player')
        PROVE  player'.boats[b].hit_count >= player'.boats[b].length
    <3>1. \A x \in coords(player'.boats[b]) : player'.cells[x] # "SHIP"
      BY <1>3, <2>2 DEF Ships, Shots, Fired
    <3>2. ~(player'.boats[b].hit_count < player'.boats[b].length)
      BY <1>2, <3>1, AfloatShowsShip
    <3>3. player'.boats[b].hit_count \in Nat /\ player'.boats[b].length \in Nat
      BY <1>2, LiveBoatFacts DEF Sound, Boat
    <3> QED BY <3>2, <3>3
  <2> QED BY <2>1, <2>2 DEF all_ships_sunk
<1> QED
  BY <1>3, <1>4, <1>5, <1>6, <1>7 DEF Guess, Fires, Phase

\* While a ship waits to be counted, the slot boat_count is its boat's.
Waiting ==
  setup = "held" =>
    /\ coords(player.boats[player.boat_count]) # {}
    /\ \E row \in Index, col \in Index, length \in Lengths, horizontal \in BOOLEAN :
         coords(player.boats[player.boat_count]) = Span(row, col, length, horizontal)

LEMMA WaitingStep ==
  ASSUME Orderly, Control, policy # "any", Waiting, [Next]_vars
  PROVE  Waiting'
<1>1. CASE BeginPlacement \/ CountShip \/ FinishPlacement \/ Restart
  BY <1>1 DEF BeginPlacement, CountShip, FinishPlacement, Restart, Waiting
<1>2. ASSUME NEW row \in Index, NEW col \in Index, NEW length \in Lengths,
             NEW horizontal \in BOOLEAN, PlaceShip(row, col, length, horizontal)
      PROVE  Waiting'
  <2> DEFINE new == player.boat_count
  <2>1. /\ player \in Player /\ new < MAX_SHIPS /\ length \in 1 .. GRID_SIZE
        /\ can_place_ship(player.cells, row, col, length, horizontal)
    BY <1>2 DEF PlaceShip, Orderly
  <2>2. /\ Human' = Put(player, row, col, length, horizontal)
    BY <1>2, PlacedIsPut
  <2>3. Human'.boats[new] = [length |-> length, row |-> row, col |-> col,
                             horizontal |-> horizontal, hit_count |-> 0]
    BY <2>1, <2>2, PutBoats
  <2>4. player'.boat_count = new /\ Human'.boats = player'.boats
    <3>1. player' = place_ship(player, row, col, length, horizontal) /\ setup' = "held"
      BY <1>2 DEF PlaceShip
    <3>2. Human' = [player' EXCEPT !.boat_count = @ + 1]
      BY <3>1 DEF Human
    <3>3. player'.boat_count = new
      BY <2>1, <3>1 DEF place_ship, Player
    <3>4. Human'.boats = player'.boats
      BY <2>1, <3>1, <3>2 DEF place_ship, Player
    <3> QED BY <3>3, <3>4
  <2>5. coords(player'.boats[player'.boat_count]) = Span(row, col, length, horizontal)
    BY <2>3, <2>4 DEF coords
  <2>6. coords(Human'.boats[new]) # {}
    <3>1. Human'.boats[new] \in Boat /\ Human'.boats[new].length > 0
      BY <2>1, <2>3 DEF Boat
    <3> QED BY <3>1, AnchorCovered
  <2> QED BY <2>4, <2>5, <2>6 DEF Waiting
<1>3. ASSUME NEW row \in Index, NEW col \in Index, NEW length \in Lengths,
             NEW horizontal \in BOOLEAN, PlaceCounted(row, col, length, horizontal)
      PROVE  Waiting'
  BY <1>3 DEF PlaceCounted, Waiting
<1>4. ASSUME NEW row \in RequestRows, NEW col \in Index, NEW length \in Lengths,
             NEW horizontal \in BOOLEAN, RejectPlacement(row, col, length, horizontal)
      PROVE  Waiting'
  BY <1>4 DEF RejectPlacement, Waiting
<1>5. ASSUME NEW c \in Coordinate, Guess(c)
      PROVE  Waiting'
  BY <1>5 DEF Guess, Waiting, Orderly
<1>6. CASE UNCHANGED vars
  BY <1>6 DEF vars, Waiting
<1> QED
  BY <1>1, <1>2, <1>3, <1>4, <1>5, <1>6 DEF Next

THEOREM WaitingInvariant == Spec => [](policy # "any" => Waiting)
<1>1. Init => Waiting
  BY DEF Init, Waiting
<1>2. FleetInv /\ (policy # "any" => Waiting) /\ [Next]_vars => (policy # "any" => Waiting)'
  BY WaitingStep, PolicyKept DEF FleetInv
<1> QED
  BY <1>1, <1>2, FleetInvariant, PTL DEF Spec

LEMMA SalvoStep ==
  ASSUME MatchInv, Waiting, policy = "fresh", Orderly', [Next]_vars
  PROVE  (\E s \in Shapes : Deploys(s)) \/ Opens \/ (\E c \in Coordinate : Fires(c)) \/ Clears \/ Rests
<1>1. CASE BeginPlacement
  <2>1. player.cells = EmptyCells /\ player'.cells = EmptyCells /\ Sound(player')
    BY <1>1, EmptiedSound DEF BeginPlacement, MatchInv, Orderly
  <2>2. stage' = "idle"
    BY <1>1 DEF BeginPlacement
  <2> QED BY <1>1, <2>1, <2>2, NoShips DEF BeginPlacement, Phase, Clears
<1>2. CASE FinishPlacement
  BY <1>2 DEF FinishPlacement, Phase, Opens, MatchInv, Orderly
<1>3. CASE Restart
  <2>1. player'.cells = EmptyCells /\ Sound(player')
    BY <1>3, FreshFacts, FreshSound DEF Restart
  <2> QED BY <1>3, <2>1, NoShips DEF Restart, Phase, Clears
<1>4. CASE CountShip
  <2>1. player' = [player EXCEPT !.boat_count = @ + 1] /\ setup = "held" /\ player \in Player
    BY <1>4 DEF CountShip, MatchInv, Orderly
  <2>2. Sound(player')
    BY <2>1 DEF MatchInv, Orderly, Human
  <2>3. PICK s \in Shapes : /\ \A t \in Ships(player) : s \cap t = {}
                            /\ Ships(player') = Ships(player) \cup {s}
                            /\ Shots(player') = Shots(player)
    BY <2>1, <2>2, CountDeploys DEF Waiting
  <2>4. stage = "idle" /\ stage' = "idle" /\ reply' = reply
    BY <1>4 DEF CountShip, MatchInv, Orderly
  <2> QED BY <2>3, <2>4 DEF Deploys, Phase
<1>5. ASSUME NEW row \in Index, NEW col \in Index, NEW length \in Lengths,
             NEW horizontal \in BOOLEAN, PlaceShip(row, col, length, horizontal)
      PROVE  Rests
  <2> DEFINE new == player.boat_count
  <2>1. /\ player \in Player /\ new < MAX_SHIPS /\ length \in 1 .. GRID_SIZE /\ Human = player
        /\ can_place_ship(player.cells, row, col, length, horizontal)
    BY <1>5 DEF PlaceShip, MatchInv, Orderly, Human
  <2>2. player' = place_ship(player, row, col, length, horizontal) /\ stage' = stage /\ reply' = reply
    BY <1>5 DEF PlaceShip
  <2>3. /\ player'.boat_count = new
        /\ \A b \in BoatIndex \ {new} : player'.boats[b] = player.boats[b]
    BY <2>1, <2>2 DEF place_ship, Player
  <2>4. LiveBoats(player') = LiveBoats(player) /\ LiveBoats(player) \subseteq BoatIndex \ {new}
    BY <2>1, <2>3 DEF LiveBoats, BoatIndex, Player
  <2>5. \A c \in Coordinate : player'.cells[c] \in Fired <=> player.cells[c] \in Fired
    <3>1. \A c \in Span(row, col, length, horizontal) : player.cells[c] = "EMPTY"
      BY <2>1, OnBoard DEF can_place_ship
    <3>2. \A c \in Coordinate : player'.cells[c] =
            IF c \in Span(row, col, length, horizontal) THEN "SHIP" ELSE player.cells[c]
      <4> HIDE DEF new
      <4> QED BY <2>1, <2>2 DEF place_ship, Player
    <3> QED BY <3>1, <3>2 DEF Fired
  <2> HIDE DEF new
  <2>6. Ships(player') = Ships(player)
    BY <2>3, <2>4 DEF Ships
  <2> QED BY <2>2, <2>5, <2>6 DEF Rests, Shots
<1>6. ASSUME NEW row \in Index, NEW col \in Index, NEW length \in Lengths,
             NEW horizontal \in BOOLEAN, PlaceCounted(row, col, length, horizontal)
      PROVE  \E s \in Shapes : Deploys(s)
  <2>1. /\ player.boat_count < MAX_SHIPS /\ Human = player /\ Sound(player)
        /\ can_place_ship(player.cells, row, col, length, horizontal)
        /\ player' = Put(player, row, col, length, horizontal)
        /\ stage = "idle" /\ stage' = "idle" /\ reply' = reply
    BY <1>6 DEF PlaceCounted, MatchInv, Orderly, Human, Put
  <2>2. Span(row, col, length, horizontal) \in Shapes
    BY DEF Shapes
  <2> QED BY <2>1, <2>2, PutDeploys DEF Deploys, Phase
<1>7. ASSUME NEW row \in RequestRows, NEW col \in Index, NEW length \in Lengths,
             NEW horizontal \in BOOLEAN, RejectPlacement(row, col, length, horizontal)
      PROVE  Rests
  BY <1>7 DEF RejectPlacement, Phase, Rests
<1>8. ASSUME NEW c \in Coordinate, Guess(c)
      PROVE  Fires(c)
  BY <1>8, GuessFires
<1>9. CASE UNCHANGED vars
  BY <1>9 DEF vars, Rests
<1> QED
  BY <1>1, <1>2, <1>3, <1>4, <1>5, <1>6, <1>7, <1>8, <1>9 DEF Next

\* Board, boats and counters implement the abstract fleet, which knows only sets of cells
\* and the shots fired, for every board size and set of lengths.
THEOREM SalvoRefined == Spec => ImplementsSalvo
<1>1. Init => S!Init
  <2>1. Init => Ships(player) = {} /\ Shots(player) = {}
    BY FreshSound, FreshFacts, NoShips DEF Init
  <2> QED BY <2>1 DEF Init, S!Init, Ships, Shots
<1>2. FleetInv' /\ (policy # "any" => MatchInv /\ Waiting) /\ [Next]_vars => [S!Next]_S!vars
  <2> SUFFICES ASSUME FleetInv', policy = "fresh" => MatchInv /\ Waiting, [Next]_vars
               PROVE  [S!Next]_S!vars
    OBVIOUS
  <2> DEFINE fresh == policy = "fresh"
  <2>1. fresh' = fresh /\ Control'
    BY PolicyKept DEF FleetInv
  <2>2. CASE ~fresh
    BY <2>1, <2>2 DEF S!vars
  <2>3. CASE fresh
    <3>1. MatchInv /\ Waiting /\ Orderly'
      BY <2>1, <2>3 DEF FleetInv
    <3> DEFINE before == CASE policy # "fresh" \/ stage = "idle" -> "deploy"
                           [] policy = "fresh" /\ stage = "playing" -> "fire"
                           [] policy = "fresh" /\ stage = "over" -> "over"
    <3>2. before = Phase(stage)
      BY <2>3, <3>1 DEF Phase, MatchInv, Control
    <3>3. before' = Phase(stage')
      BY <2>1, <2>3, <3>1 DEF Phase, Control
    <3> DEFINE ships == IF policy = "fresh" THEN {coords(player.boats[b]) : b \in LiveBoats(player)} \ {{}} ELSE {}
               shots == IF policy = "fresh" THEN {c \in Coordinate : player.cells[c] \in Fired} ELSE {}
               answer == IF policy = "fresh" THEN reply ELSE "-"
    <3>4. /\ ships = Ships(player) /\ ships' = Ships(player')
          /\ shots = Shots(player) /\ shots' = Shots(player')
          /\ answer = reply /\ answer' = reply'
      BY <2>1, <2>3 DEF Ships, Shots
    <3> HIDE DEF before, ships, shots, answer
    <3>5. CASE \E s \in Shapes : Deploys(s)
      <4>1. PICK s \in Shapes : Deploys(s)
        BY <3>5
      <4>2. S!Deploy(s)
        BY <4>1, <3>2, <3>3, <3>4 DEF Deploys, S!Deploy, before, ships, shots, answer
      <4> QED BY <4>2 DEF S!Next
    <3>6. CASE Opens
      BY <3>6, <3>2, <3>3, <3>4 DEF Opens, S!Next, S!Open, before, ships, shots, answer
    <3>7. CASE \E c \in Coordinate : Fires(c)
      <4>1. PICK c \in Coordinate : Fires(c)
        BY <3>7
      <4>2. S!Verdict(c) = Verdict(player, c)
        BY <3>4 DEF S!Verdict, Verdict, ships, shots
      <4>3. S!Fire(c)
        BY <4>1, <4>2, <3>2, <3>3, <3>4 DEF Fires, S!Fire, before, ships, shots, answer
      <4> QED BY <4>3 DEF S!Next
    <3>8. CASE Clears
      BY <3>8, <3>2, <3>3, <3>4 DEF Clears, S!Next, S!Clear, before, ships, shots, answer
    <3>9. CASE Rests
      BY <3>9, <3>2, <3>3, <3>4 DEF Rests, S!vars, before, ships, shots, answer
    <3> QED
      BY <2>3, <3>1, <3>5, <3>6, <3>7, <3>8, <3>9, SalvoStep
  <2> QED BY <2>2, <2>3
<1> QED
  BY <1>1, <1>2, FleetInvariant, MatchInvariant, WaitingInvariant, PTL DEF Spec, ImplementsSalvo, S!Spec
=============================================================================
