--------------------------- MODULE GameTaskProofs ---------------------------
(***************************************************************************)
(* Proofs about GameTask, for every size of the board, every list of ships *)
(* and all places and requests on the board.                               *)
(***************************************************************************)
EXTENDS GameTask, FleetProofs

USE FleetAssumption

\* What the invariants are proved of: GameTask without its fairness.
Safe == Init /\ [][Next]_vars

LEMMA SpecSafe == Spec => Safe
BY PTL DEF Spec, Safe
-----------------------------------------------------------------------------
(***************************************************************************)
(* Where the tasks are blocked says in which states the game can be, if    *)
(* the browser is disciplined.                                             *)
(***************************************************************************)
Blocked ==
  /\ pc = "init" => state \in {"INIT", "GAME_RESTART"}
  /\ pc \in {"draw", "held", "settle"} => state \in {"RANDOM_INIT", "GAME_RESTART"}
  /\ pc = "button" => state \in {"WAITING_FOR_PLAYER", "GAME_RESTART"}
  /\ pc \in {"opponent", "sinking"} => state \in {"WAITING_FOR_OPPONENT", "GAME_RESTART"}
  /\ pc = "over" => state \in {"GAME_OVER", "GAME_RESTART"}
  /\ pc = "clearing" => state = "GAME_RESTART"
  /\ http # "idle" => state = "WEB_INIT" /\ pc = "loop" /\ ~game_ready

\* The turn is the human's from Game_Init on, and wherever a setup may begin.
Turns ==
  /\ state \in {"WEB_INIT", "RANDOM_INIT", "WAITING_FOR_PLAYER"} => turn = 0
  /\ pc \in {"init", "draw", "held", "settle"} => turn = 0
  /\ state = "WAITING_FOR_OPPONENT" => turn = 1

LEMMA TurnsStep ==
  ASSUME Disciplined = TRUE, Blocked, Turns, [Next]_vars
  PROVE  (Blocked /\ Turns)'
<1> USE DEF Blocked, Turns, game, screens
<1>1. CASE EnterInit
  BY <1>1 DEF EnterInit
<1>2. CASE LeaveInit
  BY <1>2 DEF LeaveInit
<1>3. CASE WebInit
  BY <1>3 DEF WebInit
<1>4. CASE RandomInit
  BY <1>4 DEF RandomInit
<1>5. CASE ShipHeld \/ GiveUpShip \/ DrawOpponent
  BY <1>5 DEF ShipHeld, GiveUpShip, DrawOpponent
<1>6. CASE LeaveRandomInit
  BY <1>6 DEF LeaveRandomInit
<1>7. CASE AwaitButton \/ NoButton \/ AwaitOpponent
  BY <1>7 DEF AwaitButton, NoButton, AwaitOpponent
<1>8. ASSUME NEW c \in Coordinate, NEW result, NEW target,
             pc \in {"opponent", "sinking"}, Conclude(c, result, target), UNCHANGED <<game_ready, http>>
      PROVE  (Blocked /\ Turns)'
  BY <1>8 DEF Conclude, Judge
<1>9. CASE ShipSunk
  BY <1>9 DEF ShipSunk, Conclude, Judge
<1>10. CASE EnterGameOver \/ LeaveGameOver
  BY <1>10 DEF EnterGameOver, LeaveGameOver
<1>11. CASE EnterRestart \/ ClearBoat \/ LeaveRestart
  BY <1>11 DEF EnterRestart, ClearBoat, LeaveRestart
<1>12. ASSUME NEW place \in Places, DrawShip(place)
       PROVE  (Blocked /\ Turns)'
  BY <1>12 DEF DrawShip
<1>13. ASSUME NEW c \in Coordinate, Button(c)
       PROVE  (Blocked /\ Turns)'
  BY <1>13 DEF Button
<1>14. ASSUME NEW c \in Coordinate, OpponentShot(c)
       PROVE  (Blocked /\ Turns)'
  BY <1>14, <1>8 DEF OpponentShot
<1>15. CASE RequestRandom \/ BeginSetup("ship") \/ BeginSetup("post")
  BY <1>15 DEF RequestRandom, BeginSetup, SetupAwaited
<1>16. CASE SetupShipHeld \/ PostShipHeld \/ FinishSetup
  BY <1>16 DEF SetupShipHeld, PostShipHeld, FinishSetup
<1>17. CASE Connect \/ RequestUpdate
  BY <1>17 DEF Connect, RequestUpdate
<1>18. CASE RequestRestart
  BY <1>18 DEF RequestRestart
<1>19. ASSUME NEW request \in Requests, NEW length,
              SetupShip(request, length) \/ PostShip(request, length) \/ RejectShip(request, length)
       PROVE  (Blocked /\ Turns)'
  BY <1>19 DEF SetupShip, PostShip, RejectShip
<1>20. CASE UNCHANGED vars
  BY <1>20 DEF vars
<1> QED
  BY <1>1, <1>2, <1>3, <1>4, <1>5, <1>6, <1>7, <1>9, <1>10, <1>11, <1>12, <1>13, <1>14, <1>15,
     <1>16, <1>17, <1>18, <1>19, <1>20 DEF Next, Task, Steps, Server

LEMMA BlockedAlways == ASSUME Disciplined = TRUE PROVE Safe => [](Blocked /\ Turns)
<1>1. Init => Blocked /\ Turns
  BY DEF Init, Blocked, Turns
<1>2. Blocked /\ Turns /\ [Next]_vars => (Blocked /\ Turns)'
  BY TurnsStep
<1> QED
  BY <1>1, <1>2, PTL DEF Safe

\* With a disciplined browser the side whose turn it is (include/game.h:73) is the side
\* whose shot is awaited, whatever restarts and setups come between.
THEOREM TurnShown == ASSUME Disciplined = TRUE PROVE Spec => []TurnMatchesState
<1>1. Turns => TurnMatchesState
  BY DEF Turns, TurnMatchesState
<1> QED
  BY <1>1, BlockedAlways, SpecSafe, PTL
-----------------------------------------------------------------------------
(***************************************************************************)
(* Where a ship is shown.                                                  *)
(***************************************************************************)
\* What every step leaves of the human's record, disciplined or not; only boat_count
\* may exceed the array if the two tasks count at once, and a boat may lie in a row that
\* the board does not have.
Ships  == [length : 0 .. GRID_SIZE, row : Int, col : Index, horizontal : BOOLEAN, hit_count : Nat]
Fleets == [cells : [Coordinate -> CellState], boats : [BoatIndex -> Ships], boat_count : Nat]

LEMMA Inputs ==
  /\ Places \subseteq Index \X Index \X BOOLEAN /\ Requests \subseteq Index \X Index \X BOOLEAN
  /\ \A i \in DOMAIN ship_lengths : ship_lengths[i] \in 1 .. GRID_SIZE
<1>1. ship_lengths \in [1 .. Len(ship_lengths) -> 1 .. GRID_SIZE]
  BY GameTaskAssumption
<1> QED
  BY <1>1, GameTaskAssumption

LEMMA PlacedFleet ==
  ASSUME NEW p \in Fleets, NEW row \in Int, NEW col \in Index, NEW length \in 1 .. GRID_SIZE,
         NEW horizontal \in BOOLEAN
  PROVE  LET q == place_ship(p, row, col, length, horizontal)
         IN  /\ q \in Fleets
             /\ q.cells = [c \in Coordinate |->
                  IF c \in Span(row, col, length, horizontal) THEN "SHIP" ELSE p.cells[c]]
<1> DEFINE boat == [length |-> length, row |-> row, col |-> col,
                    horizontal |-> horizontal, hit_count |-> 0]
           ships == Span(row, col, length, horizontal)
           cells == [c \in Coordinate |-> IF c \in ships THEN "SHIP" ELSE p.cells[c]]
           boats == [p.boats EXCEPT ![p.boat_count] = boat]
<1>1. boat \in Ships
  BY DEF Ships
<1> HIDE DEF boat, ships
<1>2. place_ship(p, row, col, length, horizontal) =
        [cells |-> cells, boats |-> boats, boat_count |-> p.boat_count]
  <2> SUFFICES ASSUME NEW q, q = place_ship(p, row, col, length, horizontal)
               PROVE  q = [cells |-> cells, boats |-> boats, boat_count |-> p.boat_count]
    OBVIOUS
  <2>1. q.cells = cells
    BY DEF place_ship, Fleets, ships
  <2>2. q.boats = boats
    BY DEF place_ship, Fleets, boat
  <2>3. q = [cells |-> q.cells, boats |-> q.boats, boat_count |-> p.boat_count]
    BY DEF place_ship, Fleets
  <2> QED
    BY <2>1, <2>2, <2>3
<1>3. cells \in [Coordinate -> CellState]
  BY DEF Fleets, CellState
<1>4. boats \in [BoatIndex -> Ships]
  BY <1>1 DEF Fleets
<1> HIDE DEF boats, cells
<1>5. [cells |-> cells, boats |-> boats, boat_count |-> p.boat_count] \in Fleets
  BY <1>3, <1>4 DEF Fleets
<1> QED
  BY <1>2, <1>5 DEF cells, ships

LEMMA ShotFleet ==
  ASSUME NEW p \in Fleets, NEW c \in Coordinate
  PROVE  AfterGuess(p, c) \in Fleets
<1> DEFINE res == GuessResult(p, c)
           b == OwnerOf(p, c)
           cells == [x \in Coordinate |->
                       IF res = "S" /\ x \in coords(p.boats[b]) THEN "SUNK"
                       ELSE IF x = c THEN Mark(p.cells[x]) ELSE p.cells[x]]
           boats == [d \in BoatIndex |->
                       IF res \in {"H", "S"} /\ d = b THEN Hit(p.boats[d]) ELSE p.boats[d]]
<1> HIDE DEF res, b
<1>1. AfterGuess(p, c) = [cells |-> cells, boats |-> boats, boat_count |-> p.boat_count]
  <2> SUFFICES ASSUME NEW q, q = AfterGuess(p, c)
               PROVE  q = [cells |-> cells, boats |-> boats, boat_count |-> p.boat_count]
    OBVIOUS
  <2>1. q.cells = cells
    BY DEF AfterGuess, Fleets, res, b
  <2>2. q.boats = boats
    BY DEF AfterGuess, Fleets, res, b
  <2>3. q = [cells |-> q.cells, boats |-> q.boats, boat_count |-> p.boat_count]
    BY DEF AfterGuess, Fleets
  <2> QED
    BY <2>1, <2>2, <2>3
<1>2. cells \in [Coordinate -> CellState]
  BY DEF Fleets, CellState, Mark
<1>3. \A boat \in Ships : Hit(boat) \in Ships
  BY DEF Ships, Hit
<1>4. boats \in [BoatIndex -> Ships]
  BY <1>3 DEF Fleets
<1> HIDE DEF cells, boats
<1> QED
  BY <1>1, <1>2, <1>4 DEF Fleets

\* can_place_ship accepts a place of a request only where the page asks for it: the ship
\* lies on the board, turned over.
LEMMA TurnedOver ==
  ASSUME NEW request \in Index \X Index \X BOOLEAN, NEW length \in 1 .. GRID_SIZE,
         NEW p, NEW place \in {SetupPlace(request, length), PostPlace(request)},
         Readable(place, length), CanPlace(p, place, length)
  PROVE  /\ place \in Index \X Index \X BOOLEAN
         /\ Span(request[1], request[2], length, request[3]) \subseteq Coordinate
         /\ \A c \in Coordinate :
              Turned(c) \in Span(place[1], place[2], length, place[3])
                <=> c \in Span(request[1], request[2], length, request[3])
<1> DEFINE row == request[1]
           col == request[2]
           horizontal == request[3]
<1>1. row \in Index /\ col \in Index /\ horizontal \in BOOLEAN
  OBVIOUS
<1>2. place[2] = col /\ place[3] = horizontal /\ place = <<place[1], place[2], place[3]>>
  BY DEF SetupPlace, PostPlace
<1>3. place[1] \in Index /\ (IF horizontal THEN col ELSE place[1]) + length <= GRID_SIZE
  BY <1>2 DEF Readable, CanPlace, can_place_ship
<1>4. place[1] = GRID_SIZE - 1 - row - (IF horizontal THEN 0 ELSE length - 1)
  <2>1. CASE place = SetupPlace(request, length)
    BY <2>1 DEF SetupPlace
  <2>2. CASE place = PostPlace(request)
    <3>1. place[1] = row + GRID_SIZE - 1
      BY <2>2 DEF PostPlace
    <3>2. row = 0 /\ (~horizontal => length = 1)
      BY <1>1, <1>3, <3>1 DEF Index
    <3> QED
      BY <1>1, <3>1, <3>2 DEF Index
  <2> QED
    BY <2>1, <2>2
<1>5. place \in Index \X Index \X BOOLEAN
  BY <1>1, <1>2, <1>3
<1> DEFINE top == place[1]
<1>6. top \in Index /\ (IF horizontal THEN col ELSE top) + length <= GRID_SIZE
  BY <1>3
<1>7. top = GRID_SIZE - 1 - row - (IF horizontal THEN 0 ELSE length - 1)
  BY <1>4
<1> HIDE DEF row, col, horizontal, top
<1>8. CASE horizontal
  <2>1. \A c : c \in Span(row, col, length, horizontal) <=> \E i \in 0 .. length - 1 : c = <<row, col + i>>
    BY <1>1, <1>8 DEF Span, Index
  <2>2. \A c : c \in Span(top, col, length, horizontal) <=> \E i \in 0 .. length - 1 : c = <<top, col + i>>
    BY <1>1, <1>6, <1>8 DEF Span, Index
  <2>3. top = GRID_SIZE - 1 - row /\ col + length <= GRID_SIZE
    BY <1>1, <1>6, <1>7, <1>8 DEF Index
  <2>4. Span(row, col, length, horizontal) \subseteq Coordinate
    BY <1>1, <2>1, <2>3 DEF Coordinate, Index
  <2>5. ASSUME NEW x \in Index, NEW y \in Index
        PROVE  <<GRID_SIZE - 1 - x, y>> \in Span(top, col, length, horizontal)
                 <=> <<x, y>> \in Span(row, col, length, horizontal)
    <3>1. GRID_SIZE - 1 - x = top <=> x = row
      BY <1>1, <2>3 DEF Index
    <3> QED
      BY <2>1, <2>2, <3>1
  <2> QED
    BY <1>2, <1>5, <2>4, <2>5 DEF row, col, horizontal, top, Coordinate, Turned
<1>9. CASE ~horizontal
  <2>1. \A c : c \in Span(row, col, length, horizontal) <=> \E i \in 0 .. length - 1 : c = <<row + i, col>>
    BY <1>1, <1>9 DEF Span, Index
  <2>2. \A c : c \in Span(top, col, length, horizontal) <=> \E i \in 0 .. length - 1 : c = <<top + i, col>>
    BY <1>1, <1>6, <1>9 DEF Span, Index
  <2>3. top = GRID_SIZE - row - length /\ top \in Index
    BY <1>1, <1>6, <1>7, <1>9 DEF Index
  <2>4. Span(row, col, length, horizontal) \subseteq Coordinate
    BY <1>1, <2>1, <2>3 DEF Coordinate, Index
  <2>5. ASSUME NEW x \in Index, NEW y \in Index
        PROVE  <<GRID_SIZE - 1 - x, y>> \in Span(top, col, length, horizontal)
                 <=> <<x, y>> \in Span(row, col, length, horizontal)
    <3>1. ASSUME NEW i \in 0 .. length - 1, GRID_SIZE - 1 - x = top + i
          PROVE  length - 1 - i \in 0 .. length - 1 /\ x = row + (length - 1 - i)
      BY <1>1, <2>3, <3>1 DEF Index
    <3>2. ASSUME NEW i \in 0 .. length - 1, x = row + i
          PROVE  length - 1 - i \in 0 .. length - 1 /\ GRID_SIZE - 1 - x = top + (length - 1 - i)
      BY <1>1, <2>3, <3>2 DEF Index
    <3> QED
      BY <2>1, <2>2, <3>1, <3>2
  <2> QED
    BY <1>2, <1>5, <2>4, <2>5 DEF row, col, horizontal, top, Coordinate, Turned
<1> QED
  BY <1>8, <1>9

LEMMA FreshFleet == FreshPlayer \in Fleets
<1>1. ZeroBoat \in Ships
  BY DEF ZeroBoat, Ships, Index
<1> QED
  BY <1>1 DEF FreshPlayer, Fleets, EmptyCells, CellState

LEMMA CountedFleet ==
  ASSUME NEW p \in Fleets
  PROVE  Counted(p) \in Fleets /\ Emptied(p) \in Fleets /\ Counted(p).cells = p.cells
BY DEF Counted, Emptied, Fleets

\* Where a request puts a ship, also in a row that the board does not have.
LEMMA RequestedPlace ==
  ASSUME NEW request \in Requests, NEW i \in DOMAIN ship_lengths,
         NEW place, place = SetupPlace(request, ship_lengths[i]) \/ place = PostPlace(request)
  PROVE  place[1] \in Int /\ place[2] \in Index /\ place[3] \in BOOLEAN
<1>1. request \in Index \X Index \X BOOLEAN /\ ship_lengths[i] \in 1 .. GRID_SIZE
  BY Inputs
<1> QED
  BY <1>1 DEF SetupPlace, PostPlace, Index

LEMMA RequestedFleet ==
  ASSUME player \in Fleets, NEW i \in DOMAIN ship_lengths,
         NEW place, place[1] \in Int, place[2] \in Index, place[3] \in BOOLEAN,
         \/ player' = Placed(player, place, ship_lengths[i])
         \/ player' = Counted(Placed(player, place, ship_lengths[i]))
  PROVE  /\ player' \in Fleets
         /\ player'.cells = [c \in Coordinate |->
              IF c \in Span(place[1], place[2], ship_lengths[i], place[3]) THEN "SHIP"
              ELSE player.cells[c]]
<1> DEFINE length == ship_lengths[i]
           row == place[1]
           col == place[2]
           horizontal == place[3]
<1>1. length \in 1 .. GRID_SIZE
  BY Inputs
<1>2. Placed(player, place, length) = place_ship(player, row, col, length, horizontal)
  BY DEF Placed
<1> HIDE DEF length, row, col, horizontal
<1>3. /\ Placed(player, place, length) \in Fleets
      /\ Placed(player, place, length).cells = [c \in Coordinate |->
           IF c \in Span(row, col, length, horizontal) THEN "SHIP" ELSE player.cells[c]]
  BY <1>1, <1>2, PlacedFleet DEF row, col, horizontal
<1> QED
  BY <1>3, CountedFleet DEF length, row, col, horizontal

\* What the page shows of it.
LEMMA RequestShown ==
  ASSUME player \in Fleets, NEW request \in Requests, NEW i \in DOMAIN ship_lengths,
         NEW place \in {SetupPlace(request, ship_lengths[i]), PostPlace(request)},
         Readable(place, ship_lengths[i]), CanPlace(player, place, ship_lengths[i]),
         \/ player' = Placed(player, place, ship_lengths[i])
         \/ player' = Counted(Placed(player, place, ship_lengths[i]))
  PROVE  Shown(request, ship_lengths[i])
<1> DEFINE length == ship_lengths[i]
<1>1. request \in Index \X Index \X BOOLEAN /\ length \in 1 .. GRID_SIZE
  BY Inputs
<1>2. /\ Span(request[1], request[2], length, request[3]) \subseteq Coordinate
      /\ \A c \in Coordinate :
           Turned(c) \in Span(place[1], place[2], length, place[3])
             <=> c \in Span(request[1], request[2], length, request[3])
  <2> HIDE DEF length
  <2> QED BY <1>1, TurnedOver DEF length
<1>3. player'.cells = [c \in Coordinate |->
        IF c \in Span(place[1], place[2], length, place[3]) THEN "SHIP" ELSE player.cells[c]]
  <2>1. place[1] \in Int /\ place[2] \in Index /\ place[3] \in BOOLEAN
    BY RequestedPlace
  <2> QED BY <2>1, RequestedFleet
<1> HIDE DEF length
<1>4. ASSUME NEW c \in Coordinate
      PROVE  board_to_json(player'.cells, TRUE)[c] =
               IF c \in Span(request[1], request[2], length, request[3]) THEN "SHIP"
               ELSE board_to_json(player.cells, TRUE)[c]
  <2>1. Turned(c) \in Coordinate
    BY DEF Turned, Coordinate, Index
  <2>2. \A cells : board_to_json(cells, TRUE)[c] = cells[Turned(c)]
    BY DEF board_to_json
  <2> QED
    BY <1>2, <1>3, <2>1, <2>2
<1> QED
  BY <1>2, <1>4 DEF Shown, length

\* The loop index is one of a ship while ships are drawn.
Drawing == next \in Nat /\ (pc \in {"draw", "held"} => next >= 1)

LEMMA DrawingAlways == Safe => []Drawing
<1>1. Init => Drawing
  BY DEF Init, Drawing
<1>2. Drawing /\ [Next]_vars => Drawing'
  <2> SUFFICES ASSUME Drawing, [Next]_vars  PROVE Drawing'
    OBVIOUS
  <2> USE DEF Drawing
  <2>1. CASE EnterInit
    BY <2>1 DEF EnterInit
  <2>2. CASE LeaveInit
    BY <2>2 DEF LeaveInit
  <2>3. CASE WebInit
    BY <2>3 DEF WebInit
  <2>4. CASE RandomInit
    BY <2>4 DEF RandomInit
  <2>5. CASE ShipHeld
    BY <2>5 DEF ShipHeld
  <2>6. CASE GiveUpShip
    BY <2>6 DEF GiveUpShip
  <2>7. CASE DrawOpponent
    BY <2>7 DEF DrawOpponent
  <2>8. CASE LeaveRandomInit \/ AwaitButton \/ NoButton \/ AwaitOpponent \/ ShipSunk
    BY <2>8 DEF LeaveRandomInit, AwaitButton, NoButton, AwaitOpponent, ShipSunk, Conclude
  <2>9. CASE EnterGameOver \/ LeaveGameOver \/ EnterRestart \/ ClearBoat \/ LeaveRestart
    BY <2>9 DEF EnterGameOver, LeaveGameOver, EnterRestart, ClearBoat, LeaveRestart
  <2>10. ASSUME NEW place \in Places, DrawShip(place)  PROVE Drawing'
    BY <2>10 DEF DrawShip
  <2>11. ASSUME NEW c \in Coordinate, Button(c) \/ OpponentShot(c)  PROVE Drawing'
    BY <2>11 DEF Button, OpponentShot, Conclude
  <2>12. CASE Server
    BY <2>12 DEF Server, RequestRandom, BeginSetup, SetupShip, SetupShipHeld, PostShip, PostShipHeld,
                RejectShip, FinishSetup, Connect, RequestUpdate, RequestRestart
  <2>13. CASE UNCHANGED vars
    BY <2>13 DEF vars
  <2> QED
    BY <2>1, <2>2, <2>3, <2>4, <2>5, <2>6, <2>7, <2>8, <2>9, <2>10, <2>11, <2>12, <2>13 DEF Next, Task, Steps
<1> QED
  BY <1>1, <1>2, PTL DEF Safe

LEMMA FleetsAlways == Safe => [](player \in Fleets)
<1>1. Init => player \in Fleets
  BY FreshFleet DEF Init
<1>2. Drawing /\ player \in Fleets /\ [Next]_vars => (player \in Fleets)'
  <2> SUFFICES ASSUME Drawing, player \in Fleets, [Next]_vars
               PROVE  player' \in Fleets
    OBVIOUS
  <2>1. CASE EnterInit
    BY <2>1, FreshFleet DEF EnterInit
  <2>2. CASE RandomInit \/ ShipHeld \/ SetupShipHeld \/ BeginSetup("ship") \/ BeginSetup("post")
    BY <2>2, CountedFleet DEF RandomInit, ShipHeld, SetupShipHeld, BeginSetup
  <2>3. ASSUME NEW place \in Places, DrawShip(place)
        PROVE  player' \in Fleets
    <3>1. player' = Placed(player, place, ship_lengths[next]) /\ next \in DOMAIN ship_lengths
      <4>1. DOMAIN ship_lengths = 1 .. Len(ship_lengths) /\ Len(ship_lengths) \in Nat
        BY GameTaskAssumption
      <4> QED
        BY <2>3, <4>1 DEF DrawShip, Drawing
    <3>2. place[1] \in Int /\ place[2] \in Index /\ place[3] \in BOOLEAN
      BY Inputs DEF Index
    <3>3. ship_lengths[next] \in 1 .. GRID_SIZE
      BY <3>1, Inputs
    <3> QED
      BY <3>1, <3>2, <3>3, PlacedFleet DEF Placed
  <2>4. ASSUME NEW c \in Coordinate, OpponentShot(c)
        PROVE  player' \in Fleets
    BY <2>4, ShotFleet DEF OpponentShot
  <2>5. ASSUME NEW request \in Requests, NEW i \in DOMAIN ship_lengths,
               SetupShip(request, ship_lengths[i]) \/ PostShip(request, ship_lengths[i])
        PROVE  player' \in Fleets
    <3>1. PICK place : /\ \/ place = SetupPlace(request, ship_lengths[i])
                          \/ place = PostPlace(request)
                       /\ \/ player' = Placed(player, place, ship_lengths[i])
                          \/ player' = Counted(Placed(player, place, ship_lengths[i]))
      BY <2>5 DEF SetupShip, PostShip
    <3> QED BY <3>1, RequestedPlace, RequestedFleet
  <2>6. ASSUME NEW request \in Requests, NEW length, RejectShip(request, length)
        PROVE  player' \in Fleets
    BY <2>6 DEF RejectShip, game
  <2>7. CASE LeaveInit \/ WebInit \/ GiveUpShip \/ DrawOpponent \/ LeaveRandomInit \/ AwaitButton \/ NoButton
    BY <2>7 DEF LeaveInit, WebInit, GiveUpShip, DrawOpponent, LeaveRandomInit, AwaitButton, NoButton, game
  <2>8. ASSUME NEW c \in Coordinate, Button(c)
        PROVE  player' \in Fleets
    BY <2>8 DEF Button
  <2>9. CASE AwaitOpponent \/ ShipSunk \/ EnterGameOver \/ LeaveGameOver \/ EnterRestart \/ ClearBoat \/ LeaveRestart
    BY <2>9 DEF AwaitOpponent, ShipSunk, EnterGameOver, LeaveGameOver, EnterRestart, ClearBoat, LeaveRestart, game
  <2>10. CASE RequestRandom \/ PostShipHeld \/ FinishSetup \/ Connect \/ RequestUpdate \/ RequestRestart \/ UNCHANGED vars
    BY <2>10 DEF RequestRandom, PostShipHeld, FinishSetup, Connect, RequestUpdate, RequestRestart, vars, game
  <2> QED
    BY <2>1, <2>2, <2>3, <2>4, <2>5, <2>6, <2>7, <2>8, <2>9, <2>10 DEF Next, Task, Steps, Server
<1> QED
  BY <1>1, <1>2, DrawingAlways, PTL DEF Safe

\* A ship whose place begins on the board appears on the page where the request of either
\* handler puts it, on a board of any size, whatever the browser asks for and whatever the
\* two tasks do to the fleet meanwhile.
THEOREM ShownWhereAsked == Spec => ShownAsRequested
<1>1. player \in Fleets =>
        [\A request \in Requests, i \in DOMAIN ship_lengths :
           LET length == ship_lengths[i]
           IN  (\/ SetupShip(request, length) /\ Readable(SetupPlace(request, length), length)
                \/ PostShip(request, length) /\ Readable(PostPlace(request), length))
               => Shown(request, length)]_vars
  <2> SUFFICES ASSUME player \in Fleets, NEW request \in Requests, NEW i \in DOMAIN ship_lengths,
                      \/ /\ SetupShip(request, ship_lengths[i])
                         /\ Readable(SetupPlace(request, ship_lengths[i]), ship_lengths[i])
                      \/ /\ PostShip(request, ship_lengths[i])
                         /\ Readable(PostPlace(request), ship_lengths[i])
               PROVE  Shown(request, ship_lengths[i])
    OBVIOUS
  <2> QED
    BY RequestShown DEF SetupShip, PostShip
<1> QED
  BY <1>1, FleetsAlways, SpecSafe, PTL DEF ShownAsRequested
-----------------------------------------------------------------------------
(***************************************************************************)
(* What random placement makes of the opponent's board.                    *)
(***************************************************************************)
\* place_random_ships on the opponent's board, one ship after the other.
WithShip(q, length) ==
  {Counted(Placed(q, place, length)) : place \in {x \in Places : CanPlace(q, x, length)}}

Runs(p, n, f) ==
  f = [i \in 0 .. n |-> IF i = 0 THEN {Emptied(p)}
                        ELSE f[i - 1] \cup UNION {WithShip(q, ship_lengths[i]) : q \in f[i - 1]}]

\* The function that OpponentFleets defines by recursion exists.
LEMMA RunExists == \A p : \A n \in Nat : \E f : Runs(p, n, f)
<1> SUFFICES ASSUME NEW p, NEW m \in Nat, ~ \E f : Runs(p, m, f)  PROVE FALSE
  OBVIOUS
<1> DEFINE bad == {n \in Nat : ~ \E f : Runs(p, n, f)}
<1>1. PICK n \in bad : \A k \in bad : n <= k
  <2>1. bad \in SUBSET Nat /\ bad # {}
    OBVIOUS
  <2> HIDE DEF bad
  <2> QED BY <2>1, Least
<1>2. /\ n \in Nat
      /\ ~ \E f : Runs(p, n, f)
      /\ n > 0 => \E f : Runs(p, n - 1, f)
  BY <1>1
<1>3. n # 0
  <2> DEFINE f == [i \in 0 .. 0 |-> {Emptied(p)}]
  <2>1. f = [i \in 0 .. 0 |-> IF i = 0 THEN {Emptied(p)}
                        ELSE f[i - 1] \cup UNION {WithShip(q, ship_lengths[i]) : q \in f[i - 1]}]
    OBVIOUS
  <2>2. Runs(p, 0, f)
    BY <2>1 DEF Runs
  <2> QED BY <1>2, <2>2
<1>4. PICK f : Runs(p, n - 1, f)
  BY <1>2, <1>3
<1> DEFINE more(S, i) == S \cup UNION {WithShip(q, ship_lengths[i]) : q \in S}
<1>5. f = [i \in 0 .. n - 1 |-> IF i = 0 THEN {Emptied(p)} ELSE more(f[i - 1], i)]
  BY <1>4 DEF Runs
<1> HIDE DEF more
<1> DEFINE g == [i \in 0 .. n |-> IF i = n THEN more(f[n - 1], n) ELSE f[i]]
<1>6. \A i \in 0 .. n : g[i] = IF i = 0 THEN {Emptied(p)} ELSE more(g[i - 1], i)
  <2> TAKE i \in 0 .. n
  <2>1. CASE i = n
    BY <1>2, <1>3, <2>1
  <2>2. CASE i # n
    <3>1. i \in 0 .. n - 1 /\ (i # 0 => i - 1 \in 0 .. n - 1)
      BY <1>2, <2>2
    <3>2. g[i] = f[i] /\ (i # 0 => g[i - 1] = f[i - 1])
      BY <1>2, <2>2, <3>1
    <3> HIDE DEF g
    <3> QED BY <1>5, <3>1, <3>2
  <2> QED BY <2>1, <2>2
<1>7. g = [i \in 0 .. n |-> IF i = 0 THEN {Emptied(p)} ELSE more(g[i - 1], i)]
  <2>1. g = [i \in 0 .. n |-> g[i]]
    OBVIOUS
  <2> HIDE DEF g
  <2> QED BY <1>6, <2>1
<1> HIDE DEF g
<1>8. Runs(p, n, g)
  BY <1>7 DEF Runs, more
<1> QED BY <1>2, <1>8

LEMMA OpponentRun ==
  ASSUME NEW p
  PROVE  \E f : Runs(p, Len(ship_lengths), f) /\ OpponentFleets(p) = f[Len(ship_lengths)]
<1> DEFINE n == Len(ship_lengths)
           run(f) == Runs(p, n, f)
           chosen == CHOOSE f : run(f)
<1>1. \E f : run(f)
  BY RunExists, GameTaskAssumption
<1>2. run(chosen)
  BY <1>1, Zenon
<1>3. OpponentFleets(p) = chosen[n]
  BY Zenon DEF OpponentFleets, Runs, WithShip
<1> QED BY <1>2, <1>3

\* A fleet that has just been placed.
Deployed(q) == Sound(q) /\ Owned(q) /\ \A c \in Coordinate : q.cells[c] \in {"EMPTY", "SHIP"}

LEMMA CountedPlacedIsPut ==
  ASSUME NEW p, NEW place, NEW length
  PROVE  Counted(Placed(p, place, length)) = Put(p, place[1], place[2], length, place[3])
BY DEF Counted, Placed, Put

LEMMA DeployedPut ==
  ASSUME NEW p \in Player, Deployed(p), p.boat_count < MAX_SHIPS,
         NEW place \in Places, NEW i \in DOMAIN ship_lengths,
         CanPlace(p, place, ship_lengths[i]),
         NEW q, q = Counted(Placed(p, place, ship_lengths[i]))
  PROVE  Deployed(q) /\ q.boat_count = p.boat_count + 1
<1> DEFINE row == place[1]
           col == place[2]
           length == ship_lengths[i]
           horizontal == place[3]
<1>1. row \in Index /\ col \in Index /\ horizontal \in BOOLEAN /\ length \in 1 .. GRID_SIZE
  BY Inputs
<1>2. q = Put(p, row, col, length, horizontal)
  BY CountedPlacedIsPut
<1>3. can_place_ship(p.cells, row, col, length, horizontal)
  BY DEF CanPlace
<1> HIDE DEF row, col, length, horizontal
<1>4. Sound(q) /\ Owned(q)
  BY <1>1, <1>2, <1>3, PutSound DEF Deployed
<1>5. q.boat_count = p.boat_count + 1
  BY <1>1, <1>2, <1>3, PutCount
<1>6. \A c \in Coordinate : q.cells[c] \in {"EMPTY", "SHIP"}
  BY <1>1, <1>2, <1>3, PutBoard DEF Deployed
<1> QED BY <1>4, <1>5, <1>6 DEF Deployed

\* Every fleet that place_random_ships can leave on an empty board is sound.
LEMMA OpponentDeployed ==
  ASSUME NEW p \in Player, p.cells = EmptyCells, NEW q \in OpponentFleets(p)
  PROVE  Deployed(q)
<1> DEFINE n == Len(ship_lengths)
           good(i) == {r \in Player : Deployed(r) /\ r.boat_count <= i}
<1>1. n \in Nat /\ n = MAX_SHIPS /\ DOMAIN ship_lengths = 1 .. n
  BY GameTaskAssumption
<1>2. PICK f : Runs(p, n, f) /\ q \in f[n]
  BY OpponentRun
<1> HIDE DEF n
<1> DEFINE more(i) == f[i - 1] \cup UNION {WithShip(r, ship_lengths[i]) : r \in f[i - 1]}
<1>3. f[0] = {Emptied(p)} /\ \A i \in 1 .. n : f[i] = more(i)
  <2>1. f = [i \in 0 .. n |-> IF i = 0 THEN {Emptied(p)} ELSE more(i)]
    BY <1>2 DEF Runs
  <2> HIDE DEF more
  <2>2. \A i \in 0 .. n : f[i] = IF i = 0 THEN {Emptied(p)} ELSE more(i)
    BY <2>1
  <2> QED BY <1>1, <2>2
<1>4. f[0] \subseteq good(0)
  <2>1. Emptied(p) = [p EXCEPT !.boat_count = 0]
    BY DEF Emptied
  <2>2. Sound(Emptied(p)) /\ Owned(Emptied(p)) /\ Emptied(p).boat_count = 0 /\ Emptied(p).cells = p.cells
    BY <2>1, EmptiedSound
  <2> QED BY <1>3, <2>2 DEF Deployed, EmptyCells, Sound
<1>5. ASSUME NEW i \in 1 .. n, f[i - 1] \subseteq good(i - 1)
      PROVE  f[i] \subseteq good(i)
  <2>1. f[i - 1] \subseteq good(i)
    BY <1>1, <1>5 DEF Player
  <2>2. ASSUME NEW r \in f[i - 1], NEW s \in WithShip(r, ship_lengths[i])
        PROVE  s \in good(i)
    <3>1. r \in Player /\ Deployed(r) /\ r.boat_count < MAX_SHIPS /\ r.boat_count <= i - 1
      BY <1>1, <1>5 DEF Player
    <3>2. PICK place \in Places : CanPlace(r, place, ship_lengths[i])
                                  /\ s = Counted(Placed(r, place, ship_lengths[i]))
      BY <2>2 DEF WithShip
    <3>3. Deployed(s) /\ s.boat_count = r.boat_count + 1
      BY <1>1, <3>1, <3>2, DeployedPut
    <3> QED BY <1>1, <3>1, <3>3 DEF Deployed, Sound, Player
  <2> QED BY <1>3, <2>1, <2>2
<1>6. \A i \in 0 .. n : f[i] \subseteq good(i)
  <2> DEFINE bad == {i \in 0 .. n : ~(f[i] \subseteq good(i))}
  <2> SUFFICES ASSUME bad # {}  PROVE FALSE
    OBVIOUS
  <2>1. PICK i \in bad : \A k \in bad : i <= k
    <3>1. bad \in SUBSET Nat
      BY <1>1
    <3> HIDE DEF bad
    <3> QED BY <3>1, Least
  <2> HIDE DEF good
  <2>2. i # 0
    BY <1>4, <2>1
  <2>3. i \in 1 .. n /\ i - 1 \in 0 .. n /\ i - 1 \notin bad
    BY <1>1, <2>1, <2>2
  <2> QED BY <1>5, <2>1, <2>3
<1> QED
  BY <1>1, <1>2, <1>6
-----------------------------------------------------------------------------
(***************************************************************************)
(* The two fleets, if the browser is disciplined.                          *)
(***************************************************************************)
\* From Game_Init until the opponent's fleet is drawn.
Undrawn ==
  pc \in {"init", "draw", "held"} \/ (pc = "loop" /\ state \in {"WEB_INIT", "RANDOM_INIT"})

\* What the game task relies on when it begins or ends a setup, or a shot.
Setups ==
  /\ pc # "sinking" => aim = NoCell
  /\ pc = "sinking" => aim \in Coordinate
  /\ pc = "init" => player = FreshPlayer /\ noted = {}
  /\ Undrawn => opponent = FreshPlayer

LEMMA SetupsStep ==
  ASSUME Disciplined = TRUE, Blocked, Setups, [Next]_vars
  PROVE  Setups'
<1> USE DEF Blocked, Setups, Undrawn, game
<1>1. CASE EnterInit
  BY <1>1 DEF EnterInit
<1>2. CASE LeaveInit \/ WebInit
  BY <1>2 DEF LeaveInit, WebInit
<1>3. CASE RandomInit
  BY <1>3 DEF RandomInit
<1>4. CASE ShipHeld \/ GiveUpShip \/ DrawOpponent
  BY <1>4 DEF ShipHeld, GiveUpShip, DrawOpponent
<1>5. CASE LeaveRandomInit \/ AwaitButton \/ NoButton \/ AwaitOpponent
  BY <1>5 DEF LeaveRandomInit, AwaitButton, NoButton, AwaitOpponent
<1>6. CASE ShipSunk
  BY <1>6 DEF ShipSunk, Conclude, Judge
<1>7. CASE EnterGameOver \/ LeaveGameOver \/ EnterRestart \/ ClearBoat \/ LeaveRestart
  BY <1>7 DEF EnterGameOver, LeaveGameOver, EnterRestart, ClearBoat, LeaveRestart
<1>8. ASSUME NEW place \in Places, DrawShip(place)
      PROVE  Setups'
  BY <1>8 DEF DrawShip
<1>9. ASSUME NEW c \in Coordinate, Button(c)
      PROVE  Setups'
  BY <1>9 DEF Button
<1>10. ASSUME NEW c \in Coordinate, OpponentShot(c)
       PROVE  Setups'
  BY <1>10 DEF OpponentShot, Conclude, Judge
<1>11. CASE RequestRandom \/ BeginSetup("ship") \/ BeginSetup("post")
  BY <1>11 DEF RequestRandom, BeginSetup, SetupAwaited
<1>12. CASE SetupShipHeld \/ PostShipHeld \/ FinishSetup \/ Connect \/ RequestUpdate \/ RequestRestart
  BY <1>12 DEF SetupShipHeld, PostShipHeld, FinishSetup, Connect, RequestUpdate, RequestRestart
<1>13. ASSUME NEW request \in Requests, NEW length,
              SetupShip(request, length) \/ PostShip(request, length) \/ RejectShip(request, length)
       PROVE  Setups'
  BY <1>13 DEF SetupShip, PostShip, RejectShip
<1>14. CASE UNCHANGED vars
  BY <1>14 DEF vars
<1> QED
  BY <1>1, <1>2, <1>3, <1>4, <1>5, <1>6, <1>7, <1>8, <1>9, <1>10, <1>11, <1>12, <1>13, <1>14
     DEF Next, Task, Steps, Server

LEMMA SetupsAlways == ASSUME Disciplined = TRUE PROVE Safe => []Setups
<1>1. Init => Setups
  BY DEF Init, Setups
<1>2. Blocked /\ Turns /\ Setups /\ [Next]_vars => Setups'
  BY SetupsStep
<1> QED
  BY <1>1, <1>2, BlockedAlways, PTL DEF Safe

\* The human's fleet with the ship that is on the board and not counted yet.
Human == IF pc = "held" \/ http = "held" THEN Counted(player) ELSE player

\* What a step can do to it.
Wipes   == Human' = FreshPlayer
Empties == Human = player /\ Human' = Emptied(player)
Deploys(row, col, length, horizontal) ==
  /\ Human = player /\ player.boat_count < MAX_SHIPS
  /\ can_place_ship(player.cells, row, col, length, horizontal)
  /\ Human' = Put(player, row, col, length, horizontal)
Strikes(c) == Human = player /\ Human' = AfterGuess(player, c)

DeploysOne == \E row, col \in Index, i \in DOMAIN ship_lengths, horizontal \in BOOLEAN :
                Deploys(row, col, ship_lengths[i], horizontal)

\* Whatever the two tasks interleave, each step does one of these, or nothing, to the
\* human's fleet.
LEMMA DrawShipDeploys ==
  ASSUME Disciplined = TRUE, Blocked, Drawing, player \in Fleets, NEW place \in Places, DrawShip(place)
  PROVE  Deploys(place[1], place[2], ship_lengths[next], place[3]) /\ next \in DOMAIN ship_lengths
<1>1. next \in DOMAIN ship_lengths
  <2>1. DOMAIN ship_lengths = 1 .. Len(ship_lengths) /\ Len(ship_lengths) \in Nat
    BY GameTaskAssumption
  <2> QED
    BY <2>1 DEF DrawShip, Drawing
<1>2. pc = "draw" /\ pc' = "held" /\ http = "idle"
  BY DEF DrawShip, Blocked
<1>3. player.boat_count < MAX_SHIPS
  BY DEF DrawShip, BoatIndex
<1>4. Human = player /\ Human' = Counted(Placed(player, place, ship_lengths[next]))
  BY <1>2 DEF Human, DrawShip
<1> QED
  BY <1>1, <1>3, <1>4, CountedPlacedIsPut DEF Deploys, DrawShip, CanPlace

LEMMA SetupShipDeploys ==
  ASSUME Disciplined = TRUE, Blocked, NEW request \in Requests, NEW i \in DOMAIN ship_lengths,
         SetupShip(request, ship_lengths[i]) \/ PostShip(request, ship_lengths[i])
  PROVE  \E place \in Index \X Index \X BOOLEAN :
           /\ Deploys(place[1], place[2], ship_lengths[i], place[3])
           /\ \/ place = SetupPlace(request, ship_lengths[i]) /\ SetupShip(request, ship_lengths[i])
              \/ place = PostPlace(request) /\ PostShip(request, ship_lengths[i])
<1> DEFINE length == ship_lengths[i]
<1>1. request \in Index \X Index \X BOOLEAN /\ length \in 1 .. GRID_SIZE
  BY Inputs
<1> HIDE DEF length
<1>2. pc = "loop" /\ pc' = pc
  BY DEF SetupShip, PostShip, Blocked
<1>3. CASE SetupShip(request, length)
  <2> DEFINE place == SetupPlace(request, length)
  <2>1. Readable(place, length) /\ CanPlace(player, place, length)
    BY <1>3 DEF SetupShip, Listed
  <2>2. place \in Index \X Index \X BOOLEAN
    <3> HIDE DEF place
    <3> QED BY <1>1, <2>1, TurnedOver DEF place
  <2>3. http = "ship" /\ http' = "held" /\ player.boat_count < MAX_SHIPS
        /\ player' = Placed(player, place, length)
    BY <1>3 DEF SetupShip, Listed
  <2> HIDE DEF place
  <2>4. Human = player /\ Human' = Put(player, place[1], place[2], length, place[3])
    BY <1>2, <2>3, CountedPlacedIsPut DEF Human
  <2>5. Deploys(place[1], place[2], length, place[3])
    BY <2>1, <2>3, <2>4 DEF Deploys, CanPlace
  <2> QED BY <1>3, <2>2, <2>5 DEF place, length
<1>4. CASE PostShip(request, length)
  <2> DEFINE place == PostPlace(request)
  <2>1. Readable(place, length) /\ CanPlace(player, place, length)
    BY <1>4 DEF PostShip, Listed
  <2>2. place \in Index \X Index \X BOOLEAN
    <3> HIDE DEF place
    <3> QED BY <1>1, <2>1, TurnedOver DEF place
  <2>3. http = "post" /\ http' = "posted" /\ player.boat_count < MAX_SHIPS
        /\ player' = Counted(Placed(player, place, length))
    BY <1>4 DEF PostShip, Listed
  <2> HIDE DEF place
  <2>4. Human = player /\ Human' = Put(player, place[1], place[2], length, place[3])
    BY <1>2, <2>3, CountedPlacedIsPut DEF Human
  <2>5. Deploys(place[1], place[2], length, place[3])
    BY <2>1, <2>3, <2>4 DEF Deploys, CanPlace
  <2> QED BY <1>4, <2>2, <2>5 DEF place, length
<1> QED BY <1>3, <1>4 DEF length

LEMMA HumanStep ==
  ASSUME Disciplined = TRUE, Blocked, Setups, Drawing, player \in Fleets, [Next]_vars
  PROVE  UNCHANGED Human \/ Wipes \/ Empties \/ DeploysOne \/ \E c \in Coordinate : Strikes(c)
<1>1. CASE EnterInit
  BY <1>1 DEF EnterInit, Blocked, Human, Wipes
<1>2. CASE RandomInit \/ BeginSetup("ship") \/ BeginSetup("post")
  BY <1>2 DEF RandomInit, BeginSetup, SetupAwaited, Blocked, Setups, Human, Empties
<1>3. CASE ShipHeld \/ SetupShipHeld
  BY <1>3 DEF ShipHeld, SetupShipHeld, Blocked, Human
<1>4. ASSUME NEW place \in Places, DrawShip(place)
      PROVE  DeploysOne
  <2>1. place[1] \in Index /\ place[2] \in Index /\ place[3] \in BOOLEAN
    BY Inputs
  <2> QED BY <1>4, <2>1, DrawShipDeploys DEF DeploysOne
<1>5. ASSUME NEW request \in Requests, NEW i \in DOMAIN ship_lengths,
             SetupShip(request, ship_lengths[i]) \/ PostShip(request, ship_lengths[i])
      PROVE  DeploysOne
  <2>1. PICK place \in Index \X Index \X BOOLEAN : Deploys(place[1], place[2], ship_lengths[i], place[3])
    BY <1>5, SetupShipDeploys
  <2>2. place[1] \in Index /\ place[2] \in Index /\ place[3] \in BOOLEAN
    OBVIOUS
  <2> QED BY <2>1, <2>2 DEF DeploysOne
<1>6. ASSUME NEW c \in Coordinate, OpponentShot(c)
      PROVE  Strikes(c)
  BY <1>6 DEF OpponentShot, Conclude, Blocked, Human, Strikes
<1>7. CASE LeaveInit \/ WebInit \/ GiveUpShip \/ DrawOpponent \/ LeaveRandomInit \/ AwaitButton \/ NoButton
  BY <1>7 DEF LeaveInit, WebInit, GiveUpShip, DrawOpponent, LeaveRandomInit, AwaitButton, NoButton, game,
              Blocked, Human
<1>8. ASSUME NEW c \in Coordinate, Button(c)
      PROVE  UNCHANGED Human
  BY <1>8 DEF Button, Blocked, Human
<1>9. CASE AwaitOpponent \/ ShipSunk \/ EnterGameOver \/ LeaveGameOver
  BY <1>9 DEF AwaitOpponent, ShipSunk, Conclude, EnterGameOver, LeaveGameOver, game, Blocked, Human
<1>10. CASE EnterRestart \/ ClearBoat \/ LeaveRestart
  BY <1>10 DEF EnterRestart, ClearBoat, LeaveRestart, game, Blocked, Human
<1>11. CASE RequestRandom \/ PostShipHeld \/ FinishSetup \/ Connect \/ RequestUpdate \/ RequestRestart
  BY <1>11 DEF RequestRandom, PostShipHeld, FinishSetup, Connect, RequestUpdate, RequestRestart, game, Human
<1>12. ASSUME NEW request \in Requests, NEW length, RejectShip(request, length)
       PROVE  UNCHANGED Human
  BY <1>12 DEF RejectShip, game, Human
<1>13. CASE UNCHANGED vars
  BY <1>13 DEF vars, game, Human
<1> QED
  BY <1>1, <1>2, <1>3, <1>4, <1>5, <1>6, <1>7, <1>8, <1>9, <1>10, <1>11, <1>12, <1>13
     DEF Next, Task, Steps, Server

\* The boats that the human's fleet counts are sound, and the slots that it does not count
\* hold boats of refused setups that are out of their way.
Whole(p) == Sound(p) /\ Loose(p)

LEMMA PutWhole ==
  ASSUME NEW p, Whole(p), p.boat_count < MAX_SHIPS,
         NEW row \in Index, NEW col \in Index, NEW length \in 1 .. GRID_SIZE,
         NEW horizontal \in BOOLEAN, can_place_ship(p.cells, row, col, length, horizontal),
         NEW q, q = Put(p, row, col, length, horizontal)
  PROVE  Whole(q)
<1> DEFINE r == place_ship(p, row, col, length, horizontal)
<1>1. Sound(p) /\ p \in Player
  BY DEF Whole, Sound
<1>2. Sound(q)
  BY <1>1, PutSound
<1>3. Loose(r) /\ r.boat_count = p.boat_count
  BY PlaceLoose DEF Whole
<1>4. q = [r EXCEPT !.boat_count = r.boat_count + 1]
  BY DEF Put
<1>5. p.boat_count + 1 \in 0 .. MAX_SHIPS + 1
  BY <1>1 DEF Player
<1> HIDE DEF r
<1> QED
  BY <1>2, <1>3, <1>4, <1>5, CountLoose DEF Whole

LEMMA EmptiedWhole ==
  ASSUME NEW p, Whole(p)
  PROVE  Whole(Emptied(p))
<1>1. p \in Player /\ Emptied(p) = [p EXCEPT !.boat_count = 0]
  BY DEF Whole, Sound, Emptied
<1>2. Sound(Emptied(p)) /\ 0 \in 0 .. MAX_SHIPS + 1
  BY <1>1, EmptiedSound
<1> QED
  BY <1>1, <1>2, CountLoose DEF Whole

LEMMA ShotWhole ==
  ASSUME NEW p, Whole(p), NEW c \in Coordinate, NEW q, q = AfterGuess(p, c)
  PROVE  Whole(q)
<1>1. p.boat_count <= MAX_SHIPS
  BY DEF Whole, Sound, Player
<1> QED
  BY <1>1, GuessSound, GuessLoose DEF Whole

LEMMA FreshWhole == Whole(FreshPlayer)
BY FreshSound, FreshLoose DEF Whole

LEMMA HumanWholeStep ==
  ASSUME Disciplined = TRUE, Blocked, Setups, Drawing, player \in Fleets, Whole(Human), [Next]_vars
  PROVE  Whole(Human')
<1>1. CASE Wipes
  BY <1>1, FreshWhole DEF Wipes
<1>2. CASE Empties
  BY <1>2, EmptiedWhole DEF Empties
<1>3. CASE DeploysOne
  <2>1. PICK row \in Index, col \in Index, i \in DOMAIN ship_lengths, horizontal \in BOOLEAN :
          Deploys(row, col, ship_lengths[i], horizontal)
    BY <1>3 DEF DeploysOne
  <2>2. ship_lengths[i] \in 1 .. GRID_SIZE
    BY Inputs
  <2> QED BY <2>1, <2>2, PutWhole DEF Deploys
<1>4. ASSUME NEW c \in Coordinate, Strikes(c)
      PROVE  Whole(Human')
  BY <1>4, ShotWhole DEF Strikes
<1>5. CASE UNCHANGED Human
  BY <1>5
<1> QED
  BY <1>1, <1>2, <1>3, <1>4, <1>5, HumanStep

LEMMA HumanAlways == ASSUME Disciplined = TRUE PROVE Safe => []Whole(Human)
<1>1. Init => Whole(Human)
  BY FreshWhole DEF Init, Human
<1>2. Blocked /\ Turns /\ Setups /\ Drawing /\ player \in Fleets /\ Whole(Human) /\ [Next]_vars => Whole(Human)'
  <2>1. Whole(Human') => Whole(Human)'
    BY DEF Whole, Sound, Layout, Counts, Sinks, Struck, LiveBoats, Loose, Kept, Apart
  <2> QED BY HumanWholeStep, <2>1
<1> QED
  BY <1>1, <1>2, BlockedAlways, SetupsAlways, DrawingAlways, FleetsAlways, PTL DEF Safe

\* While no ship is held, the fleet of the human is the one in the Game.
LEMMA HumanIsPlayer ==
  ASSUME Whole(Human), pc # "held", http # "held"
  PROVE  Whole(player)
BY DEF Human

\* The opponent's fleet is sound and shows no ship that is not there.
OpponentKept == Sound(opponent) /\ Owned(opponent)

LEMMA OpponentStep ==
  ASSUME Disciplined = TRUE, Blocked, Setups, OpponentKept, [Next]_vars
  PROVE  Sound(opponent') /\ Owned(opponent')
<1> USE DEF OpponentKept
<1>1. CASE EnterInit
  BY <1>1, FreshSound DEF EnterInit
<1>2. CASE WebInit \/ DrawOpponent
  <2>1. opponent = FreshPlayer /\ opponent' \in OpponentFleets(opponent)
    BY <1>2 DEF WebInit, DrawOpponent, Blocked, Setups, Undrawn
  <2> QED BY <2>1, FreshFacts, OpponentDeployed DEF Deployed
<1>3. ASSUME NEW c \in Coordinate, Button(c)
      PROVE  Sound(opponent') /\ Owned(opponent')
  BY <1>3, GuessSound DEF Button
<1>4. CASE UNCHANGED opponent
  BY <1>4
<1>5. ASSUME NEW c \in Coordinate, OpponentShot(c)
      PROVE  UNCHANGED opponent
  BY <1>5 DEF OpponentShot
<1>6. LeaveInit \/ RandomInit \/ ShipHeld \/ GiveUpShip \/ LeaveRandomInit \/ AwaitButton \/ NoButton
        => UNCHANGED opponent
  BY DEF LeaveInit, RandomInit, ShipHeld, GiveUpShip, LeaveRandomInit, AwaitButton, NoButton, game
<1>7. AwaitOpponent \/ ShipSunk \/ EnterGameOver \/ LeaveGameOver \/ EnterRestart \/ ClearBoat \/ LeaveRestart
        => UNCHANGED opponent
  BY DEF AwaitOpponent, ShipSunk, EnterGameOver, LeaveGameOver, EnterRestart, ClearBoat, LeaveRestart, game
<1>8. ASSUME NEW place \in Places, DrawShip(place)
      PROVE  UNCHANGED opponent
  BY <1>8 DEF DrawShip
<1>9. Server => UNCHANGED opponent
  BY DEF Server, RequestRandom, BeginSetup, SetupShip, SetupShipHeld, PostShip, PostShipHeld, RejectShip,
         FinishSetup, Connect, RequestUpdate, RequestRestart, game
<1>10. UNCHANGED vars => UNCHANGED opponent
  BY DEF vars, game
<1> QED
  BY <1>1, <1>2, <1>3, <1>4, <1>5, <1>6, <1>7, <1>8, <1>9, <1>10 DEF Next, Task, Steps

LEMMA OpponentAlways == ASSUME Disciplined = TRUE PROVE Safe => []OpponentKept
<1>1. Init => OpponentKept
  BY FreshSound DEF Init, OpponentKept
<1>2. Blocked /\ Turns /\ Setups /\ OpponentKept /\ [Next]_vars => OpponentKept'
  <2>1. Sound(opponent') /\ Owned(opponent') => OpponentKept'
    BY DEF OpponentKept, Sound, Owned, Layout, Counts, Sinks, Struck, LiveBoats, Owners
  <2> QED BY OpponentStep, <2>1
<1> QED
  BY <1>1, <1>2, BlockedAlways, SetupsAlways, PTL DEF Safe
-----------------------------------------------------------------------------
(***************************************************************************)
(* The notes of the computer.                                              *)
(***************************************************************************)
ShotAt(cells) == {c \in Coordinate : cells[c] \in Fired}

LEMMA SameCells ==
  ASSUME NEW p \in Fleets
  PROVE  Counted(p).cells = p.cells /\ Emptied(p).cells = p.cells
BY DEF Counted, Emptied, Fleets

\* A ship is put on cells that have not been shot at.
LEMMA DeployUnnoted ==
  ASSUME player \in Fleets, player' \in Fleets, Whole(Human), NEW row \in Index, NEW col \in Index,
         NEW length \in 1 .. GRID_SIZE, NEW horizontal \in BOOLEAN, Deploys(row, col, length, horizontal)
  PROVE  ShotAt(player'.cells) = ShotAt(player.cells)
<1> DEFINE q == Human'
<1>1. player \in Player
  BY DEF Deploys, Whole, Sound
<1>2. q.cells = player'.cells
  BY SameCells DEF Human
<1>3. q = Put(player, row, col, length, horizontal)
  BY DEF Deploys
<1> HIDE DEF q
<1>4. \A c \in Coordinate : q.cells[c] = IF c \in Span(row, col, length, horizontal)
                                         THEN "SHIP" ELSE player.cells[c]
  BY <1>1, <1>3, PutBoard DEF Deploys
<1>5. \A c \in Span(row, col, length, horizontal) \cap Coordinate : player.cells[c] = "EMPTY"
  BY DEF Deploys, can_place_ship
<1> QED
  BY <1>2, <1>4, <1>5 DEF ShotAt, Fired

\* Until both fleets are set up no shot has been fired; from then on the notes are the
\* board's, but for orphans.
Notes ==
  /\ Undrawn \/ pc = "settle" => ShotAt(player.cells) = {} /\ noted = {}
  /\ ~Restarting => ShotAt(player.cells) \ Orphans(player) = noted \cup ({aim} \ {NoCell})

\* Of the cells that the computer did not note, only orphans are answered with 0.
LEMMA ShotNoted ==
  ASSUME Disciplined = TRUE, Blocked, Setups, Whole(Human), Notes, NEW c \in Coordinate, OpponentShot(c)
  PROVE  /\ Whole(player) /\ aim = NoCell
         /\ GuessResult(player, c) = "0" <=> c \in Orphans(player)
         /\ ShotAt(player'.cells) = ShotAt(player.cells) \cup {c}
         /\ Orphans(player') = Orphans(player)
         /\ ShotAt(player.cells) \ Orphans(player) = noted
<1>1. pc = "opponent" /\ c \notin noted /\ player' = AfterGuess(player, c)
  BY DEF OpponentShot
<1>2. pc # "held" /\ http # "held" /\ aim = NoCell /\ ~Restarting
  BY <1>1 DEF Blocked, Setups, Restarting
<1>3. Whole(player) /\ player \in Player
  BY <1>2, HumanIsPlayer DEF Whole, Sound
<1>4. ShotAt(player.cells) \ Orphans(player) = noted
  BY <1>2 DEF Notes
<1>5. GuessResult(player, c) = "0" <=> c \in Orphans(player)
  BY <1>1, <1>3, <1>4, OrphanZero DEF ShotAt
<1>6. ShotAt(player'.cells) = ShotAt(player.cells) \cup {c}
  BY <1>1, <1>3, OneCellStruck DEF Whole, ShotAt
<1>7. Orphans(player') = Orphans(player)
  BY <1>1, <1>3, ShotOrphans DEF Whole
<1> QED
  BY <1>2, <1>3, <1>4, <1>5, <1>6, <1>7

\* No aim is no cell of the board.
LEMMA NoCellOff == NoCell \notin Coordinate
<1>1. \A S : \A c \in S \X S : c # <<>>
  OBVIOUS
<1> QED
  BY <1>1 DEF NoCell, Coordinate

LEMMA NotesStep ==
  ASSUME Disciplined = TRUE, Blocked, Setups, Setups', Drawing, player \in Fleets, player' \in Fleets,
         Whole(Human), Notes, [Next]_vars
  PROVE  Notes'
<1> USE DEF game
<1> DEFINE quiet == Undrawn \/ pc = "settle"
           calm  == ShotAt(player'.cells) = {} /\ noted' = {} /\ aim' = NoCell
           same  == UNCHANGED <<player, noted, aim>> /\ (quiet' => quiet) /\ (~Restarting' => ~Restarting)
<1>1. same => Notes'
  BY DEF Notes
<1>2. calm => Notes'
  BY DEF Notes
<1>3. CASE EnterInit
  <2>1. player' = FreshPlayer /\ noted' = {} /\ aim' = NoCell
    BY <1>3 DEF EnterInit, Setups
  <2>2. ShotAt(FreshPlayer.cells) = {}
    BY FreshFacts DEF ShotAt, EmptyCells, Fired
  <2> QED BY <1>2, <2>1, <2>2
<1>4. CASE LeaveInit
  <2>1. player' = FreshPlayer /\ noted' = {} /\ aim' = NoCell
    BY <1>4 DEF LeaveInit, Setups
  <2>2. ShotAt(FreshPlayer.cells) = {}
    BY FreshFacts DEF ShotAt, EmptyCells, Fired
  <2> QED BY <1>2, <2>1, <2>2
<1>5. CASE WebInit \/ GiveUpShip \/ DrawOpponent \/ LeaveRandomInit \/ AwaitButton \/ NoButton \/ AwaitOpponent
  <2>1. same
    BY <1>5 DEF WebInit, GiveUpShip, DrawOpponent, LeaveRandomInit, AwaitButton, NoButton, AwaitOpponent,
                Blocked, Undrawn, Restarting
  <2> QED BY <1>1, <2>1
<1>6. ASSUME quiet, ShotAt(player'.cells) = ShotAt(player.cells), UNCHANGED <<noted, aim>>, pc # "sinking"
      PROVE  Notes'
  <2>1. calm
    BY <1>6 DEF Notes, Setups
  <2> QED BY <1>2, <2>1
<1>7. CASE RandomInit \/ BeginSetup("ship") \/ BeginSetup("post") \/ ShipHeld \/ SetupShipHeld
  <2>1. player'.cells = player.cells
    BY <1>7, SameCells DEF RandomInit, BeginSetup, ShipHeld, SetupShipHeld
  <2>2. quiet /\ pc # "sinking" /\ UNCHANGED <<noted, aim>>
    BY <1>7 DEF RandomInit, BeginSetup, SetupAwaited, ShipHeld, SetupShipHeld, Blocked, Undrawn
  <2> HIDE DEF quiet
  <2> QED BY <1>6, <2>1, <2>2
<1>8. ASSUME NEW place \in Places, DrawShip(place)
      PROVE  Notes'
  <2>1. place[1] \in Index /\ place[2] \in Index /\ place[3] \in BOOLEAN
    BY Inputs
  <2>2. Deploys(place[1], place[2], ship_lengths[next], place[3]) /\ ship_lengths[next] \in 1 .. GRID_SIZE
    BY <1>8, DrawShipDeploys, Inputs
  <2>3. ShotAt(player'.cells) = ShotAt(player.cells)
    BY <2>1, <2>2, DeployUnnoted
  <2>4. quiet /\ pc # "sinking" /\ UNCHANGED <<noted, aim>>
    BY <1>8 DEF DrawShip, Undrawn
  <2> HIDE DEF quiet
  <2> QED BY <1>6, <2>3, <2>4
<1>9. ASSUME NEW request \in Requests, NEW i \in DOMAIN ship_lengths,
             SetupShip(request, ship_lengths[i]) \/ PostShip(request, ship_lengths[i])
      PROVE  Notes'
  <2>1. PICK place \in Index \X Index \X BOOLEAN : Deploys(place[1], place[2], ship_lengths[i], place[3])
    BY <1>9, SetupShipDeploys
  <2>2. place[1] \in Index /\ place[2] \in Index /\ place[3] \in BOOLEAN
    OBVIOUS
  <2>3. ship_lengths[i] \in 1 .. GRID_SIZE
    BY Inputs
  <2>4. ShotAt(player'.cells) = ShotAt(player.cells)
    BY <2>1, <2>2, <2>3, DeployUnnoted
  <2>5. quiet /\ pc # "sinking" /\ UNCHANGED <<noted, aim>>
    BY <1>9 DEF SetupShip, PostShip, Blocked, Undrawn
  <2> HIDE DEF quiet
  <2> QED BY <1>6, <2>4, <2>5
<1>10. ASSUME NEW c \in Coordinate, OpponentShot(c)
      PROVE  Notes'
  <2>1. /\ aim = NoCell /\ Orphans(player') = Orphans(player)
        /\ ShotAt(player'.cells) = ShotAt(player.cells) \cup {c}
        /\ ShotAt(player.cells) \ Orphans(player) = noted
        /\ GuessResult(player, c) = "0" <=> c \in Orphans(player)
    BY <1>10, ShotNoted
  <2>2. c # NoCell
    BY NoCellOff
  <2>3. \/ GuessResult(player, c) # "0" /\ noted' = noted /\ aim' = c
        \/ GuessResult(player, c) # "0" /\ noted' = noted \cup {c} /\ aim' = NoCell
        \/ GuessResult(player, c) = "0" /\ noted' = noted /\ aim' = NoCell
    BY <1>10, <2>1 DEF OpponentShot, Conclude
  <2>4. ShotAt(player'.cells) \ Orphans(player') = noted' \cup ({aim'} \ {NoCell})
    <3> HIDE DEF NoCell
    <3> QED BY <2>1, <2>2, <2>3
  <2>5. pc = "opponent" /\ pc' \in {"loop", "sinking"}
        /\ state' \in {state, "GAME_OVER", "WAITING_FOR_PLAYER"}
    BY <1>10 DEF OpponentShot, Conclude, Judge
  <2>6. ~quiet'
    BY <2>5 DEF Blocked, Undrawn
  <2> QED BY <2>4, <2>6 DEF Notes
<1>11. CASE ShipSunk
  <2>1. aim \in Coordinate /\ pc = "sinking" /\ ~Restarting
    BY <1>11 DEF ShipSunk, Setups, Restarting
  <2>2. aim # NoCell
    BY <2>1, NoCellOff
  <2>3. noted' = noted \cup {aim} /\ aim' = NoCell /\ player' = player
    BY <1>11 DEF ShipSunk, Conclude
  <2>4. ShotAt(player'.cells) \ Orphans(player') = noted' \cup ({aim'} \ {NoCell})
    <3> HIDE DEF NoCell
    <3> QED BY <2>1, <2>2, <2>3 DEF Notes
  <2>5. ~quiet'
    BY <1>11 DEF ShipSunk, Conclude, Judge, Undrawn
  <2> QED BY <2>4, <2>5 DEF Notes
<1>12. ASSUME NEW c \in Coordinate, Button(c)
       PROVE  Notes'
  <2>1. same
    BY <1>12 DEF Button, Blocked, Undrawn, Restarting
  <2> QED BY <1>1, <2>1
<1>13. CASE EnterGameOver \/ LeaveGameOver \/ LeaveRestart
  <2>1. same
    BY <1>13 DEF EnterGameOver, LeaveGameOver, LeaveRestart, Blocked, Undrawn, Restarting
  <2> QED BY <1>1, <2>1
<1>14. CASE EnterRestart \/ ClearBoat
  BY <1>14 DEF EnterRestart, ClearBoat, Notes, Undrawn, Restarting
<1>15. CASE RequestRandom \/ PostShipHeld \/ FinishSetup \/ Connect \/ RequestUpdate \/ RequestRestart
  <2>1. same
    BY <1>15 DEF RequestRandom, SetupAwaited, PostShipHeld, FinishSetup, Connect, RequestUpdate, RequestRestart,
                 Undrawn, Restarting
  <2> QED BY <1>1, <2>1
<1>16. ASSUME NEW request \in Requests, NEW length, RejectShip(request, length)
       PROVE  Notes'
  <2>1. same
    BY <1>16 DEF RejectShip, Undrawn, Restarting
  <2> QED BY <1>1, <2>1
<1>17. CASE UNCHANGED vars
  <2>1. same
    BY <1>17 DEF vars, Undrawn, Restarting
  <2> QED BY <1>1, <2>1
<1> HIDE DEF same, calm, quiet
<1> QED
  BY <1>3, <1>4, <1>5, <1>7, <1>8, <1>9, <1>10, <1>11, <1>12, <1>13, <1>14, <1>15, <1>16, <1>17
     DEF Next, Task, Steps, Server

LEMMA NotesAlways == ASSUME Disciplined = TRUE PROVE Safe => []Notes
<1>1. Init => Notes
  <2>1. ShotAt(FreshPlayer.cells) = {}
    BY FreshFacts DEF ShotAt, EmptyCells, Fired
  <2> QED BY <2>1 DEF Init, Notes
<1>2. /\ Blocked /\ Turns /\ Setups /\ Setups' /\ Drawing /\ player \in Fleets /\ (player \in Fleets)'
      /\ Whole(Human) /\ Notes /\ [Next]_vars
      => Notes'
  BY NotesStep
<1> QED
  BY <1>1, <1>2, BlockedAlways, SetupsAlways, DrawingAlways, FleetsAlways, HumanAlways, PTL DEF Safe

\* What the computer remembers of its shots is what the board shows of them, but for the
\* orphans of refused setups, for every board and fleet and whatever restarts and setups
\* come between.
THEOREM NotesAgree == ASSUME Disciplined = TRUE PROVE Spec => []NotesMatchBoard
<1>1. Notes => NotesMatchBoard
  BY DEF Notes, NotesMatchBoard, ShotAt
<1> QED
  BY <1>1, NotesAlways, SpecSafe, PTL
-----------------------------------------------------------------------------
(***************************************************************************)
(* The end of a game.                                                      *)
(***************************************************************************)
LEMMA LoserStep ==
  ASSUME Disciplined = TRUE, Blocked, Setups, Whole(Human), OpponentKept, Notes, LoserSunk, [Next]_vars
  PROVE  LoserSunk'
<1> USE DEF game
<1>1. ASSUME NEW target, Sound(target), target = player', Judge(target), UNCHANGED opponent
      PROVE  LoserSunk'
  <2>1. CASE state' = "GAME_OVER"
    <3>1. all_ships_sunk(target) /\ turn' = 0 /\ view' = send_ws_result(view, "opponent")
      BY <1>1, <2>1 DEF Judge
    <3>2. {c \in Coordinate : player'.cells[c] = "SHIP"} \subseteq Orphans(player')
      BY <1>1, <3>1, SunkShowsOrphans
    <3>3. view'.type = "result" => view'.winner = "opponent"
      BY <3>1 DEF send_ws_result, NoPage
    <3> QED BY <3>1, <3>2, <3>3 DEF LoserSunk
  <2> QED BY <2>1 DEF LoserSunk
<1>2. ASSUME NEW c \in Coordinate, OpponentShot(c)
      PROVE  LoserSunk'
  <2>1. Whole(player)
    BY <1>2, ShotNoted
  <2>2. player' = AfterGuess(player, c) /\ UNCHANGED opponent /\ pc = "opponent"
    BY <1>2 DEF OpponentShot
  <2>3. Sound(player')
    BY <2>1, <2>2, ShotWhole DEF Whole
  <2>4. CASE GuessResult(player, c) \in {"S", "0"}
    BY <2>2, <2>4, <1>2 DEF OpponentShot, Conclude, Blocked, LoserSunk
  <2>5. CASE GuessResult(player, c) \notin {"S", "0"}
    <3>1. Judge(player')
      BY <1>2, <2>5 DEF OpponentShot, Conclude
    <3> QED BY <1>1, <2>2, <2>3, <3>1
  <2> QED BY <2>4, <2>5
<1>3. CASE ShipSunk
  <2>1. Judge(player) /\ UNCHANGED <<player, opponent>> /\ pc = "sinking"
    BY <1>3 DEF ShipSunk, Conclude
  <2>2. Whole(player)
    BY <2>1, HumanIsPlayer DEF Blocked
  <2> QED BY <1>1, <2>1, <2>2 DEF Whole
<1>4. ASSUME NEW c \in Coordinate, Button(c)
      PROVE  LoserSunk'
  <2>1. Sound(opponent') /\ Owned(opponent')
    BY <1>4, GuessSound DEF Button, OpponentKept
  <2>2. CASE GuessResult(opponent, c) = "0"
    <3>1. state' # "GAME_OVER"
      BY <1>4, <2>2 DEF Button, Blocked
    <3> QED BY <3>1 DEF LoserSunk
  <2>3. CASE GuessResult(opponent, c) # "0"
    <3>1. CASE state' = "GAME_OVER"
      <4>1. all_ships_sunk(opponent') /\ turn' = 1 /\ view' = send_ws_result(view, "player")
        BY <1>4, <2>3, <3>1 DEF Button
      <4>2. (\A x \in Coordinate : opponent'.cells[x] # "SHIP") /\ Orphans(opponent') = {}
        BY <2>1, <4>1, SunkShowsNone, OwnedNoOrphans
      <4>3. view'.type = "result" => view'.winner = "player"
        BY <4>1 DEF send_ws_result, NoPage
      <4> QED BY <4>1, <4>2, <4>3 DEF LoserSunk
    <3> QED BY <3>1 DEF LoserSunk
  <2> QED BY <2>2, <2>3
<1> DEFINE same == UNCHANGED <<player, opponent, turn, view>> /\ (state' = "GAME_OVER" => state = "GAME_OVER")
<1>5. same => LoserSunk'
  BY DEF LoserSunk
<1>6. state' # "GAME_OVER" => LoserSunk'
  BY DEF LoserSunk
<1>7. EnterInit \/ LeaveInit \/ WebInit \/ RandomInit \/ ShipHeld \/ GiveUpShip \/ DrawOpponent \/ LeaveRandomInit
        => state' # "GAME_OVER"
  BY DEF EnterInit, LeaveInit, WebInit, RandomInit, ShipHeld, GiveUpShip, DrawOpponent, LeaveRandomInit, Blocked
<1>8. AwaitButton \/ NoButton \/ AwaitOpponent \/ EnterGameOver \/ LeaveGameOver \/ EnterRestart \/ ClearBoat
        \/ LeaveRestart => same
  BY DEF AwaitButton, NoButton, AwaitOpponent, EnterGameOver, LeaveGameOver, EnterRestart, ClearBoat, LeaveRestart, screens
<1>9. ASSUME NEW place \in Places, DrawShip(place)
      PROVE  LoserSunk'
  BY <1>6, <1>9 DEF DrawShip, Blocked
<1>10. RequestRandom \/ BeginSetup("ship") \/ BeginSetup("post") \/ SetupShipHeld \/ PostShipHeld \/ FinishSetup
         \/ RequestRestart => state' # "GAME_OVER"
  BY DEF RequestRandom, BeginSetup, SetupAwaited, SetupShipHeld, PostShipHeld, FinishSetup, RequestRestart, Blocked
<1>11. ASSUME NEW request \in Requests, NEW length,
              SetupShip(request, length) \/ PostShip(request, length) \/ RejectShip(request, length)
       PROVE  LoserSunk'
  <2>1. state' # "GAME_OVER"
    BY <1>11 DEF SetupShip, PostShip, RejectShip, Blocked
  <2> QED BY <1>6, <2>1
<1>12. CASE Connect \/ RequestUpdate
  <2>1. view'.type # "result"
    <3>1. CASE Connect
      BY <3>1 DEF Connect, BlankPage
    <3>2. CASE RequestUpdate
      <4>1. PICK mine, theirs, whose : view' = [type |-> "update", player |-> mine, opponent |-> theirs, turn |-> whose]
        BY <3>2 DEF RequestUpdate, send_ws_game_update
      <4> QED BY <4>1
    <3> QED BY <1>12, <3>1, <3>2
  <2>2. UNCHANGED <<player, opponent, turn, state>>
    BY <1>12 DEF Connect, RequestUpdate
  <2> QED BY <2>1, <2>2 DEF LoserSunk
<1>13. UNCHANGED vars => same
  BY DEF vars, screens
<1> HIDE DEF same
<1> QED
  BY <1>2, <1>3, <1>4, <1>5, <1>6, <1>7, <1>8, <1>9, <1>10, <1>11, <1>12, <1>13
     DEF Next, Task, Steps, Server

\* A game is declared over for a side that has no ship cell left but orphans, and the page is
\* told that the other one won, for every board and every pair of fleets.
THEOREM OverWhenSunk == ASSUME Disciplined = TRUE PROVE Spec => []LoserSunk
<1>1. Init => LoserSunk
  BY DEF Init, LoserSunk
<1>2. /\ Blocked /\ Turns /\ Setups /\ Whole(Human) /\ OpponentKept /\ Notes /\ LoserSunk /\ [Next]_vars
      => LoserSunk'
  BY LoserStep
<1> QED
  BY <1>1, <1>2, BlockedAlways, SetupsAlways, HumanAlways, OpponentAlways, NotesAlways, SpecSafe, PTL DEF Safe
-----------------------------------------------------------------------------
(***************************************************************************)
(* The two screens: the LED matrices and the page.                         *)
(***************************************************************************)
Matrices == {OPPONENT_MATRIX, PLAYER_MATRIX}

\* The panel that shows both boards, whatever it showed before.
Lit(mine, theirs) ==
  [m \in Matrices |-> IF m = OPPONENT_MATRIX THEN [c \in Coordinate |-> Shade(theirs[c], FALSE)]
                      ELSE [c \in Coordinate |-> Shade(mine[c], TRUE)]]

LEMMA BothBoardsShown ==
  ASSUME NEW X, NEW panel \in [Matrices -> X], NEW mine, NEW theirs
  PROVE  BothBoards(panel, mine, theirs) = Lit(mine, theirs)
<1> DEFINE a == [c \in Coordinate |-> Shade(mine[c], TRUE)]
           b == [c \in Coordinate |-> Shade(theirs[c], FALSE)]
<1>1. BothBoards(panel, mine, theirs) =
        [[panel EXCEPT ![PLAYER_MATRIX] = a] EXCEPT ![OPPONENT_MATRIX] = b]
  BY DEF BothBoards, render_board_to_matrix
<1>2. Lit(mine, theirs) = [m \in Matrices |-> IF m = OPPONENT_MATRIX THEN b ELSE a]
  BY DEF Lit
<1> HIDE DEF a, b
<1>3. [[panel EXCEPT ![PLAYER_MATRIX] = a] EXCEPT ![OPPONENT_MATRIX] = b] =
        [m \in Matrices |-> IF m = OPPONENT_MATRIX THEN b ELSE a]
  BY DEF Matrices, OPPONENT_MATRIX, PLAYER_MATRIX
<1> QED
  BY <1>1, <1>2, <1>3

\* The opponent's matrix stays blue when its fleet is deployed.
LEMMA SetupShown ==
  ASSUME NEW mine, NEW theirs, \A c \in Coordinate : theirs[c] \in {"EMPTY", "SHIP"}
  PROVE  render_board_to_matrix(led_matrix_init, mine, PLAYER_MATRIX, TRUE) = Lit(mine, theirs)
<1> DEFINE a == [c \in Coordinate |-> Shade(mine[c], TRUE)]
           b == [c \in Coordinate |-> Shade(theirs[c], FALSE)]
           blue == [c \in Coordinate |-> "BLUE"]
<1>1. \A c \in Coordinate : Shade(theirs[c], FALSE) = "BLUE"
  BY Zenon DEF Shade
<1>2. b = blue
  BY <1>1
<1>3. render_board_to_matrix(led_matrix_init, mine, PLAYER_MATRIX, TRUE) =
        [[m \in Matrices |-> blue] EXCEPT ![PLAYER_MATRIX] = a]
  BY DEF render_board_to_matrix, led_matrix_init, Matrices
<1>4. Lit(mine, theirs) = [m \in Matrices |-> IF m = OPPONENT_MATRIX THEN b ELSE a]
  BY DEF Lit
<1> HIDE DEF a, b, blue
<1>5. [[m \in Matrices |-> blue] EXCEPT ![PLAYER_MATRIX] = a] =
        [m \in Matrices |-> IF m = OPPONENT_MATRIX THEN blue ELSE a]
  BY DEF Matrices, OPPONENT_MATRIX, PLAYER_MATRIX
<1> QED
  BY <1>2, <1>3, <1>4, <1>5

Colours == {"RED", "GREEN", "BLUE", "CYAN"}
Panels  == [Matrices -> [Coordinate -> Colours]]

LEMMA ShadeColour == ASSUME NEW cell, NEW reveal \in BOOLEAN PROVE Shade(cell, reveal) \in Colours
<1>1. CASE cell = "SHIP"
  BY <1>1, Zenon DEF Shade, Colours
<1>2. CASE cell # "SHIP" /\ cell \in {"HIT", "SUNK"}
  <2>1. Shade(cell, reveal) = "RED"
    BY <1>2 DEF Shade
  <2> QED BY <2>1 DEF Colours
<1>3. CASE cell = "MISS"
  <2>1. Shade(cell, reveal) = "GREEN"
    BY <1>3 DEF Shade
  <2> QED BY <2>1 DEF Colours
<1>4. CASE cell \notin {"SHIP", "HIT", "SUNK", "MISS"}
  <2>1. Shade(cell, reveal) = "BLUE"
    BY <1>4 DEF Shade
  <2> QED BY <2>1 DEF Colours
<1> QED
  BY <1>1, <1>2, <1>3, <1>4

LEMMA ShownPanel ==
  ASSUME NEW mine, NEW theirs
  PROVE  Lit(mine, theirs) \in Panels /\ led_matrix_init \in Panels
<1>1. \A m \in Matrices : Lit(mine, theirs)[m] \in [Coordinate -> Colours]
  BY ShadeColour DEF Lit
<1>2. led_matrix_init \in Panels
  BY DEF led_matrix_init, Panels, Colours, Matrices
<1> QED
  BY <1>1, <1>2 DEF Panels, Lit

\* A game is on: the boards are set up, and no sunk ship waits to be concluded.
Fighting ==
  /\ pc # "sinking"
  /\ \/ state \in {"WAITING_FOR_PLAYER", "WAITING_FOR_OPPONENT"}
     \/ pc \in {"button", "opponent", "settle"}

Told(mine, theirs, whose) ==
  [type |-> "update", player |-> board_to_json(mine.cells, TRUE),
   opponent |-> board_to_json(theirs.cells, FALSE), turn |-> whose]

Begun(cells) == \E c \in Coordinate : cells[c] \in Fired

\* A panel, and a page, that show both boards but for the orphans of the human.
LitBut(panel, mine, theirs) ==
  LET now == Lit(mine.cells, theirs.cells)
  IN  /\ panel[OPPONENT_MATRIX] = now[OPPONENT_MATRIX]
      /\ \A c \in Coordinate \ Orphans(mine) : panel[PLAYER_MATRIX][c] = now[PLAYER_MATRIX][c]

ToldBut(shown, mine, theirs, whose) ==
  /\ shown = [type |-> "update", player |-> shown.player,
              opponent |-> board_to_json(theirs.cells, FALSE), turn |-> whose]
  /\ \A c \in Coordinate :
       shown.player[c] = board_to_json(mine.cells, TRUE)[c] \/ Turned(c) \in Orphans(mine)

LEMMA Exactly ==
  ASSUME NEW mine, NEW theirs, NEW whose
  PROVE  /\ LitBut(Lit(mine.cells, theirs.cells), mine, theirs)
         /\ ToldBut(Told(mine, theirs, whose), mine, theirs, whose)
BY DEF LitBut, ToldBut, Told

\* A shot at an orphan changes nothing else.
LEMMA OrphanShot ==
  ASSUME NEW p, Sound(p), NEW c \in Orphans(p), NEW q, q = AfterGuess(p, c), NEW panel,
         NEW shown, NEW theirs, NEW whose
  PROVE  /\ LitBut(panel, p, theirs) => LitBut(panel, q, theirs)
         /\ ToldBut(shown, p, theirs, whose) => ToldBut(shown, q, theirs, whose)
<1>1. p \in Player /\ c \in Coordinate /\ Orphans(q) = Orphans(p)
  BY ShotOrphans DEF Sound, Orphans
<1>2. \A x \in Coordinate \ Orphans(p) : q.cells[x] = p.cells[x]
  BY <1>1, OrphanZero, MissFacts
<1>3. LitBut(panel, p, theirs) => LitBut(panel, q, theirs)
  <2>1. Lit(q.cells, theirs.cells)[OPPONENT_MATRIX] = Lit(p.cells, theirs.cells)[OPPONENT_MATRIX]
    BY DEF Lit, Matrices
  <2>2. \A x \in Coordinate \ Orphans(p) :
          Lit(q.cells, theirs.cells)[PLAYER_MATRIX][x] = Lit(p.cells, theirs.cells)[PLAYER_MATRIX][x]
    BY <1>2 DEF Lit, Matrices, OPPONENT_MATRIX, PLAYER_MATRIX
  <2> QED BY <1>1, <2>1, <2>2 DEF LitBut
<1>4. ToldBut(shown, p, theirs, whose) => ToldBut(shown, q, theirs, whose)
  <2>1. \A x \in Coordinate : Turned(x) \in Coordinate
    BY DEF Turned, Coordinate, Index
  <2>2. \A x \in Coordinate : Turned(x) \notin Orphans(p) =>
          board_to_json(q.cells, TRUE)[x] = board_to_json(p.cells, TRUE)[x]
    BY <1>2, <2>1 DEF board_to_json
  <2> QED BY <1>1, <2>2 DEF ToldBut
<1> QED
  BY <1>3, <1>4

\* The LEDs follow both boards from the beginning of a game on; the page does from the
\* first shot on, or from the first message after it was opened.
Screens ==
  /\ leds \in Panels
  /\ Undrawn => leds = led_matrix_init
  /\ Fighting => LitBut(leds, player, opponent)
  /\ Fighting /\ Begun(opponent.cells) /\ view # NoPage /\ view # BlankPage =>
       ToldBut(view, player, opponent, turn)
  /\ pc = "button" => turn = 0
  /\ pc \in {"opponent", "sinking"} => turn = 1

LEMMA SameShown ==
  ASSUME NEW p \in Player, NEW c \in Coordinate, GuessResult(p, c) = "0", Owned(p)
  PROVE  AfterGuess(p, c).cells = p.cells
<1> DEFINE q == AfterGuess(p, c)
<1>1. q \in Player /\ \A x \in Coordinate : q.cells[x] = IF x = c THEN Mark(p.cells[c]) ELSE p.cells[x]
  BY MissFacts
<1>2. p.cells[c] \in Fired
  BY ZeroOnlyFired
<1>3. Mark(p.cells[c]) = p.cells[c]
  BY <1>2 DEF Mark, Fired
<1> HIDE DEF q
<1>4. \A x \in Coordinate : q.cells[x] = p.cells[x]
  BY <1>1, <1>3
<1>5. q.cells \in [Coordinate -> CellState] /\ p.cells \in [Coordinate -> CellState]
  BY <1>1 DEF Player
<1>6. q.cells = p.cells
  BY <1>4, <1>5
<1> QED
  BY <1>6 DEF q

\* The opponent's shot, once it is answered, brings both screens up to date.
LEMMA JudgeScreens ==
  ASSUME leds \in Panels, NEW target, player' = target, Judge(target), pc' = "loop", UNCHANGED opponent
  PROVE  Screens'
<1>1. leds' = Lit(player'.cells, opponent'.cells) /\ turn' = 0
  BY BothBoardsShown DEF Judge, Panels
<1>2. leds' \in Panels
  BY <1>1, ShownPanel
<1>3. CASE state' = "GAME_OVER"
  BY <1>1, <1>2, <1>3 DEF Screens, Fighting, Undrawn
<1>4. CASE state' # "GAME_OVER"
  <2>1. view' = send_ws_game_update(view, target, opponent, 0) /\ state' = "WAITING_FOR_PLAYER"
    BY <1>4 DEF Judge
  <2>2. view' = NoPage \/ view' = Told(player', opponent', turn')
    BY <1>1, <2>1 DEF send_ws_game_update, Told
  <2>3. /\ LitBut(leds', player', opponent')
        /\ view' = NoPage \/ ToldBut(view', player', opponent', turn')
    BY <1>1, <2>2, Exactly
  <2> HIDE DEF NoPage
  <2> QED BY <1>1, <1>2, <2>1, <2>3 DEF Screens, Fighting, Undrawn
<1> QED
  BY <1>3, <1>4

LEMMA ScreensStep ==
  ASSUME Disciplined = TRUE, Blocked, Turns, Setups, Whole(Human), OpponentKept, Notes, Screens, [Next]_vars
  PROVE  Screens'
<1> USE DEF game, screens, Undrawn
<1>1. CASE EnterInit
  BY <1>1, ShownPanel DEF EnterInit, Screens, Fighting
<1>2. CASE LeaveInit
  BY <1>2 DEF LeaveInit, Screens, Fighting
<1>3. CASE WebInit \/ DrawOpponent
  <2>1. opponent = FreshPlayer /\ opponent' \in OpponentFleets(opponent)
    BY <1>3 DEF WebInit, DrawOpponent, Blocked, Setups
  <2>2. \A c \in Coordinate : opponent'.cells[c] \in {"EMPTY", "SHIP"}
    BY <2>1, FreshFacts, OpponentDeployed DEF Deployed
  <2>3. leds' = render_board_to_matrix(led_matrix_init, player.cells, PLAYER_MATRIX, TRUE)
        /\ UNCHANGED <<player, turn>>
    BY <1>3 DEF WebInit, DrawOpponent, Blocked, Screens
  <2>4. leds' = Lit(player'.cells, opponent'.cells)
    BY <2>2, <2>3, SetupShown
  <2>5. LitBut(leds', player', opponent')
    BY <2>4, Exactly
  <2>6. ~Begun(opponent'.cells)
    BY <2>2 DEF Begun, Fired
  <2>7. pc' \notin {"init", "button", "opponent", "sinking"}
        /\ ~Undrawn'
    BY <1>3 DEF WebInit, DrawOpponent
  <2> QED BY <2>4, <2>5, <2>6, <2>7, ShownPanel DEF Screens
<1>4. CASE RandomInit \/ ShipHeld \/ GiveUpShip
  BY <1>4 DEF RandomInit, ShipHeld, GiveUpShip, Screens, Fighting, Blocked
<1>5. CASE LeaveRandomInit \/ AwaitButton \/ NoButton \/ AwaitOpponent
  BY <1>5 DEF LeaveRandomInit, AwaitButton, NoButton, AwaitOpponent, Screens, Fighting, Blocked, Turns
<1>6. CASE ShipSunk
  <2>1. Judge(player) /\ pc' = "loop" /\ UNCHANGED <<player, opponent>>
    BY <1>6 DEF ShipSunk, Conclude
  <2> QED BY <2>1, JudgeScreens DEF Screens
<1>7. CASE EnterGameOver \/ LeaveGameOver \/ EnterRestart \/ ClearBoat \/ LeaveRestart
  BY <1>7 DEF EnterGameOver, LeaveGameOver, EnterRestart, ClearBoat, LeaveRestart, Screens, Fighting, Blocked
<1>8. ASSUME NEW place \in Places, DrawShip(place)
      PROVE  Screens'
  BY <1>8 DEF DrawShip, Screens, Fighting, Blocked
<1>9. ASSUME NEW c \in Coordinate, Button(c)
      PROVE  Screens'
  <2>1. pc = "button" /\ pc' = "loop" /\ opponent' = AfterGuess(opponent, c) /\ UNCHANGED player /\ Fighting
    BY <1>9 DEF Button, Fighting
  <2>2. state' \notin {"WEB_INIT", "RANDOM_INIT"}
    BY <1>9 DEF Button, Blocked
  <2>3. CASE GuessResult(opponent, c) = "0"
    <3>1. UNCHANGED <<turn, leds, view, state>>
      BY <1>9, <2>3 DEF Button
    <3>2. opponent'.cells = opponent.cells
      BY <2>1, <2>3, SameShown DEF OpponentKept, Sound
    <3>3. /\ LitBut(leds, player, opponent) => LitBut(leds', player', opponent')
          /\ ToldBut(view, player, opponent, turn) => ToldBut(view', player', opponent', turn')
      BY <2>1, <3>1, <3>2 DEF Told, LitBut, ToldBut
    <3> QED BY <2>1, <2>2, <3>1, <3>2, <3>3 DEF Screens
  <2>4. CASE GuessResult(opponent, c) # "0"
    <3>1. leds' = Lit(player'.cells, opponent'.cells) /\ turn' = 1
      <4>1. leds' = BothBoards(leds, player.cells, opponent'.cells) /\ turn' = 1
        BY <1>9, <2>4 DEF Button
      <4>2. leds \in [Matrices -> [Coordinate -> Colours]]
        BY DEF Screens, Panels
      <4> QED BY <2>1, <4>1, <4>2, BothBoardsShown
    <3>2. LitBut(leds', player', opponent') /\ leds' \in Panels
      BY <3>1, Exactly, ShownPanel
    <3>3. CASE state' = "GAME_OVER"
      BY <2>1, <3>1, <3>3, <3>2 DEF Screens, Fighting
    <3>4. CASE state' # "GAME_OVER"
      <4>1. view' = send_ws_game_update(view, player, opponent', 1)
        BY <1>9, <2>4, <3>4 DEF Button
      <4>2. view' = NoPage \/ view' = Told(player', opponent', turn')
        BY <2>1, <3>1, <4>1 DEF send_ws_game_update, Told
      <4>3. view' = NoPage \/ ToldBut(view', player', opponent', turn')
        BY <4>2, Exactly
      <4> HIDE DEF NoPage
      <4> QED BY <2>1, <2>2, <3>1, <3>2, <4>3 DEF Screens
    <3> QED BY <3>3, <3>4
  <2> QED BY <2>3, <2>4
<1>10. ASSUME NEW c \in Coordinate, OpponentShot(c)
       PROVE  Screens'
  <2>1. /\ pc = "opponent" /\ player' = AfterGuess(player, c) /\ Sound(player)
        /\ GuessResult(player, c) = "0" <=> c \in Orphans(player)
    BY <1>10, ShotNoted DEF OpponentShot, Whole
  <2>2. CASE GuessResult(player, c) = "S"
    BY <1>10, <2>2 DEF OpponentShot, Screens, Fighting, Blocked
  <2>3. CASE GuessResult(player, c) = "0"
    <3>1. UNCHANGED <<state, turn, opponent, leds, view>> /\ pc' = "loop" /\ Fighting
          /\ state' \notin {"WEB_INIT", "RANDOM_INIT"}
      BY <1>10, <2>3 DEF OpponentShot, Conclude, Fighting, Blocked
    <3>2. /\ LitBut(leds, player, opponent) => LitBut(leds, player', opponent)
          /\ ToldBut(view, player, opponent, turn) => ToldBut(view, player', opponent, turn)
      BY <2>1, <2>3, OrphanShot
    <3> QED BY <3>1, <3>2 DEF Screens
  <2>4. CASE GuessResult(player, c) \notin {"S", "0"}
    <3>1. Judge(player') /\ pc' = "loop" /\ UNCHANGED opponent
      BY <1>10, <2>4 DEF OpponentShot, Conclude
    <3> QED BY <3>1, JudgeScreens DEF Screens
  <2> QED BY <2>2, <2>3, <2>4
<1>11. CASE RequestRandom \/ BeginSetup("ship") \/ BeginSetup("post")
  BY <1>11 DEF RequestRandom, BeginSetup, SetupAwaited, Screens, Fighting
<1>12. CASE SetupShipHeld \/ PostShipHeld \/ FinishSetup
  BY <1>12 DEF SetupShipHeld, PostShipHeld, FinishSetup, Screens, Fighting, Blocked
<1>13. CASE Connect
  BY <1>13 DEF Connect, Screens, Fighting
<1>14. CASE RequestUpdate
  <2>1. view' = Told(player', opponent', turn')
    BY <1>14 DEF RequestUpdate, send_ws_game_update, Told
  <2>2. ToldBut(view', player', opponent', turn')
    BY <2>1, Exactly
  <2> QED BY <1>14, <2>2 DEF RequestUpdate, Screens, Fighting
<1>15. CASE RequestRestart
  BY <1>15 DEF RequestRestart, Screens, Fighting
<1>16. ASSUME NEW request \in Requests, NEW length,
              SetupShip(request, length) \/ PostShip(request, length) \/ RejectShip(request, length)
       PROVE  Screens'
  BY <1>16 DEF SetupShip, PostShip, RejectShip, Screens, Fighting, Blocked
<1>17. CASE UNCHANGED vars
  BY <1>17 DEF vars, Screens, Fighting
<1> QED
  BY <1>1, <1>2, <1>3, <1>4, <1>5, <1>6, <1>7, <1>8, <1>9, <1>10, <1>11, <1>12, <1>13, <1>14, <1>15,
     <1>16, <1>17 DEF Next, Task, Steps, Server

LEMMA ScreensAlways == ASSUME Disciplined = TRUE PROVE Safe => []Screens
<1>1. Init => Screens
  BY ShownPanel DEF Init, Screens, Fighting
<1>2. /\ Blocked /\ Turns /\ Setups /\ Whole(Human) /\ OpponentKept /\ Notes /\ Screens /\ [Next]_vars
      => Screens'
  BY ScreensStep
<1> QED
  BY <1>1, <1>2, BlockedAlways, SetupsAlways, HumanAlways, OpponentAlways, NotesAlways, PTL DEF Safe

\* Whenever a shot is awaited the LEDs show both boards as they are, but for orphans of the
\* human, and never a ship of the opponent that has not been hit, on a board of any size and
\* after any setup.
THEOREM LedsCorrect == ASSUME Disciplined = TRUE PROVE Spec => []LedsShowBoards
<1>1. Screens => LedsShowBoards
  <2> SUFFICES ASSUME Screens, pc \in {"button", "opponent"}
               PROVE  LET now == BothBoards(leds, player.cells, opponent.cells)
                      IN  /\ leds[OPPONENT_MATRIX] = now[OPPONENT_MATRIX]
                          /\ \A c \in Coordinate \ Orphans(player) :
                               leds[PLAYER_MATRIX][c] = now[PLAYER_MATRIX][c]
    BY DEF LedsShowBoards
  <2>1. leds \in [Matrices -> [Coordinate -> Colours]] /\ LitBut(leds, player, opponent)
    BY DEF Screens, Panels, Fighting
  <2>2. BothBoards(leds, player.cells, opponent.cells) = Lit(player.cells, opponent.cells)
    BY <2>1, BothBoardsShown
  <2> QED BY <2>1, <2>2 DEF LitBut
<1> QED
  BY <1>1, ScreensAlways, SpecSafe, PTL

\* From the first shot of a game on, whenever a shot is awaited the page that follows the
\* game shows both boards, but for orphans of the human, and the turn as they are, whichever
\* task told it last.
THEOREM BrowserCorrect == ASSUME Disciplined = TRUE PROVE Spec => []BrowserSeesBoards
<1>1. Screens => BrowserSeesBoards
  <2> SUFFICES ASSUME Screens, pc \in {"button", "opponent"}, Begun(opponent.cells),
                      view \notin {NoPage, BlankPage}
               PROVE  LET now == send_ws_game_update(view, player, opponent, IF pc = "button" THEN 0 ELSE 1)
                      IN  /\ view = [now EXCEPT !.player = view.player]
                          /\ \A c \in Coordinate :
                               view.player[c] = now.player[c] \/ Turned(c) \in Orphans(player)
    BY DEF BrowserSeesBoards, Begun
  <2>1. ToldBut(view, player, opponent, turn) /\ turn = IF pc = "button" THEN 0 ELSE 1
    BY DEF Screens, Fighting
  <2>2. view # NoPage
    OBVIOUS
  <2>3. send_ws_game_update(view, player, opponent, turn) = Told(player, opponent, turn)
    BY <2>2 DEF send_ws_game_update, Told
  <2>4. /\ [Told(player, opponent, turn) EXCEPT !.player = view.player] =
             [type |-> "update", player |-> view.player,
              opponent |-> board_to_json(opponent.cells, FALSE), turn |-> turn]
        /\ Told(player, opponent, turn).player = board_to_json(player.cells, TRUE)
    <3> DEFINE a == board_to_json(player.cells, TRUE)
               b == board_to_json(opponent.cells, FALSE)
    <3>1. Told(player, opponent, turn) = [type |-> "update", player |-> a, opponent |-> b, turn |-> turn]
      BY DEF Told
    <3> HIDE DEF a, b
    <3>2. /\ [Told(player, opponent, turn) EXCEPT !.player = view.player] =
               [type |-> "update", player |-> view.player, opponent |-> b, turn |-> turn]
          /\ Told(player, opponent, turn).player = a
      BY <3>1
    <3> QED BY <3>2 DEF a, b
  <2> HIDE DEF NoPage
  <2> QED BY <2>1, <2>3, <2>4 DEF ToldBut
<1> QED
  BY <1>1, ScreensAlways, SpecSafe, PTL
-----------------------------------------------------------------------------
(***************************************************************************)
(* The robot.                                                              *)
(***************************************************************************)
Afloat(boats, from) == {b \in BoatIndex : b >= from /\ boats[b].hit_count < boats[b].length}

Standing(boats, from) == {PieceOf(boats[b]) : b \in Afloat(boats, from)}

\* A boat afloat covers its anchor, counted or not.
LEMMA AfloatAnchored ==
  ASSUME NEW p, Whole(p), NEW from \in Nat, NEW b \in Afloat(p.boats, from)
  PROVE  p.boats[b] \in Boat /\ <<p.boats[b].row, p.boats[b].col>> \in coords(p.boats[b])
<1>1. p.boats[b] \in Boat /\ p.boats[b].hit_count < p.boats[b].length
  BY DEF Afloat, Whole, Sound, Player
<1>2. p.boats[b].length > 0
  BY <1>1 DEF Boat
<1> QED
  BY <1>1, <1>2, AnchorCovered

\* Two boats afloat have different pieces: equal pieces would have the same anchor.
LEMMA PiecesDiffer ==
  ASSUME NEW p, Whole(p), NEW b \in Afloat(p.boats, 0), NEW d \in Afloat(p.boats, 0),
         PieceOf(p.boats[b]) = PieceOf(p.boats[d])
  PROVE  b = d
<1> DEFINE x == p.boats[b]
           y == p.boats[d]
<1>1. /\ b \in BoatIndex /\ x \in Boat /\ <<x.row, x.col>> \in coords(x)
      /\ d \in BoatIndex /\ y \in Boat /\ <<y.row, y.col>> \in coords(y)
  BY AfloatAnchored DEF Afloat
<1>2. b # d => coords(x) \cap coords(y) = {}
  BY <1>1 DEF Whole, Loose, Apart
<1>3. PieceOf(x) = PieceOf(y)
  OBVIOUS
<1> HIDE DEF x, y
<1>4. PieceOf(x).horizontal = PieceOf(y).horizontal /\ PieceOf(x).row = PieceOf(y).row
      /\ PieceOf(x).ship_id = PieceOf(y).ship_id /\ PieceOf(x).col = PieceOf(y).col
  BY <1>3
<1>5. x.horizontal = y.horizontal /\ x.row = y.row /\ SLOTS - x.length = SLOTS - y.length
      /\ Grip(x.col, x.length, x.horizontal) = Grip(y.col, y.length, y.horizontal)
  BY <1>4 DEF PieceOf, Piece
<1>6. /\ x.length \in Nat /\ y.length \in Nat /\ x.col \in Int /\ y.col \in Int /\ SLOTS \in Nat
      /\ x.horizontal \in BOOLEAN
  BY <1>1, GameTaskAssumption DEF Boat, Index
<1>7. x.length = y.length
  BY <1>5, <1>6
<1>8. x.col = y.col
  BY <1>5, <1>6, <1>7 DEF Grip
<1> QED
  BY <1>1, <1>2, <1>5, <1>8

\* The piece of a ship that is put on the board.
PutDown(row, col, length, horizontal) ==
  Piece(SLOTS - length, row, Grip(col, length, horizontal), horizontal)

LEMMA PiecePut ==
  ASSUME NEW p, Whole(p), p.boat_count < MAX_SHIPS,
         NEW row \in Index, NEW col \in Index, NEW length \in 1 .. GRID_SIZE,
         NEW horizontal \in BOOLEAN, can_place_ship(p.cells, row, col, length, horizontal),
         NEW q, q = Put(p, row, col, length, horizontal)
  PROVE  /\ PutDown(row, col, length, horizontal) \in Standing(q.boats, 0)
         /\ Standing(q.boats, 0) \subseteq Standing(p.boats, 0) \cup {PutDown(row, col, length, horizontal)}
         /\ Standing(p.boats, 0) \subseteq Displaced(p) \cup Standing(q.boats, 0)
<1> DEFINE new == p.boat_count
           boat == [length |-> length, row |-> row, col |-> col,
                    horizontal |-> horizontal, hit_count |-> 0]
<1>1. p \in Player /\ new \in BoatIndex
  BY PutCount DEF Whole, Sound
<1>2. (\A b \in BoatIndex \ {new} : q.boats[b] = p.boats[b]) /\ q.boats[new] = boat
  BY <1>1, PutBoats
<1>3. boat.hit_count < boat.length /\ PieceOf(boat) = PutDown(row, col, length, horizontal)
  BY DEF PieceOf, PutDown
<1>4. Displaced(p) = IF p.boats[new].hit_count < p.boats[new].length THEN {PieceOf(p.boats[new])} ELSE {}
  BY DEF Displaced
<1> HIDE DEF boat, new
<1>5. new \in Afloat(q.boats, 0)
  BY <1>1, <1>2, <1>3 DEF Afloat, BoatIndex
<1>6. \A b \in BoatIndex \ {new} : b \in Afloat(q.boats, 0) <=> b \in Afloat(p.boats, 0)
  BY <1>2 DEF Afloat
<1>7. Afloat(q.boats, 0) \subseteq BoatIndex /\ Afloat(p.boats, 0) \subseteq BoatIndex
  BY DEF Afloat
<1>8. new \in Afloat(p.boats, 0) => PieceOf(p.boats[new]) \in Displaced(p)
  BY <1>4 DEF Afloat
<1>9. PutDown(row, col, length, horizontal) \in Standing(q.boats, 0)
  BY <1>2, <1>3, <1>5 DEF Standing
<1>10. Standing(q.boats, 0) \subseteq Standing(p.boats, 0) \cup {PutDown(row, col, length, horizontal)}
  BY <1>2, <1>3, <1>6, <1>7 DEF Standing
<1>11. Standing(p.boats, 0) \subseteq Displaced(p) \cup Standing(q.boats, 0)
  BY <1>2, <1>6, <1>7, <1>8 DEF Standing
<1> QED
  BY <1>9, <1>10, <1>11

\* Exactly the piece of a ship that a shot sinks has to go.
LEMMA PieceSunk ==
  ASSUME NEW p, Whole(p), NEW c \in Coordinate, NEW q, q = AfterGuess(p, c)
  PROVE  Standing(q.boats, 0) = IF GuessResult(p, c) = "S"
                              THEN Standing(p.boats, 0) \ {PieceOf(p.boats[OwnerOf(p, c)])}
                              ELSE Standing(p.boats, 0)
<1> DEFINE o == OwnerOf(p, c)
<1>1. Sound(p) /\ p \in Player /\ Layout(p) /\ GuessResult(p, c) \in {"M", "H", "S", "0"}
  BY GuessResultType DEF Whole, Sound
<1>2. CASE GuessResult(p, c) \in {"M", "0"}
  <2>1. q.boats = p.boats
    BY <1>1, <1>2, MissFacts
  <2> QED BY <1>2, <2>1
<1>3. CASE GuessResult(p, c) \in {"H", "S"}
  <2>1. /\ o \in Owners(p, c) /\ p.cells[c] = "SHIP"
        /\ \A d \in BoatIndex \ {o} : q.boats[d] = p.boats[d]
        /\ q.boats[o] = Hit(p.boats[o])
        /\ (GuessResult(p, c) = "S" <=> q.boats[o].hit_count = p.boats[o].length)
    BY <1>1, <1>3, HitFacts
  <2> HIDE DEF o
  <2>2. o \in LiveBoats(p) /\ o \in BoatIndex /\ p.boats[o] \in Boat /\ c \in coords(p.boats[o])
    BY <1>1, <2>1, LiveBoatFacts DEF Owners
  <2>3. p.boats[o].hit_count < p.boats[o].length
    BY <1>1, <2>1, <2>2, AfloatShowsShip
  <2>4. q.boats[o].hit_count = p.boats[o].hit_count + 1 /\ q.boats[o].length = p.boats[o].length
        /\ PieceOf(q.boats[o]) = PieceOf(p.boats[o])
    BY <2>1, <2>2 DEF Hit, Boat, PieceOf
  <2>5. p.boats[o].hit_count \in Nat /\ p.boats[o].length \in Nat
    BY <2>2 DEF Boat
  <2>6. o \in Afloat(p.boats, 0)
    BY <2>2, <2>3 DEF Afloat, BoatIndex
  <2>7. \A b \in Afloat(p.boats, 0) : b # o => q.boats[b] = p.boats[b]
    BY <2>1 DEF Afloat
  <2>8. CASE GuessResult(p, c) = "S"
    <3>1. Afloat(q.boats, 0) = Afloat(p.boats, 0) \ {o}
      BY <2>1, <2>2, <2>4, <2>5, <2>8 DEF Afloat
    <3>2. \A b \in Afloat(p.boats, 0) \ {o} : PieceOf(p.boats[b]) # PieceOf(p.boats[o])
      BY <2>6, PiecesDiffer
    <3>3. Standing(q.boats, 0) = Standing(p.boats, 0) \ {PieceOf(p.boats[o])}
      BY <2>6, <2>7, <3>1, <3>2 DEF Standing
    <3> QED BY <2>8, <3>3 DEF o
  <2>9. CASE GuessResult(p, c) # "S"
    <3>1. Afloat(q.boats, 0) = Afloat(p.boats, 0)
      BY <2>1, <2>2, <2>3, <2>4, <2>5, <2>9 DEF Afloat
    <3>2. Standing(q.boats, 0) = Standing(p.boats, 0)
      BY <2>4, <2>7, <3>1 DEF Standing
    <3> QED BY <2>9, <3>2
  <2> QED BY <2>8, <2>9
<1> QED
  BY <1>1, <1>2, <1>3

\* When the boats are gone through one by one, each takes its own piece.
LEMMA PieceCleared ==
  ASSUME NEW p, Whole(p), NEW b \in BoatIndex
  PROVE  Standing(p.boats, b + 1) = IF p.boats[b].hit_count < p.boats[b].length
                                  THEN Standing(p.boats, b) \ {PieceOf(p.boats[b])}
                                  ELSE Standing(p.boats, b)
<1>1. \A d \in BoatIndex : (d >= b <=> d >= b + 1 \/ d = b) /\ (d >= b + 1 => d # b)
  BY DEF BoatIndex
<1>2. CASE p.boats[b].hit_count < p.boats[b].length
  <2>1. Afloat(p.boats, b) = Afloat(p.boats, b + 1) \cup {b} /\ b \notin Afloat(p.boats, b + 1)
    BY <1>1, <1>2 DEF Afloat
  <2>2. Afloat(p.boats, b) \subseteq Afloat(p.boats, 0)
    BY DEF Afloat, BoatIndex
  <2>3. \A d \in Afloat(p.boats, b + 1) : PieceOf(p.boats[d]) # PieceOf(p.boats[b])
    BY <2>1, <2>2, PiecesDiffer
  <2> QED BY <1>2, <2>1, <2>3 DEF Standing
<1>3. CASE ~(p.boats[b].hit_count < p.boats[b].length)
  <2>1. Afloat(p.boats, b) = Afloat(p.boats, b + 1)
    BY <1>1, <1>3 DEF Afloat
  <2> QED BY <1>3, <2>1 DEF Standing
<1> QED
  BY <1>2, <1>3

\* The boats that the robot has not been sent to yet.
From == IF pc = "clearing" THEN next ELSE IF state = "INIT" THEN MAX_SHIPS ELSE 0

Robot ==
  /\ ~Restarting => Standing(player.boats, 0) \subseteq robot
  /\ robot \subseteq stray \cup Standing(player.boats, From)
  /\ pc = "clearing" => next \in 0 .. MAX_SHIPS

LEMMA NoPieces == \A boats : Standing(boats, MAX_SHIPS) = {}
BY DEF Standing, Afloat, BoatIndex

LEMMA FreshPieces == Standing(FreshPlayer.boats, 0) = {}
BY FreshFacts DEF Standing, Afloat, ZeroBoat

LEMMA SameBoats ==
  ASSUME NEW p \in Fleets
  PROVE  Counted(p).boats = p.boats /\ Emptied(p).boats = p.boats
BY DEF Counted, Emptied, Fleets

\* post_place_ships_handler grips a vertical piece as if it were horizontal: it can only be
\* of length 1.
LEMMA PostedGrip ==
  ASSUME NEW request \in Requests, NEW i \in DOMAIN ship_lengths, PostShip(request, ship_lengths[i])
  PROVE  LET place == PostPlace(request)
         IN  place[2] + ship_lengths[i] - 1 = Grip(place[2], ship_lengths[i], place[3])
<1> DEFINE length == ship_lengths[i]
           row == request[1]
           col == request[2]
           horizontal == request[3]
<1>1. row \in Index /\ col \in Index /\ horizontal \in BOOLEAN /\ length \in 1 .. GRID_SIZE
  BY Inputs
<1>2. PostPlace(request)[1] = row + GRID_SIZE - 1 /\ PostPlace(request)[2] = col /\ PostPlace(request)[3] = horizontal
  BY DEF PostPlace
<1>3. (IF horizontal THEN col ELSE row + GRID_SIZE - 1) + length <= GRID_SIZE
  BY <1>2 DEF PostShip, CanPlace, can_place_ship
<1> HIDE DEF length, row, col, horizontal
<1>4. ~horizontal => length = 1
  BY <1>1, <1>3 DEF Index
<1>5. col + length - 1 = Grip(col, length, horizontal)
  BY <1>1, <1>4 DEF Grip, Index
<1> QED
  BY <1>2, <1>5 DEF length, row, col, horizontal

\* The disciplined page sends the ships in the order of the robot's store.
LEMMA ListedSlot ==
  ASSUME Disciplined = TRUE, player \in Fleets, NEW i \in DOMAIN ship_lengths, NEW place, Listed(place, ship_lengths[i])
  PROVE  player.boat_count = SLOTS - ship_lengths[i] /\ player.boat_count + 1 \in DOMAIN ship_lengths
<1>1. DOMAIN ship_lengths = 1 .. MAX_SHIPS
  BY GameTaskAssumption
<1>2. player.boat_count \in Nat /\ player.boat_count < MAX_SHIPS
      /\ ship_lengths[i] = ship_lengths[player.boat_count + 1]
  BY DEF Fleets, Listed
<1>3. player.boat_count + 1 \in DOMAIN ship_lengths
  BY <1>1, <1>2
<1>4. ship_lengths[player.boat_count + 1] = SLOTS + 1 - (player.boat_count + 1) /\ SLOTS \in Nat
  BY <1>3, SlotAssumption, GameTaskAssumption
<1> QED
  BY <1>2, <1>3, <1>4

\* What a ship put on the board leaves the robot with.
LEMMA DeployRobot ==
  ASSUME Whole(Human), player' \in Fleets,
         Standing(player.boats, 0) \subseteq robot, robot \subseteq stray \cup Standing(player.boats, 0),
         NEW row \in Index, NEW col \in Index, NEW length \in 1 .. GRID_SIZE,
         NEW horizontal \in BOOLEAN, Deploys(row, col, length, horizontal),
         robot' = robot \cup {PutDown(row, col, length, horizontal)},
         stray' = stray \cup Displaced(player)
  PROVE  /\ Standing(player'.boats, 0) \subseteq robot'
         /\ robot' \subseteq stray' \cup Standing(player'.boats, 0)
<1>1. Human'.boats = player'.boats
  BY SameBoats DEF Human
<1>2. Whole(player)
  BY DEF Deploys
<1>3. ASSUME NEW p, p = player, NEW q, q = Human'
      PROVE  /\ PutDown(row, col, length, horizontal) \in Standing(q.boats, 0)
             /\ Standing(q.boats, 0) \subseteq Standing(p.boats, 0) \cup {PutDown(row, col, length, horizontal)}
             /\ Standing(p.boats, 0) \subseteq Displaced(p) \cup Standing(q.boats, 0)
  <2>1. Whole(p) /\ p.boat_count < MAX_SHIPS /\ can_place_ship(p.cells, row, col, length, horizontal)
    BY <1>2, <1>3 DEF Deploys
  <2>2. q = Put(p, row, col, length, horizontal)
    BY <1>3 DEF Deploys
  <2> QED BY <2>1, <2>2, PiecePut, SMTT(120)
<1>4. /\ PutDown(row, col, length, horizontal) \in Standing(player'.boats, 0)
      /\ Standing(player'.boats, 0) \subseteq Standing(player.boats, 0) \cup {PutDown(row, col, length, horizontal)}
      /\ Standing(player.boats, 0) \subseteq Displaced(player) \cup Standing(player'.boats, 0)
  BY <1>1, <1>3
<1> QED
  BY <1>4

LEMMA RobotStep ==
  ASSUME Disciplined = TRUE, Blocked, Setups, Drawing, player \in Fleets, player' \in Fleets,
         Whole(Human), Notes, Robot, [Next]_vars
  PROVE  Robot'
<1> USE DEF game
<1> DEFINE same == /\ player'.boats = player.boats /\ UNCHANGED <<robot, stray>>
                   /\ From' = From \/ From = MAX_SHIPS
                   /\ pc' # "clearing" /\ (~Restarting' => ~Restarting)
           stood == Standing(player.boats, 0) \subseteq robot /\ robot \subseteq stray \cup Standing(player.boats, 0)
<1>1. same => Robot'
  BY NoPieces DEF Robot
<1>2. From = 0 /\ ~Restarting => stood
  BY DEF Robot
<1>3. stood' /\ From' = 0 /\ pc' # "clearing" => Robot'
  BY DEF Robot
<1>4. CASE EnterInit \/ LeaveInit
  <2>1. player' = FreshPlayer /\ UNCHANGED <<robot, stray>> /\ pc' # "clearing"
    BY <1>4 DEF EnterInit, LeaveInit, Setups
  <2>2. robot \subseteq stray
    <3>1. CASE EnterInit
      BY <3>1, NoPieces DEF EnterInit, Robot, From
    <3>2. CASE LeaveInit
      <4>1. player = FreshPlayer /\ From \in {0, MAX_SHIPS}
        BY <3>2 DEF LeaveInit, Setups, From
      <4> QED BY <4>1, FreshPieces, NoPieces DEF Robot
    <3> QED BY <1>4, <3>1, <3>2
  <2> QED BY <2>1, <2>2, FreshPieces DEF Robot
<1>5. CASE WebInit \/ GiveUpShip \/ DrawOpponent \/ LeaveRandomInit \/ AwaitButton \/ NoButton \/ AwaitOpponent
  <2>1. same
    BY <1>5 DEF WebInit, GiveUpShip, DrawOpponent, LeaveRandomInit, AwaitButton, NoButton, AwaitOpponent,
                Blocked, From, Restarting
  <2> QED BY <1>1, <2>1
<1>6. CASE RandomInit \/ BeginSetup("ship") \/ BeginSetup("post") \/ ShipHeld \/ SetupShipHeld
  <2>1. player'.boats = player.boats
    BY <1>6, SameBoats DEF RandomInit, BeginSetup, ShipHeld, SetupShipHeld
  <2>2. same
    BY <1>6, <2>1 DEF RandomInit, BeginSetup, SetupAwaited, ShipHeld, SetupShipHeld, Blocked, From, Restarting
  <2> QED BY <1>1, <2>2
<1>7. ASSUME NEW place \in Places, DrawShip(place)
      PROVE  Robot'
  <2>1. place[1] \in Index /\ place[2] \in Index /\ place[3] \in BOOLEAN
    BY Inputs
  <2>2. Deploys(place[1], place[2], ship_lengths[next], place[3]) /\ ship_lengths[next] \in 1 .. GRID_SIZE
    BY <1>7, DrawShipDeploys, Inputs
  <2>3. From = 0 /\ From' = 0 /\ pc' = "held" /\ ~Restarting
    BY <1>7 DEF DrawShip, Blocked, From, Restarting
  <2>4. /\ robot' = robot \cup {PutDown(place[1], place[2], ship_lengths[next], place[3])}
        /\ stray' = stray \cup Displaced(player)
    BY <1>7 DEF DrawShip, PutDown
  <2>5. stood'
    BY <1>2, <2>1, <2>2, <2>3, <2>4, DeployRobot
  <2> HIDE DEF stood
  <2> QED BY <1>3, <2>3, <2>5
<1>8. ASSUME NEW request \in Requests, NEW i \in DOMAIN ship_lengths,
             SetupShip(request, ship_lengths[i]) \/ PostShip(request, ship_lengths[i])
      PROVE  Robot'
  <2>1. PICK place \in Index \X Index \X BOOLEAN :
          /\ Deploys(place[1], place[2], ship_lengths[i], place[3])
          /\ \/ place = SetupPlace(request, ship_lengths[i]) /\ SetupShip(request, ship_lengths[i])
             \/ place = PostPlace(request) /\ PostShip(request, ship_lengths[i])
    BY <1>8, SetupShipDeploys
  <2>2. place[1] \in Index /\ place[2] \in Index /\ place[3] \in BOOLEAN /\ ship_lengths[i] \in 1 .. GRID_SIZE
    BY Inputs
  <2>3. From = 0 /\ From' = 0 /\ pc' = "loop" /\ ~Restarting
    BY <1>8 DEF SetupShip, PostShip, Blocked, From, Restarting
  <2>4. player.boat_count = SLOTS - ship_lengths[i]
    BY <1>8, ListedSlot DEF SetupShip, PostShip
  <2>5. /\ robot' = robot \cup {PutDown(place[1], place[2], ship_lengths[i], place[3])}
        /\ stray' = stray \cup Displaced(player)
    <3>1. CASE place = SetupPlace(request, ship_lengths[i]) /\ SetupShip(request, ship_lengths[i])
      BY <2>4, <3>1 DEF SetupShip, PutDown
    <3>2. CASE place = PostPlace(request) /\ PostShip(request, ship_lengths[i])
      <4>1. place[2] + ship_lengths[i] - 1 = Grip(place[2], ship_lengths[i], place[3])
        BY <3>2, PostedGrip
      <4> QED BY <2>4, <3>2, <4>1 DEF PostShip, PutDown
    <3> QED BY <2>1, <3>1, <3>2
  <2>6. stood'
    BY <1>2, <2>1, <2>2, <2>3, <2>5, DeployRobot
  <2> HIDE DEF stood
  <2> QED BY <1>3, <2>3, <2>6
<1>9. ASSUME NEW c \in Coordinate, OpponentShot(c)
      PROVE  Robot'
  <2>1. Whole(player)
    BY <1>9, ShotNoted
  <2>2. pc = "opponent" /\ player' = AfterGuess(player, c) /\ From = 0 /\ ~Restarting
    BY <1>9 DEF OpponentShot, Blocked, From, Restarting
  <2>3. state' # "INIT" /\ pc' # "clearing"
    BY <1>9, <2>1 DEF OpponentShot, Conclude, Judge, Blocked
  <2>4. /\ robot' = IF GuessResult(player, c) = "S" THEN robot \ {PieceOf(player.boats[OwnerOf(player, c)])}
                    ELSE robot
        /\ stray' = stray
    BY <1>9 DEF OpponentShot
  <2>5. Standing(player'.boats, 0) =
          IF GuessResult(player, c) = "S"
          THEN Standing(player.boats, 0) \ {PieceOf(player.boats[OwnerOf(player, c)])}
          ELSE Standing(player.boats, 0)
    BY <2>1, <2>2, PieceSunk
  <2>6. stood'
    BY <1>2, <2>2, <2>4, <2>5
  <2> QED BY <1>3, <2>3, <2>6 DEF From
<1>10. CASE ShipSunk
  <2>1. same
    BY <1>10 DEF ShipSunk, Conclude, Judge, Blocked, From, Restarting
  <2> QED BY <1>1, <2>1
<1>11. ASSUME NEW c \in Coordinate, Button(c)
      PROVE  Robot'
  <2>1. same
    BY <1>11 DEF Button, Blocked, From, Restarting
  <2> QED BY <1>1, <2>1
<1>12. CASE EnterGameOver \/ LeaveGameOver
  <2>1. same
    BY <1>12 DEF EnterGameOver, LeaveGameOver, Blocked, From, Restarting
  <2> QED BY <1>1, <2>1
<1>13. CASE EnterRestart
  BY <1>13 DEF EnterRestart, Robot, From, Restarting
<1>14. CASE ClearBoat
  <2>1. pc = "clearing" /\ pc' = "clearing" /\ next \in BoatIndex /\ next' = next + 1 /\ next' \in 0 .. MAX_SHIPS
        /\ UNCHANGED <<player, stray>>
    BY <1>14 DEF ClearBoat, Robot, BoatIndex
  <2>2. Whole(player)
    BY <2>1, HumanIsPlayer DEF Blocked
  <2>3. robot' = IF player.boats[next].hit_count < player.boats[next].length
                 THEN robot \ {PieceOf(player.boats[next])} ELSE robot
    BY <1>14 DEF ClearBoat
  <2>4. robot' \subseteq stray \cup Standing(player.boats, next + 1)
    BY <2>1, <2>2, <2>3, PieceCleared DEF Robot, From
  <2> QED BY <2>1, <2>4 DEF Robot, From, Restarting
<1>15. CASE LeaveRestart
  BY <1>15 DEF LeaveRestart, Robot, From, Restarting
<1>16. CASE RequestRandom \/ PostShipHeld \/ FinishSetup
  <2>1. same
    BY <1>16 DEF RequestRandom, SetupAwaited, PostShipHeld, FinishSetup, Blocked, From, Restarting
  <2> QED BY <1>1, <2>1
<1>17. CASE Connect \/ RequestUpdate
  BY <1>17 DEF Connect, RequestUpdate, Robot, From, Restarting
<1>18. CASE RequestRestart
  BY <1>18, NoPieces DEF RequestRestart, Robot, From, Blocked, Restarting
<1>19. ASSUME NEW request \in Requests, NEW length, RejectShip(request, length)
       PROVE  Robot'
  BY <1>19 DEF RejectShip, Robot, From, Restarting
<1>20. CASE UNCHANGED vars
  BY <1>20 DEF vars, Robot, From, Restarting
<1> HIDE DEF same, stood
<1> QED
  BY <1>4, <1>5, <1>6, <1>7, <1>8, <1>9, <1>10, <1>11, <1>12, <1>13, <1>14, <1>15, <1>16,
     <1>17, <1>18, <1>19, <1>20 DEF Next, Task, Steps, Server

LEMMA RobotAlways == ASSUME Disciplined = TRUE PROVE Safe => []Robot
<1>1. Init => Robot
  BY FreshPieces, NoPieces DEF Init, Robot, From
<1>2. /\ Blocked /\ Turns /\ Setups /\ Drawing /\ player \in Fleets /\ (player \in Fleets)'
      /\ Whole(Human) /\ Notes /\ Robot /\ [Next]_vars
      => Robot'
  BY RobotStep
<1> QED
  BY <1>1, <1>2, BlockedAlways, SetupsAlways, DrawingAlways, FleetsAlways, HumanAlways, NotesAlways, PTL DEF Safe

\* On the physical board stand the ships that are afloat, each gripped where it was put, and
\* besides them only pieces of refused setups whose slot another setup took, on a board of
\* any size and however often a setup is refused and tried again.
THEOREM RobotCorrect == ASSUME Disciplined = TRUE PROVE Spec => []RobotMatchesFleet
<1>1. Robot => RobotMatchesFleet
  BY DEF Robot, RobotMatchesFleet, From, Pieces, Standing, Afloat, BoatIndex
<1> QED
  BY <1>1, RobotAlways, SpecSafe, PTL
-----------------------------------------------------------------------------
(***************************************************************************)
(* Types.                                                                  *)
(***************************************************************************)
PieceTypes == [ship_id : 0 .. SLOTS - 1, row : Index, col : Index, horizontal : BOOLEAN]

Updates == [type : {"update"}, player : [Coordinate -> CellState],
            opponent : [Coordinate -> CellState \ {"SHIP"}], turn : {0, 1}]

Results == [type : {"result"}, winner : {"player", "opponent"}]

\* What TypeOK says besides the two fleets and the panel; while a ship is held, or boats
\* are cleared away, the loop index has one more to go.
Typed ==
  /\ state \in {"INIT", "WEB_INIT", "RANDOM_INIT", "WAITING_FOR_PLAYER",
                "WAITING_FOR_OPPONENT", "GAME_OVER", "GAME_RESTART"}
  /\ turn \in {0, 1} /\ game_ready \in BOOLEAN
  /\ noted \subseteq Coordinate
  /\ pc \in {"loop", "init", "draw", "held", "settle", "button", "opponent", "sinking",
             "over", "clearing"}
  /\ next \in 0 .. MAX_SHIPS + 1 /\ (pc \in {"held", "clearing"} => next <= MAX_SHIPS)
  /\ http \in {"idle", "ship", "held", "post", "posted"}

LEMMA TypedStep ==
  ASSUME Blocked, Setups, Typed, [Next]_vars
  PROVE  Typed'
<1> USE DEF Typed, game, screens
<1>0. Len(ship_lengths) = MAX_SHIPS /\ MAX_SHIPS \in Nat
  BY GameTaskAssumption
<1>1. CASE EnterInit \/ LeaveInit \/ WebInit
  BY <1>1 DEF EnterInit, LeaveInit, WebInit
<1>2. CASE RandomInit
  BY <1>2 DEF RandomInit
<1>3. CASE ShipHeld \/ GiveUpShip \/ DrawOpponent
  <2>1. CASE ShipHeld
    BY <1>0, <2>1 DEF ShipHeld
  <2>2. CASE GiveUpShip
    BY <1>0, <2>2 DEF GiveUpShip
  <2>3. CASE DrawOpponent
    BY <1>0, <2>3 DEF DrawOpponent
  <2> QED BY <1>3, <2>1, <2>2, <2>3
<1>4. CASE LeaveRandomInit \/ AwaitButton \/ NoButton \/ AwaitOpponent
  BY <1>4 DEF LeaveRandomInit, AwaitButton, NoButton, AwaitOpponent
<1>5. ASSUME NEW c \in Coordinate, NEW result, NEW target, Conclude(c, result, target),
             UNCHANGED <<game_ready, next, http>>
      PROVE  Typed'
  BY <1>5 DEF Conclude, Judge
<1>6. CASE ShipSunk
  <2>1. aim \in Coordinate /\ Conclude(aim, "S", player) /\ UNCHANGED <<game_ready, next, http>>
    BY <1>6 DEF ShipSunk, Setups
  <2> QED BY <1>5, <2>1
<1>7. CASE EnterGameOver \/ LeaveGameOver
  BY <1>7 DEF EnterGameOver, LeaveGameOver
<1>8. CASE EnterRestart \/ ClearBoat \/ LeaveRestart
  BY <1>0, <1>8 DEF EnterRestart, ClearBoat, LeaveRestart
<1>9. ASSUME NEW place \in Places, DrawShip(place)
      PROVE  Typed'
  BY <1>0, <1>9 DEF DrawShip
<1>10. ASSUME NEW c \in Coordinate, Button(c)
       PROVE  Typed'
  BY <1>10 DEF Button
<1>11. ASSUME NEW c \in Coordinate, OpponentShot(c)
       PROVE  Typed'
  <2>1. CASE GuessResult(player, c) = "S"
    BY <1>11, <2>1 DEF OpponentShot
  <2>2. CASE GuessResult(player, c) # "S"
    BY <1>5, <1>11, <2>2 DEF OpponentShot
  <2> QED BY <2>1, <2>2
<1>12. CASE RequestRandom \/ BeginSetup("ship") \/ BeginSetup("post")
  BY <1>12 DEF RequestRandom, BeginSetup
<1>13. CASE SetupShipHeld \/ PostShipHeld \/ FinishSetup
  BY <1>13 DEF SetupShipHeld, PostShipHeld, FinishSetup
<1>14. CASE Connect \/ RequestUpdate \/ RequestRestart
  BY <1>14 DEF Connect, RequestUpdate, RequestRestart
<1>15. ASSUME NEW request \in Requests, NEW length,
              SetupShip(request, length) \/ PostShip(request, length) \/ RejectShip(request, length)
       PROVE  Typed'
  BY <1>15 DEF SetupShip, PostShip, RejectShip
<1>16. CASE UNCHANGED vars
  BY <1>16 DEF vars
<1> QED
  BY <1>1, <1>2, <1>3, <1>4, <1>6, <1>7, <1>8, <1>9, <1>10, <1>11, <1>12, <1>13, <1>14, <1>15, <1>16
     DEF Next, Task, Steps, Server

\* The robot is sent to cells of the board and to slots of its store.
LEMMA GripOnBoard ==
  ASSUME NEW cells, NEW row \in Index, NEW col \in Index, NEW i \in DOMAIN ship_lengths,
         NEW horizontal \in BOOLEAN, can_place_ship(cells, row, col, ship_lengths[i], horizontal)
  PROVE  PutDown(row, col, ship_lengths[i], horizontal) \in PieceTypes
<1> DEFINE length == ship_lengths[i]
<1>1. DOMAIN ship_lengths = 1 .. MAX_SHIPS /\ length = SLOTS + 1 - i /\ SLOTS \in Nat /\ i \in Nat
      /\ length \in 1 .. GRID_SIZE
  BY Inputs, SlotAssumption, GameTaskAssumption
<1>2. (IF horizontal THEN col ELSE row) + length <= GRID_SIZE
  BY DEF can_place_ship
<1> HIDE DEF length
<1>3. SLOTS - length \in 0 .. SLOTS - 1
  BY <1>1
<1>4. Grip(col, length, horizontal) \in Index
  <2>1. CASE horizontal
    <3>1. col \in 0 .. GRID_SIZE - 1 /\ length \in 1 .. GRID_SIZE /\ col + length <= GRID_SIZE
      BY <1>1, <1>2, <2>1 DEF Index
    <3>2. col + length - 1 \in 0 .. GRID_SIZE - 1
      BY <3>1, GameTaskAssumption
    <3> QED
      BY <2>1, <3>2 DEF Grip, Index
  <2>2. CASE ~horizontal
    BY <2>2 DEF Grip
  <2> QED
    BY <2>1, <2>2
<1>5. PutDown(row, col, length, horizontal) \in PieceTypes
  BY <1>3, <1>4 DEF PutDown, Piece, PieceTypes
<1> QED
  BY <1>5 DEF length

LEMMA RobotTypeStep ==
  ASSUME Disciplined = TRUE, Blocked, Drawing, player \in Fleets, robot \subseteq PieceTypes, [Next]_vars
  PROVE  robot' \subseteq PieceTypes
<1>1. ASSUME NEW place \in Places, DrawShip(place)
      PROVE  robot' \subseteq PieceTypes
  <2>1. place[1] \in Index /\ place[2] \in Index /\ place[3] \in BOOLEAN
    BY Inputs
  <2>2. next \in DOMAIN ship_lengths /\ can_place_ship(player.cells, place[1], place[2], ship_lengths[next], place[3])
    BY <1>1, DrawShipDeploys DEF Deploys
  <2>3. PutDown(place[1], place[2], ship_lengths[next], place[3]) \in PieceTypes
    BY <2>1, <2>2, GripOnBoard
  <2> QED BY <1>1, <2>3 DEF DrawShip, PutDown
<1>2. ASSUME NEW request \in Requests, NEW i \in DOMAIN ship_lengths,
             SetupShip(request, ship_lengths[i]) \/ PostShip(request, ship_lengths[i])
      PROVE  robot' \subseteq PieceTypes
  <2>1. PICK place \in Index \X Index \X BOOLEAN :
          /\ Deploys(place[1], place[2], ship_lengths[i], place[3])
          /\ \/ place = SetupPlace(request, ship_lengths[i]) /\ SetupShip(request, ship_lengths[i])
             \/ place = PostPlace(request) /\ PostShip(request, ship_lengths[i])
    BY <1>2, SetupShipDeploys
  <2>2. place[1] \in Index /\ place[2] \in Index /\ place[3] \in BOOLEAN
    OBVIOUS
  <2>3. PutDown(place[1], place[2], ship_lengths[i], place[3]) \in PieceTypes
    BY <2>1, <2>2, GripOnBoard DEF Deploys
  <2>4. player.boat_count = SLOTS - ship_lengths[i]
    BY <1>2, ListedSlot DEF SetupShip, PostShip
  <2>5. CASE place = SetupPlace(request, ship_lengths[i]) /\ SetupShip(request, ship_lengths[i])
    BY <2>3, <2>4, <2>5 DEF SetupShip, PutDown
  <2>6. CASE place = PostPlace(request) /\ PostShip(request, ship_lengths[i])
    <3>1. place[2] + ship_lengths[i] - 1 = Grip(place[2], ship_lengths[i], place[3])
      BY <2>6, PostedGrip
    <3> QED BY <2>3, <2>4, <2>6, <3>1 DEF PostShip, PutDown
  <2> QED BY <2>1, <2>5, <2>6
<1>3. robot' \subseteq robot => robot' \subseteq PieceTypes
  OBVIOUS
<1>4. ASSUME NEW c \in Coordinate, OpponentShot(c) \/ Button(c)
      PROVE  robot' \subseteq robot
  BY <1>4 DEF OpponentShot, Button
<1>5. EnterInit \/ LeaveInit \/ WebInit \/ RandomInit \/ ShipHeld \/ GiveUpShip \/ DrawOpponent \/ LeaveRandomInit
        => robot' \subseteq robot
  BY DEF EnterInit, LeaveInit, WebInit, RandomInit, ShipHeld, GiveUpShip, DrawOpponent, LeaveRandomInit
<1>6. AwaitButton \/ NoButton \/ AwaitOpponent \/ ShipSunk \/ EnterGameOver \/ LeaveGameOver => robot' \subseteq robot
  BY DEF AwaitButton, NoButton, AwaitOpponent, ShipSunk, EnterGameOver, LeaveGameOver
<1>7. EnterRestart \/ ClearBoat \/ LeaveRestart => robot' \subseteq robot
  BY DEF EnterRestart, ClearBoat, LeaveRestart
<1>8. RequestRandom \/ BeginSetup("ship") \/ BeginSetup("post") \/ SetupShipHeld \/ PostShipHeld \/ FinishSetup
        \/ Connect \/ RequestUpdate \/ RequestRestart => robot' \subseteq robot
  BY DEF RequestRandom, BeginSetup, SetupShipHeld, PostShipHeld, FinishSetup, Connect, RequestUpdate, RequestRestart
<1>9. ASSUME NEW request \in Requests, NEW length, RejectShip(request, length)
      PROVE  robot' \subseteq robot
  BY <1>9 DEF RejectShip
<1>10. UNCHANGED vars => robot' \subseteq robot
  BY DEF vars
<1> QED
  BY <1>1, <1>2, <1>3, <1>4, <1>5, <1>6, <1>7, <1>8, <1>9, <1>10 DEF Next, Task, Steps, Server

\* The messages that the page is sent.
Views == {NoPage, BlankPage} \cup Results \cup Updates

LEMMA Messages ==
  ASSUME NEW shown, NEW mine \in Player, NEW theirs \in Player, NEW whose \in {0, 1}
  PROVE  /\ send_ws_game_update(shown, mine, theirs, whose) \in Views
         /\ \A winner \in {"player", "opponent"} : send_ws_result(shown, winner) \in Views
<1> DEFINE a == board_to_json(mine.cells, TRUE)
           b == board_to_json(theirs.cells, FALSE)
<1>1. \A c \in Coordinate : Turned(c) \in Coordinate
  BY DEF Turned, Coordinate, Index
<1>2. mine.cells \in [Coordinate -> CellState] /\ theirs.cells \in [Coordinate -> CellState]
  BY DEF Player
<1>3. a \in [Coordinate -> CellState]
  BY <1>1, <1>2 DEF board_to_json
<1>4. b \in [Coordinate -> CellState \ {"SHIP"}]
  <2>1. "EMPTY" \in CellState \ {"SHIP"}
    BY DEF CellState
  <2> QED BY <1>1, <1>2, <2>1 DEF board_to_json
<1> HIDE DEF a, b
<1>5. [type |-> "update", player |-> a, opponent |-> b, turn |-> whose] \in Updates
  BY <1>3, <1>4 DEF Updates
<1>6. send_ws_game_update(shown, mine, theirs, whose) \in {NoPage} \cup Updates
  BY <1>5 DEF send_ws_game_update, a, b
<1>7. \A winner \in {"player", "opponent"} : send_ws_result(shown, winner) \in {NoPage} \cup Results
  BY DEF send_ws_result, Results
<1> HIDE DEF NoPage
<1> QED
  BY <1>6, <1>7 DEF Views

Players == player \in Player /\ opponent \in Player

LEMMA ViewStep ==
  ASSUME Typed, Players, Players', view \in Views, [Next]_vars
  PROVE  view' \in Views
<1> USE DEF game, screens, Players
<1>1. ASSUME NEW target \in Player, Judge(target)
      PROVE  view' \in Views
  BY <1>1, Messages DEF Judge
<1>2. ASSUME NEW c \in Coordinate, OpponentShot(c)
      PROVE  view' \in Views
  <2>1. view' = view \/ Judge(player')
    BY <1>2 DEF OpponentShot, Conclude
  <2> QED BY <1>1, <2>1
<1>3. CASE ShipSunk
  <2>1. Judge(player)
    BY <1>3 DEF ShipSunk, Conclude
  <2> QED BY <1>1, <2>1
<1>4. ASSUME NEW c \in Coordinate, Button(c)
      PROVE  view' \in Views
  BY <1>4, Messages DEF Button
<1>5. ASSUME NEW place \in Places, DrawShip(place)
      PROVE  view' \in Views
  BY <1>5, Messages DEF DrawShip, Typed
<1>6. CASE RequestUpdate
  BY <1>6, Messages DEF RequestUpdate, Typed
<1>7. CASE Connect
  BY <1>7 DEF Connect, Views
<1>8. EnterInit \/ LeaveInit \/ WebInit \/ RandomInit \/ ShipHeld \/ GiveUpShip \/ DrawOpponent \/ LeaveRandomInit
        => view' = view
  BY DEF EnterInit, LeaveInit, WebInit, RandomInit, ShipHeld, GiveUpShip, DrawOpponent, LeaveRandomInit
<1>9. AwaitButton \/ NoButton \/ AwaitOpponent \/ EnterGameOver \/ LeaveGameOver => view' = view
  BY DEF AwaitButton, NoButton, AwaitOpponent, EnterGameOver, LeaveGameOver
<1>10. EnterRestart \/ ClearBoat \/ LeaveRestart => view' = view
  BY DEF EnterRestart, ClearBoat, LeaveRestart
<1>11. RequestRandom \/ BeginSetup("ship") \/ BeginSetup("post") \/ SetupShipHeld \/ PostShipHeld \/ FinishSetup
        \/ RequestRestart => view' = view
  BY DEF RequestRandom, BeginSetup, SetupShipHeld, PostShipHeld, FinishSetup, RequestRestart
<1>12. ASSUME NEW request \in Requests, NEW length,
              SetupShip(request, length) \/ PostShip(request, length) \/ RejectShip(request, length)
       PROVE  view' = view
  BY <1>12 DEF SetupShip, PostShip, RejectShip
<1>13. UNCHANGED vars => view' = view
  BY DEF vars
<1> QED
  BY <1>2, <1>3, <1>4, <1>5, <1>6, <1>7, <1>8, <1>9, <1>10, <1>11, <1>12, <1>13
     DEF Next, Task, Steps, Server

LEMMA PlayersTyped ==
  ASSUME player \in Fleets, Whole(Human), OpponentKept
  PROVE  Players
<1>1. Human \in Player /\ opponent \in Player
  BY DEF Whole, Sound, OpponentKept
<1>2. Counted(player) \in Player => player \in Player
  <2> SUFFICES ASSUME Counted(player) \in Player  PROVE player \in Player
    OBVIOUS
  <2>1. /\ Counted(player).boat_count = player.boat_count + 1 /\ player.boat_count \in Nat
        /\ Counted(player).boats = player.boats
    BY DEF Counted, Fleets
  <2>2. player.boat_count \in 0 .. MAX_SHIPS /\ player.boats \in [BoatIndex -> Boat]
    BY <2>1 DEF Player
  <2> QED BY <2>2 DEF Player, Fleets
<1> QED
  BY <1>1, <1>2 DEF Human, Players

\* Every variable keeps its type; boat_count in particular stays in the array, although two
\* tasks and Game_Init write it, and the robot is sent to cells of the board.
THEOREM TaskTypeCorrect == ASSUME Disciplined = TRUE PROVE Spec => []TypeOK
<1> DEFINE Rest == Typed /\ robot \subseteq PieceTypes /\ view \in Views
<1>1. Safe => []Players
  BY PlayersTyped, FleetsAlways, HumanAlways, OpponentAlways, PTL
<1>2. Init => Rest
  <2>1. Init => Typed
    <3> SUFFICES ASSUME Init  PROVE Typed
      OBVIOUS
    <3>1. state = "INIT" /\ turn = 0 /\ game_ready = FALSE /\ noted = {} /\ pc = "init" /\ next = 0 /\ http = "idle"
      BY DEF Init
    <3>2. next \in 0 .. MAX_SHIPS + 1
      BY <3>1
    <3> QED BY <3>1, <3>2 DEF Typed
  <2>2. Init => robot \subseteq PieceTypes /\ view \in Views
    BY DEF Init, Views
  <2> QED BY <2>1, <2>2
<1>3. /\ Blocked /\ Turns /\ Setups /\ Drawing /\ player \in Fleets /\ Players /\ Players'
      /\ Rest /\ [Next]_vars
      => Rest'
  <2> SUFFICES ASSUME Blocked, Setups, Drawing, player \in Fleets, Players, Players', Rest, [Next]_vars
               PROVE  Rest'
    OBVIOUS
  <2>1. Typed'
    BY TypedStep
  <2>2. robot' \subseteq PieceTypes
    BY RobotTypeStep
  <2>3. view' \in Views
    BY ViewStep
  <2>4. PieceTypes' = PieceTypes /\ Views' = Views
    BY DEF PieceTypes, Views
  <2> QED BY <2>1, <2>2, <2>3
<1>4. Rest /\ Players /\ Screens /\ Setups => TypeOK
  <2> SUFFICES ASSUME Rest, Players, Screens, Setups  PROVE TypeOK
    OBVIOUS
  <2>1. aim \in Coordinate \cup {NoCell}
    BY DEF Setups
  <2>2. leds \in [{OPPONENT_MATRIX, PLAYER_MATRIX} -> [Coordinate -> {"RED", "GREEN", "BLUE", "CYAN"}]]
    BY DEF Screens, Panels, Matrices, Colours
  <2>3. view \in {NoPage, BlankPage} \cup [type : {"result"}, winner : {"player", "opponent"}]
             \cup [type : {"update"}, player : [Coordinate -> CellState],
                   opponent : [Coordinate -> CellState \ {"SHIP"}], turn : {0, 1}]
    BY DEF Views, Results, Updates
  <2> QED BY <2>1, <2>2, <2>3 DEF TypeOK, Typed, Players, PieceTypes
<1> HIDE DEF Rest
<1> QED
  BY <1>1, <1>2, <1>3, <1>4, BlockedAlways, SetupsAlways, DrawingAlways, FleetsAlways, ScreensAlways, SpecSafe, PTL
     DEF Safe
=============================================================================
