-------------------------- MODULE GameFleetProofs ---------------------------
(***************************************************************************)
(* Proofs about GameFleet: the fleet in the hands of the two tasks is a    *)
(* fleet of GameLogic, for every size of the board, every list of ships    *)
(* and all places and requests on the board.                               *)
(***************************************************************************)
EXTENDS GameFleet, GameTaskProofs

USE FleetAssumption

LEMMA IsDisciplined == Disciplined = TRUE
BY GameFleetAssumption, GameTaskAssumption

LEMMA FleetNextIsNext ==
  ASSUME [FleetNext]_<<vars, history>>
  PROVE  [Next]_vars
BY DEF FleetNext, Next, Task

\* The history variables do not restrict what the tasks do.
LEMMA FleetSafe == FleetSpec => Safe
<1>1. FleetInit => Init
  BY DEF FleetInit
<1> QED
  BY <1>1, FleetNextIsNext, PTL DEF FleetSpec, Safe
-----------------------------------------------------------------------------
(***************************************************************************)
(* What a setup and the game have come to, by where the tasks are blocked. *)
(***************************************************************************)
LEMMA SetupCases ==
  /\ pc = "held" \/ http = "held" => Setup = "held"
  /\ pc # "held" /\ http # "held" /\ (pc = "draw" \/ http # "idle") => Setup = "open"
  /\ pc \notin {"draw", "held"} /\ http = "idle" => Setup = "none"
<1>1. CASE pc = "held" \/ http = "held"
  BY <1>1, Zenon DEF Setup
<1>2. CASE ~(pc = "held" \/ http = "held") /\ (pc = "draw" \/ http # "idle")
  BY <1>2, Zenon DEF Setup
<1>3. CASE pc \notin {"draw", "held"} /\ http = "idle"
  <2>1. ~(pc = "held" \/ http = "held") /\ ~(pc = "draw" \/ http # "idle")
    BY <1>3
  <2> QED BY <2>1, Zenon DEF Setup
<1> QED
  BY <1>1, <1>2, <1>3

LEMMA SetupCasesNext ==
  /\ pc' = "held" \/ http' = "held" => Setup' = "held"
  /\ pc' # "held" /\ http' # "held" /\ (pc' = "draw" \/ http' # "idle") => Setup' = "open"
  /\ pc' \notin {"draw", "held"} /\ http' = "idle" => Setup' = "none"
<1>1. CASE pc' = "held" \/ http' = "held"
  BY <1>1, Zenon DEF Setup
<1>2. CASE ~(pc' = "held" \/ http' = "held") /\ (pc' = "draw" \/ http' # "idle")
  BY <1>2, Zenon DEF Setup
<1>3. CASE pc' \notin {"draw", "held"} /\ http' = "idle"
  <2>1. ~(pc' = "held" \/ http' = "held") /\ ~(pc' = "draw" \/ http' # "idle")
    BY <1>3
  <2> QED BY <2>1, Zenon DEF Setup
<1> QED
  BY <1>1, <1>2, <1>3

\* No setup has been accepted since Game_Init.
Unset ==
  \/ pc \in {"init", "draw", "held"}
  \/ pc = "loop" /\ (state = "RANDOM_INIT" \/ (state = "WEB_INIT" /\ ~game_ready))

StageFits ==
  /\ Unset => stage = "idle"
  /\ pc \in {"init", "draw", "held"} \/ state = "RANDOM_INIT" => ~game_ready
  /\ pc \in {"button", "opponent", "settle"} => stage = "playing"
  /\ state \in {"WAITING_FOR_PLAYER", "WAITING_FOR_OPPONENT"} /\ pc # "sinking" => stage = "playing"
  /\ state = "WEB_INIT" /\ pc = "loop" /\ game_ready => stage = "playing"
  /\ pc = "sinking" => stage = IF all_ships_sunk(player) THEN "over" ELSE "playing"

\* How a step other than the opponent's shot moves the stage.
StageMoves == stage' = IF Accepted THEN "playing" ELSE IF pc' = "init" THEN "idle" ELSE stage

LEMMA SunkSame ==
  /\ all_ships_sunk(player)' = all_ships_sunk(player')
  /\ player' = player => all_ships_sunk(player') = all_ships_sunk(player)
BY DEF all_ships_sunk, LiveBoats

LEMMA StageStep ==
  ASSUME Blocked, Setups, StageFits, [FleetNext]_<<vars, history>>
  PROVE  StageFits'
<1> USE DEF game, Unset
<1>1. CASE UNCHANGED <<vars, history>>
  BY <1>1, SunkSame DEF vars, history, StageFits
<1>2. ASSUME NEW c \in Coordinate, OpponentShot(c), reply' = GuessResult(player, c),
             stage' = IF reply' # "0" /\ all_ships_sunk(player') THEN "over" ELSE stage
      PROVE  StageFits'
  <2>1. /\ pc = "opponent" /\ UNCHANGED game_ready /\ stage = "playing"
        /\ state \in {"WAITING_FOR_OPPONENT", "GAME_RESTART"}
    BY <1>2 DEF OpponentShot, Blocked, StageFits
  <2>2. CASE GuessResult(player, c) = "S"
    <3>1. pc' = "sinking" /\ state' = state
      BY <1>2, <2>2 DEF OpponentShot
    <3> QED BY <1>2, <2>1, <2>2, <3>1, SunkSame DEF StageFits
  <2>3. CASE GuessResult(player, c) = "0"
    <3>1. pc' = "loop" /\ state' = state /\ stage' = stage
      BY <1>2, <2>3 DEF OpponentShot, Conclude
    <3> QED BY <2>1, <3>1 DEF StageFits
  <2>4. CASE GuessResult(player, c) \notin {"S", "0"}
    <3>1. pc' = "loop" /\ Judge(player')
      BY <1>2, <2>4 DEF OpponentShot, Conclude
    <3>2. CASE all_ships_sunk(player')
      <4>1. state' = "GAME_OVER" /\ stage' = "over"
        BY <1>2, <2>4, <3>1, <3>2 DEF Judge
      <4> QED BY <2>1, <3>1, <4>1 DEF StageFits
    <3>3. CASE ~all_ships_sunk(player')
      <4>1. state' = "WAITING_FOR_PLAYER" /\ stage' = "playing"
        BY <1>2, <2>1, <3>1, <3>3 DEF Judge
      <4> QED BY <2>1, <3>1, <4>1 DEF StageFits
    <3> QED BY <3>2, <3>3
  <2> QED BY <2>2, <2>3, <2>4
<1>3. ASSUME StageMoves, EnterInit  PROVE StageFits'
  BY <1>3 DEF EnterInit, Accepted, StageMoves, StageFits
<1>4. ASSUME StageMoves, LeaveInit \/ WebInit \/ LeaveRandomInit  PROVE StageFits'
  BY <1>4 DEF LeaveInit, WebInit, LeaveRandomInit, Accepted, StageMoves, Blocked, StageFits
<1>5. ASSUME StageMoves, RandomInit \/ ShipHeld \/ GiveUpShip \/ (\E place \in Places : DrawShip(place))
      PROVE  StageFits'
  <2>1. /\ pc' \in {"draw", "held"} /\ UNCHANGED <<state, game_ready>>
        /\ state \in {"RANDOM_INIT", "GAME_RESTART"} /\ Unset
    BY <1>5 DEF RandomInit, ShipHeld, GiveUpShip, DrawShip, Blocked
  <2> QED BY <1>5, <2>1 DEF Accepted, StageMoves, StageFits
<1>6. ASSUME StageMoves, DrawOpponent  PROVE StageFits'
  BY <1>6 DEF DrawOpponent, Accepted, StageMoves, Blocked, StageFits
<1>7. ASSUME StageMoves, AwaitButton \/ NoButton \/ AwaitOpponent  PROVE StageFits'
  BY <1>7 DEF AwaitButton, NoButton, AwaitOpponent, Accepted, StageMoves, Blocked, StageFits
<1>8. ASSUME StageMoves, NEW c \in Coordinate, Button(c)  PROVE StageFits'
  <2>1. pc = "button" /\ pc' = "loop" /\ UNCHANGED game_ready
        /\ state' \in {state, "GAME_OVER", "WAITING_FOR_OPPONENT"}
    BY <1>8 DEF Button
  <2> QED BY <1>8, <2>1 DEF Accepted, StageMoves, Blocked, StageFits
<1>9. ASSUME StageMoves, ShipSunk  PROVE StageFits'
  <2>1. pc = "sinking" /\ pc' = "loop" /\ UNCHANGED game_ready /\ Judge(player)
    BY <1>9 DEF ShipSunk, Conclude
  <2>2. stage' = stage
    BY <1>9, <2>1 DEF Accepted, StageMoves
  <2>3. state' = IF all_ships_sunk(player) THEN "GAME_OVER" ELSE "WAITING_FOR_PLAYER"
    BY <2>1 DEF Judge
  <2> QED BY <2>1, <2>2, <2>3 DEF StageFits
<1>10. ASSUME StageMoves, EnterGameOver \/ LeaveGameOver \/ EnterRestart \/ ClearBoat \/ LeaveRestart
       PROVE  StageFits'
  BY <1>10 DEF EnterGameOver, LeaveGameOver, EnterRestart, ClearBoat, LeaveRestart, Accepted, StageMoves,
              Blocked, StageFits
<1>11. ASSUME StageMoves, Connect \/ RequestUpdate \/ RequestRestart  PROVE StageFits'
  <2>1. UNCHANGED <<game_ready, player, pc>> /\ state' \in {state, "GAME_RESTART"}
    BY <1>11 DEF Connect, RequestUpdate, RequestRestart
  <2>2. stage' = stage
    BY <1>11, <2>1 DEF Accepted, StageMoves, StageFits
  <2> QED BY <2>1, <2>2, SunkSame DEF StageFits
<1>12. ASSUME StageMoves, RequestRandom, Disciplined = TRUE  PROVE StageFits'
  BY <1>12 DEF RequestRandom, SetupAwaited, Accepted, StageMoves, StageFits
<1>13. ASSUME StageMoves, Disciplined = TRUE,
              \/ BeginSetup("ship") \/ BeginSetup("post") \/ SetupShipHeld \/ PostShipHeld
              \/ (\E request \in Requests, i \in DOMAIN ship_lengths :
                     \/ SetupShip(request, ship_lengths[i])
                     \/ PostShip(request, ship_lengths[i])
                     \/ RejectShip(request, ship_lengths[i]))
       PROVE  StageFits'
  <2>1. pc = "loop" /\ state = "WEB_INIT" /\ ~game_ready /\ UNCHANGED <<game_ready, pc, state>>
    BY <1>13 DEF BeginSetup, SetupAwaited, SetupShipHeld, PostShipHeld, SetupShip, PostShip, RejectShip, Blocked
  <2> QED BY <1>13, <2>1 DEF Accepted, StageMoves, StageFits
<1>14. ASSUME StageMoves, FinishSetup  PROVE StageFits'
  BY <1>14 DEF FinishSetup, Accepted, StageMoves, Blocked, StageFits
<1>15. ASSUME Steps \/ Server, StageMoves  PROVE StageFits'
  BY <1>3, <1>4, <1>5, <1>6, <1>7, <1>8, <1>9, <1>10, <1>11, <1>12, <1>13, <1>14, <1>15,
     IsDisciplined DEF Steps, Server
<1> QED
  BY <1>1, <1>2, <1>15 DEF FleetNext, StageMoves

LEMMA StageAlways == FleetSpec => []StageFits
<1>1. FleetInit => StageFits
  BY DEF FleetInit, Init, StageFits, Unset
<1>2. Blocked /\ Setups /\ StageFits /\ [FleetNext]_<<vars, history>> => StageFits'
  BY StageStep
<1> QED
  BY <1>1, <1>2, IsDisciplined, FleetSafe, BlockedAlways, SetupsAlways, PTL DEF FleetSpec
-----------------------------------------------------------------------------
(***************************************************************************)
(* Each step of the tasks is one of GameLogic's for the human's fleet, or  *)
(* leaves it as it is.                                                     *)
(***************************************************************************)
\* GameLogic, as it is instantiated, speaks of the same board.
LEMMA SameFleet ==
  /\ L!FreshPlayer = FreshPlayer /\ L!EmptyCells = EmptyCells
  /\ L!Coordinate = Coordinate /\ L!Index = Index
  /\ \A p : L!all_ships_sunk(p) <=> all_ships_sunk(p)
  /\ \A p, c : L!AfterGuess(p, c) = AfterGuess(p, c) /\ L!GuessResult(p, c) = GuessResult(p, c)
  /\ \A cells, row, col, length, horizontal :
       L!can_place_ship(cells, row, col, length, horizontal) <=>
         can_place_ship(cells, row, col, length, horizontal)
  /\ \A p, row, col, length, horizontal :
       L!place_ship(p, row, col, length, horizontal) = place_ship(p, row, col, length, horizontal)
<1>1. L!Coordinate = Coordinate /\ L!Index = Index /\ L!EmptyCells = EmptyCells
  BY DEF L!Coordinate, L!Index, L!EmptyCells, Coordinate, Index, EmptyCells
<1>2. L!FreshPlayer = FreshPlayer
  BY <1>1 DEF L!FreshPlayer, FreshPlayer, L!ZeroBoat, ZeroBoat, L!BoatIndex, BoatIndex
<1>3. \A p : L!all_ships_sunk(p) <=> all_ships_sunk(p)
  BY DEF L!all_ships_sunk, all_ships_sunk, L!LiveBoats, LiveBoats
<1>4. \A p, c : L!GuessResult(p, c) = GuessResult(p, c) /\ L!OwnerOf(p, c) = OwnerOf(p, c)
  BY DEF L!GuessResult, GuessResult, L!Fired, Fired, L!OwnerOf, OwnerOf, L!Owners, Owners,
         L!coords, coords, L!Span, Span, L!LiveBoats, LiveBoats
<1>5. \A p, c : L!AfterGuess(p, c) = AfterGuess(p, c)
  BY DEF L!AfterGuess, AfterGuess, L!GuessResult, GuessResult, L!Fired, Fired, L!OwnerOf, OwnerOf,
         L!Owners, Owners, L!coords, coords, L!Span, Span, L!LiveBoats, LiveBoats, L!Mark, Mark, L!Hit, Hit,
         L!Coordinate, Coordinate, L!Index, Index, L!BoatIndex, BoatIndex
<1>6. \A cells, row, col, length, horizontal :
        L!can_place_ship(cells, row, col, length, horizontal) <=>
          can_place_ship(cells, row, col, length, horizontal)
  BY DEF L!can_place_ship, can_place_ship, L!Span, Span, L!Coordinate, Coordinate, L!Index, Index
<1>7. \A p, row, col, length, horizontal :
        L!place_ship(p, row, col, length, horizontal) = place_ship(p, row, col, length, horizontal)
  BY <1>1 DEF L!place_ship, place_ship, L!Span, Span
<1> QED
  BY <1>1, <1>2, <1>3, <1>4, <1>5, <1>6, <1>7

Lengths == {ship_lengths[i] : i \in DOMAIN ship_lengths}

\* The steps of GameLogic in the words of this module: those of no particular ship ...
LEMMA PlainSteps ==
  /\ (/\ Setup = "none" /\ Setup' = "open" /\ stage = "idle"
      /\ player' = Emptied(player) /\ UNCHANGED <<stage, reply>>) => L!Next
  /\ (/\ Setup = "held" /\ Setup' = "open"
      /\ player' = Counted(player) /\ UNCHANGED <<stage, reply>>) => L!Next
  /\ (/\ Setup = "open" /\ Setup' = "none" /\ stage' = "playing" /\ UNCHANGED <<player, reply>>) => L!Next
  /\ (/\ Setup = "none" /\ Setup' = "none" /\ player' = FreshPlayer
      /\ stage' = "idle" /\ reply' = reply) => L!Next
<1>1. L!BeginPlacement \/ L!CountShip \/ L!FinishPlacement \/ L!Restart => L!Next
  BY DEF L!Next
<1>2. (/\ Setup = "none" /\ Setup' = "open" /\ stage = "idle"
       /\ player' = Emptied(player) /\ UNCHANGED <<stage, reply>>) => L!BeginPlacement
  BY DEF L!BeginPlacement, Emptied
<1>3. (/\ Setup = "held" /\ Setup' = "open"
       /\ player' = Counted(player) /\ UNCHANGED <<stage, reply>>) => L!CountShip
  BY DEF L!CountShip, Counted
<1>4. Setup = "open" /\ Setup' = "none" /\ stage' = "playing" /\ UNCHANGED <<player, reply>>
        => L!FinishPlacement
  BY DEF L!FinishPlacement
<1>5. (/\ Setup = "none" /\ Setup' = "none" /\ player' = FreshPlayer
       /\ stage' = "idle" /\ reply' = reply) => L!Restart
  BY SameFleet DEF L!Restart
<1> QED
  BY <1>1, <1>2, <1>3, <1>4, <1>5

\* ... those of a ship, and the shot.
LEMMA ShipSteps ==
  ASSUME NEW row \in Index, NEW col \in Index, NEW length \in Lengths, NEW horizontal \in BOOLEAN,
         Setup = "open", player.boat_count < MAX_SHIPS,
         can_place_ship(player.cells, row, col, length, horizontal), UNCHANGED <<stage, reply>>,
         \/ Setup' = "held" /\ player' = place_ship(player, row, col, length, horizontal)
         \/ Setup' = "open" /\ player' = Counted(place_ship(player, row, col, length, horizontal))
  PROVE  L!Next
<1>1. CASE Setup' = "held" /\ player' = place_ship(player, row, col, length, horizontal)
  <2>1. L!PlaceShip(row, col, length, horizontal)
    BY <1>1, SameFleet DEF L!PlaceShip
  <2> QED BY <2>1, SameFleet DEF L!Next, Lengths
<1>2. CASE Setup' = "open" /\ player' = Counted(place_ship(player, row, col, length, horizontal))
  <2>1. L!PlaceCounted(row, col, length, horizontal)
    BY <1>2, SameFleet DEF L!PlaceCounted, Counted
  <2> QED BY <2>1, SameFleet DEF L!Next, Lengths
<1> QED
  BY <1>1, <1>2

LEMMA RejectStep ==
  ASSUME NEW row \in 0 .. 2 * (GRID_SIZE - 1), NEW col \in Index, NEW length \in Lengths,
         NEW horizontal \in BOOLEAN,
         Setup = "open", Setup' = "none", player.boat_count < MAX_SHIPS,
         ~can_place_ship(player.cells, row, col, length, horizontal), UNCHANGED <<player, stage, reply>>
  PROVE  L!Next
<1>1. L!RejectPlacement(row, col, length, horizontal)
  BY SameFleet DEF L!RejectPlacement
<1> QED
  BY <1>1, SameFleet DEF L!Next, Lengths, L!RequestRows

LEMMA ShotStep ==
  ASSUME NEW c \in Coordinate, stage = "playing", player.boat_count <= MAX_SHIPS, Setup' = Setup,
         player' = AfterGuess(player, c), reply' = GuessResult(player, c),
         stage' = IF reply' # "0" /\ all_ships_sunk(player') THEN "over" ELSE "playing"
  PROVE  L!Next
<1>1. L!Guess(c)
  BY SameFleet DEF L!Guess
<1> QED
  BY <1>1, SameFleet DEF L!Next

Stutters == UNCHANGED <<player, Setup, stage, reply>>

\* A place that is rejected is one that GameLogic's requests ask for.
LEMMA RejectedRow ==
  ASSUME NEW request \in Index \X Index \X BOOLEAN, NEW length \in 1 .. GRID_SIZE,
         NEW place \in {SetupPlace(request, length), PostPlace(request)}, Readable(place, length)
  PROVE  place[1] \in 0 .. 2 * (GRID_SIZE - 1) /\ place[2] \in Index /\ place[3] \in BOOLEAN
<1>1. request[1] \in Index /\ request[2] \in Index /\ request[3] \in BOOLEAN
  OBVIOUS
<1>2. place[2] = request[2] /\ place[3] = request[3]
  BY DEF SetupPlace, PostPlace
<1>3. CASE place = PostPlace(request)
  BY <1>1, <1>2, <1>3 DEF PostPlace, Index
<1>4. CASE place = SetupPlace(request, length)
  <2>1. place[1] = GRID_SIZE - 1 - request[1] - (IF request[3] THEN 0 ELSE length - 1)
    BY <1>4 DEF SetupPlace
  <2>2. CASE request[3]
    BY <1>1, <1>2, <2>1, <2>2 DEF Index
  <2>3. CASE ~request[3]
    <3>1. place[1] + length <= GRID_SIZE
      BY <1>1, <2>1, <2>3 DEF Index
    <3>2. place[1] \in Index
      BY <1>2, <2>3, <3>1 DEF Readable
    <3> QED BY <1>1, <1>2, <3>2 DEF Index
  <2> QED BY <2>2, <2>3
<1> QED
  BY <1>3, <1>4

LEMMA FleetStep ==
  ASSUME Blocked, Setups, Drawing, player \in Fleets, Whole(Human), Notes, StageFits,
         [FleetNext]_<<vars, history>>
  PROVE  L!Next \/ Stutters
<1> USE DEF game, history, Stutters
<1>1. CASE UNCHANGED <<vars, history>>
  BY <1>1 DEF vars, Setup
<1>2. ASSUME NEW c \in Coordinate, OpponentShot(c), reply' = GuessResult(player, c),
             stage' = IF reply' # "0" /\ all_ships_sunk(player') THEN "over" ELSE stage
      PROVE  L!Next
  <2>1. /\ pc = "opponent" /\ pc' \in {"sinking", "loop"} /\ http = "idle" /\ http' = "idle"
        /\ player' = AfterGuess(player, c) /\ stage = "playing"
    BY <1>2 DEF OpponentShot, Conclude, Blocked, StageFits
  <2>2. Setup = "none" /\ Setup' = "none"
    BY <2>1, SetupCases, SetupCasesNext
  <2>3. player.boat_count <= MAX_SHIPS
    BY <2>1, HumanIsPlayer DEF Whole, Sound, Player
  <2> QED BY <1>2, <2>1, <2>2, <2>3, ShotStep
<1>3. ASSUME reply' = reply, StageMoves, EnterInit  PROVE L!Next
  <2>1. player' = FreshPlayer /\ pc = "loop" /\ pc' = "init" /\ http = "idle" /\ http' = "idle"
        /\ ~game_ready'
    BY <1>3 DEF EnterInit, Blocked
  <2>2. Setup = "none" /\ Setup' = "none"
    BY <2>1, SetupCases, SetupCasesNext
  <2>3. stage' = "idle"
    BY <1>3, <2>1 DEF Accepted, StageMoves
  <2> QED BY <1>3, <2>1, <2>2, <2>3, PlainSteps
<1>4. ASSUME reply' = reply, StageMoves, RandomInit \/ BeginSetup("ship") \/ BeginSetup("post")
      PROVE  L!Next
  <2>1. /\ player' = Emptied(player) /\ pc = "loop" /\ http = "idle" /\ game_ready' = game_ready /\ Unset
        /\ \/ pc' = "draw" /\ http' = "idle"
           \/ pc' = "loop" /\ http' \in {"ship", "post"}
    BY <1>4, IsDisciplined DEF RandomInit, BeginSetup, SetupAwaited, Blocked, Unset
  <2>2. Setup = "none" /\ Setup' = "open"
    BY <2>1, SetupCases, SetupCasesNext
  <2>3. stage = "idle" /\ stage' = stage
    BY <1>4, <2>1 DEF Accepted, StageMoves, StageFits
  <2> QED BY <1>4, <2>1, <2>2, <2>3, PlainSteps
<1>5. ASSUME reply' = reply, StageMoves, NEW place \in Places, DrawShip(place)  PROVE L!Next
  <2>1. place[1] \in Index /\ place[2] \in Index /\ place[3] \in BOOLEAN
    BY Inputs
  <2>2. next \in DOMAIN ship_lengths /\ player.boat_count < MAX_SHIPS
    BY <1>5, IsDisciplined, DrawShipDeploys DEF Deploys
  <2>3. /\ can_place_ship(player.cells, place[1], place[2], ship_lengths[next], place[3])
        /\ player' = place_ship(player, place[1], place[2], ship_lengths[next], place[3])
        /\ pc = "draw" /\ pc' = "held" /\ http = "idle" /\ http' = "idle" /\ game_ready' = game_ready
    BY <1>5 DEF DrawShip, CanPlace, Placed, Blocked
  <2>4. Setup = "open" /\ Setup' = "held" /\ stage' = stage
    BY <1>5, <2>3, SetupCases, SetupCasesNext DEF Accepted, StageMoves
  <2>5. ship_lengths[next] \in Lengths
    BY <2>2 DEF Lengths
  <2> QED BY <1>5, <2>1, <2>2, <2>3, <2>4, <2>5, ShipSteps
<1>6. ASSUME reply' = reply, StageMoves, NEW request \in Requests, NEW i \in DOMAIN ship_lengths,
             SetupShip(request, ship_lengths[i]) \/ PostShip(request, ship_lengths[i])
      PROVE  L!Next
  <2>1. PICK place \in Index \X Index \X BOOLEAN :
          /\ Deploys(place[1], place[2], ship_lengths[i], place[3])
          /\ \/ place = SetupPlace(request, ship_lengths[i]) /\ SetupShip(request, ship_lengths[i])
             \/ place = PostPlace(request) /\ PostShip(request, ship_lengths[i])
    BY <1>6, IsDisciplined, SetupShipDeploys
  <2>2. place[1] \in Index /\ place[2] \in Index /\ place[3] \in BOOLEAN /\ ship_lengths[i] \in Lengths
    BY DEF Lengths
  <2>3. /\ player.boat_count < MAX_SHIPS
        /\ can_place_ship(player.cells, place[1], place[2], ship_lengths[i], place[3])
    BY <2>1 DEF Deploys
  <2>4. /\ pc = "loop" /\ pc' = "loop" /\ game_ready' = game_ready
        /\ \/ /\ http = "ship" /\ http' = "held"
              /\ player' = place_ship(player, place[1], place[2], ship_lengths[i], place[3])
           \/ /\ http = "post" /\ http' = "posted"
              /\ player' = Counted(place_ship(player, place[1], place[2], ship_lengths[i], place[3]))
    BY <2>1 DEF SetupShip, PostShip, Placed, Blocked
  <2>5. stage' = stage
    BY <1>6, <2>4 DEF Accepted, StageMoves
  <2>6. Setup = "open" /\ Setup' = IF http = "ship" THEN "held" ELSE "open"
    BY <2>4, SetupCases, SetupCasesNext
  <2> QED BY <1>6, <2>2, <2>3, <2>4, <2>5, <2>6, ShipSteps
<1>7. ASSUME reply' = reply, StageMoves, NEW request \in Requests, NEW i \in DOMAIN ship_lengths,
             RejectShip(request, ship_lengths[i])
      PROVE  L!Next
  <2> DEFINE length == ship_lengths[i]
             place == IF http = "ship" THEN SetupPlace(request, length) ELSE PostPlace(request)
  <2>1. /\ http \in {"ship", "post"} /\ http' = "idle" /\ pc = "loop" /\ UNCHANGED <<player, pc, game_ready>>
        /\ player.boat_count < MAX_SHIPS /\ Readable(place, length) /\ ~CanPlace(player, place, length)
    BY <1>7, IsDisciplined DEF RejectShip, Listed, Blocked
  <2>2. request \in Index \X Index \X BOOLEAN /\ length \in 1 .. GRID_SIZE /\ length \in Lengths
    BY Inputs DEF Lengths
  <2>3. place \in {SetupPlace(request, length), PostPlace(request)}
    OBVIOUS
  <2> HIDE DEF place, length
  <2>4. place[1] \in 0 .. 2 * (GRID_SIZE - 1) /\ place[2] \in Index /\ place[3] \in BOOLEAN
    BY <2>1, <2>2, <2>3, RejectedRow
  <2>5. ~can_place_ship(player.cells, place[1], place[2], length, place[3])
    BY <2>1 DEF CanPlace
  <2>6. Setup = "open" /\ Setup' = "none" /\ stage' = stage
    BY <1>7, <2>1, SetupCases, SetupCasesNext DEF Accepted, StageMoves
  <2> QED BY <1>7, <2>1, <2>2, <2>4, <2>5, <2>6, RejectStep
<1>8. ASSUME reply' = reply, FinishSetup \/ DrawOpponent, StageMoves  PROVE L!Next
  <2>1. /\ UNCHANGED player /\ Accepted /\ http' = "idle" /\ pc' \in {"loop", "settle"}
        /\ pc # "held" /\ http # "held" /\ (pc = "draw" \/ http # "idle")
    BY <1>8 DEF FinishSetup, DrawOpponent, Blocked, Accepted
  <2>2. Setup = "open" /\ Setup' = "none" /\ stage' = "playing"
    BY <1>8, <2>1, SetupCases, SetupCasesNext DEF StageMoves
  <2> QED BY <1>8, <2>1, <2>2, PlainSteps
<1>9. ASSUME reply' = reply, StageMoves, ShipHeld \/ SetupShipHeld  PROVE L!Next
  <2>1. /\ player' = Counted(player) /\ game_ready' = game_ready
        /\ \/ pc = "held" /\ pc' = "draw" /\ http = "idle" /\ http' = "idle"
           \/ pc = "loop" /\ pc' = "loop" /\ http = "held" /\ http' = "ship"
    BY <1>9 DEF ShipHeld, SetupShipHeld, Blocked
  <2>2. Setup = "held" /\ Setup' = "open" /\ stage' = stage
    BY <1>9, <2>1, SetupCases, SetupCasesNext DEF Accepted, StageMoves
  <2> QED BY <1>9, <2>1, <2>2, PlainSteps
<1>10. ASSUME reply' = reply, StageMoves, GiveUpShip \/ PostShipHeld  PROVE Stutters
  <2>1. /\ UNCHANGED <<player, game_ready>>
        /\ \/ pc = "draw" /\ pc' = "draw" /\ http = "idle" /\ http' = "idle"
           \/ pc = "loop" /\ pc' = "loop" /\ http = "posted" /\ http' = "post"
    BY <1>10 DEF GiveUpShip, PostShipHeld, Blocked
  <2>2. Setup = "open" /\ Setup' = "open" /\ stage' = stage
    BY <1>10, <2>1, SetupCases, SetupCasesNext DEF Accepted, StageMoves
  <2> QED BY <1>10, <2>1, <2>2
<1>11. ASSUME reply' = reply, StageMoves,
              \/ LeaveInit \/ WebInit \/ LeaveRandomInit \/ AwaitButton \/ NoButton \/ AwaitOpponent \/ ShipSunk
              \/ EnterGameOver \/ LeaveGameOver \/ EnterRestart \/ ClearBoat \/ LeaveRestart
              \/ \E c \in Coordinate : Button(c)
       PROVE  Stutters
  <2>1. /\ UNCHANGED <<player, http, game_ready>> /\ http = "idle"
        /\ pc \notin {"draw", "held"} /\ pc' \notin {"init", "draw", "held"}
    <3>1. CASE LeaveInit \/ WebInit \/ LeaveRandomInit \/ AwaitButton \/ NoButton \/ AwaitOpponent
      BY <3>1 DEF LeaveInit, WebInit, LeaveRandomInit, AwaitButton, NoButton, AwaitOpponent, Blocked
    <3>2. CASE ShipSunk \/ \E c \in Coordinate : Button(c)
      BY <3>2 DEF ShipSunk, Conclude, Button, Blocked
    <3>3. CASE EnterGameOver \/ LeaveGameOver \/ EnterRestart \/ ClearBoat \/ LeaveRestart
      BY <3>3 DEF EnterGameOver, LeaveGameOver, EnterRestart, ClearBoat, LeaveRestart, Blocked
    <3> QED BY <1>11, <3>1, <3>2, <3>3
  <2>2. Setup = "none" /\ Setup' = "none" /\ stage' = stage
    BY <1>11, <2>1, SetupCases, SetupCasesNext DEF Accepted, StageMoves
  <2> QED BY <1>11, <2>1, <2>2
<1>12. ASSUME reply' = reply, StageMoves, RequestRandom \/ Connect \/ RequestUpdate \/ RequestRestart
       PROVE  Stutters
  <2>1. UNCHANGED <<game_ready, player, http, pc>>
    BY <1>12 DEF RequestRandom, Connect, RequestUpdate, RequestRestart
  <2>2. stage' = stage
    BY <1>12, <2>1 DEF Accepted, StageMoves, StageFits, Unset
  <2> QED BY <1>12, <2>1, <2>2 DEF Setup
<1>13. ASSUME reply' = reply, StageMoves, Steps \/ Server  PROVE L!Next \/ Stutters
  BY <1>3, <1>4, <1>5, <1>6, <1>7, <1>8, <1>9, <1>10, <1>11, <1>12, <1>13 DEF Steps, Server
<1> QED
  BY <1>1, <1>2, <1>13 DEF FleetNext, StageMoves

\* The fleet in the hands of the two tasks is a fleet of GameLogic set up before the game,
\* for the first time or after a refusal, whatever the tasks do in each other's delays, for
\* every board, list of ships, place and request.
THEOREM GameLogicRefined == FleetSpec => ImplementsGameLogic
<1>1. FleetInit => L!Init
  BY SameFleet, SetupCases DEF FleetInit, Init, L!Init
<1>2. Stutters => UNCHANGED L!vars
  BY DEF Stutters, L!vars
<1>3. Blocked /\ Setups /\ Drawing /\ player \in Fleets /\ Whole(Human) /\ Notes /\ StageFits
      /\ [FleetNext]_<<vars, history>>
      => [L!Next]_L!vars
  BY <1>2, FleetStep
<1> QED
  BY <1>1, <1>3, IsDisciplined, FleetSafe, BlockedAlways, SetupsAlways, DrawingAlways, FleetsAlways,
     HumanAlways, NotesAlways, StageAlways, PTL DEF FleetSpec, ImplementsGameLogic, L!Spec

\* No other step does what a shot of the computer does.
LEMMA ShotOnly ==
  ASSUME NEW c \in Coordinate, OpponentShot(c), Steps \/ Server
  PROVE  FALSE
<1>1. pc = "opponent" /\ pc' # "opponent"
  BY DEF OpponentShot, Conclude
<1>2. CASE Server
  BY <1>1, <1>2 DEF Server, RequestRandom, BeginSetup, SetupShipHeld, PostShipHeld, FinishSetup, Connect,
     RequestUpdate, RequestRestart, SetupShip, PostShip, RejectShip
<1>3. CASE Steps
  BY <1>1, <1>3 DEF Steps, EnterInit, LeaveInit, WebInit, RandomInit, ShipHeld, GiveUpShip, DrawOpponent,
     LeaveRandomInit, AwaitButton, NoButton, AwaitOpponent, ShipSunk, EnterGameOver, LeaveGameOver,
     EnterRestart, ClearBoat, LeaveRestart, DrawShip, Button
<1> QED
  BY <1>2, <1>3

\* Of the cells that the computer chooses, none is answered with 0 but an orphan: a cell of
\* a ship that a refused setup left without a boat.
THEOREM TurnsCount == FleetSpec => NoTurnWasted
<1>1. ASSUME Blocked, Setups, Whole(Human), Notes, [FleetNext]_<<vars, history>>
      PROVE  [\A c \in Coordinate :
                OpponentShot(c) /\ reply' = "0" => c \in Orphans(player)]_<<vars, history>>
  <2>1. ASSUME NEW c \in Coordinate, OpponentShot(c), reply' = "0", FleetNext
        PROVE  c \in Orphans(player)
    <3>1. PICK d \in Coordinate : OpponentShot(d) /\ reply' = GuessResult(player, d)
      BY <2>1, ShotOnly DEF FleetNext
    <3>2. d \in Orphans(player) /\ ShotAt(player'.cells) = ShotAt(player.cells) \cup {d}
      BY <1>1, <2>1, <3>1, IsDisciplined, ShotNoted
    <3>3. /\ ShotAt(player'.cells) = ShotAt(player.cells) \cup {c}
          /\ ShotAt(player.cells) \ Orphans(player) = noted
      BY <1>1, <2>1, IsDisciplined, ShotNoted
    <3>4. c \notin noted
      BY <2>1 DEF OpponentShot
    <3> QED BY <3>2, <3>3, <3>4
  <2> QED BY <1>1, <2>1
<1> QED
  BY <1>1, IsDisciplined, FleetSafe, BlockedAlways, SetupsAlways, HumanAlways, NotesAlways, PTL
     DEF FleetSpec, NoTurnWasted
=============================================================================
