------------------------------ MODULE GameTask ------------------------------
(***************************************************************************)
(* The game task of src/battleship/game.c and the request handlers of      *)
(* src/http_server.c, which run in the server's own task and share the     *)
(* Game structure with it without a lock.                                  *)
(*                                                                         *)
(* The two tasks interleave where they block: at the delays (1 s in        *)
(* Game_Init, 10 s per placed or sunk ship, 2 s before the opponent's      *)
(* shot, 12.5 s per removed ship, 250 ms per round of the loop) and in     *)
(* xQueueReceive.  pc names the place where the game task is blocked, http *)
(* that of the server task, which serves one request at a time.            *)
(*                                                                         *)
(* The strategies of the computer are abstracted to what Match shows of    *)
(* them: a cell that it has not noted yet.  The difficulty and the sounds  *)
(* are left out.  The robot is the set of pieces on the physical board,    *)
(* each with the slot of the store it comes from and goes back to.  The    *)
(* LED matrices are the panel of colours that LedMatrix shows them to be.  *)
(* view is the last message on the active WebSocket: what its page shows.  *)
(* stray is a history variable: the program keeps no trace of what a       *)
(* refused setup left on the table once another has taken its place.       *)
(***************************************************************************)
EXTENDS Fleet, Sequences

CONSTANTS ship_lengths,   \* the sequence of ships that random placement uses
          SLOTS,          \* the 4 of the robot commands: the slot of a ship is SLOTS - length
          Places,         \* bound: the <<row, col, horizontal>> that are drawn
          Requests,       \* bound: the <<row, col, horizontal>> that the page sends
          Disciplined     \* TRUE: the page asks for a setup only when one is awaited, for the
                          \* first time or after a refusal, with ships on its board in the
                          \* order of ship_lengths (to place_ships, ships of its row 0)

ASSUME GameTaskAssumption ==
  /\ ship_lengths \in Seq(1 .. GRID_SIZE) /\ Len(ship_lengths) = MAX_SHIPS
  /\ SLOTS \in Nat
  /\ {Places, Requests} \subseteq SUBSET (Index \X Index \X BOOLEAN)
  /\ Disciplined \in BOOLEAN

\* The ships of each length have one slot: {4, 3, 2, 1} and SLOTS = 4 (include/game.h:18).
ASSUME SlotAssumption == \A i \in DOMAIN ship_lengths : ship_lengths[i] = SLOTS + 1 - i

VARIABLES state, turn, game_ready, player, opponent,   \* the Game structure
          noted,   \* the cells that are not empty on the computer's board
          robot,   \* the pieces on the physical board
          pc,      \* where the game task is blocked
          next,    \* its loop index over ships, or boats
          aim,     \* the cell of the opponent's shot in progress
          http,    \* where the server task is blocked
          leds,    \* the colours of the two matrices
          view,    \* what the page behind active_ws_fd was told last
          stray    \* history: the pieces whose slot of boats[] a later setup took

game == <<state, turn, game_ready, player, opponent>>
screens == <<leds, view>>
vars == <<game, noted, robot, pc, next, aim, http, screens, stray>>

NoCell == <<>>

OPPONENT_MATRIX == 1
PLAYER_MATRIX   == 2

Shade(cell, reveal) ==
  CASE cell = "SHIP"            -> IF reveal THEN "CYAN" ELSE "BLUE"
    [] cell \in {"HIT", "SUNK"} -> "RED"
    [] cell = "MISS"            -> "GREEN"
    [] OTHER                    -> "BLUE"

render_board_to_matrix(panel, cells, matrix_num, reveal) ==
  [panel EXCEPT ![matrix_num] = [c \in Coordinate |-> Shade(cells[c], reveal)]]

BothBoards(panel, mine, theirs) ==
  render_board_to_matrix(render_board_to_matrix(panel, mine, PLAYER_MATRIX, TRUE),
                         theirs, OPPONENT_MATRIX, FALSE)

led_matrix_init == [m \in {OPPONENT_MATRIX, PLAYER_MATRIX} |-> [c \in Coordinate |-> "BLUE"]]

\* The cell that a cell of the page stands for: its rows run from the last to the first.
Turned(c) == <<GRID_SIZE - 1 - c[1], c[2]>>

board_to_json(cells, revealShips) ==
  [c \in Coordinate |->
     LET cell == cells[Turned(c)]
     IN  IF cell = "SHIP" /\ ~revealShips THEN "EMPTY" ELSE cell]

NoPage    == [type |-> "none"]         \* active_ws_handle is NULL
BlankPage == [type |-> "connected"]    \* nothing sent on this connection yet

\* send_ws_game_update, "init" or "update"; nothing is sent without a connection.
send_ws_game_update(shown, mine, theirs, whose) ==
  IF shown = NoPage THEN NoPage
  ELSE [type     |-> "update",
        player   |-> board_to_json(mine.cells, TRUE),
        opponent |-> board_to_json(theirs.cells, FALSE),
        turn     |-> whose]

send_ws_result(shown, winner) ==
  IF shown = NoPage THEN NoPage ELSE [type |-> "result", winner |-> winner]

\* The first moment at which a request can find a Game: Game_Init is in its delay.
Init ==
  /\ state = "INIT" /\ turn = 0 /\ game_ready = FALSE
  /\ player = FreshPlayer /\ opponent = FreshPlayer
  /\ noted = {} /\ robot = {}
  /\ pc = "init" /\ next = 0 /\ aim = NoCell /\ http = "idle"
  /\ leds = led_matrix_init /\ view = NoPage
  /\ stray = {}

CanPlace(p, place, length) == can_place_ship(p.cells, place[1], place[2], length, place[3])
Placed(p, place, length)   == place_ship(p, place[1], place[2], length, place[3])

\* A robot command without its last byte, place or remove: the slot of the piece, the end
\* by which it is gripped, the direction.
Piece(ship_id, row, col, horizontal) ==
  [ship_id |-> ship_id, row |-> row, col |-> col, horizontal |-> horizontal]

\* Mutant: one column past the end.
GripPast(col, length, horizontal) == IF horizontal THEN col + length ELSE col

Grip(col, length, horizontal) == IF horizontal THEN col + length - 1 ELSE col

PieceOf(boat) ==
  Piece(SLOTS - boat.length, boat.row, Grip(boat.col, boat.length, boat.horizontal), boat.horizontal)

\* The piece of the boat that a ship placed next takes the slot of.
Displaced(p) ==
  LET boat == p.boats[p.boat_count]
  IN  IF boat.hit_count < boat.length THEN {PieceOf(boat)} ELSE {}

Counted(p) == [p EXCEPT !.boat_count = @ + 1]
Emptied(p) == [p EXCEPT !.boat_count = 0]

\* place_random_ships on the opponent's board, which no delay interrupts.
OpponentFleets(p) ==
  LET fleets[i \in 0 .. Len(ship_lengths)] ==
        IF i = 0 THEN {Emptied(p)}
        ELSE fleets[i - 1] \cup
             UNION {{Counted(Placed(q, place, ship_lengths[i])) :
                       place \in {x \in Places : CanPlace(q, x, ship_lengths[i])}} :
                    q \in fleets[i - 1]}
  IN  fleets[Len(ship_lengths)]
-----------------------------------------------------------------------------
(***************************************************************************)
(* The game task.                                                          *)
(***************************************************************************)
\* Mutant: the turn of the last game is kept.
EnterInitSameTurn ==
  /\ pc = "loop" /\ state = "INIT"
  /\ game_ready' = FALSE
  /\ player' = FreshPlayer /\ opponent' = FreshPlayer
  /\ noted' = {}
  /\ leds' = led_matrix_init
  /\ pc' = "init"
  /\ UNCHANGED <<state, turn, robot, next, aim, http, view, stray>>

EnterInit ==
  /\ pc = "loop" /\ state = "INIT"
  /\ turn' = 0 /\ game_ready' = FALSE
  /\ player' = FreshPlayer /\ opponent' = FreshPlayer
  /\ noted' = {}
  /\ leds' = led_matrix_init
  /\ pc' = "init"
  /\ UNCHANGED <<state, robot, next, aim, http, view, stray>>

LeaveInit ==
  /\ pc = "init"
  /\ state' = "WEB_INIT"
  /\ pc' = "loop"
  /\ UNCHANGED <<turn, game_ready, player, opponent, noted, robot, next, aim, http, screens, stray>>

\* Mutant: the player's ships are not shown.
WebInitUnrendered ==
  /\ pc = "loop" /\ state = "WEB_INIT" /\ game_ready
  /\ state' = "WAITING_FOR_PLAYER"
  /\ opponent' \in OpponentFleets(opponent)
  /\ UNCHANGED <<turn, game_ready, player, noted, robot, pc, next, aim, http, screens, stray>>

WebInit ==
  /\ pc = "loop" /\ state = "WEB_INIT" /\ game_ready
  /\ state' = "WAITING_FOR_PLAYER"
  /\ leds' = render_board_to_matrix(leds, player.cells, PLAYER_MATRIX, TRUE)
  /\ opponent' \in OpponentFleets(opponent)
  /\ UNCHANGED <<turn, game_ready, player, noted, robot, pc, next, aim, http, view, stray>>

RandomInit ==
  /\ pc = "loop" /\ state = "RANDOM_INIT"
  /\ player' = Emptied(player)
  /\ next' = 1
  /\ pc' = "draw"
  /\ UNCHANGED <<state, turn, game_ready, opponent, noted, robot, aim, http, screens, stray>>

DrawShip(place) ==
  /\ pc = "draw" /\ next <= Len(ship_lengths)
  /\ player.boat_count \in BoatIndex
  /\ CanPlace(player, place, ship_lengths[next])
  /\ player' = Placed(player, place, ship_lengths[next])
  /\ robot' = robot \cup
       {Piece(SLOTS - ship_lengths[next], place[1],
              Grip(place[2], ship_lengths[next], place[3]), place[3])}
  /\ view' = send_ws_game_update(view, player', opponent, turn)
  /\ stray' = stray \cup Displaced(player)
  /\ pc' = "held"
  /\ UNCHANGED <<state, turn, game_ready, opponent, noted, next, aim, http, leds>>

\* Mutant: boat_count is not raised.
ShipHeldUncounted ==
  /\ pc = "held"
  /\ next' = next + 1
  /\ pc' = "draw"
  /\ UNCHANGED <<state, turn, game_ready, player, opponent, noted, robot, aim, http, screens, stray>>

\* boat_count is raised after the delay.
ShipHeld ==
  /\ pc = "held"
  /\ player' = Counted(player)
  /\ next' = next + 1
  /\ pc' = "draw"
  /\ UNCHANGED <<state, turn, game_ready, opponent, noted, robot, aim, http, screens, stray>>

\* 100 draws found no place.
GiveUpShip ==
  /\ pc = "draw" /\ next <= Len(ship_lengths)
  /\ next' = next + 1
  /\ UNCHANGED <<state, turn, game_ready, player, opponent, noted, robot, pc, aim, http, screens, stray>>

DrawOpponent ==
  /\ pc = "draw" /\ next > Len(ship_lengths)
  /\ opponent' \in OpponentFleets(opponent)
  /\ leds' = render_board_to_matrix(leds, player.cells, PLAYER_MATRIX, TRUE)
  /\ next' = 0
  /\ pc' = "settle"
  /\ UNCHANGED <<state, turn, game_ready, player, noted, robot, aim, http, view, stray>>

LeaveRandomInit ==
  /\ pc = "settle"
  /\ state' = "WAITING_FOR_PLAYER"
  /\ pc' = "loop"
  /\ UNCHANGED <<turn, game_ready, player, opponent, noted, robot, next, aim, http, screens, stray>>

AwaitButton ==
  /\ pc = "loop" /\ state = "WAITING_FOR_PLAYER"
  /\ pc' = "button"
  /\ UNCHANGED <<game, noted, robot, next, aim, http, screens, stray>>

\* 100 ms without a message, or a message that is not a button.
NoButton ==
  /\ pc = "button"
  /\ pc' = "loop"
  /\ UNCHANGED <<game, noted, robot, next, aim, http, screens, stray>>

\* A press may have waited in the queue since an earlier state.
Button(c) ==
  /\ pc = "button"
  /\ pc' = "loop"
  /\ opponent' = AfterGuess(opponent, c)
  /\ IF GuessResult(opponent, c) = "0"
     THEN UNCHANGED <<state, turn, screens>>
     ELSE /\ turn' = 1
          /\ leds' = BothBoards(leds, player.cells, opponent'.cells)
          /\ \/ /\ all_ships_sunk(opponent')
                /\ state' = "GAME_OVER"
                /\ view' = send_ws_result(view, "player")
             \/ /\ ~all_ships_sunk(opponent')
                /\ state' = "WAITING_FOR_OPPONENT"
                /\ view' = send_ws_game_update(view, player, opponent', 1)
  /\ UNCHANGED <<game_ready, player, noted, robot, next, aim, http, stray>>

AwaitOpponent ==
  /\ pc = "loop" /\ state = "WAITING_FOR_OPPONENT"
  /\ pc' = "opponent"
  /\ UNCHANGED <<game, noted, robot, next, aim, http, screens, stray>>

\* Mutant: the page is told before the turn is passed on.
JudgeToldFirst(target) ==
  /\ leds' = BothBoards(leds, target.cells, opponent.cells)
  /\ turn' = 0
  /\ view' = send_ws_game_update(view, target, opponent, turn)
  /\ state' = IF all_ships_sunk(target) THEN "GAME_OVER" ELSE "WAITING_FOR_PLAYER"

\* After a shot at target, the player as it is now: the end of the game, or the human's turn.
Judge(target) ==
  /\ leds' = BothBoards(leds, target.cells, opponent.cells)
  /\ turn' = 0
  /\ \/ /\ all_ships_sunk(target)
        /\ state' = "GAME_OVER"
        /\ view' = send_ws_result(view, "opponent")
     \/ /\ ~all_ships_sunk(target)
        /\ state' = "WAITING_FOR_PLAYER"
        /\ view' = send_ws_game_update(view, target, opponent, 0)

\* Mutant: the computer does not note its misses.
ConcludeUnnoted(c, result, target) ==
  /\ pc' = "loop"
  /\ aim' = NoCell
  /\ noted' = IF result \in {"0", "M"} THEN noted ELSE noted \cup {c}
  /\ IF result = "0" THEN UNCHANGED <<state, turn, screens>> ELSE Judge(target)

\* What follows apply_guess(&game->player, c) = result.
Conclude(c, result, target) ==
  /\ pc' = "loop"
  /\ aim' = NoCell
  /\ noted' = IF result = "0" THEN noted ELSE noted \cup {c}
  /\ IF result = "0" THEN UNCHANGED <<state, turn, screens>> ELSE Judge(target)

\* The piece of a sunk ship is taken off the board before the shot concludes.
OpponentShot(c) ==
  /\ pc = "opponent" /\ c \notin noted
  /\ player' = AfterGuess(player, c)
  /\ IF GuessResult(player, c) = "S"
     THEN /\ pc' = "sinking" /\ aim' = c
          /\ robot' = robot \ {PieceOf(player.boats[OwnerOf(player, c)])}
          /\ UNCHANGED <<state, turn, noted, screens>>
     ELSE /\ Conclude(c, GuessResult(player, c), player')
          /\ UNCHANGED robot
  /\ UNCHANGED <<game_ready, opponent, next, http, stray>>

ShipSunk ==
  /\ pc = "sinking"
  /\ Conclude(aim, "S", player)
  /\ UNCHANGED <<game_ready, player, opponent, robot, next, http, stray>>

EnterGameOver ==
  /\ pc = "loop" /\ state = "GAME_OVER"
  /\ pc' = "over"
  /\ UNCHANGED <<game, noted, robot, next, aim, http, screens, stray>>

LeaveGameOver ==
  /\ pc = "over"
  /\ state' = "GAME_RESTART"
  /\ pc' = "loop"
  /\ UNCHANGED <<turn, game_ready, player, opponent, noted, robot, next, aim, http, screens, stray>>

EnterRestart ==
  /\ pc = "loop" /\ state = "GAME_RESTART"
  /\ noted' = {}
  /\ next' = 0
  /\ pc' = "clearing"
  /\ UNCHANGED <<game, robot, aim, http, screens, stray>>

\* Mutant: the piece of a damaged ship is left on the board.
ClearBoatUndamaged ==
  /\ pc = "clearing" /\ next < MAX_SHIPS
  /\ LET boat == player.boats[next]
     IN  robot' = IF boat.hit_count = 0 THEN robot \ {PieceOf(boat)} ELSE robot
  /\ next' = next + 1
  /\ UNCHANGED <<game, noted, pc, aim, http, screens, stray>>

\* Every boat of the array that is not sunk has a piece to remove, counted or not.
ClearBoat ==
  /\ pc = "clearing" /\ next < MAX_SHIPS
  /\ LET boat == player.boats[next]
     IN  robot' = IF boat.hit_count < boat.length THEN robot \ {PieceOf(boat)} ELSE robot
  /\ next' = next + 1
  /\ UNCHANGED <<game, noted, pc, aim, http, screens, stray>>

\* Mutant: Game_Init is skipped.
LeaveRestartNoInit ==
  /\ pc = "clearing" /\ next = MAX_SHIPS
  /\ state' = "WEB_INIT"
  /\ next' = 0
  /\ pc' = "loop"
  /\ UNCHANGED <<turn, game_ready, player, opponent, noted, robot, aim, http, screens, stray>>

LeaveRestart ==
  /\ pc = "clearing" /\ next = MAX_SHIPS
  /\ state' = "INIT"
  /\ next' = 0
  /\ pc' = "loop"
  /\ UNCHANGED <<turn, game_ready, player, opponent, noted, robot, aim, http, screens, stray>>

\* What the game task does besides the opponent's shot.
Steps ==
  \/ EnterInit \/ LeaveInit \/ WebInit
  \/ RandomInit \/ ShipHeld \/ GiveUpShip \/ DrawOpponent \/ LeaveRandomInit
  \/ AwaitButton \/ NoButton \/ AwaitOpponent \/ ShipSunk
  \/ EnterGameOver \/ LeaveGameOver \/ EnterRestart \/ ClearBoat \/ LeaveRestart
  \/ \E place \in Places : DrawShip(place)
  \/ \E c \in Coordinate : Button(c)

Task == Steps \/ \E c \in Coordinate : OpponentShot(c)
-----------------------------------------------------------------------------
(***************************************************************************)
(* The request handlers.                                                   *)
(***************************************************************************)
SetupAwaited ==
  state = "WEB_INIT" /\ pc = "loop" /\ ~game_ready

\* POST with "random": true
RequestRandom ==
  /\ http = "idle"
  /\ Disciplined => SetupAwaited
  /\ state' = "RANDOM_INIT"
  /\ UNCHANGED <<turn, game_ready, player, opponent, noted, robot, pc, next, aim, http, screens, stray>>

\* POST of a list of ships, to /api/setup_game ("ship") or to /api/place_ships ("post")
BeginSetup(path) ==
  /\ http = "idle"
  /\ Disciplined => SetupAwaited
  /\ player' = Emptied(player)
  /\ http' = path
  /\ UNCHANGED <<state, turn, game_ready, opponent, noted, robot, pc, next, aim, screens, stray>>

\* Mutant: the rows are taken as the page counts them.
SetupPlaceUnturned(request, length) == request

\* The page counts rows from the other side of the board, and a vertical ship from its
\* other end.
SetupPlace(request, length) ==
  <<GRID_SIZE - 1 - request[1] - (IF request[3] THEN 0 ELSE length - 1), request[2], request[3]>>

\* /api/place_ships adds instead: only row 0 of the page is on the board.
PostPlace(request) == <<request[1] + GRID_SIZE - 1, request[2], request[3]>>

\* can_place_ship looks at no memory outside cells[].
Readable(place, length) ==
  (IF place[3] THEN place[2] ELSE place[1]) + length <= GRID_SIZE => place[1] \in Index

\* The next ship of the list, if the loop does not break before it.
Listed(place, length) ==
  /\ player.boat_count < MAX_SHIPS
  /\ Disciplined => length = ship_lengths[player.boat_count + 1] /\ Readable(place, length)

\* A ship outside the board is accepted if the memory there reads as empty; bound: what
\* place_ship writes there is nothing that the program uses.
SetupShip(request, length) ==
  LET place == SetupPlace(request, length)
  IN  /\ http = "ship" /\ Listed(place, length)
      /\ CanPlace(player, place, length)
      /\ player' = Placed(player, place, length)
      /\ robot' = robot \cup
           {Piece(player.boat_count, place[1], Grip(place[2], length, place[3]), place[3])}
      /\ stray' = stray \cup Displaced(player)
      /\ http' = "held"
      /\ UNCHANGED <<state, turn, game_ready, opponent, noted, pc, next, aim, screens>>

SetupShipHeld ==
  /\ http = "held"
  /\ player' = Counted(player)
  /\ http' = "ship"
  /\ UNCHANGED <<state, turn, game_ready, opponent, noted, robot, pc, next, aim, screens, stray>>

\* Here boat_count is raised before the delay, and a vertical piece is gripped as if it
\* were horizontal.
PostShip(request, length) ==
  LET place == PostPlace(request)
  IN  /\ http = "post" /\ Listed(place, length)
      /\ CanPlace(player, place, length)
      /\ player' = Counted(Placed(player, place, length))
      /\ robot' = robot \cup
           {Piece(player.boat_count, place[1], place[2] + length - 1, place[3])}
      /\ stray' = stray \cup Displaced(player)
      /\ http' = "posted"
      /\ UNCHANGED <<state, turn, game_ready, opponent, noted, pc, next, aim, screens>>

PostShipHeld ==
  /\ http = "posted"
  /\ http' = "post"
  /\ UNCHANGED <<game, noted, robot, pc, next, aim, screens, stray>>

\* 400 "Invalid placement", or ESP_FAIL.  Outside the board the memory decides.
RejectShip(request, length) ==
  LET place == IF http = "ship" THEN SetupPlace(request, length) ELSE PostPlace(request)
  IN  /\ http \in {"ship", "post"} /\ Listed(place, length)
      /\ Readable(place, length) => ~CanPlace(player, place, length)
      /\ http' = "idle"
      /\ UNCHANGED <<game, noted, robot, pc, next, aim, screens, stray>>

FinishSetup ==
  /\ http \in {"ship", "post"}
  /\ game_ready' = TRUE
  /\ http' = "idle"
  /\ UNCHANGED <<state, turn, player, opponent, noted, robot, pc, next, aim, screens, stray>>

\* The GET of the WebSocket: a page is opened or reloaded.
Connect ==
  /\ http = "idle"
  /\ view' = BlankPage
  /\ UNCHANGED <<game, noted, robot, pc, next, aim, http, leds, stray>>

\* WebSocket text "init"
RequestUpdate ==
  /\ http = "idle" /\ view # NoPage
  /\ view' = send_ws_game_update(view, player, opponent, turn)
  /\ UNCHANGED <<game, noted, robot, pc, next, aim, http, leds, stray>>

\* WebSocket text "restart", in any state.
RequestRestart ==
  /\ http = "idle" /\ view # NoPage
  /\ state' = "GAME_RESTART"
  /\ UNCHANGED <<turn, game_ready, player, opponent, noted, robot, pc, next, aim, http, screens, stray>>

Server ==
  \/ RequestRandom \/ BeginSetup("ship") \/ BeginSetup("post")
  \/ SetupShipHeld \/ PostShipHeld \/ FinishSetup
  \/ Connect \/ RequestUpdate \/ RequestRestart
  \/ \E request \in Requests, i \in DOMAIN ship_lengths :
       \/ SetupShip(request, ship_lengths[i])
       \/ PostShip(request, ship_lengths[i])
       \/ RejectShip(request, ship_lengths[i])

Next == Task \/ Server

\* The scheduler runs a task whose delay is over; requests come or do not come, but
\* one that has begun goes on.
Fairness == WF_vars(Task) /\ WF_vars(SetupShipHeld \/ PostShipHeld \/ FinishSetup)

Spec == Init /\ [][Next]_vars /\ Fairness
-----------------------------------------------------------------------------
\* Every variable keeps its type; boat_count in particular stays in the array, although
\* two tasks and Game_Init write it, and the robot is sent to cells of the board.
TypeOK ==
  /\ state \in {"INIT", "WEB_INIT", "RANDOM_INIT", "WAITING_FOR_PLAYER",
                "WAITING_FOR_OPPONENT", "GAME_OVER", "GAME_RESTART"}
  /\ turn \in {0, 1} /\ game_ready \in BOOLEAN
  /\ player \in Player /\ opponent \in Player
  /\ noted \subseteq Coordinate
  /\ robot \subseteq [ship_id : 0 .. SLOTS - 1, row : Index, col : Index, horizontal : BOOLEAN]
  /\ pc \in {"loop", "init", "draw", "held", "settle", "button", "opponent", "sinking",
             "over", "clearing"}
  /\ next \in 0 .. MAX_SHIPS + 1 /\ aim \in Coordinate \cup {NoCell}
  /\ http \in {"idle", "ship", "held", "post", "posted"}
  /\ leds \in [{OPPONENT_MATRIX, PLAYER_MATRIX} ->
                 [Coordinate -> {"RED", "GREEN", "BLUE", "CYAN"}]]
  /\ view \in {NoPage, BlankPage} \cup [type : {"result"}, winner : {"player", "opponent"}]
             \cup [type : {"update"}, player : [Coordinate -> CellState],
                   opponent : [Coordinate -> CellState \ {"SHIP"}], turn : {0, 1}]

\* include/game.h:73 "bool turn; // 0 for player, 1 for opponent": the turn that the
\* browser is told is the turn that is awaited.
TurnMatchesState ==
  /\ state = "WAITING_FOR_PLAYER" => turn = 0
  /\ state = "WAITING_FOR_OPPONENT" => turn = 1

\* A restart is being served or about to be, Game_Init still to come.
Restarting == pc = "clearing" \/ (pc = "loop" /\ state \in {"GAME_RESTART", "INIT"})

\* The pieces that the array of boats, from one index on, knows to be on the board.
Pieces(from) ==
  {PieceOf(player.boats[b]) :
     b \in {d \in BoatIndex : d >= from /\ player.boats[d].hit_count < player.boats[d].length}}

\* A ship's piece is put down with it, taken off when it sinks, and all are gone when a new
\* game begins: on the physical board stand the ships that are afloat, and besides them only
\* pieces of refused setups whose slot another setup took.
RobotMatchesFleet ==
  /\ ~Restarting => Pieces(0) \subseteq robot
  /\ robot \subseteq stray \cup
       Pieces(IF pc = "clearing" THEN next ELSE IF state = "INIT" THEN MAX_SHIPS ELSE 0)

\* A game is declared over for a side with no unhit cell of a boat left, and that side is
\* the one that was shot at; the page is told the other one as the winner.
LoserSunk ==
  state = "GAME_OVER" =>
    LET loser == IF turn = 1 THEN opponent ELSE player
    IN  /\ {c \in Coordinate : loser.cells[c] = "SHIP"} \subseteq Orphans(loser)
        /\ turn = 1 => Orphans(loser) = {}
        /\ view.type = "result" => view.winner = IF turn = 1 THEN "player" ELSE "opponent"

\* What the computer remembers of its shots is what the board shows of them, but for the
\* orphans a refused setup left, also after a restart, which wipes the one at once and the
\* other seconds later.
NotesMatchBoard ==
  ~Restarting =>
    {c \in Coordinate : player.cells[c] \in Fired} \ Orphans(player) = noted \cup ({aim} \ {NoCell})

\* Whenever a shot is awaited the LEDs show both boards as they are, whatever reset them
\* or was set up in between, and never a ship of the opponent that has not been hit; only
\* orphans of the human may be out of date.
LedsShowBoards ==
  pc \in {"button", "opponent"} =>
    LET now == BothBoards(leds, player.cells, opponent.cells)
    IN  /\ leds[OPPONENT_MATRIX] = now[OPPONENT_MATRIX]
        /\ \A c \in Coordinate \ Orphans(player) : leds[PLAYER_MATRIX][c] = now[PLAYER_MATRIX][c]

\* From the first shot of a game on, whenever a shot is awaited the page that follows the
\* game shows both boards as they are, but for orphans of the human, and the side whose
\* shot it is: what it was told last, by either task, is never out of date.
BrowserSeesBoards ==
  (/\ pc \in {"button", "opponent"}
   /\ \E c \in Coordinate : opponent.cells[c] \in Fired
   /\ view \notin {NoPage, BlankPage})
    => LET now == send_ws_game_update(view, player, opponent, IF pc = "button" THEN 0 ELSE 1)
       IN  /\ view = [now EXCEPT !.player = view.player]
           /\ \A c \in Coordinate :
                view.player[c] = now.player[c] \/ Turned(c) \in Orphans(player)

\* The ship that a request asks for is shown exactly there, and besides it what was shown.
Shown(request, length) ==
  {c \in Coordinate : board_to_json(player'.cells, TRUE)[c] = "SHIP"} =
  {c \in Coordinate : board_to_json(player.cells, TRUE)[c] = "SHIP"}
    \cup Span(request[1], request[2], length, request[3])

\* A ship whose place begins on the board appears on the page where it was asked for,
\* although the two handlers and the board count the rows differently.  A horizontal ship
\* that /api/place_ships takes from another row than the page's first does not appear at
\* all: it lies behind the board (src/http_server.c:144); a disciplined page asks for none.
ShownAsRequested ==
  [][\A request \in Requests, i \in DOMAIN ship_lengths :
       LET length == ship_lengths[i]
       IN  (\/ SetupShip(request, length) /\ Readable(SetupPlace(request, length), length)
            \/ PostShip(request, length) /\ Readable(PostPlace(request), length))
           => Shown(request, length)]_vars

\* The computer's turn comes to an end unless there are orphans: it always finds a cell,
\* and its answer is never "already guessed" for ever.
OpponentAnswers ==
  state = "WAITING_FOR_OPPONENT" /\ Orphans(player) = {} ~> state # "WAITING_FOR_OPPONENT"

\* A restart that the game task meets at the head of its loop clears the physical board and
\* orders a new game, however often it is asked for again.
RestartServed == pc = "loop" /\ state = "GAME_RESTART" ~> state = "INIT"

\* src/http_server.c:192 "Setup game completed: difficulty=%d and randomized": a random
\* setup that was accepted takes place.
RandomSetupServed == state = "RANDOM_INIT" ~> pc = "draw"
=============================================================================
