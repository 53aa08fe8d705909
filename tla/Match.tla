------------------------------- MODULE Match --------------------------------
(***************************************************************************)
(* The computer's side of one match: the opponent's turns of game_task     *)
(* (src/battleship/game.c:145-176) against a fleet set up by               *)
(* place_random_ships, with the difficulty changed by requests at any      *)
(* time.  The human's turns in between touch none of this state.           *)
(***************************************************************************)
EXTENDS GameEngine

CONSTANT Matches    \* the matches: a fleet, and the levels that are selected during one

Unscathed(p) ==
  /\ \A b \in LiveBoats(p) : p.boats[b].length > 0 /\ p.boats[b].hit_count = 0
  /\ \A b, d \in LiveBoats(p) : b # d => coords(p.boats[b]) \cap coords(p.boats[d]) = {}
  /\ \A c \in Coordinate : p.cells[c] = IF Owners(p, c) # {} THEN "SHIP" ELSE "EMPTY"
  /\ \A b \in LiveBoats(p) : coords(p.boats[b]) \subseteq Coordinate

ASSUME MatchAssumption ==
  \A m \in Matches :
    /\ m.fleet \in [cells : [Coordinate -> CellState], boats : [BoatIndex -> Boat],
                    boat_count : 1 .. MAX_SHIPS]
    /\ Unscathed(m.fleet)
    /\ m.levels \in SUBSET Difficulty \ {{}}

VARIABLES player,           \* the fleet the computer fires at
          ai_guess_board,   \* the cells of the computer's own board
          smart_ai_state,   \* the ai_state_t
          difficulty,
          levels,           \* the levels that requests select in this match; never changes
          over,             \* the computer has won
          overrun           \* history: a hit has been stored beyond the end of hits[]

vars == <<player, ai_guess_board, smart_ai_state, difficulty, levels, over, overrun>>

\* engine_init
Init ==
  /\ \E m \in Matches : player = m.fleet /\ levels = m.levels /\ difficulty \in m.levels
  /\ ai_guess_board = EmptyCells
  /\ smart_ai_state = ResetSmart
  /\ over = FALSE
  /\ overrun = FALSE

\* Bound: with hit_count beyond the end of hits[] the memory is no longer the model's.
OpponentTurn ==
  /\ ~over
  /\ Len(smart_ai_state.hits) <= HITS_SIZE
  /\ \E guess \in engine_get_guess(difficulty, ai_guess_board, smart_ai_state) :
       LET result == GuessResult(player, guess.cell)
       IN  /\ player' = AfterGuess(player, guess.cell)
           /\ smart_ai_state' \in ai_update_smart(guess.ai, guess.cell, result)
           /\ ai_guess_board' = Noted(ai_guess_board, guess.cell, result)
           /\ over' = (result # "0" /\ all_ships_sunk(player'))
           /\ overrun' = (overrun \/ (result = "H" /\ Len(guess.ai.hits) >= HITS_SIZE))
  /\ UNCHANGED <<difficulty, levels>>

set_difficulty(d) ==
  /\ ~over
  /\ difficulty' = d
  /\ UNCHANGED <<player, ai_guess_board, smart_ai_state, levels, over, overrun>>

Next == OpponentTurn \/ \E d \in levels : set_difficulty(d)

\* game_task polls for ever and nothing blocks an opponent's turn but its own delays.
Spec == Init /\ [][Next]_vars /\ WF_vars(OpponentTurn)
-----------------------------------------------------------------------------
\* Every variable keeps its type; the computer's own board in particular never knows
\* ships, nor sunk ones (engine_update_smart_ai), and hit_count is at most one beyond the
\* end of hits[].
TypeOK ==
  /\ player \in Player
  /\ ai_guess_board \in [Coordinate -> {"EMPTY", "HIT", "MISS"}]
  /\ smart_ai_state \in SmartState
  /\ levels \subseteq Difficulty /\ difficulty \in levels
  /\ over \in BOOLEAN /\ overrun \in BOOLEAN

\* The computer's notes agree with the human's board, although one is written by
\* apply_guess and the other from its answer alone: same misses, same hits, and
\* nothing noted that was not fired.
BoardsAgree ==
  \A c \in Coordinate :
    CASE ai_guess_board[c] = "EMPTY" -> player.cells[c] \notin Fired
      [] ai_guess_board[c] = "MISS"  -> player.cells[c] = "MISS"
      [] ai_guess_board[c] = "HIT"   -> player.cells[c] \in {"HIT", "SUNK"}

\* The hits that the SMART strategy is following up are distinct cells of ships that
\* are still afloat, whatever level chose them, as long as none was stored beyond the end
\* of hits[] (ai_update_smart).
TargetsAfloat ==
  LET hits == smart_ai_state.hits
  IN  ~overrun => \A i, j \in DOMAIN hits :
        player.cells[hits[i]] = "HIT" /\ (i # j => hits[i] # hits[j])

\* The computer never wastes a turn: every turn shoots at a cell for the first time
\* (game.c:152 would repeat the turn otherwise).  The steps that keep the level are turns.
NeverRepeats ==
  [][UNCHANGED difficulty => \E c \in Coordinate :
                        player.cells[c] \notin Fired /\ player'.cells[c] \in Fired]_vars

\* The SMART strategy on its own needs no more of hits[] than a line of the board.
HitsFit == levels = {"SMART"} => Len(smart_ai_state.hits) <= HITS_SIZE

\* include/game_engine.h: "int target_dir; // -1 = none, 0-3 = directions"
TargetDirInRange == smart_ai_state.target_dir \in -1 .. 3

\* The opponent's turns alone bring the match to its end.
MatchEnds == <>over
=============================================================================
