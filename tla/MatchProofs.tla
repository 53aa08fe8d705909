---------------------------- MODULE MatchProofs -----------------------------
(***************************************************************************)
(* Proofs about Match, for every size of the board, every fleet and every  *)
(* choice of levels: the computer never wastes a turn, its notes are right *)
(* and the SMART strategy stays within the array of its hits.              *)
(*                                                                         *)
(* What they assume of the constants is that a line of the board has room  *)
(* in hits[]: include/game_engine.h:9 and include/game.h:6 have 5 of both. *)
(***************************************************************************)
EXTENDS Match, FleetProofs

USE FleetAssumption

-----------------------------------------------------------------------------
(***************************************************************************)
(* The cell that is chosen, by any strategy, has not been noted.           *)
(***************************************************************************)
LEMMA FirstIsMember ==
  ASSUME NEW cells \in SUBSET Coordinate, cells # {}
  PROVE  First(cells) \in cells
<1> DEFINE rows == {c[1] : c \in cells}
<1>1. rows \in SUBSET Nat /\ rows # {}
  BY DEF Coordinate, Index
<1>2. PICK r \in rows : \A y \in rows : r <= y
  BY <1>1, Least
<1> DEFINE cols == {c[2] : c \in {x \in cells : x[1] = r}}
<1>3. cols \in SUBSET Nat /\ cols # {}
  BY <1>2 DEF Coordinate, Index
<1>4. PICK k \in cols : \A y \in cols : k <= y
  BY <1>3, Least
<1>5. PICK c \in cells : c[1] = r /\ c[2] = k
  BY <1>4
<1>6. \A d \in cells : d[1] \in Int /\ d[2] \in Int
  BY DEF Coordinate, Index
<1>7. \A d \in cells : c[1] < d[1] \/ (c[1] = d[1] /\ c[2] <= d[2])
  <2> SUFFICES ASSUME NEW d \in cells PROVE c[1] < d[1] \/ (c[1] = d[1] /\ c[2] <= d[2])
    OBVIOUS
  <2>1. r <= d[1]
    BY <1>2
  <2>2. d[1] = r => k <= d[2]
    BY <1>4
  <2> QED BY <1>5, <1>6, <2>1, <2>2
<1> QED
  BY <1>7, Zenon DEF First

LEMMA MinIsMember ==
  ASSUME NEW T \in SUBSET Nat, T # {}
  PROVE  Min(T) \in T
<1>1. \E x \in T : \A y \in T : x <= y
  BY Least
<1> QED
  BY <1>1, Zenon DEF Min

LEMMA HuntIsFree ==
  ASSUME NEW board
  PROVE  HuntCells(board) \subseteq Unguessed(board)
<1> DEFINE squares == {c \in Unguessed(board) : (c[1] + c[2]) % 2 = 0}
<1>1. squares \in SUBSET Coordinate
  BY DEF Unguessed
<1>2. squares # {} => First(squares) \in squares
  BY <1>1, FirstIsMember
<1> QED
  BY <1>2 DEF HuntCells, ai_guess_random

\* While the SMART strategy follows up hits it shoots next to the last of them, or from
\* either end in the direction that it has found.
NextTo(c, ai) ==
  IF ai.target_dir = DIR_NONE
  THEN \E d \in 0 .. 3 : c = Step(ai.hits[Len(ai.hits)], d)
  ELSE c \in {Step(ai.hits[Len(ai.hits)], ai.target_dir), Step(ai.hits[1], RevDir(ai.target_dir))}

\* It leaves its memory as it is, or forgets all of it.
LEMMA SmartGuesses ==
  ASSUME NEW board, NEW ai, NEW g \in ai_guess_smart(board, ai)
  PROVE  /\ g.cell \in Unguessed(board)
         /\ g.ai = ai \/ g.ai = ResetSmart
         /\ g.ai = ResetSmart \/ ai.hunting \/ ai.hits = <<>> \/ NextTo(g.cell, ai)
<1> DEFINE dir    == ai.target_dir
           last   == ai.hits[Len(ai.hits)]
           onward == Step(last, dir)
           back   == Step(ai.hits[1], RevDir(dir))
           probes == {d \in 0 .. 3 : is_valid_guess(board, Step(last, d))}
           hunt(s) == {[cell |-> c, ai |-> s] : c \in HuntCells(board)}
           take(c) == {[cell |-> c, ai |-> ai]}
<1>1. ASSUME NEW s, g \in hunt(s)  PROVE g.cell \in Unguessed(board) /\ g.ai = s
  BY <1>1, HuntIsFree
<1>2. ASSUME NEW c, g \in take(c)  PROVE g.cell = c /\ g.ai = ai
  BY <1>2
<1>3. probes # {} => Min(probes) \in probes
  <2>1. probes \in SUBSET Nat
    OBVIOUS
  <2> HIDE DEF probes
  <2> QED BY <2>1, MinIsMember
<1>4. CASE ai.hunting \/ ai.hits = <<>>
  <2>1. g \in hunt(ai)
    BY <1>4, Zenon DEF ai_guess_smart
  <2> HIDE DEF hunt
  <2> QED BY <1>1, <1>4, <2>1
<1>5. CASE ~(ai.hunting \/ ai.hits = <<>>) /\ dir # DIR_NONE
  <2>1. g \in IF is_valid_guess(board, onward) THEN take(onward)
              ELSE IF is_valid_guess(board, back) THEN take(back)
              ELSE hunt(ResetSmart)
    BY <1>5, Zenon DEF ai_guess_smart
  <2>2. \A c \in {onward, back} : NextTo(c, ai)
    BY <1>5 DEF NextTo
  <2> HIDE DEF onward, back, take, hunt
  <2> QED BY <1>1, <1>2, <2>1, <2>2 DEF is_valid_guess
<1>6. CASE ~(ai.hunting \/ ai.hits = <<>>) /\ ~(dir # DIR_NONE)
  <2>1. g \in IF probes # {} THEN take(Step(last, Min(probes))) ELSE hunt(ResetSmart)
    BY <1>6, Zenon DEF ai_guess_smart
  <2>2. probes # {} => is_valid_guess(board, Step(last, Min(probes)))
    BY <1>3
  <2>3. probes # {} => NextTo(Step(last, Min(probes)), ai)
    BY <1>3, <1>6 DEF NextTo
  <2> HIDE DEF probes, take, hunt
  <2> QED BY <1>1, <1>2, <2>1, <2>2, <2>3 DEF is_valid_guess
<1> QED
  BY <1>4, <1>5, <1>6

\* Neither ships nor sunk ships on the computer's own board.
Boards == [Coordinate -> {"EMPTY", "HIT", "MISS"}]

LEMMA GuessIsFree ==
  ASSUME NEW level \in Difficulty, NEW board \in Boards, NEW ai,
         NEW g \in engine_get_guess(level, board, ai)
  PROVE  /\ g.cell \in Coordinate /\ board[g.cell] = "EMPTY"
         /\ g.ai = ai \/ g.ai = ResetSmart
<1>1. \A c \in Unguessed(board) : c \in Coordinate /\ board[c] = "EMPTY"
  BY DEF Unguessed
<1>2. CASE level = "RANDOM"
  <2>1. g \in {[cell |-> c, ai |-> ai] : c \in ai_guess_random(board)}
    BY <1>2, Zenon DEF engine_get_guess
  <2> QED BY <1>1, <2>1 DEF ai_guess_random
<1>3. CASE level = "SMART"
  <2>1. g \in ai_guess_smart(board, ai)
    BY <1>3, Zenon DEF engine_get_guess
  <2> QED BY <1>1, <2>1, SmartGuesses
<1>4. CASE level = "HARD"
  <2> DEFINE heatmap == generate_heatmap(board)
             free == {c \in Coordinate : board[c] \in {"EMPTY", "SHIP"}}
             hot(h) == {c \in free : heatmap[c] = h}
  <2>1. g \in {[cell |-> c, ai |-> ai] : c \in select_best_move(heatmap, board)}
    BY <1>4, Zenon DEF engine_get_guess
  <2> HIDE DEF heatmap
  <2>2. g.cell \in select_best_move(heatmap, board) /\ g.ai = ai
    BY <2>1
  <2>3. PICK h \in {heatmap[c] : c \in free} : g.cell = First(hot(h))
    BY <2>2 DEF select_best_move
  <2>4. hot(h) \in SUBSET Coordinate /\ hot(h) # {}
    BY <2>3
  <2>5. g.cell \in hot(h)
    BY <2>3, <2>4, FirstIsMember
  <2>6. g.cell \in Coordinate /\ board[g.cell] \in {"EMPTY", "SHIP"}
    BY <2>5
  <2> QED BY <2>2, <2>6 DEF Boards
<1> QED
  BY <1>2, <1>3, <1>4 DEF Difficulty
-----------------------------------------------------------------------------
(***************************************************************************)
(* What a shot at a cell that was not shot at does to the human's board.   *)
(***************************************************************************)
LEMMA ShotCells ==
  ASSUME NEW p, Sound(p), Owned(p), NEW c \in Coordinate, p.cells[c] \notin Fired,
         NEW q, q = AfterGuess(p, c)
  PROVE  /\ GuessResult(p, c) \in {"M", "H", "S"}
         /\ GuessResult(p, c) = "M" => q.cells[c] = "MISS"
         /\ GuessResult(p, c) = "H" => q.cells[c] = "HIT"
         /\ GuessResult(p, c) = "S" => q.cells[c] = "SUNK"
         /\ \A x \in Coordinate \ {c} :
              \/ q.cells[x] = p.cells[x]
              \/ GuessResult(p, c) = "S" /\ p.cells[x] \in {"HIT", "SUNK"} /\ q.cells[x] = "SUNK"
<1> USE DEF Sound
<1>1. GuessResult(p, c) \in {"M", "H", "S"} /\ p.cells[c] \in CellState
  BY GuessResultType, ZeroOnlyFired DEF Player
<1>2. CASE GuessResult(p, c) = "M"
  <2>1. \A x \in Coordinate : q.cells[x] = IF x = c THEN Mark(p.cells[c]) ELSE p.cells[x]
    BY <1>2, MissFacts
  <2>2. p.cells[c] = "EMPTY"
    BY <1>1, <1>2 DEF GuessResult, CellState, Fired
  <2>3. Mark(p.cells[c]) = "MISS"
    BY <2>2 DEF Mark
  <2> QED BY <1>2, <2>1, <2>3
<1>3. CASE GuessResult(p, c) \in {"H", "S"}
  <2> DEFINE o == OwnerOf(p, c)
             sinks == GuessResult(p, c) = "S"
  <2>1. /\ o \in Owners(p, c)
        /\ p.cells[c] = "SHIP"
        /\ q.boats[o] = Hit(p.boats[o])
        /\ (sinks <=> q.boats[o].hit_count = p.boats[o].length)
        /\ \A x \in Coordinate :
             q.cells[x] = IF sinks /\ x \in coords(p.boats[o]) THEN "SUNK"
                          ELSE IF x = c THEN "HIT" ELSE p.cells[x]
    BY <1>3, HitFacts
  <2> HIDE DEF o
  <2>2. o \in LiveBoats(p) /\ c \in coords(p.boats[o]) /\ p.boats[o] \in Boat
    BY <2>1, LiveBoatFacts DEF Owners
  <2>3. q.boats[o].hit_count = p.boats[o].hit_count + 1
    BY <2>1, <2>2 DEF Hit, Boat
  <2>4. sinks => \A x \in coords(p.boats[o]) : x = c \/ p.cells[x] \in {"HIT", "SUNK"}
    BY <2>1, <2>2, <2>3, OneCellLeft DEF Layout
  <2> QED
    BY <1>3, <2>1, <2>2, <2>4
<1> QED
  BY <1>1, <1>2, <1>3
-----------------------------------------------------------------------------
(***************************************************************************)
(* The inductive invariant: the human's fleet is sound, and what the       *)
(* computer knows agrees with it.                                          *)
(***************************************************************************)
FleetSound == Sound(player) /\ Owned(player)

LevelsTyped ==
  levels \subseteq Difficulty /\ difficulty \in levels /\ over \in BOOLEAN /\ overrun \in BOOLEAN

NotesRight == ai_guess_board \in Boards /\ BoardsAgree

HitsAfloat == smart_ai_state \in SmartState /\ TargetsAfloat

LEMMA FleetAtFirst ==
  ASSUME NEW m \in Matches
  PROVE  Sound(m.fleet) /\ Owned(m.fleet)
<1> DEFINE p == m.fleet
<1>1. Unscathed(p) /\ p \in Player
  BY MatchAssumption DEF Player
<1> HIDE DEF p
<1>2. Layout(p)
  <2> SUFFICES ASSUME NEW b \in LiveBoats(p)
               PROVE  /\ coords(p.boats[b]) \subseteq Coordinate
                      /\ \A c \in coords(p.boats[b]) : p.cells[c] \in {"SHIP", "HIT", "SUNK"}
                      /\ \A d \in LiveBoats(p) \ {b} : coords(p.boats[b]) \cap coords(p.boats[d]) = {}
    BY DEF Layout
  <2>1. coords(p.boats[b]) \subseteq Coordinate
    BY <1>1 DEF Unscathed
  <2>2. \A c \in coords(p.boats[b]) : b \in Owners(p, c)
    BY DEF Owners
  <2> QED BY <1>1, <2>1, <2>2 DEF Unscathed
<1>3. \A b \in LiveBoats(p) : \A c \in coords(p.boats[b]) : p.cells[c] = "SHIP"
  <2>1. \A b \in LiveBoats(p) : \A c \in coords(p.boats[b]) : b \in Owners(p, c) /\ c \in Coordinate
    BY <1>2 DEF Owners, Layout
  <2> QED BY <1>1, <2>1 DEF Unscathed
<1>4. Counts(p)
  <2>1. \A b \in LiveBoats(p) : Struck(p, b) = {}
    BY <1>3 DEF Struck
  <2> QED BY <1>1, <2>1, FS_EmptySet DEF Counts, Unscathed
<1>5. Sinks(p)
  BY <1>1, <1>3 DEF Sinks, Unscathed
<1>6. Owned(p)
  BY <1>1 DEF Owned, Unscathed
<1> QED
  BY <1>1, <1>2, <1>4, <1>5, <1>6 DEF Sound, p

\* What an opponent's turn does, of whatever level.
Turn(g, result) ==
  /\ Len(smart_ai_state.hits) <= HITS_SIZE
  /\ g.cell \in Coordinate /\ ai_guess_board[g.cell] = "EMPTY" /\ player.cells[g.cell] \notin Fired
  /\ g.ai \in {smart_ai_state, ResetSmart}
  /\ result = GuessResult(player, g.cell)
  /\ result \in {"M", "H", "S"}
  /\ player' = AfterGuess(player, g.cell)
  /\ smart_ai_state' \in ai_update_smart(g.ai, g.cell, result)
  /\ ai_guess_board' = Noted(ai_guess_board, g.cell, result)
  /\ over' = (result # "0" /\ all_ships_sunk(player'))
  /\ overrun' = (overrun \/ (result = "H" /\ Len(g.ai.hits) >= HITS_SIZE))
  /\ UNCHANGED <<difficulty, levels>>

LEMMA TurnTaken ==
  ASSUME FleetSound, LevelsTyped, NotesRight, OpponentTurn
  PROVE  \E g \in engine_get_guess(difficulty, ai_guess_board, smart_ai_state), result \in {"M", "H", "S"} :
           Turn(g, result)
<1>1. PICK g \in engine_get_guess(difficulty, ai_guess_board, smart_ai_state) :
        LET result == GuessResult(player, g.cell)
        IN  /\ player' = AfterGuess(player, g.cell)
            /\ smart_ai_state' \in ai_update_smart(g.ai, g.cell, result)
            /\ ai_guess_board' = Noted(ai_guess_board, g.cell, result)
            /\ over' = (result # "0" /\ all_ships_sunk(player'))
            /\ overrun' = (overrun \/ (result = "H" /\ Len(g.ai.hits) >= HITS_SIZE))
  BY DEF OpponentTurn
<1>2. g.cell \in Coordinate /\ ai_guess_board[g.cell] = "EMPTY" /\ g.ai \in {smart_ai_state, ResetSmart}
  BY GuessIsFree DEF LevelsTyped, NotesRight
<1>3. player.cells[g.cell] \notin Fired
  BY <1>2, Zenon DEF NotesRight, BoardsAgree
<1>4. GuessResult(player, g.cell) \in {"M", "H", "S"}
  BY <1>2, <1>3, ShotCells DEF FleetSound
<1> QED
  BY <1>1, <1>2, <1>3, <1>4 DEF Turn, OpponentTurn

\* The hits that the SMART strategy follows up, if no other level interferes, lie in one
\* row or one column, and target_dir says in which.
Lined(ai) ==
  /\ ai.hits # <<>> => ~ai.hunting
  /\ Len(ai.hits) <= 1 => ai.target_dir = DIR_NONE
  /\ Len(ai.hits) >= 2 =>
       \/ ai.target_dir \in {2, 3} /\ \A i, j \in DOMAIN ai.hits : ai.hits[i][1] = ai.hits[j][1]
       \/ ai.target_dir \in {0, 1} /\ \A i, j \in DOMAIN ai.hits : ai.hits[i][2] = ai.hits[j][2]

SmartOnly == levels = {"SMART"} => Lined(smart_ai_state) /\ ~overrun
-----------------------------------------------------------------------------
(***************************************************************************)
(* What the SMART strategy learns from an answer.                          *)
(***************************************************************************)
LEMMA AimedFacts ==
  ASSUME NEW ai \in SmartState
  PROVE  /\ Aimed(ai) \in SmartState
         /\ Aimed(ai).hits = ai.hits /\ ~Aimed(ai).hunting
         /\ Aimed(ai).target_dir = IF Len(ai.hits) = 2
                                   THEN Direction(ai.hits[1], ai.hits[2], ai.target_dir) ELSE ai.target_dir
<1> DEFINE Dirs == (DIR_NONE .. 3) \cup Index
<1>1. ASSUME NEW a, NEW b, NEW dir \in Dirs  PROVE Direction(a, b, dir) \in Dirs
  <2>0. 0 .. 3 \subseteq Dirs
    BY DEF DIR_NONE
  <2> HIDE DEF Dirs
  <2>1. CASE a[1] = b[1]
    BY <2>0, <2>1 DEF Direction
  <2>2. CASE a[1] # b[1] /\ a[2] = b[2]
    BY <2>0, <2>2 DEF Direction
  <2>3. CASE a[1] # b[1] /\ a[2] # b[2]
    <3>1. Direction(a, b, dir) = dir
      BY <2>3, Zenon DEF Direction
    <3> QED BY <3>1
  <2> QED BY <2>1, <2>2, <2>3
<1> DEFINE d == Direction(ai.hits[1], ai.hits[2], ai.target_dir)
<1>2. d \in Dirs
  BY <1>1 DEF SmartState
<1>3. Aimed(ai) = [ai EXCEPT !.hunting = FALSE, !.target_dir = IF Len(ai.hits) = 2 THEN d ELSE @]
  BY DEF Aimed
<1>4. ai \in [hits : {h \in Seq(Coordinate) : Len(h) <= HITS_SIZE + 1}, target_dir : Dirs, hunting : BOOLEAN]
  BY DEF SmartState
<1> DEFINE Hits == {h \in Seq(Coordinate) : Len(h) <= HITS_SIZE + 1}
<1> HIDE DEF d, Dirs, Hits
<1>5. /\ Aimed(ai) \in [hits : Hits, target_dir : Dirs, hunting : BOOLEAN]
      /\ Aimed(ai).hits = ai.hits /\ ~Aimed(ai).hunting
      /\ Aimed(ai).target_dir = IF Len(ai.hits) = 2 THEN d ELSE ai.target_dir
  BY <1>2, <1>3, <1>4 DEF Hits
<1> QED
  BY <1>5 DEF d, Dirs, Hits, SmartState

LEMMA ResetTyped == ResetSmart \in SmartState /\ ResetSmart.hits = <<>>
<1>1. <<>> \in Seq(Coordinate) /\ Len(<<>>) = 0 /\ 0 <= HITS_SIZE + 1
  BY GameEngineAssumption
<1>2. DIR_NONE \in DIR_NONE .. 3
  BY DEF DIR_NONE
<1> QED
  BY <1>1, <1>2 DEF ResetSmart, SmartState

\* A hit more, behind the others.
LEMMA OneMoreHit ==
  ASSUME NEW hits \in Seq(Coordinate), NEW c \in Coordinate
  PROVE  /\ Len(Append(hits, c)) = Len(hits) + 1
         /\ Len(hits) = 1 => Append(hits, c)[1] = hits[1] /\ Append(hits, c)[2] = c
<1> HIDE DEF Coordinate
<1> QED
  OBVIOUS

\* A record of the SMART strategy, put together again.
LEMMA SmartRecord ==
  ASSUME NEW ai \in SmartState, NEW hits \in Seq(Coordinate), Len(hits) <= HITS_SIZE + 1,
         NEW dir \in (DIR_NONE .. 3) \cup Index
  PROVE  /\ [ai EXCEPT !.hits = hits] \in SmartState
         /\ [ai EXCEPT !.hits = hits].hits = hits
         /\ [ai EXCEPT !.hits = hits].target_dir = ai.target_dir
         /\ [ai EXCEPT !.hits = hits, !.target_dir = dir] \in SmartState
<1> DEFINE Hits == {h \in Seq(Coordinate) : Len(h) <= HITS_SIZE + 1}
           Dirs == (DIR_NONE .. 3) \cup Index
<1>1. SmartState = [hits : Hits, target_dir : Dirs, hunting : BOOLEAN] /\ hits \in Hits /\ dir \in Dirs
  BY DEF SmartState
<1> HIDE DEF Hits, Dirs
<1> QED
  BY <1>1

\* Wherever a hit beyond the end of hits[] writes, the memory keeps its type.
LEMMA OverrunTyped ==
  ASSUME HITS_SIZE >= GRID_SIZE,
         NEW ai \in SmartState, Len(ai.hits) = HITS_SIZE, NEW c \in Coordinate, NEW s \in Overrun(ai, c)
  PROVE  s \in SmartState
<1> DEFINE n   == c[1] + 1
           cut == SubSeq(ai.hits, 1, n)
           cell(h) == <<h[1], c[2]>>
<1>1. /\ ai.hits \in Seq(Coordinate) /\ Len(ai.hits) \in Nat /\ HITS_SIZE \in Nat
      /\ n \in 1 .. Len(ai.hits) /\ c[2] \in Index
  <2>1. ai.hits \in Seq(Coordinate) /\ HITS_SIZE \in Nat
    BY GameEngineAssumption DEF SmartState
  <2>2. c[1] \in 0 .. GRID_SIZE - 1 /\ c[2] \in Index
    BY DEF Coordinate, Index
  <2> QED BY <2>1, <2>2
<1>2. /\ s \in {[ai EXCEPT !.hits = cut, !.target_dir = c[2]],
               [ai EXCEPT !.hits = Append(ai.hits, c), !.target_dir = c[2]],
               [ai EXCEPT !.hits = [cut EXCEPT ![n] = cell(cut[n])]]}
  BY DEF Overrun
<1> HIDE DEF n
<1>3. cut \in Seq(Coordinate) /\ Len(cut) = n /\ n \in Nat /\ n <= HITS_SIZE + 1 /\ n \in 1 .. Len(cut)
  BY <1>1
<1>4. Append(ai.hits, c) \in Seq(Coordinate) /\ Len(Append(ai.hits, c)) <= HITS_SIZE + 1
  BY <1>1
<1> HIDE DEF cut, cell
<1>5. [cut EXCEPT ![n] = cell(cut[n])] \in Seq(Coordinate) /\ Len([cut EXCEPT ![n] = cell(cut[n])]) = n
  <2>1. cut[n] \in Coordinate
    BY <1>3
  <2>2. cell(cut[n]) \in Coordinate
    BY <1>1, <2>1 DEF cell, Coordinate
  <2> DEFINE x == cell(cut[n])
  <2> HIDE DEF x
  <2>3. [cut EXCEPT ![n] = x] \in Seq(Coordinate) /\ Len([cut EXCEPT ![n] = x]) = n
    BY <1>3, <2>2 DEF x
  <2> QED BY <2>3 DEF x
<1> DEFINE bent == [cut EXCEPT ![n] = cell(cut[n])]
<1> HIDE DEF bent
<1>6. c[2] \in (DIR_NONE .. 3) \cup Index /\ Len(cut) <= HITS_SIZE + 1
  BY <1>1, <1>3
<1>7. bent \in Seq(Coordinate) /\ Len(bent) <= HITS_SIZE + 1
  BY <1>3, <1>5 DEF bent
<1>8. [ai EXCEPT !.hits = cut, !.target_dir = c[2]] \in SmartState
  BY <1>3, <1>6, SmartRecord
<1>9. [ai EXCEPT !.hits = Append(ai.hits, c), !.target_dir = c[2]] \in SmartState
  BY <1>4, <1>6, SmartRecord
<1>10. [ai EXCEPT !.hits = bent] \in SmartState
  BY <1>6, <1>7, SmartRecord
<1> QED
  BY <1>2, <1>8, <1>9, <1>10 DEF bent

\* The memory after an answer: as it was, forgotten, or one hit longer if there is room.
LEMMA Learns ==
  ASSUME HITS_SIZE >= GRID_SIZE,
         NEW ai \in SmartState, Len(ai.hits) <= HITS_SIZE, NEW c \in Coordinate,
         NEW result \in {"M", "H", "S"}, NEW s \in ai_update_smart(ai, c, result)
  PROVE  /\ s \in SmartState
         /\ result = "M" => s = ai
         /\ result = "S" => s = ResetSmart
         /\ result = "H" => ~s.hunting
         /\ result = "H" /\ Len(ai.hits) < HITS_SIZE =>
              /\ s.hits = Append(ai.hits, c)
              /\ s.target_dir = IF Len(ai.hits) = 1 THEN Direction(ai.hits[1], c, ai.target_dir)
                                ELSE ai.target_dir
<1>1. CASE result = "M"
  <2>1. s \in {ai}
    BY <1>1, Zenon DEF ai_update_smart
  <2> QED BY <1>1, <2>1
<1>2. CASE result = "S"
  <2>1. s \in {ResetSmart}
    BY <1>2, Zenon DEF ai_update_smart
  <2> QED BY <1>2, <2>1, ResetTyped
<1>3. CASE result = "H" /\ Len(ai.hits) < HITS_SIZE
  <2> DEFINE more == [ai EXCEPT !.hits = Append(ai.hits, c)]
  <2>1. ai.hits \in Seq(Coordinate) /\ Len(ai.hits) \in Nat /\ HITS_SIZE \in Nat
    BY GameEngineAssumption DEF SmartState
  <2>2. ~(Len(ai.hits) >= HITS_SIZE)
    BY <1>3, <2>1
  <2>3. s \in {Aimed(more)}
    BY <1>3, <2>2, Zenon DEF ai_update_smart
  <2>5. /\ Append(ai.hits, c) \in Seq(Coordinate) /\ Len(Append(ai.hits, c)) = Len(ai.hits) + 1
        /\ Len(ai.hits) = 1 => Append(ai.hits, c)[1] = ai.hits[1] /\ Append(ai.hits, c)[2] = c
    BY <2>1, OneMoreHit
  <2>4. more \in SmartState /\ more.hits = Append(ai.hits, c) /\ more.target_dir = ai.target_dir
    <3>1. Len(Append(ai.hits, c)) <= HITS_SIZE + 1 /\ 0 \in (DIR_NONE .. 3) \cup Index
      BY <1>3, <2>1, <2>5 DEF DIR_NONE
    <3> QED BY <2>5, <3>1, SmartRecord
  <2> HIDE DEF more
  <2>6. /\ s \in SmartState
        /\ s.hits = Append(ai.hits, c) /\ ~s.hunting
        /\ s.target_dir = IF Len(more.hits) = 2
                          THEN Direction(more.hits[1], more.hits[2], ai.target_dir) ELSE ai.target_dir
    BY <2>3, <2>4, AimedFacts
  <2>7. s.target_dir = IF Len(ai.hits) = 1 THEN Direction(ai.hits[1], c, ai.target_dir) ELSE ai.target_dir
    <3>1. Len(more.hits) = 2 <=> Len(ai.hits) = 1
      <4>1. Len(more.hits) = Len(Append(ai.hits, c))
        BY <2>4, Zenon
      <4>2. Len(more.hits) = Len(ai.hits) + 1
        BY <2>5, <4>1, Zenon
      <4>3. \A n \in Nat : n + 1 = 2 <=> n = 1
        OBVIOUS
      <4> QED BY <2>1, <4>2, <4>3, Zenon
    <3>2. Len(ai.hits) = 1 => more.hits[1] = ai.hits[1] /\ more.hits[2] = c
      BY <2>4, <2>5
    <3> QED BY <2>6, <3>1, <3>2
  <2> QED BY <1>3, <2>6, <2>7
<1>4. CASE result = "H" /\ ~(Len(ai.hits) < HITS_SIZE)
  <2>1. Len(ai.hits) = HITS_SIZE /\ Len(ai.hits) >= HITS_SIZE
    BY <1>4, GameEngineAssumption DEF SmartState
  <2>2. s \in {Aimed(x) : x \in Overrun(ai, c)}
    BY <1>4, <2>1, Zenon DEF ai_update_smart
  <2>3. PICK x \in Overrun(ai, c) : s = Aimed(x)
    BY <2>2, Zenon
  <2>4. x \in SmartState
    BY <2>1, OverrunTyped
  <2> QED BY <1>4, <2>3, <2>4, AimedFacts
<1> QED
  BY <1>1, <1>2, <1>3, <1>4
-----------------------------------------------------------------------------
(***************************************************************************)
(* A turn keeps the invariant.                                             *)
(***************************************************************************)
LEMMA NotesRightStep ==
  ASSUME FleetSound, NotesRight, NEW g, NEW result, Turn(g, result)
  PROVE  NotesRight'
<1> DEFINE c == g.cell
<1>1. c \in Coordinate /\ player.cells[c] \notin Fired /\ player' = AfterGuess(player, c)
      /\ result = GuessResult(player, c) /\ result \in {"M", "H", "S"}
      /\ ai_guess_board' = Noted(ai_guess_board, c, result)
  BY DEF Turn
<1> HIDE DEF c
<1>2. /\ result = "M" => player'.cells[c] = "MISS"
      /\ result = "H" => player'.cells[c] = "HIT"
      /\ result = "S" => player'.cells[c] = "SUNK"
      /\ \A x \in Coordinate \ {c} :
           \/ player'.cells[x] = player.cells[x]
           \/ player.cells[x] \in {"HIT", "SUNK"} /\ player'.cells[x] = "SUNK"
  BY <1>1, ShotCells DEF FleetSound
<1>3. ai_guess_board' = [ai_guess_board EXCEPT ![c] = IF result = "M" THEN "MISS" ELSE "HIT"]
  <2>1. CASE result = "M"
    <3>1. ai_guess_board' = [ai_guess_board EXCEPT ![c] = "MISS"]
      BY <1>1, <2>1, Zenon DEF Noted
    <3> QED BY <2>1, <3>1
  <2>2. CASE result \in {"H", "S"}
    <3>1. ai_guess_board' = [ai_guess_board EXCEPT ![c] = "HIT"]
      BY <1>1, <2>2, Zenon DEF Noted
    <3> QED BY <2>2, <3>1
  <2> QED BY <1>1, <2>1, <2>2
<1>4. ai_guess_board' \in Boards
  BY <1>1, <1>3 DEF NotesRight, Boards
<1>5. ASSUME NEW x \in Coordinate
      PROVE  /\ ai_guess_board'[x] = "EMPTY" => player'.cells[x] \notin Fired
             /\ ai_guess_board'[x] = "MISS" => player'.cells[x] = "MISS"
             /\ ai_guess_board'[x] = "HIT" => player'.cells[x] \in {"HIT", "SUNK"}
  <2>1. CASE x = c
    BY <1>1, <1>2, <1>3, <2>1 DEF NotesRight, Boards
  <2>2. CASE x # c
    <3>1. ai_guess_board'[x] = ai_guess_board[x] /\ ai_guess_board[x] \in {"EMPTY", "HIT", "MISS"}
      BY <1>1, <1>3, <2>2 DEF NotesRight, Boards
    <3>2. /\ ai_guess_board[x] = "EMPTY" => player.cells[x] \notin Fired
          /\ ai_guess_board[x] = "MISS" => player.cells[x] = "MISS"
          /\ ai_guess_board[x] = "HIT" => player.cells[x] \in {"HIT", "SUNK"}
      BY <1>5, Zenon DEF NotesRight, BoardsAgree
    <3> QED BY <1>2, <2>2, <3>1, <3>2 DEF Fired
  <2> QED BY <2>1, <2>2
<1>6. \A x \in Coordinate : ai_guess_board'[x] \in {"EMPTY", "HIT", "MISS"}
  BY <1>4 DEF Boards
<1>7. BoardsAgree'
  BY <1>5, <1>6 DEF BoardsAgree, Coordinate, Index, Fired
<1>8. Boards' = Boards
  BY DEF Boards, Coordinate, Index
<1> QED
  BY <1>4, <1>7, <1>8 DEF NotesRight

\* Distinct cells that show a hit.
HitCells(cells, hits) ==
  \A i, j \in DOMAIN hits : cells[hits[i]] = "HIT" /\ (i # j => hits[i] # hits[j])

LEMMA HitsAfloatStep ==
  ASSUME HITS_SIZE >= GRID_SIZE, FleetSound, HitsAfloat, NEW g, NEW result, Turn(g, result)
  PROVE  /\ smart_ai_state' \in SmartState
         /\ ~overrun' => HitCells(player'.cells, smart_ai_state'.hits)
<1> DEFINE c == g.cell
           ai == g.ai
           s  == smart_ai_state'
<1>1. /\ c \in Coordinate /\ player.cells[c] \notin Fired /\ player' = AfterGuess(player, c)
      /\ result = GuessResult(player, c) /\ result \in {"M", "H", "S"}
      /\ s \in ai_update_smart(ai, c, result) /\ ai \in {smart_ai_state, ResetSmart}
      /\ Len(smart_ai_state.hits) <= HITS_SIZE
      /\ overrun' = (overrun \/ (result = "H" /\ Len(ai.hits) >= HITS_SIZE))
  BY DEF Turn
<1>2. /\ ai \in SmartState /\ Len(ai.hits) <= HITS_SIZE
      /\ ~overrun => HitCells(player.cells, ai.hits)
  <2>1. CASE ai = smart_ai_state
    BY <1>1, <2>1 DEF HitsAfloat, TargetsAfloat, HitCells
  <2>2. CASE ai = ResetSmart
    <3>1. Len(ResetSmart.hits) <= HITS_SIZE /\ DOMAIN ResetSmart.hits = {}
      BY ResetTyped, GameEngineAssumption
    <3> QED BY <2>2, <3>1, ResetTyped DEF HitCells
  <2>3. ai = smart_ai_state \/ ai = ResetSmart
    BY <1>1
  <2> QED BY <2>1, <2>2, <2>3
<1> HIDE DEF c, ai, s
<1>3. ai.hits \in Seq(Coordinate)
  BY <1>2 DEF SmartState
<1>4. /\ s \in SmartState
      /\ result = "M" => s = ai
      /\ result = "S" => s = ResetSmart
      /\ result = "H" /\ Len(ai.hits) < HITS_SIZE => s.hits = Append(ai.hits, c)
  BY <1>1, <1>2, Learns
<1> SUFFICES ASSUME ~overrun'  PROVE HitCells(player'.cells, s.hits)
  BY <1>4 DEF s
<1>10. HitCells(player.cells, ai.hits) /\ (result = "H" => Len(ai.hits) < HITS_SIZE)
  <2>1. Len(ai.hits) \in Nat /\ HITS_SIZE \in Nat
    BY <1>3, GameEngineAssumption
  <2>2. ~overrun /\ ~(result = "H" /\ Len(ai.hits) >= HITS_SIZE)
    BY <1>1, Zenon
  <2>3. \A m, n \in Nat : ~(m >= n) => m < n
    OBVIOUS
  <2> QED BY <1>2, <2>1, <2>2, <2>3, Zenon
<1>5. \A i \in DOMAIN ai.hits : ai.hits[i] \in Coordinate \ {c}
  BY <1>1, <1>10, <1>3 DEF HitCells, Fired
<1>6. ASSUME result # "S"  PROVE HitCells(player'.cells, ai.hits)
  <2>1. \A x \in Coordinate \ {c} : player'.cells[x] = player.cells[x]
    BY <1>1, <1>6, ShotCells DEF FleetSound
  <2> QED BY <1>10, <1>5, <2>1 DEF HitCells
<1>7. CASE result = "M"
  BY <1>4, <1>6, <1>7
<1>8. CASE result = "S"
  <2>1. DOMAIN s.hits = {}
    BY <1>4, <1>8, ResetTyped
  <2> QED BY <2>1 DEF HitCells
<1>9. CASE result = "H"
  <2>1. s.hits = Append(ai.hits, c)
    BY <1>4, <1>9, <1>10
  <2>2. player'.cells[c] = "HIT"
    BY <1>1, <1>9, ShotCells DEF FleetSound
  <2>3. DOMAIN s.hits = 1 .. Len(ai.hits) + 1 /\ DOMAIN ai.hits = 1 .. Len(ai.hits) /\ Len(ai.hits) \in Nat
    BY <1>3, <1>1, <2>1
  <2>4. \A i \in DOMAIN s.hits : s.hits[i] = IF i = Len(ai.hits) + 1 THEN c ELSE ai.hits[i]
    BY <1>3, <1>1, <2>1
  <2>5. HitCells(player'.cells, ai.hits)
    BY <1>6, <1>9
  <2> SUFFICES ASSUME NEW i \in DOMAIN s.hits, NEW j \in DOMAIN s.hits
               PROVE  player'.cells[s.hits[i]] = "HIT" /\ (i # j => s.hits[i] # s.hits[j])
    BY DEF HitCells
  <2>6. \A k \in DOMAIN s.hits : k \in DOMAIN ai.hits \/ k = Len(ai.hits) + 1
    BY <2>3
  <2>7. player'.cells[s.hits[i]] = "HIT"
    BY <2>2, <2>4, <2>5, <2>6 DEF HitCells
  <2>8. i # j => s.hits[i] # s.hits[j]
    BY <1>5, <2>3, <2>4, <2>5, <2>6 DEF HitCells
  <2> QED BY <2>7, <2>8
<1> QED
  BY <1>1, <1>7, <1>8, <1>9

Inv == FleetSound /\ LevelsTyped /\ NotesRight /\ HitsAfloat

LEMMA OthersStay ==
  ASSUME NEW d, set_difficulty(d) \/ UNCHANGED vars
  PROVE  UNCHANGED <<player, ai_guess_board, smart_ai_state, levels, over, overrun>>
BY DEF set_difficulty, vars

LEMMA InvStep ==
  ASSUME HITS_SIZE >= GRID_SIZE, Inv, [Next]_vars
  PROVE  Inv'
<1> USE DEF Inv
<1>1. CASE OpponentTurn
  <2>1. PICK g \in engine_get_guess(difficulty, ai_guess_board, smart_ai_state), result \in {"M", "H", "S"} :
          Turn(g, result)
    BY <1>1, TurnTaken
  <2>2. NotesRight'
    BY <2>1, NotesRightStep
  <2>3. HitsAfloat'
    <3>1. smart_ai_state' \in SmartState /\ (~overrun' => HitCells(player'.cells, smart_ai_state'.hits))
      BY <2>1, HitsAfloatStep
    <3>2. TargetsAfloat'
      BY <3>1 DEF TargetsAfloat, HitCells
    <3> QED BY <3>1, <3>2 DEF HitsAfloat, SmartState, Coordinate, Index
  <2>4. Sound(player') /\ Owned(player')
    <3>1. g.cell \in Coordinate /\ player' = AfterGuess(player, g.cell)
      BY <2>1 DEF Turn
    <3> QED BY <3>1, GuessSound DEF FleetSound
  <2>5. FleetSound'
    BY <2>4 DEF FleetSound, Sound, Owned, Layout, Counts, Sinks, Struck, LiveBoats, Owners
  <2>6. LevelsTyped'
    <3>1. over' \in BOOLEAN /\ overrun' \in BOOLEAN /\ UNCHANGED <<difficulty, levels>>
      BY <2>1 DEF Turn
    <3> QED BY <3>1 DEF LevelsTyped, Difficulty
  <2> QED BY <2>2, <2>3, <2>5, <2>6
<1>2. ASSUME NEW d \in levels, set_difficulty(d)  PROVE Inv'
  <2>1. UNCHANGED <<player, ai_guess_board, smart_ai_state, levels, over, overrun>> /\ difficulty' = d
    BY <1>2 DEF set_difficulty
  <2> QED
    BY <2>1, <1>2 DEF FleetSound, LevelsTyped, NotesRight, HitsAfloat, BoardsAgree, TargetsAfloat
<1>3. CASE UNCHANGED vars
  BY <1>3 DEF vars, FleetSound, LevelsTyped, NotesRight, HitsAfloat, BoardsAgree, TargetsAfloat
<1> QED
  BY <1>1, <1>2, <1>3 DEF Next

LEMMA InvAtFirst ==
  ASSUME Init
  PROVE  Inv
<1>1. PICK m \in Matches : player = m.fleet /\ levels = m.levels /\ difficulty \in m.levels
  BY DEF Init
<1>2. FleetSound
  BY <1>1, FleetAtFirst DEF FleetSound
<1>3. LevelsTyped
  BY <1>1, MatchAssumption DEF LevelsTyped, Init
<1>4. NotesRight
  <2>1. \A c \in Coordinate : ai_guess_board[c] = "EMPTY"
    BY DEF Init, EmptyCells
  <2>2. \A c \in Coordinate : player.cells[c] \notin Fired
    BY <1>1, MatchAssumption DEF Unscathed, Fired
  <2>3. ai_guess_board \in Boards
    BY DEF Init, EmptyCells, Boards
  <2>4. BoardsAgree
    BY <2>1, <2>2 DEF BoardsAgree
  <2> QED BY <2>3, <2>4 DEF NotesRight
<1>5. HitsAfloat
  <2>1. DOMAIN ResetSmart.hits = {}
    BY ResetTyped
  <2> QED BY <2>1, ResetTyped DEF Init, HitsAfloat, TargetsAfloat
<1> QED
  BY <1>2, <1>3, <1>4, <1>5 DEF Inv

LEMMA InvAlways == ASSUME HITS_SIZE >= GRID_SIZE PROVE Spec => []Inv
BY InvAtFirst, InvStep, PTL DEF Spec

\* Every variable keeps its type, for every board whose lines are no longer than hits[]:
\* hit_count included, which is at most one beyond the end of hits[], and target_dir, which
\* is a direction or the column that a hit beyond the end left in it.
THEOREM MatchTypeCorrect == ASSUME HITS_SIZE >= GRID_SIZE PROVE Spec => []TypeOK
<1>1. Inv => TypeOK
  BY DEF Inv, FleetSound, Sound, LevelsTyped, NotesRight, HitsAfloat, Boards, TypeOK
<1> QED
  BY <1>1, InvAlways, PTL

\* The computer's notes of its shots are what the human's board shows of them, for every
\* fleet and whatever levels are selected in between.
THEOREM BoardsAlwaysAgree == ASSUME HITS_SIZE >= GRID_SIZE PROVE Spec => []BoardsAgree
<1>1. Inv => BoardsAgree
  BY DEF Inv, NotesRight
<1> QED
  BY <1>1, InvAlways, PTL

\* What the SMART strategy follows up is still afloat, for every fleet and whatever levels
\* are selected in between, until a hit is stored beyond the end of hits[].
THEOREM TargetsAreAfloat == ASSUME HITS_SIZE >= GRID_SIZE PROVE Spec => []TargetsAfloat
<1>1. Inv => TargetsAfloat
  BY DEF Inv, HitsAfloat
<1> QED
  BY <1>1, InvAlways, PTL

\* Every turn of the computer shoots at a cell for the first time.
THEOREM NoTurnRepeats == ASSUME HITS_SIZE >= GRID_SIZE PROVE Spec => NeverRepeats
<1>1. ASSUME Inv, Next, UNCHANGED difficulty
      PROVE  UNCHANGED vars \/ \E c \in Coordinate : player.cells[c] \notin Fired /\ player'.cells[c] \in Fired
  <2>1. CASE OpponentTurn
    <3>1. PICK g \in engine_get_guess(difficulty, ai_guess_board, smart_ai_state), result \in {"M", "H", "S"} :
            Turn(g, result)
      BY <1>1, <2>1, TurnTaken DEF Inv
    <3>2. g.cell \in Coordinate /\ player.cells[g.cell] \notin Fired /\ player' = AfterGuess(player, g.cell)
      BY <3>1 DEF Turn
    <3>3. player'.cells[g.cell] \in Fired
      BY <1>1, <3>2, ShotCells DEF Inv, FleetSound, Fired
    <3> QED BY <3>2, <3>3
  <2>2. ASSUME NEW d \in levels, set_difficulty(d)  PROVE UNCHANGED vars
    BY <1>1, <2>2 DEF set_difficulty, vars
  <2> QED BY <1>1, <2>1, <2>2 DEF Next
<1>2. Inv /\ [Next]_vars =>
        [UNCHANGED difficulty => \E c \in Coordinate :
                        player.cells[c] \notin Fired /\ player'.cells[c] \in Fired]_vars
  BY <1>1
<1> QED
  BY <1>2, InvAlways, PTL DEF Spec, NeverRepeats
-----------------------------------------------------------------------------
(***************************************************************************)
(* The SMART strategy on its own: its hits lie in a line, and a line fits  *)
(* in the array.                                                           *)
(***************************************************************************)
LEMMA StepInLine ==
  ASSUME NEW x \in Int \X Int, NEW d \in 0 .. 3
  PROVE  /\ d \in {0, 1} => Step(x, d)[2] = x[2] /\ Step(x, d)[1] # x[1]
         /\ d \in {2, 3} => Step(x, d)[1] = x[1] /\ Step(x, d)[2] # x[2]
         /\ d \in {0, 1} => RevDir(d) \in {0, 1}
         /\ d \in {2, 3} => RevDir(d) \in {2, 3}
<1>1. x[1] \in Int /\ x[2] \in Int
  OBVIOUS
<1>2. CASE d = 0
  <2>1. Delta(d) = <<-1, 0>>
    BY <1>2 DEF Delta
  <2> QED BY <1>1, <1>2, <2>1 DEF Step, RevDir
<1>3. CASE d = 1
  <2>1. Delta(d) = <<1, 0>>
    BY <1>3 DEF Delta
  <2> QED BY <1>1, <1>3, <2>1 DEF Step, RevDir
<1>4. CASE d = 2
  <2>1. Delta(d) = <<0, -1>>
    BY <1>4 DEF Delta
  <2> QED BY <1>1, <1>4, <2>1 DEF Step, RevDir
<1>5. CASE d = 3
  <2>1. Delta(d) = <<0, 1>>
    BY <1>5 DEF Delta
  <2> QED BY <1>1, <1>5, <2>1 DEF Step, RevDir
<1> QED
  BY <1>2, <1>3, <1>4, <1>5

SameRow(hits)    == \A i, j \in DOMAIN hits : hits[i][1] = hits[j][1]
SameColumn(hits) == \A i, j \in DOMAIN hits : hits[i][2] = hits[j][2]
Distinct(hits)   == \A i, j \in DOMAIN hits : i # j => hits[i] # hits[j]

\* Pigeons: as many distinct cells as a line has.
LEMMA LineIsShort ==
  ASSUME NEW hits \in Seq(Coordinate), Distinct(hits), SameRow(hits) \/ SameColumn(hits)
  PROVE  Len(hits) <= GRID_SIZE
<1>1. IsFiniteSet(Index) /\ Cardinality(Index) = GRID_SIZE
  BY FS_Interval DEF Index
<1>2. Len(hits) \in Nat /\ DOMAIN hits = 1 .. Len(hits)
  OBVIOUS
<1>3. IsFiniteSet(1 .. Len(hits)) /\ Cardinality(1 .. Len(hits)) = Len(hits)
  BY <1>2, FS_Interval
<1>4. \A i \in 1 .. Len(hits) : hits[i] \in Index \X Index
  BY <1>2 DEF Coordinate
<1>5. ASSUME NEW f \in [1 .. Len(hits) -> Index],
             \A i, j \in 1 .. Len(hits) : f[i] = f[j] => i = j
      PROVE  Len(hits) <= GRID_SIZE
  <2>1. f \in Injection(1 .. Len(hits), Index)
    BY <1>5 DEF Injection, IsInjective
  <2>2. Cardinality(1 .. Len(hits)) <= Cardinality(Index)
    BY <1>1, <2>1, FS_Injection
  <2> QED BY <1>1, <1>3, <2>2
<1>6. CASE SameRow(hits)
  <2> DEFINE f == [i \in 1 .. Len(hits) |-> hits[i][2]]
  <2>1. f \in [1 .. Len(hits) -> Index]
    BY <1>4
  <2>2. ASSUME NEW i \in 1 .. Len(hits), NEW j \in 1 .. Len(hits), f[i] = f[j]  PROVE i = j
    <3>1. hits[i][1] = hits[j][1] /\ hits[i][2] = hits[j][2]
      BY <1>2, <1>6, <2>2 DEF SameRow
    <3>2. hits[i] = hits[j]
      BY <1>4, <3>1
    <3> QED BY <1>2, <3>2 DEF Distinct
  <2> HIDE DEF f
  <2> QED BY <1>5, <2>1, <2>2
<1>7. CASE SameColumn(hits)
  <2> DEFINE f == [i \in 1 .. Len(hits) |-> hits[i][1]]
  <2>1. f \in [1 .. Len(hits) -> Index]
    BY <1>4
  <2>2. ASSUME NEW i \in 1 .. Len(hits), NEW j \in 1 .. Len(hits), f[i] = f[j]  PROVE i = j
    <3>1. hits[i][1] = hits[j][1] /\ hits[i][2] = hits[j][2]
      BY <1>2, <1>7, <2>2 DEF SameColumn
    <3>2. hits[i] = hits[j]
      BY <1>4, <3>1
    <3> QED BY <1>2, <3>2 DEF Distinct
  <2> HIDE DEF f
  <2> QED BY <1>5, <2>1, <2>2
<1> QED
  BY <1>6, <1>7

\* A shot next to a line of hits that hits again makes it a longer line of the same kind.
LEMMA LineGoesOn ==
  ASSUME NEW ai \in SmartState, Lined(ai), ai.hits # <<>>, NEW c \in Coordinate, NextTo(c, ai),
         NEW more, more = Append(ai.hits, c)
  PROVE  /\ Len(ai.hits) = 1 =>
              \/ SameRow(more) /\ Direction(ai.hits[1], c, ai.target_dir) \in {2, 3}
              \/ SameColumn(more) /\ Direction(ai.hits[1], c, ai.target_dir) \in {0, 1}
         /\ Len(ai.hits) >= 2 => \/ SameRow(more) /\ ai.target_dir \in {2, 3}
                                 \/ SameColumn(more) /\ ai.target_dir \in {0, 1}
<1> DEFINE n == Len(ai.hits)
           dir == ai.target_dir
<1>1. ai.hits \in Seq(Coordinate) /\ n \in Nat \ {0} /\ DOMAIN ai.hits = 1 .. n
  BY DEF SmartState
<1>2. /\ DOMAIN more = 1 .. n + 1
      /\ \A i \in 1 .. n + 1 : more[i] = IF i = n + 1 THEN c ELSE ai.hits[i]
  BY <1>1
<1>3. \A i \in 1 .. n : ai.hits[i] \in Int \X Int
  BY <1>1 DEF Coordinate, Index
<1>4. 1 \in 1 .. n /\ n \in 1 .. n
  BY <1>1
<1> HIDE DEF n, dir
<1>5. CASE n = 1
  <2>1. PICK d \in 0 .. 3 : c = Step(ai.hits[1], d)
    BY <1>5 DEF Lined, NextTo, n
  <2>2. CASE d \in {0, 1}
    <3>1. c[2] = ai.hits[1][2] /\ c[1] # ai.hits[1][1]
      BY <1>3, <1>4, <2>1, <2>2, StepInLine
    <3>2. SameColumn(more)
      BY <1>2, <1>5, <3>1 DEF SameColumn
    <3>3. Direction(ai.hits[1], c, ai.target_dir) \in {0, 1}
      <4>1. Direction(ai.hits[1], c, ai.target_dir) = IF ai.hits[1][1] < c[1] THEN 1 ELSE 0
        BY <3>1, Zenon DEF Direction
      <4> QED BY <4>1
    <3> QED BY <1>5, <3>2, <3>3 DEF n
  <2>3. CASE d \in {2, 3}
    <3>1. c[1] = ai.hits[1][1]
      BY <1>3, <1>4, <2>1, <2>3, StepInLine
    <3>2. SameRow(more)
      BY <1>2, <1>5, <3>1 DEF SameRow
    <3>3. Direction(ai.hits[1], c, ai.target_dir) \in {2, 3}
      <4>1. Direction(ai.hits[1], c, ai.target_dir) = IF ai.hits[1][2] < c[2] THEN 3 ELSE 2
        BY <3>1, Zenon DEF Direction
      <4> QED BY <4>1
    <3> QED BY <1>5, <3>2, <3>3 DEF n
  <2> QED BY <2>2, <2>3
<1>6. CASE n >= 2
  <2>1. \/ dir \in {2, 3} /\ SameRow(ai.hits)
        \/ dir \in {0, 1} /\ SameColumn(ai.hits)
    BY <1>6 DEF Lined, SameRow, SameColumn, n, dir
  <2>2. c \in {Step(ai.hits[n], dir), Step(ai.hits[1], RevDir(dir))}
    BY <2>1 DEF NextTo, DIR_NONE, n, dir
  <2>3. CASE dir \in {2, 3} /\ SameRow(ai.hits)
    <3>1. RevDir(dir) \in {2, 3}
      BY <1>3, <1>4, <2>3, StepInLine
    <3>2. \E i \in {1, n} : c[1] = ai.hits[i][1]
      BY <1>3, <1>4, <2>2, <2>3, <3>1, StepInLine
    <3>3. \A i \in 1 .. n : c[1] = ai.hits[i][1]
      BY <1>1, <1>4, <2>3, <3>2 DEF SameRow
    <3>4. SameRow(more)
      BY <1>1, <1>2, <2>3, <3>3 DEF SameRow
    <3> QED BY <1>1, <1>6, <2>3, <3>4 DEF n, dir
  <2>4. CASE dir \in {0, 1} /\ SameColumn(ai.hits)
    <3>1. RevDir(dir) \in {0, 1}
      BY <1>3, <1>4, <2>4, StepInLine
    <3>2. \E i \in {1, n} : c[2] = ai.hits[i][2]
      BY <1>3, <1>4, <2>2, <2>4, <3>1, StepInLine
    <3>3. \A i \in 1 .. n : c[2] = ai.hits[i][2]
      BY <1>1, <1>4, <2>4, <3>2 DEF SameColumn
    <3>4. SameColumn(more)
      BY <1>1, <1>2, <2>4, <3>3 DEF SameColumn
    <3> QED BY <1>1, <1>6, <2>4, <3>4 DEF n, dir
  <2> QED BY <2>1, <2>3, <2>4
<1> QED
  BY <1>1, <1>5, <1>6 DEF n

\* Where a new hit makes a distinct sequence, there is room for it.
LEMMA HitsGoOn ==
  ASSUME NEW ai \in SmartState, NEW c \in Coordinate, NEW cells, HitCells(cells, ai.hits), cells[c] # "HIT",
         NEW more, more = Append(ai.hits, c)
  PROVE  more \in Seq(Coordinate) /\ Len(more) = Len(ai.hits) + 1 /\ Distinct(more)
<1>1. ai.hits \in Seq(Coordinate) /\ Len(ai.hits) \in Nat /\ DOMAIN ai.hits = 1 .. Len(ai.hits)
  BY DEF SmartState
<1>2. /\ more \in Seq(Coordinate) /\ Len(more) = Len(ai.hits) + 1
      /\ DOMAIN more = 1 .. Len(ai.hits) + 1
      /\ \A i \in DOMAIN more : more[i] = IF i = Len(ai.hits) + 1 THEN c ELSE ai.hits[i]
  BY <1>1
<1>3. \A i \in 1 .. Len(ai.hits) : ai.hits[i] # c
  BY <1>1 DEF HitCells
<1>4. \A i, j \in 1 .. Len(ai.hits) : i # j => ai.hits[i] # ai.hits[j]
  BY <1>1 DEF HitCells
<1>5. Distinct(more)
  <2> SUFFICES ASSUME NEW i \in DOMAIN more, NEW j \in DOMAIN more, i # j  PROVE more[i] # more[j]
    BY DEF Distinct
  <2>1. \A m \in DOMAIN more : m \in 1 .. Len(ai.hits) \/ m = Len(ai.hits) + 1
    BY <1>1, <1>2
  <2>2. \A m \in 1 .. Len(ai.hits) : m # Len(ai.hits) + 1 /\ m \in DOMAIN more
    BY <1>1, <1>2
  <2> QED
    BY <1>2, <1>3, <1>4, <2>1, <2>2
<1> QED
  BY <1>2, <1>5

LEMMA LinedStep ==
  ASSUME HITS_SIZE >= GRID_SIZE, Inv, SmartOnly, [Next]_vars
  PROVE  SmartOnly'
<1> SUFFICES ASSUME levels' = {"SMART"}  PROVE Lined(smart_ai_state)' /\ ~overrun'
  BY DEF SmartOnly
<1>1. levels' = levels /\ Lined(smart_ai_state) /\ ~overrun
  BY DEF Next, OpponentTurn, set_difficulty, vars, SmartOnly
<1>2. CASE OpponentTurn
  <2>1. PICK g \in engine_get_guess(difficulty, ai_guess_board, smart_ai_state), result \in {"M", "H", "S"} :
          Turn(g, result)
    BY <1>2, TurnTaken DEF Inv
  <2>2. g \in ai_guess_smart(ai_guess_board, smart_ai_state)
    <3>1. difficulty = "SMART"
      BY <1>1 DEF Inv, LevelsTyped
    <3> QED BY <2>1, <3>1, Zenon DEF engine_get_guess
  <2> DEFINE c == g.cell
             ai == g.ai
             s  == smart_ai_state'
             more == Append(ai.hits, c)
  <2>3. Lined(ResetSmart) /\ ResetSmart \in SmartState /\ HitCells(player.cells, ResetSmart.hits)
    <3>1. Lined(ResetSmart) /\ DOMAIN ResetSmart.hits = {}
      BY DEF Lined, ResetSmart, DIR_NONE
    <3> QED BY <3>1, ResetTyped DEF HitCells
  <2>4. /\ c \in Coordinate /\ player.cells[c] # "HIT"
        /\ Len(smart_ai_state.hits) <= HITS_SIZE
        /\ overrun' = (overrun \/ (result = "H" /\ Len(ai.hits) >= HITS_SIZE))
        /\ s \in ai_update_smart(ai, c, result) /\ ai \in {smart_ai_state, ResetSmart}
    BY <2>1 DEF Turn, Fired
  <2>5. ai \in SmartState /\ HitCells(player.cells, ai.hits) /\ Lined(ai)
    BY <1>1, <2>3, <2>4 DEF Inv, HitsAfloat, TargetsAfloat, HitCells
  <2>6. ai.hits = <<>> \/ NextTo(c, ai)
    <3>1. ai = ResetSmart \/ smart_ai_state.hunting \/ smart_ai_state.hits = <<>> \/ NextTo(c, smart_ai_state)
      BY <2>2, SmartGuesses
    <3> QED BY <1>1, <2>4, <3>1 DEF Lined, ResetSmart
  <2> HIDE DEF c, ai, s
  <2>7. ai.hits \in Seq(Coordinate) /\ Len(ai.hits) \in Nat /\ HITS_SIZE \in Nat \ {0}
    BY <2>5, GameEngineAssumption DEF SmartState
  <2>8. more \in Seq(Coordinate) /\ Len(more) = Len(ai.hits) + 1 /\ Distinct(more)
    BY <2>4, <2>5, HitsGoOn
  <2>9. ai.hits # <<>> =>
          /\ Len(ai.hits) = 1 =>
              \/ SameRow(more) /\ Direction(ai.hits[1], c, ai.target_dir) \in {2, 3}
              \/ SameColumn(more) /\ Direction(ai.hits[1], c, ai.target_dir) \in {0, 1}
          /\ Len(ai.hits) >= 2 => \/ SameRow(more) /\ ai.target_dir \in {2, 3}
                                  \/ SameColumn(more) /\ ai.target_dir \in {0, 1}
    BY <2>4, <2>5, <2>6, LineGoesOn
  <2>10. (ai.hits = <<>> <=> Len(ai.hits) = 0) /\ (ai.hits # <<>> => Len(ai.hits) = 1 \/ Len(ai.hits) >= 2)
    <3>1. ai.hits = <<>> <=> Len(ai.hits) = 0
      BY <2>7
    <3>2. \A n \in Nat : n = 0 \/ n = 1 \/ n >= 2
      OBVIOUS
    <3> QED BY <2>7, <3>1, <3>2, Zenon
  <2> HIDE DEF more
  <2>11. Len(ai.hits) < HITS_SIZE
    <3>1. CASE ai.hits = <<>>
      BY <2>7, <2>10, <3>1
    <3>2. CASE ai.hits # <<>>
      <4>1. SameRow(more) \/ SameColumn(more)
        BY <2>9, <2>10, <3>2, Zenon
      <4>2. Len(more) <= GRID_SIZE
        BY <2>8, <4>1, LineIsShort
      <4> QED BY <2>7, <2>8, <4>2
    <3> QED BY <3>1, <3>2
  <2>12. /\ result = "M" => s = ai
         /\ result = "S" => s = ResetSmart
         /\ result = "H" => ~s.hunting
         /\ result = "H" => /\ s.hits = more
                            /\ s.target_dir = IF Len(ai.hits) = 1 THEN Direction(ai.hits[1], c, ai.target_dir)
                                              ELSE ai.target_dir
    <3>1. Len(ai.hits) <= HITS_SIZE
      BY <2>7, <2>11
    <3> QED BY <2>4, <2>5, <2>11, <3>1, Learns DEF more
  <2>13. ASSUME result = "H"  PROVE Lined(s)
    <3>1. Len(s.hits) = Len(ai.hits) + 1 /\ s.hits \in Seq(Coordinate)
      BY <2>8, <2>12, <2>13, Zenon
    <3>2. CASE ai.hits = <<>>
      <4>1. Len(s.hits) = 1 /\ s.target_dir = DIR_NONE
        BY <2>5, <2>10, <2>12, <2>13, <3>1, <3>2 DEF Lined
      <4>2. ~(Len(s.hits) >= 2)
        <5>1. ~(1 >= 2)
          OBVIOUS
        <5> QED BY <4>1, <5>1, Zenon
      <4> QED BY <2>12, <2>13, <4>1, <4>2, Zenon DEF Lined
    <3>3. CASE ai.hits # <<>>
      <4>1. Len(s.hits) >= 2
        BY <2>7, <2>10, <3>1, <3>3
      <4>2. \/ SameRow(s.hits) /\ s.target_dir \in {2, 3}
            \/ SameColumn(s.hits) /\ s.target_dir \in {0, 1}
        BY <2>9, <2>10, <2>12, <2>13, <3>3, ZenonT(30)
      <4>3. ~(Len(s.hits) <= 1)
        BY <3>1, <4>1
      <4> QED BY <2>12, <2>13, <4>2, <4>3, Zenon DEF Lined, SameRow, SameColumn
    <3> QED BY <3>2, <3>3
  <2>14. Lined(s)
    <3>1. result \in {"M", "H", "S"}
      OBVIOUS
    <3>2. result = "M" => s = ai
      BY <2>12
    <3>3. result = "S" => s = ResetSmart
      BY <2>12
    <3> QED BY <2>3, <2>5, <2>13, <3>1, <3>2, <3>3
  <2>15. ~overrun'
    <3>1. ~(Len(ai.hits) >= HITS_SIZE)
      BY <2>7, <2>11
    <3>2. overrun' = (overrun \/ (result = "H" /\ Len(ai.hits) >= HITS_SIZE))
      BY <2>4
    <3> QED BY <1>1, <3>1, <3>2, Zenon
  <2> QED BY <2>14, <2>15 DEF s, Lined, DIR_NONE
<1>3. CASE ~OpponentTurn
  <2>1. UNCHANGED smart_ai_state /\ UNCHANGED overrun
    BY <1>3 DEF Next, set_difficulty, vars
  <2> QED BY <1>1, <2>1 DEF Lined, DIR_NONE
<1> QED
  BY <1>2, <1>3

\* The SMART strategy on its own writes within hits[], for every board whose lines are no
\* longer than that array.
THEOREM HitsAlwaysFit == ASSUME HITS_SIZE >= GRID_SIZE PROVE Spec => []HitsFit
<1>1. Init => SmartOnly
  BY DEF Init, SmartOnly, Lined, ResetSmart, DIR_NONE
<1>2. Inv /\ SmartOnly /\ [Next]_vars => SmartOnly'
  BY LinedStep
<1>3. Inv /\ SmartOnly => HitsFit
  <2> SUFFICES ASSUME Inv, Lined(smart_ai_state), ~overrun  PROVE Len(smart_ai_state.hits) <= HITS_SIZE
    BY DEF HitsFit, SmartOnly
  <2> DEFINE hits == smart_ai_state.hits
  <2>1. hits \in Seq(Coordinate) /\ Len(hits) \in Nat /\ HITS_SIZE \in Nat \ {0}
    BY GameEngineAssumption DEF Inv, HitsAfloat, SmartState
  <2>2. Distinct(hits)
    BY DEF Inv, HitsAfloat, TargetsAfloat, Distinct
  <2>3. Len(hits) <= 1 \/ SameRow(hits) \/ SameColumn(hits)
    BY <2>1 DEF Lined, SameRow, SameColumn
  <2> HIDE DEF hits
  <2>4. Len(hits) <= 1 \/ Len(hits) <= GRID_SIZE
    BY <2>1, <2>2, <2>3, LineIsShort
  <2>5. Len(hits) <= HITS_SIZE
    BY <2>1, <2>4
  <2> QED BY <2>5 DEF hits
<1> QED
  BY <1>1, <1>2, <1>3, InvAlways, PTL DEF Spec
=============================================================================
