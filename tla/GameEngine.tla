----------------------------- MODULE GameEngine -----------------------------
(***************************************************************************)
(* The computer opponent of src/battleship/game_engine.c: its own board,   *)
(* on which it notes its shots, the ai_state_t of the SMART strategy, and  *)
(* the three ways to choose the next cell.  Every operator that picks a    *)
(* cell yields the set of cells the code may pick: one, unless it draws    *)
(* random numbers.                                                         *)
(***************************************************************************)
EXTENDS Fleet, FiniteSetsExt, Sequences

CONSTANTS HITS_SIZE,     \* length of the array ai_state_t.hits
          HeatLengths    \* the ship lengths that DIFFICULTY_HARD looks for

ASSUME GameEngineAssumption ==
  /\ HITS_SIZE \in Nat \ {0}
  /\ HeatLengths \in Seq(1 .. GRID_SIZE)

Difficulty == {"RANDOM", "SMART", "HARD"}

DIR_NONE == -1
\* DIR_UP, DIR_DOWN, DIR_LEFT, DIR_RIGHT as <<d_row, d_col>>
Delta(dir) == CASE dir = 0 -> <<-1, 0>> [] dir = 1 -> <<1, 0>>
                [] dir = 2 -> <<0, -1>> [] dir = 3 -> <<0, 1>>

RevDir(dir) == IF dir % 2 = 0 THEN dir + 1 ELSE dir - 1

Step(c, dir) == <<c[1] + Delta(dir)[1], c[2] + Delta(dir)[2]>>

\* hits holds the hit_count first entries of the array.
ResetSmart == [hits |-> <<>>, target_dir |-> DIR_NONE, hunting |-> TRUE]

\* A hit that overruns hits[] is the last one, and may leave a column in target_dir.
SmartState == [hits : {s \in Seq(Coordinate) : Len(s) <= HITS_SIZE + 1},
               target_dir : (DIR_NONE .. 3) \cup Index, hunting : BOOLEAN]
-----------------------------------------------------------------------------
Unguessed(board) == {c \in Coordinate : board[c] = "EMPTY"}

is_valid_guess(board, c) == c \in Unguessed(board)

\* The order in which the loops over rows and columns meet the cells.
First(cells) ==
  CHOOSE c \in cells : \A d \in cells : c[1] < d[1] \/ (c[1] = d[1] /\ c[2] <= d[2])

\* Draws until the cell is free; never returns if none is.
ai_guess_random(board) == Unguessed(board)

\* Mutant: the checkerboard is walked without a look at the board.
HuntCellsBlind(board) == {c \in Coordinate : (c[1] + c[2]) % 2 = 0}

HuntCells(board) ==
  LET squares == {c \in Unguessed(board) : (c[1] + c[2]) % 2 = 0}
  IN  IF squares # {} THEN {First(squares)} ELSE ai_guess_random(board)

\* The guesses of the SMART strategy, each with the ai_state_t it leaves.
ai_guess_smart(board, ai) ==
  LET dir    == ai.target_dir
      last   == ai.hits[Len(ai.hits)]
      onward == Step(last, dir)
      back   == Step(ai.hits[1], RevDir(dir))
      probes == {d \in 0 .. 3 : is_valid_guess(board, Step(last, d))}
      hunt(s) == {[cell |-> c, ai |-> s] : c \in HuntCells(board)}
      take(c) == {[cell |-> c, ai |-> ai]}
  IN  CASE ai.hunting \/ ai.hits = <<>> -> hunt(ai)
        [] ~ai.hunting /\ ai.hits # <<>> /\ dir # DIR_NONE ->
             IF is_valid_guess(board, onward) THEN take(onward)
             ELSE IF is_valid_guess(board, back) THEN take(back)
             ELSE hunt(ResetSmart)
        [] OTHER -> IF probes # {} THEN take(Step(last, Min(probes))) ELSE hunt(ResetSmart)

\* The places of a ship of length HeatLengths[ship] on the board.
Windows ==
  {w \in {[ship |-> s, horizontal |-> h, cells |-> Span(row, col, HeatLengths[s], h)] :
            s \in DOMAIN HeatLengths, row \in Index, col \in Index, h \in BOOLEAN} :
     w.cells \subseteq Coordinate}

IsOpen(board, w) == \A x \in w.cells : board[x] \notin {"MISS", "SUNK"}

\* Each window free of misses heats its cells by one more than the hits in it;
\* the map is an array of uint8_t.
generate_heatmap(board) ==
  LET gain(w) == 1 + Cardinality({x \in w.cells : board[x] = "HIT"})
  IN  [c \in Coordinate |->
         MapThenSumSet(gain, {w \in Windows : c \in w.cells /\ IsOpen(board, w)}) % 256]

\* The hottest of the cells not shot at, the first of them in the order of the
\* loops.  The code answers (-1, -1) when there is none.
select_best_move(heatmap, board) ==
  LET free  == {c \in Coordinate : board[c] \in {"EMPTY", "SHIP"}}
      heats == {heatmap[c] : c \in free}
  IN  {First({c \in free : heatmap[c] = hottest}) :
         hottest \in {h \in heats : \A c \in free : heatmap[c] <= h}}

engine_get_guess(difficulty, board, ai) ==
  CASE difficulty = "RANDOM" -> {[cell |-> c, ai |-> ai] : c \in ai_guess_random(board)}
    [] difficulty = "SMART"  -> ai_guess_smart(board, ai)
    [] difficulty = "HARD"   ->
         {[cell |-> c, ai |-> ai] : c \in select_best_move(generate_heatmap(board), board)}
-----------------------------------------------------------------------------
\* The direction from the first hit to the second, if they are in line.
Direction(a, b, dir) ==
  CASE a[1] = b[1] -> IF a[2] < b[2] THEN 3 ELSE 2
    [] a[1] # b[1] /\ a[2] = b[2] -> IF a[1] < b[1] THEN 1 ELSE 0
    [] OTHER -> dir

\* Mutant: the second hit sets no direction.
AimedNever(ai) == [ai EXCEPT !.hunting = FALSE]

Aimed(ai) ==
  [ai EXCEPT !.hunting = FALSE,
             !.target_dir = IF Len(ai.hits) = 2 THEN Direction(ai.hits[1], ai.hits[2], @) ELSE @]

\* Mutant: a sunk ship does not reset the state.
ai_update_smartKeep(ai, c, result) ==
  IF result = "H" THEN {Aimed([ai EXCEPT !.hits = Append(@, c)])} ELSE {ai}

\* A hit beyond the end of hits[] writes on the fields behind it, its row on hit_count.
\* Whether the store of its column reads hit_count again, and then lands in hits[row], or
\* not, and then lands on target_dir, and which value hit_count++ finds, is the
\* compiler's choice.
Overrun(ai, c) ==
  LET cut == SubSeq(ai.hits, 1, c[1] + 1)
  IN  {[ai EXCEPT !.hits = cut, !.target_dir = c[2]],
       [ai EXCEPT !.hits = Append(@, c), !.target_dir = c[2]],
       [ai EXCEPT !.hits = [cut EXCEPT ![c[1] + 1] = <<@[1], c[2]>>]]}

\* The states ai_update_smart may leave.
ai_update_smart(ai, c, result) ==
  CASE result = "H" /\ Len(ai.hits) < HITS_SIZE -> {Aimed([ai EXCEPT !.hits = Append(@, c)])}
    [] result = "H" /\ Len(ai.hits) >= HITS_SIZE -> {Aimed(s) : s \in Overrun(ai, c)}
    [] result = "S" -> {ResetSmart}
    [] OTHER -> {ai}

\* Mutant: misses are not noted.
NotedHits(board, c, result) ==
  IF result \in {"H", "S"} THEN [board EXCEPT ![c] = "HIT"] ELSE board

\* Mutant: a sunk ship is noted as such.
NotedSunk(board, c, result) ==
  CASE result = "H" -> [board EXCEPT ![c] = "HIT"]
    [] result = "S" -> [board EXCEPT ![c] = "SUNK"]
    [] result = "M" -> [board EXCEPT ![c] = "MISS"]
    [] OTHER -> board

\* engine_update_smart_ai notes a sunk ship as a plain hit, and "already guessed" not
\* at all.
Noted(board, c, result) ==
  CASE result \in {"H", "S"} -> [board EXCEPT ![c] = "HIT"]
    [] result = "M" -> [board EXCEPT ![c] = "MISS"]
    [] OTHER -> board
=============================================================================
