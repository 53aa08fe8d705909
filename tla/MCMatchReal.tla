---------------------------- MODULE MCMatchReal -----------------------------
(***************************************************************************)
(* Match on the real board, with one fleet of the real game and the level  *)
(* that Game_Init selects.                                                 *)
(***************************************************************************)
EXTENDS Match, SequencesExt

ThreeTwoTwo == <<3, 2, 2>>

Anchors == <<<<4, 0, 0, TRUE>>, <<3, 1, 4, FALSE>>, <<2, 1, 3, FALSE>>, <<1, 4, 0, TRUE>>>>

RealFleet ==
  FoldLeft(LAMBDA p, a : [place_ship(p, a[2], a[3], a[1], a[4]) EXCEPT !.boat_count = @ + 1],
           [FreshPlayer EXCEPT !.boat_count = 0], Anchors)

RealMatch == {[fleet |-> RealFleet, levels |-> {"HARD"}]}
=============================================================================
