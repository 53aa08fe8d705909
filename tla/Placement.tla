----------------------------- MODULE Placement ------------------------------
(***************************************************************************)
(* place_random_ships as the set of fleets it may leave.                   *)
(***************************************************************************)
EXTENDS Fleet, SequencesExt

\* One ship put in any place that can hold it, or given up after 100 attempts.
WithShip(p, length) ==
  {p} \cup
  {[place_ship(p, s[1], s[2], length, s[3]) EXCEPT !.boat_count = @ + 1] :
     s \in {t \in Index \X Index \X BOOLEAN : can_place_ship(p.cells, t[1], t[2], length, t[3])}}

place_random_ships(p, lengths) ==
  FoldLeft(LAMBDA fleets, length : UNION {WithShip(q, length) : q \in fleets},
           {[p EXCEPT !.boat_count = 0]}, lengths)
=============================================================================
