------------------------------ MODULE MCMatch -------------------------------
(***************************************************************************)
(* Instances of Match with the fleets that place_random_ships may leave on *)
(* a small board.                                                          *)
(***************************************************************************)
EXTENDS Match, Placement

ThreeTwoTwo == <<3, 2, 2>>

Fleets(lengths, least) ==
  {p \in place_random_ships(FreshPlayer, lengths) : p.boat_count >= least}

Of(fleets, selected) == {[fleet |-> p, levels |-> selected] : p \in fleets}

\* The long ship in a row: a ship of two may lie in a column as well.
SmallMatches ==
  Of({p \in Fleets(<<3, 2>>, 2) : p.boats[0].horizontal}, Difficulty)
    \cup Of(Fleets(<<3, 2, 2>>, 3), {"SMART"})
=============================================================================
