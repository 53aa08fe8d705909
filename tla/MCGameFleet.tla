---------------------------- MODULE MCGameFleet -----------------------------
(***************************************************************************)
(* An instance of GameFleet on a board of 2 x 2.                           *)
(***************************************************************************)
EXTENDS GameFleet

TwoThenOne == <<2, 1>>
RowAndColumn == {<<1, 0, TRUE>>, <<0, 1, FALSE>>}         \* on the board
FirstRowAndColumn == {<<0, 0, TRUE>>, <<0, 1, FALSE>>}    \* on the page

\* What the page and the LEDs show decides nothing but whether there is a page, and what the
\* robot has done decides nothing.
FleetView == <<game, noted, pc, next, aim, http, view = NoPage, history>>
=============================================================================
