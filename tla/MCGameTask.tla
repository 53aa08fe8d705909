----------------------------- MODULE MCGameTask -----------------------------
(***************************************************************************)
(* Instances of GameTask on a board of 2 x 2.                              *)
(***************************************************************************)
EXTENDS GameTask

TwoThenOne == <<2, 1>>
JustTwo    == <<2>>
TwoRows      == {<<1, 0, TRUE>>, <<0, 1, TRUE>>}
OneRow       == {<<1, 0, TRUE>>}
FirstRowAndColumn == {<<0, 0, TRUE>>, <<0, 1, FALSE>>}    \* on the page
=============================================================================
