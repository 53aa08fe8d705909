---------------------------- MODULE MCGameLogic -----------------------------
(* Instances of GameLogic for TLC; the constants are set in the .cfg files. *)
EXTENDS GameLogic
=============================================================================
