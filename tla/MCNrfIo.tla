------------------------------ MODULE MCNrfIo -------------------------------
(***************************************************************************)
(* Instances of NrfIo: queues of one or two entries, so that they fill up. *)
(***************************************************************************)
EXTENDS NrfIo
=============================================================================
