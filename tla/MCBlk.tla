------------------------------- MODULE MCBlk --------------------------------
(* Small instances of VirtioBlk for TLC. *)
EXTENDS VirtioBlk
=============================================================================
