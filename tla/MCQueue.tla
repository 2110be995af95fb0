------------------------------ MODULE MCQueue -------------------------------
(* A small instance of EventQueue for TLC. *)
EXTENDS EventQueue
=============================================================================
