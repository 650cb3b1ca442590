------------------------------- MODULE MCPlay -------------------------------
(* Bounded instances of Play for TLC. *)
EXTENDS Play
=============================================================================
