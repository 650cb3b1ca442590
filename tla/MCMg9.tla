------------------------------- MODULE MCMg9 -------------------------------
(***************************************************************************)
(* Bounded instances of Mg9 for TLC.                                       *)
(***************************************************************************)
EXTENDS Mg9
=============================================================================
