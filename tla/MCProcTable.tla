---------------------------- MODULE MCProcTable ----------------------------
(***************************************************************************)
(* Bounded instances of ProcTable for TLC.                                 *)
(***************************************************************************)
EXTENDS ProcTable, TLC

\* Neither jobs nor cancels have an order, and no safety property names one.
Symmetry == Permutations(Jobs) \cup Permutations(Cancels)
=============================================================================
