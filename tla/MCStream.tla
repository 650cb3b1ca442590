------------------------------ MODULE MCStream ------------------------------
(***************************************************************************)
(* Bounded instances of Stream for TLC.                                    *)
(***************************************************************************)
EXTENDS Stream

\* Calls with and without a stream token and a discarding switch.
AllModes == BOOLEAN \X BOOLEAN
=============================================================================
