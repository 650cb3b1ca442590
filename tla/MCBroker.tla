------------------------------ MODULE MCBroker ------------------------------
(***************************************************************************)
(* Bounded instances of Broker for TLC.                                    *)
(***************************************************************************)
EXTENDS Broker
=============================================================================
