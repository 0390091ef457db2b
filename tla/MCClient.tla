------------------------------ MODULE MCClient ------------------------------
(***************************************************************************)
(* Instances of Client for TLC.                                            *)
(***************************************************************************)
EXTENDS Client

(* A fight without a delay, and two with.                                  *)
FightDelays == 0..2
=============================================================================
