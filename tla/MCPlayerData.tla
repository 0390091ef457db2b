---------------------------- MODULE MCPlayerData ----------------------------
(***************************************************************************)
(* Instances of PlayerData for TLC.                                        *)
(***************************************************************************)
EXTENDS PlayerData, TLC

(* Ids are only compared for equality: magics of one kind are              *)
(* interchangeable.                                                        *)
Symmetry == Permutations(MagicIds \ Passive)
=============================================================================
