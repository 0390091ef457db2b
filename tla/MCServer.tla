------------------------------ MODULE MCServer ------------------------------
(***************************************************************************)
(* Instances of Server for TLC.                                            *)
(***************************************************************************)
EXTENDS Server, TLC

(* Sessions, accounts and names are interchangeable in every action and in *)
(* every safety property.                                                  *)
Symmetry == Permutations(Sessions) \cup Permutations(Users) \cup Permutations(Names)
=============================================================================
