--------------------------- MODULE MCVaultSharing ---------------------------
(***************************************************************************)
(* Instances of VaultSharing for TLC.                                      *)
(***************************************************************************)
EXTENDS VaultSharing, TLC

Symmetry == Permutations(User) \cup Permutations(Request)
===============================================================================
