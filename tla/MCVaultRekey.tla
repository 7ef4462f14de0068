----------------------------- MODULE MCVaultRekey -----------------------------
(* Instances of VaultRekey for TLC.                                        *)
EXTENDS VaultRekey, TLC

Symmetry == Permutations(Record) \cup Permutations(Device) \cup Permutations(User)

(* The records are all there at the start, or none is: one of each is what *)
(* a create brings about.                                                  *)
MCInit == Init /\ (\A r, q \in Record : log[r] = log[q])
MCSpec == MCInit /\ [][Next]_vars
===============================================================================
