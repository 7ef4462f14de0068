----------------------------- MODULE MCVaultSeq -----------------------------
(* Instances of VaultSeq for TLC: two vaults, plans that write several     *)
(* vaults, purge, or only lock.                                            *)
EXTENDS VaultSeq, TLC

CONSTANTS p1, p2, p3, d1, d2, ra, rb

put(r) == [record |-> r, purge |-> FALSE]
purge(r) == [record |-> r, purge |-> TRUE]

MCVault == {1, 2}

(* A put in vault 1, a batch over both vaults, a purge of what they wrote  *)
(* followed by another record's put, and a transaction that only locks.    *)
MCPlans ==
  { 1 :> <<put(ra)>>,
    (1 :> <<put(rb), put(ra)>>) @@ (2 :> <<put(rb)>>),
    (1 :> <<purge(ra)>>) @@ (2 :> <<>>) }

(* Fewer plans, for the runs with liveness.                                *)
MCFewPlans ==
  { (1 :> <<put(ra)>>) @@ (2 :> <<put(rb)>>),
    1 :> <<purge(ra)>> }

PushSymmetry == Permutations(Push)
==============================================================================
