-------------------------- MODULE MCAccountPassword --------------------------
(* Two devices of one account.                                             *)
EXTENDS AccountPassword, TLC

CONSTANT WeakFaults   \* bound on the faults of an account whose wrap is or was rekeyed

Symmetry == Permutations(Device)

Rekeying == \E d \in Device : rekey[d] # NoRekey
Rekeyed == keySet.id > Cardinality(swaps) + 1

(* A rekey runs while a secret is still to be made, and a stray one ends   *)
(* the exploration: what it leaves behind is checked, not continued.       *)
Bound ==
  /\ keySet.weak \/ Rekeying \/ Rekeyed => spent <= WeakFaults
  /\ Rekeying => told[MaxSecrets] = "unmade"
  /\ ~stray
===============================================================================
