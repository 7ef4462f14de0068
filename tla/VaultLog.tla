------------------------------- MODULE VaultLog -------------------------------
(***************************************************************************)
(* What the server and a device promise each other about a vault's rows,   *)
(* without transactions, locks, requests or pages:                         *)
(*                                                                         *)
(*   - a vault is an append-only log: a push appends its rows to several   *)
(*     vaults in one atomic step, numbered from the vault's last seq on;   *)
(*     only a purged tombstone takes rows of its record below it away;     *)
(*   - a device holds everything of a vault up to its cursor.              *)
(*                                                                         *)
(* VaultSeq is shown to implement this module.                             *)
(***************************************************************************)
EXTENDS VaultRows

CONSTANTS Vault, Device

VARIABLES
  lastSeq,   \* [Vault -> Nat]
  rows,      \* [Vault -> SUBSET Row]
  cursor,    \* [Device -> [Vault -> Nat]]
  held       \* [Device -> [Vault -> SUBSET Row]]

vars == <<lastSeq, rows, cursor, held>>

Init ==
  /\ lastSeq = [v \in Vault |-> 0]
  /\ rows = [v \in Vault |-> {}]
  /\ cursor = [d \in Device |-> [v \in Vault |-> 0]]
  /\ held = [d \in Device |-> [v \in Vault |-> {}]]

(* Each vault keeps its rows or gets a run of new ones on top of lastSeq,  *)
(* less what the purges among them take away.                              *)
Write ==
  /\ \A v \in Vault :
       LET new == rows'[v] \ rows[v]
       IN  /\ lastSeq'[v] >= lastSeq[v]
           /\ \A x \in new : lastSeq[v] < x.seq /\ x.seq <= lastSeq'[v]
           /\ \A x, y \in new : x.seq = y.seq => x = y
           /\ \A x \in rows[v] \ rows'[v] : x \in BelowPurge({x}, new)
           /\ BelowPurge(rows'[v], new) = {}
  /\ UNCHANGED <<cursor, held>>

(* A device moves a vault's cursor forward and then holds every row up to  *)
(* it, none below a purge it knows of; all it gains is past the old cursor.*)
Advance(d, v) ==
  LET was == held[d][v]  now == held'[d][v]
  IN  /\ cursor'[d][v] >= cursor[d][v]
      /\ cursor'[d][v] <= lastSeq[v]
      /\ UpTo(rows[v], cursor'[d][v]) \subseteq now
      /\ BelowPurge(now, now) = {}
      /\ now \ was \subseteq Between(now, cursor[d][v], cursor'[d][v])
      /\ was \ now \subseteq BelowPurge(was, now)

(* A vault that is gone from the device starts over when it comes back.    *)
Forget(d, v) == cursor'[d][v] = 0 /\ held'[d][v] = {}

Pull(d) ==
  /\ \A v \in Vault : Advance(d, v) \/ Forget(d, v)
  /\ \A e \in Device \ {d} : cursor'[e] = cursor[e] /\ held'[e] = held[e]
  /\ UNCHANGED <<lastSeq, rows>>

Next == Write \/ \E d \in Device : Pull(d)

Spec == Init /\ [][Next]_vars

===============================================================================
