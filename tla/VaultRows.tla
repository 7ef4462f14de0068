------------------------------ MODULE VaultRows ------------------------------
(***************************************************************************)
(* The rows of a vault's write log, as the pull cursor sees them.          *)
(*                                                                         *)
(* A row stands for one record version in `records`                        *)
(* (packages/db/src/schema/records.ts).  Of its columns only the ones the  *)
(* cursor and the purge tell apart are kept: the vault's write order       *)
(* `seq`, the record, and whether the version is a `purged` tombstone.     *)
(* Versions of one record grow with `seq`, because a push numbers them     *)
(* under the vault's lock, so "a lower version" is "a lower seq" here.     *)
(***************************************************************************)
EXTENDS Integers, Sequences

CONSTANT Record

Change == [record : Record, purge : BOOLEAN]

Row == [seq : Nat \ {0}, record : Record, purge : BOOLEAN]

(* The rows a run of changes becomes when its first one takes `first`.     *)
RowsFrom(first, changes) ==
  { [seq    |-> first + i - 1,
     record |-> changes[i].record,
     purge  |-> changes[i].purge] : i \in DOMAIN changes }

(* The rows of S that lie below a purged tombstone of T: what              *)
(* dropPurgedHistory deletes.                                              *)
BelowPurge(S, T) ==
  { x \in S : \E t \in T : t.purge /\ t.record = x.record /\ x.seq < t.seq }

(* The rows of S past a cursor, up to another one.                         *)
Between(S, from, to) == { x \in S : from < x.seq /\ x.seq <= to }

UpTo(S, to) == { x \in S : x.seq <= to }

==============================================================================
