------------------------------- MODULE VaultSeq -------------------------------
(***************************************************************************)
(* The write order of a vault and the pull cursor (ADR 0001 D8).           *)
(*                                                                         *)
(* Server: push transactions (record/push.ts) that row-lock the vaults     *)
(* they may write in id order, read the records' heads, take runs of       *)
(* `records.seq` from `vaults.lastSeq`, insert, drop the history below a   *)
(* purge and commit; and `record.sync` (record/router.ts), which reads one *)
(* page of the user's vaults with one SELECT per vault and no transaction  *)
(* around them.                                                            *)
(*                                                                         *)
(* Device: the pull loop (sync-manager.ts pullAll) that sends its cursors, *)
(* gets a page, and applies it in one local transaction (store vault.ts    *)
(* applySync); membership may come and go meanwhile, and leaving a vault   *)
(* drops it locally without waiting for a pull under way.                  *)
(*                                                                         *)
(* Postgres runs READ COMMITTED: a transaction's writes show to others at  *)
(* its commit only, and an UPDATE or SELECT FOR UPDATE of a locked row     *)
(* waits.  A push that writes no row stands for every other transaction    *)
(* that locks vaults through lockVaults (invite, role changes, rotation).  *)
(***************************************************************************)
EXTENDS VaultRows, FiniteSets, FiniteSetsExt

CONSTANTS
  Vault,       \* vault ids; natural numbers, so that they have an order
  Push,        \* push transactions, each run once
  Plans,       \* what a push may be about to write: see PlansAssumption
  Device,      \* devices, each of a user of its own
  PageLimit,   \* the most rows of a page (MAX_SYNC_RECORDS)
  MaxMoves,    \* bound on the changes of membership
  NoPush       \* not a push: the holder of a free lock

(* A plan maps the vaults the user may write to (`writable`) to the new    *)
(* versions decided for each, in batch order; none when all were refused.  *)
ASSUME PlansAssumption ==
  \A plan \in Plans :
    /\ DOMAIN plan \subseteq Vault
    /\ \A v \in DOMAIN plan : plan[v] \in Seq(Change)

ASSUME ConstantsAssumption ==
  /\ Vault \subseteq Nat
  /\ IsFiniteSet(Vault)
  /\ PageLimit \in Nat \ {0}
  /\ MaxMoves \in Nat
  /\ NoPush \notin Push

VARIABLES
  (* Database, committed: *)
  lastSeq,     \* vaults.lastSeq
  rows,        \* records, by vault
  member,      \* the vaults each device's user is an active member of
  (* Database, transactions: *)
  lock,        \* the push holding the vault's row lock
  pc,          \* where each push is
  plan,        \* what it is about to write
  seen,        \* the lastSeq of its vaults when it read the records' heads
  first,       \* the first seq it took of a vault, 0 while none
  (* Devices: *)
  cursor,      \* sync_meta: the vault's pull cursor, 0 while not synced
  held,        \* the synced rows on the device
  leaving,     \* vaults left on the server and not yet dropped here
  req,         \* the pull under way
  torn,        \* history variable: vaults whose last page was applied on
               \* top of another cursor than it was asked from
  moves        \* how often membership changed

dbVars     == <<lastSeq, rows>>
txVars     == <<lock, pc, plan, seen, first>>
deviceVars == <<cursor, held, torn>>
vars == <<dbVars, member, txVars, deviceVars, leaving, req, moves>>

NoReq == [at |-> "none"]

NoPlan == [v \in {} |-> <<>>]

Zero == [v \in Vault |-> 0]
Nothing == [v \in Vault |-> {}]

Init ==
  /\ lastSeq = Zero
  /\ rows = Nothing
  /\ member \in [Device -> SUBSET Vault]
  /\ lock = [v \in Vault |-> NoPush]
  /\ pc = [p \in Push |-> "idle"]
  /\ plan = [p \in Push |-> NoPlan]
  /\ seen = [p \in Push |-> Zero]
  /\ first = [p \in Push |-> Zero]
  /\ cursor = [d \in Device |-> Zero]
  /\ held = [d \in Device |-> Nothing]
  /\ leaving = [d \in Device |-> {}]
  /\ req = [d \in Device |-> NoReq]
  /\ torn = [d \in Device |-> {}]
  /\ moves = 0
-------------------------------------------------------------------------------
(***************************************************************************)
(* Push transactions.                                                      *)
(***************************************************************************)
Writable(p) == DOMAIN plan[p]

LocksOf(p) == { v \in Vault : lock[v] = p }

(* The least vault of a set: what a loop over sorted ids comes to next.    *)
IsLeast(v, S) == v \in S /\ \A u \in S : v <= u

(* vaultAccess has picked the vaults; nothing is locked yet.               *)
Begin(p) ==
  /\ pc[p] = "idle"
  /\ \E chosen \in Plans : plan' = [plan EXCEPT ![p] = chosen]
  /\ pc' = [pc EXCEPT ![p] = "locking"]
  /\ UNCHANGED <<dbVars, member, lock, seen, first, deviceVars, leaving, req, moves>>

(* The vaults lockVaults still has to lock.                                *)
ToLock(p) == Writable(p) \ LocksOf(p)

(* Faulty: lockVaults without its sort.                                    *)
LockAny(p) ==
  /\ pc[p] = "locking"
  /\ \E v \in ToLock(p) : lock[v] = NoPush /\ lock' = [lock EXCEPT ![v] = p]
  /\ UNCHANGED <<dbVars, member, pc, plan, seen, first, deviceVars, leaving, req, moves>>

LockNext(p) ==
  /\ pc[p] = "locking"
  /\ \E v \in Vault :
       /\ IsLeast(v, ToLock(p))
       /\ lock[v] = NoPush
       /\ lock' = [lock EXCEPT ![v] = p]
  /\ UNCHANGED <<dbVars, member, pc, plan, seen, first, deviceVars, leaving, req, moves>>

(* Faulty: the heads are read before the locks.                            *)
ReadHeadsUnlocked(p) ==
  /\ pc[p] = "locking"
  /\ seen' = [seen EXCEPT ![p] = lastSeq]
  /\ pc' = [pc EXCEPT ![p] = "writing"]
  /\ UNCHANGED <<dbVars, member, lock, plan, first, deviceVars, leaving, req, moves>>

(* Heads, stored changes, keys and budgets are read under the locks; the   *)
(* chains are then decided on them.                                        *)
ReadHeads(p) ==
  /\ pc[p] = "locking"
  /\ ToLock(p) = {}
  /\ seen' = [seen EXCEPT ![p] = lastSeq]
  /\ pc' = [pc EXCEPT ![p] = "writing"]
  /\ UNCHANGED <<dbVars, member, lock, plan, first, deviceVars, leaving, req, moves>>

(* The vaults insertVersions still has to take seqs of.                    *)
ToNumber(p) == { v \in Writable(p) : plan[p][v] # <<>> /\ first[p][v] = 0 }

(* takeVaultSeqs: the UPDATE reads the committed lastSeq under the lock.   *)
TakeSeqs(p) ==
  /\ pc[p] = "writing"
  /\ \E v \in Vault :
       /\ IsLeast(v, ToNumber(p))
       /\ lock[v] \in {p, NoPush}
       /\ lock' = [lock EXCEPT ![v] = p]
       /\ first' = [first EXCEPT ![p][v] = lastSeq[v] + 1]
  /\ UNCHANGED <<dbVars, member, pc, plan, seen, deviceVars, leaving, req, moves>>

(* The rows of the push, numbered in batch order.                          *)
Written(p, v) ==
  IF v \in Writable(p) /\ plan[p][v] # <<>> THEN RowsFrom(first[p][v], plan[p][v]) ELSE {}

(* The insert and dropPurgedHistory become visible, and the locks go, with *)
(* the commit.                                                             *)
Release(p) == lock' = [v \in Vault |-> IF lock[v] = p THEN NoPush ELSE lock[v]]

(* Faulty: without dropPurgedHistory.                                      *)
CommitKeepsHistory(p) ==
  /\ pc[p] = "writing"
  /\ ToNumber(p) = {}
  /\ rows' = [v \in Vault |-> rows[v] \cup Written(p, v)]
  /\ lastSeq' = [v \in Vault |->
                   IF Written(p, v) = {} THEN lastSeq[v]
                   ELSE first[p][v] + Len(plan[p][v]) - 1]
  /\ Release(p)
  /\ pc' = [pc EXCEPT ![p] = "done"]
  /\ UNCHANGED <<member, plan, seen, first, deviceVars, leaving, req, moves>>

Commit(p) ==
  /\ pc[p] = "writing"
  /\ ToNumber(p) = {}
  /\ rows' = [v \in Vault |->
                LET all == rows[v] \cup Written(p, v)
                IN  all \ BelowPurge(all, Written(p, v))]
  /\ lastSeq' = [v \in Vault |->
                   IF Written(p, v) = {} THEN lastSeq[v]
                   ELSE first[p][v] + Len(plan[p][v]) - 1]
  /\ Release(p)
  /\ pc' = [pc EXCEPT ![p] = "done"]
  /\ UNCHANGED <<member, plan, seen, first, deviceVars, leaving, req, moves>>

(* A lock timeout, a unique violation or a crash of the server.            *)
Abort(p) ==
  /\ pc[p] \in {"locking", "writing"}
  /\ Release(p)
  /\ pc' = [pc EXCEPT ![p] = "done"]
  /\ UNCHANGED <<dbVars, member, plan, seen, first, deviceVars, leaving, req, moves>>
-------------------------------------------------------------------------------
(***************************************************************************)
(* record.sync and the device's pull loop.                                 *)
(***************************************************************************)
Ask(d) ==
  /\ req[d].at = "none"
  /\ req' = [req EXCEPT ![d] = [at |-> "sent", from |-> cursor[d]]]
  /\ UNCHANGED <<dbVars, member, txVars, deviceVars, leaving, moves>>

(* The handler lists the user's vaults (memberVaults); each is then read   *)
(* from the cursor the device sent.                                        *)
ListVaults(d) ==
  /\ req[d].at = "sent"
  /\ req' = [req EXCEPT ![d] =
               [at |-> "reading", from |-> req[d].from, vaults |-> member[d],
                todo |-> member[d], room |-> PageLimit, page |-> Nothing,
                next |-> req[d].from, more |-> FALSE]]
  /\ UNCHANGED <<dbVars, member, txVars, deviceVars, leaving, moves>>

(* Faulty: LIMIT without ORDER BY.                                         *)
IsSome(taken, past, room) == Cardinality(taken) = Min({room, Cardinality(past)})

(* Faulty: the row that tells of more is cut off the page's own rows.      *)
IsFirstShort(taken, past, room) ==
  /\ \A x \in taken, y \in past \ taken : x.seq < y.seq
  /\ Cardinality(taken) = IF Cardinality(past) > room /\ room > 0
                          THEN room - 1 ELSE Min({room, Cardinality(past)})

(* ORDER BY seq LIMIT room: taken is the first `room` rows of past.        *)
IsFirst(taken, past, room) ==
  /\ \A x \in taken, y \in past \ taken : x.seq < y.seq
  /\ Cardinality(taken) = Min({room, Cardinality(past)})

(* One SELECT per vault in id order, each of the rows committed by then.   *)
(* The vault's next cursor is the highest seq taken.  A page that is full  *)
(* with rows left over ends there.                                         *)
ReadVault(d) ==
  /\ req[d].at = "reading"
  /\ \E v \in Vault :
       LET r == req[d]
           past == { x \in rows[v] : x.seq > r.from[v] }
           full == Cardinality(past) > r.room
       IN  /\ IsLeast(v, r.todo)
           /\ \E taken \in SUBSET past :
                /\ IsFirst(taken, past, r.room)
                /\ \E to \in {r.from[v]} \cup { x.seq : x \in taken } :
                     /\ \A x \in taken : x.seq <= to
                     /\ req' = [req EXCEPT ![d] =
                          [r EXCEPT !.todo = IF full THEN {} ELSE r.todo \ {v},
                                    !.room = r.room - Cardinality(taken),
                                    !.page = [r.page EXCEPT ![v] = taken],
                                    !.next = [r.next EXCEPT ![v] = to],
                                    !.more = full]]
  /\ UNCHANGED <<dbVars, member, txVars, deviceVars, leaving, moves>>

(* Faulty: without the store's dropPurgedHistory.                          *)
MergedKeepsHistory(old, page) == old \cup page

(* What upsertRecords and dropPurgedHistory leave of a vault's rows.       *)
Merged(old, page) ==
  LET all == old \cup page
  IN  all \ { x \in BelowPurge(all, all) : \E y \in page : y.record = x.record }

(* applySync, one local transaction: vaults not listed any more go, the    *)
(* pulled rows come, every listed vault's cursor is set.  When the page    *)
(* says there is more, pullAll asks again from the stored cursors (Ask).   *)
Apply(d) ==
  /\ req[d].at = "reading"
  /\ req[d].todo = {}
  /\ LET r == req[d]
     IN  /\ held' = [held EXCEPT ![d] =
               [v \in Vault |-> IF v \in r.vaults THEN Merged(held[d][v], r.page[v]) ELSE {}]]
         /\ cursor' = [cursor EXCEPT ![d] =
               [v \in Vault |-> IF v \in r.vaults THEN r.next[v] ELSE 0]]
         /\ torn' = [torn EXCEPT ![d] =
               { v \in r.vaults : v \in torn[d] \/ cursor[d][v] # r.from[v] }]
  /\ req' = [req EXCEPT ![d] = NoReq]
  /\ UNCHANGED <<dbVars, member, txVars, leaving, moves>>

(* The request or its answer is lost, or the app is closed.                *)
Lose(d) ==
  /\ req[d].at # "none"
  /\ req' = [req EXCEPT ![d] = NoReq]
  /\ UNCHANGED <<dbVars, member, txVars, deviceVars, leaving, moves>>
-------------------------------------------------------------------------------
(***************************************************************************)
(* Membership, as far as the cursor is concerned.                          *)
(***************************************************************************)
Move(d, vaults) ==
  /\ moves < MaxMoves
  /\ moves' = moves + 1
  /\ member' = [member EXCEPT ![d] = vaults]
  /\ UNCHANGED <<dbVars, txVars, deviceVars, req>>

(* An invite is accepted (here or on another device of the user).          *)
Join(d, v) ==
  /\ v \notin member[d]
  /\ Move(d, member[d] \cup {v})
  /\ UNCHANGED leaving

(* Removed by a manager, vault deleted, or left on another device.         *)
Revoke(d, v) ==
  /\ v \in member[d]
  /\ Move(d, member[d] \ {v})
  /\ UNCHANGED leaving

(* leaveVault: first the server ...                                        *)
Leave(d, v) ==
  /\ v \in member[d]
  /\ Move(d, member[d] \ {v})
  /\ leaving' = [leaving EXCEPT ![d] = @ \cup {v}]

(* ... then Vault.removeVault: rows and cursor go, whatever pull is under  *)
(* way.                                                                    *)
RemoveVault(d, v) ==
  /\ v \in leaving[d]
  /\ leaving' = [leaving EXCEPT ![d] = @ \ {v}]
  /\ cursor' = [cursor EXCEPT ![d][v] = 0]
  /\ held' = [held EXCEPT ![d][v] = {}]
  /\ torn' = [torn EXCEPT ![d] = @ \ {v}]
  /\ UNCHANGED <<dbVars, member, txVars, req, moves>>
-------------------------------------------------------------------------------
PushNext(p) ==
  Begin(p) \/ LockNext(p) \/ ReadHeads(p) \/ TakeSeqs(p) \/ Commit(p) \/ Abort(p)

DeviceNext(d) ==
  \/ Ask(d) \/ ListVaults(d) \/ ReadVault(d) \/ Apply(d) \/ Lose(d)
  \/ \E v \in Vault : Join(d, v) \/ Revoke(d, v) \/ Leave(d, v) \/ RemoveVault(d, v)

Next == (\E p \in Push : PushNext(p)) \/ (\E d \in Device : DeviceNext(d))

Spec == Init /\ [][Next]_vars

(* A transaction that can go on does (Postgres grants a lock once it is    *)
(* free), and a device keeps pulling: on a timer, on a ping of the server  *)
(* and after a failure.                                                    *)
Fairness ==
  /\ \A p \in Push : WF_vars(LockNext(p) \/ ReadHeads(p) \/ TakeSeqs(p) \/ Commit(p))
  /\ \A d \in Device :
       /\ WF_vars(Ask(d) \/ ListVaults(d) \/ ReadVault(d) \/ Apply(d))
       /\ \A v \in Vault : WF_vars(RemoveVault(d, v))

(* The network holds from some point on: no pull ends but by being applied *)
(* (a page with no news ends in the state a lost one leaves).              *)
Connected == <>[][\A d \in Device : Lose(d) => Apply(d)]_vars

FairSpec == Spec /\ Fairness /\ Connected
-------------------------------------------------------------------------------
(***************************************************************************)
(* Properties.                                                             *)
(***************************************************************************)
Request ==
  {NoReq}
  \cup [at : {"sent"}, from : [Vault -> Nat]]
  \cup [at : {"reading"}, from : [Vault -> Nat], vaults : SUBSET Vault, todo : SUBSET Vault,
        room : Nat, page : [Vault -> SUBSET Row], next : [Vault -> Nat], more : BOOLEAN]

(* Every variable has its type.                                            *)
TypeOK ==
  /\ lastSeq \in [Vault -> Nat]
  /\ rows \in [Vault -> SUBSET Row]
  /\ member \in [Device -> SUBSET Vault]
  /\ lock \in [Vault -> Push \cup {NoPush}]
  /\ pc \in [Push -> {"idle", "locking", "writing", "done"}]
  /\ plan \in [Push -> Plans \cup {NoPlan}]
  /\ seen \in [Push -> [Vault -> Nat]]
  /\ first \in [Push -> [Vault -> Nat]]
  /\ cursor \in [Device -> [Vault -> Nat]]
  /\ held \in [Device -> [Vault -> SUBSET Row]]
  /\ leaving \in [Device -> SUBSET Vault]
  /\ req \in [Device -> Request]
  /\ torn \in [Device -> SUBSET Vault]
  /\ moves \in Nat

(* What a push read of its vaults' records under lockVaults is still so    *)
(* when it numbers and writes its versions: nobody committed to one of     *)
(* them meanwhile (access.ts, lockVaults).                                 *)
ReadsStayCurrent ==
  \A p \in Push : pc[p] = "writing" =>
    \A v \in Writable(p) : lastSeq[v] = seen[p][v]

(* A cursor is a point below which the device holds all of the vault's     *)
(* rows (router.ts, sync), whatever commits between two reads of a page or *)
(* between a page's reading and its applying.  Vaults left while a pull    *)
(* was under way are set apart: see CursorComplete.                        *)
CursorCompleteUnlessTorn ==
  \A d \in Device : \A v \in Vault \ torn[d] :
    UpTo(rows[v], cursor[d][v]) \subseteq held[d][v]

(* The same without the exception, for the vaults the user is a member of, *)
(* as router.ts states it: "every cursor stays a point below which the     *)
(* device holds all of a vault's rows".                                    *)
CursorComplete ==
  \A d \in Device : \A v \in member[d] :
    UpTo(rows[v], cursor[d][v]) \subseteq held[d][v]

(* A device whose cursor is at the vault's end holds exactly the vault's   *)
(* rows: it missed none, and kept none that a purge took away on the       *)
(* server, even when a purge committed between two pages (store            *)
(* outbox-schema.ts, dropPurgedHistory).                                   *)
CaughtUpIsExact ==
  \A d \in Device : \A v \in Vault \ torn[d] :
    cursor[d][v] = lastSeq[v] => held[d][v] = rows[v]

(* A push once begun ends, without any lock timing out: pushes never wait  *)
(* for each other in a circle (access.ts, lockVaults: "in id order (no     *)
(* deadlock)").                                                            *)
PushesEnd == \A p \in Push : pc[p] = "locking" ~> pc[p] = "done"

(* A device that keeps pulling ends up with exactly the rows of the vaults *)
(* its user is a member of, and none of the others.                        *)
CatchesUp ==
  <>[](\A d \in Device : \A v \in Vault \ torn[d] :
         held[d][v] = IF v \in member[d] THEN rows[v] ELSE {})

(* The transactions, pages and cursors implement an atomic log per vault   *)
(* and devices that hold a prefix of it.  A torn vault counts as one the   *)
(* device hasn't synced.                                                   *)
Log == INSTANCE VaultLog WITH
  cursor <- [d \in Device |-> [v \in Vault |-> IF v \in torn[d] THEN 0 ELSE cursor[d][v]]],
  held   <- [d \in Device |-> [v \in Vault |-> IF v \in torn[d] THEN {} ELSE held[d][v]]]

ImplementsLog == Log!Spec
===============================================================================
