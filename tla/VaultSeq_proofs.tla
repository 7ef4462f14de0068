---------------------------- MODULE VaultSeq_proofs ----------------------------
(***************************************************************************)
(* Proofs about VaultSeq, for every set of vaults, pushes and devices,     *)
(* every plan and every page limit.                                        *)
(***************************************************************************)
EXTENDS VaultSeq, FiniteSetTheorems, FunctionTheorems, WellFoundedInduction, TLAPS

(* What IsFirst takes of a page's room is a number within it.              *)
LEMMA MinOfTwo ==
  ASSUME NEW a \in Nat, NEW b \in Nat
  PROVE  /\ Min({a, b}) \in Nat
         /\ Min({a, b}) <= a
<1>1. \E x \in {a, b} : \A y \in {a, b} : x <= y
  OBVIOUS
<1>2. Min({a, b}) \in {a, b} /\ \A y \in {a, b} : Min({a, b}) <= y
  BY <1>1 DEF Min
<1>. QED
  BY <1>2

(* The rows of a push are rows, finitely many, all past the seq below its  *)
(* first one.                                                              *)
LEMMA RowsFromRows ==
  ASSUME NEW n \in Nat \ {0}, NEW changes \in Seq(Change)
  PROVE  /\ RowsFrom(n, changes) \subseteq Row
         /\ IsFiniteSet(RowsFrom(n, changes))
         /\ \A x \in RowsFrom(n, changes) : n <= x.seq /\ x.seq <= n + Len(changes) - 1
<1>1. DOMAIN changes = 1..Len(changes) /\ Len(changes) \in Nat
  OBVIOUS
<1>2. \A i \in DOMAIN changes : changes[i] \in Change
  OBVIOUS
<1>3. RowsFrom(n, changes) \subseteq Row
  BY <1>1, <1>2 DEF RowsFrom, Row, Change
<1>4. IsFiniteSet(RowsFrom(n, changes))
  <2> DEFINE f == [i \in 1..Len(changes) |->
                     [seq |-> n + i - 1, record |-> changes[i].record, purge |-> changes[i].purge]]
  <2>1. f \in Surjection(1..Len(changes), RowsFrom(n, changes))
    BY <1>1 DEF Surjection, RowsFrom
  <2>2. IsFiniteSet(1..Len(changes))
    BY <1>1, FS_Interval
  <2>. QED
    BY <2>1, <2>2, FS_Surjection
<1>5. \A x \in RowsFrom(n, changes) : n <= x.seq /\ x.seq <= n + Len(changes) - 1
  BY <1>1 DEF RowsFrom
<1>. QED
  BY <1>3, <1>4, <1>5
-------------------------------------------------------------------------------
(***************************************************************************)
(* Locks and types.                                                        *)
(***************************************************************************)
(* The rows of a vault are finitely many, so that a page can count them.   *)
RowsFinite == \A v \in Vault : IsFiniteSet(rows[v])

(* A push that decides and writes holds all its vaults' locks.             *)
LocksHeld ==
  \A p \in Push : pc[p] = "writing" => \A v \in Writable(p) : lock[v] = p

(* The run of seqs a push has taken is the one after the committed ones.   *)
FirstIsNext ==
  \A p \in Push : \A v \in Vault :
    /\ pc[p] \in {"idle", "locking"} => first[p][v] = 0
    /\ pc[p] = "writing" /\ v \in Writable(p) /\ first[p][v] # 0 => first[p][v] = lastSeq[v] + 1

(* The inductive invariant of the transactions: TypeOK needs RowsFinite;   *)
(* that nobody commits under a writing push needs the locks, and the locks *)
(* need nothing else.                                                      *)
LockInv == TypeOK /\ RowsFinite /\ LocksHeld /\ FirstIsNext /\ ReadsStayCurrent

(* A push writes to vaults only.                                           *)
LEMMA WritableVaults ==
  ASSUME TypeOK, NEW p \in Push
  PROVE  Writable(p) \subseteq Vault
<1>1. CASE plan[p] = NoPlan
  BY <1>1 DEF Writable, NoPlan
<1>2. CASE plan[p] \in Plans
  BY <1>2, PlansAssumption DEF Writable
<1>. QED
  BY <1>1, <1>2 DEF TypeOK

(* The rows a push commits in a vault.                                     *)
LEMMA WrittenRows ==
  ASSUME TypeOK, NEW p \in Push, ToNumber(p) = {}, NEW v \in Vault
  PROVE  /\ Written(p, v) \subseteq Row
         /\ IsFiniteSet(Written(p, v))
         /\ Written(p, v) # {} => v \in Writable(p) /\ plan[p][v] # <<>> /\ first[p][v] \in Nat \ {0}
         /\ Written(p, v) # {} => first[p][v] + Len(plan[p][v]) - 1 \in Nat
         /\ Written(p, v) # {} => \A x \in Written(p, v) :
              first[p][v] <= x.seq /\ x.seq <= first[p][v] + Len(plan[p][v]) - 1
<1>1. CASE v \in Writable(p) /\ plan[p][v] # <<>>
  <2>1. plan[p] \in Plans
    BY <1>1 DEF TypeOK, Writable, NoPlan
  <2>2. plan[p][v] \in Seq(Change)
    BY <1>1, <2>1, PlansAssumption DEF Writable
  <2>3. first[p][v] \in Nat \ {0}
    BY <1>1 DEF ToNumber, TypeOK
  <2>4. Written(p, v) = RowsFrom(first[p][v], plan[p][v])
    BY <1>1 DEF Written
  <2>5. Len(plan[p][v]) \in Nat
    BY <2>2
  <2>6. /\ Written(p, v) \subseteq Row
        /\ IsFiniteSet(Written(p, v))
        /\ \A x \in Written(p, v) :
             first[p][v] <= x.seq /\ x.seq <= first[p][v] + Len(plan[p][v]) - 1
    BY <2>2, <2>3, <2>4, RowsFromRows
  <2>. QED
    BY <1>1, <2>3, <2>5, <2>6
<1>2. CASE ~(v \in Writable(p) /\ plan[p][v] # <<>>)
  BY <1>2, FS_EmptySet DEF Written
<1>. QED
  BY <1>1, <1>2

LEMMA InitLockInv == Init => LockInv
<1>. SUFFICES ASSUME Init PROVE LockInv
  OBVIOUS
<1>1. TypeOK
  BY ConstantsAssumption DEF Init, TypeOK, Zero, Nothing, Request
<1>2. RowsFinite
  BY FS_EmptySet DEF Init, RowsFinite, Nothing
<1>. QED
  BY <1>1, <1>2 DEF Init, LockInv, LocksHeld, FirstIsNext, ReadsStayCurrent, Zero

(* Steps that touch neither rows nor transactions keep all but the types   *)
(* of what they change.                                                    *)
LEMMA LockInvFrame ==
  ASSUME LockInv, UNCHANGED <<dbVars, txVars>>
  PROVE  RowsFinite' /\ LocksHeld' /\ FirstIsNext' /\ ReadsStayCurrent'
BY DEF LockInv, RowsFinite, LocksHeld, FirstIsNext, ReadsStayCurrent, Writable, dbVars, txVars

(* The steps of a push transaction keep LockInv.                           *)
LEMMA PushKeepsLockInv ==
  ASSUME LockInv, NEW p \in Push, PushNext(p)
  PROVE  LockInv'
<1>. USE DEF LockInv
<1>1. CASE Begin(p)
  <2>1. TypeOK'
    BY <1>1 DEF Begin, TypeOK, dbVars, deviceVars
  <2>. QED
    BY <1>1, <2>1 DEF Begin, TypeOK, RowsFinite, LocksHeld, FirstIsNext, ReadsStayCurrent,
                      Writable, dbVars
<1>2. CASE LockNext(p)
  <2>1. PICK v \in Vault : lock[v] = NoPush /\ lock' = [lock EXCEPT ![v] = p]
    BY <1>2 DEF LockNext
  <2>2. TypeOK'
    BY <1>2, <2>1 DEF LockNext, TypeOK, dbVars, deviceVars
  <2>3. LocksHeld'
    BY <1>2, <2>1, ConstantsAssumption DEF LockNext, TypeOK, LocksHeld, Writable
  <2>. QED
    BY <1>2, <2>2, <2>3 DEF LockNext, RowsFinite, FirstIsNext, ReadsStayCurrent, Writable, dbVars
<1>3. CASE ReadHeads(p)
  <2>1. TypeOK'
    BY <1>3 DEF ReadHeads, TypeOK, dbVars, deviceVars
  <2>2. LocksHeld'
    BY <1>3, PlansAssumption DEF ReadHeads, TypeOK, LocksHeld, Writable, ToLock, LocksOf
  <2>. QED
    BY <1>3, <2>1, <2>2 DEF ReadHeads, TypeOK, RowsFinite, FirstIsNext, ReadsStayCurrent, Writable, dbVars
<1>4. CASE TakeSeqs(p)
  <2>1. PICK v \in Vault :
          /\ v \in ToNumber(p)
          /\ lock' = [lock EXCEPT ![v] = p]
          /\ first' = [first EXCEPT ![p][v] = lastSeq[v] + 1]
    BY <1>4 DEF TakeSeqs, IsLeast
  <2>2. lock[v] = p
    BY <1>4, <2>1 DEF TakeSeqs, LocksHeld, ToNumber
  <2>3. lock' = lock
    BY <2>1, <2>2 DEF TypeOK
  <2>4. TypeOK'
    BY <1>4, <2>1 DEF TakeSeqs, TypeOK, dbVars, deviceVars
  <2>5. FirstIsNext'
    BY <1>4, <2>1 DEF TakeSeqs, TypeOK, FirstIsNext, Writable, dbVars
  <2>. QED
    BY <1>4, <2>3, <2>4, <2>5 DEF TakeSeqs, RowsFinite, LocksHeld, ReadsStayCurrent, Writable, dbVars
<1>5. CASE Commit(p)
  <2>1. TypeOK /\ ToNumber(p) = {}
    BY <1>5 DEF Commit
  <2>2. TypeOK'
    <3>1. rows' \in [Vault -> SUBSET Row]
      BY <1>5, <2>1, WrittenRows DEF Commit, TypeOK
    <3>2. lastSeq' \in [Vault -> Nat]
      BY <1>5, <2>1, WrittenRows DEF Commit, TypeOK
    <3>. QED
      BY <1>5, <3>1, <3>2 DEF Commit, TypeOK, Release, deviceVars
  <2>3. RowsFinite'
    <3>. SUFFICES ASSUME NEW v \in Vault PROVE IsFiniteSet(rows'[v])
      BY DEF RowsFinite
    <3>1. IsFiniteSet(rows[v] \cup Written(p, v))
      BY <2>1, WrittenRows, FS_Union DEF RowsFinite
    <3>. QED
      BY <1>5, <3>1, FS_Subset DEF Commit
  <2>4. \A q \in Push \ {p} : pc'[q] = "writing" =>
          \A v \in Writable(q) : v \in Vault /\ lastSeq'[v] = lastSeq[v] /\ lock'[v] = q
    <3>. SUFFICES ASSUME NEW q \in Push, q # p, pc[q] = "writing", NEW v \in Writable(q)
                  PROVE  v \in Vault /\ lastSeq'[v] = lastSeq[v] /\ lock'[v] = q
      BY <1>5 DEF Commit, TypeOK
    <3>1. v \in Vault
      BY WritableVaults
    <3>2. lock[v] = q
      BY DEF LocksHeld
    <3>3. Written(p, v) = {}
      BY <1>5, <3>2 DEF Commit, LocksHeld, Written
    <3>. QED
      BY <1>5, <3>1, <3>2, <3>3 DEF Commit, Release
  <2>5. /\ \A q \in Push \ {p} : pc'[q] = pc[q]
        /\ pc'[p] = "done"
        /\ UNCHANGED <<first, plan, seen>>
    <3>1. \A q \in Push \ {p} : pc'[q] = pc[q]
      BY <1>5 DEF Commit, TypeOK
    <3>2. pc'[p] = "done"
      BY <1>5 DEF Commit, TypeOK
    <3>. QED
      BY <1>5, <3>1, <3>2 DEF Commit
  <2>6. LocksHeld'
    BY <2>4, <2>5 DEF LocksHeld, Writable
  <2>7. FirstIsNext'
    BY <2>4, <2>5 DEF FirstIsNext, Writable
  <2>8. ReadsStayCurrent'
    <3>. SUFFICES ASSUME NEW q \in Push, pc'[q] = "writing", NEW v \in Writable(q)'
                  PROVE  lastSeq'[v] = seen'[q][v]
      BY DEF ReadsStayCurrent
    <3>1. q # p /\ pc[q] = "writing" /\ v \in Writable(q) /\ seen' = seen
      BY <2>5 DEF Writable
    <3>2. lastSeq'[v] = lastSeq[v]
      BY <2>4, <3>1
    <3>. QED
      BY <3>1, <3>2 DEF ReadsStayCurrent
  <2>. QED
    BY <2>2, <2>3, <2>6, <2>7, <2>8
<1>6. CASE Abort(p)
  <2>1. TypeOK'
    BY <1>6 DEF Abort, TypeOK, Release, dbVars, deviceVars
  <2>2. LocksHeld'
    <3>. SUFFICES ASSUME NEW q \in Push, pc'[q] = "writing", NEW v \in Writable(q)'
                  PROVE  lock'[v] = q
      BY DEF LocksHeld
    <3>1. q # p /\ pc[q] = "writing" /\ v \in Writable(q)
      BY <1>6 DEF Abort, TypeOK, Writable
    <3>2. v \in Vault
      BY <3>1, WritableVaults
    <3>. QED
      BY <1>6, <3>1, <3>2 DEF Abort, Release, LocksHeld
  <2>. QED
    BY <1>6, <2>1, <2>2 DEF Abort, TypeOK, RowsFinite, FirstIsNext, ReadsStayCurrent, Writable, dbVars
<1>. QED
  BY <1>1, <1>2, <1>3, <1>4, <1>5, <1>6 DEF PushNext

(* A page has room for what is taken.                                      *)
LEMMA RoomLeft ==
  ASSUME NEW past, IsFiniteSet(past), NEW room \in Nat, NEW taken \in SUBSET past,
         IsFirst(taken, past, room)
  PROVE  /\ Cardinality(past) \in Nat
         /\ room - Cardinality(taken) \in Nat
<1>1. Cardinality(past) \in Nat
  BY FS_CardinalityType
<1>2. Cardinality(taken) \in Nat /\ Cardinality(taken) <= room
  BY <1>1, MinOfTwo DEF IsFirst
<1>. QED
  BY <1>1, <1>2

(* A request that reads.                                                   *)
Reading ==
  [at : {"reading"}, from : [Vault -> Nat], vaults : SUBSET Vault, todo : SUBSET Vault,
   room : Nat, page : [Vault -> SUBSET Row], next : [Vault -> Nat], more : BOOLEAN]

LEMMA ReadingRequest ==
  ASSUME TypeOK, NEW d \in Device, req[d].at = "reading"
  PROVE  req[d] \in Reading
BY DEF TypeOK, Request, Reading, NoReq

(* What reading one vault makes of a request: the rows taken of it are the *)
(* first ones past its cursor, the next cursor is past none that is left.  *)
Past(d, v) == { x \in rows[v] : x.seq > req[d].from[v] }

SeqsOf(d, v, taken) == {req[d].from[v]} \cup { x.seq : x \in taken }

VaultRead(d, v, taken, to) ==
  /\ req[d] \in Reading
  /\ \A x \in taken : x.seq <= to
  /\ \A x \in taken, y \in Past(d, v) \ taken : x.seq < y.seq
  /\ req' \in [Device -> Request]
  /\ req'[d] \in Reading
  /\ req'[d].from = req[d].from
  /\ req'[d].page = [req[d].page EXCEPT ![v] = taken]
  /\ req'[d].next = [req[d].next EXCEPT ![v] = to]
  /\ \A e \in Device \ {d} : req'[e] = req[e]

LEMMA ReadVaultRequest ==
  ASSUME TypeOK, RowsFinite, NEW d \in Device, ReadVault(d)
  PROVE  \E v \in Vault : \E taken \in SUBSET Past(d, v) : \E to \in SeqsOf(d, v, taken) :
           VaultRead(d, v, taken, to)
<1>1. req[d] \in Reading
  BY ReadingRequest DEF ReadVault
<1>. DEFINE r == req[d]
            full(v) == Cardinality(Past(d, v)) > r.room
            new(v, taken, to) ==
              [r EXCEPT !.todo = IF full(v) THEN {} ELSE r.todo \ {v},
                        !.room = r.room - Cardinality(taken),
                        !.page = [r.page EXCEPT ![v] = taken],
                        !.next = [r.next EXCEPT ![v] = to],
                        !.more = full(v)]
<1>12. PICK v \in Vault : \E taken \in SUBSET Past(d, v) :
         /\ IsFirst(taken, Past(d, v), r.room)
         /\ \E to \in SeqsOf(d, v, taken) :
              /\ \A x \in taken : x.seq <= to
              /\ req' = [req EXCEPT ![d] = new(v, taken, to)]
  BY DEF ReadVault, Past, SeqsOf
<1>13. PICK taken \in SUBSET Past(d, v) :
         /\ IsFirst(taken, Past(d, v), r.room)
         /\ \E to \in SeqsOf(d, v, taken) :
              /\ \A x \in taken : x.seq <= to
              /\ req' = [req EXCEPT ![d] = new(v, taken, to)]
  BY <1>12
<1>2. PICK to \in SeqsOf(d, v, taken) :
        /\ IsFirst(taken, Past(d, v), r.room)
        /\ \A x \in taken : x.seq <= to
        /\ req' = [req EXCEPT ![d] = new(v, taken, to)]
  BY <1>13
<1>3. IsFiniteSet(Past(d, v))
  BY FS_Subset DEF RowsFinite, Past
<1>4. /\ Cardinality(Past(d, v)) \in Nat
      /\ r.room - Cardinality(taken) \in Nat
  BY <1>1, <1>2, <1>3, RoomLeft DEF Reading
<1>5. taken \in SUBSET Row /\ to \in Nat
  BY <1>1, <1>2 DEF TypeOK, Reading, Row, Past, SeqsOf
<1>6. full(v) \in BOOLEAN
  BY <1>1, <1>4 DEF Reading
<1>7. new(v, taken, to) \in Reading
  <2>. HIDE DEF full
  <2>. QED
    BY <1>1, <1>4, <1>5, <1>6 DEF Reading
<1>8. req'[d] = new(v, taken, to) /\ \A e \in Device \ {d} : req'[e] = req[e]
  BY <1>2 DEF TypeOK
<1>9. req' \in [Device -> Request]
  BY <1>2, <1>7 DEF TypeOK, Request, Reading
<1>10. \A x \in taken, y \in Past(d, v) \ taken : x.seq < y.seq
  BY <1>2 DEF IsFirst
<1>11. /\ new(v, taken, to).from = r.from
       /\ new(v, taken, to).page = [r.page EXCEPT ![v] = taken]
       /\ new(v, taken, to).next = [r.next EXCEPT ![v] = to]
  BY <1>1 DEF Reading
<1>. HIDE DEF new
<1>. WITNESS v \in Vault
<1>. WITNESS taken \in SUBSET Past(d, v)
<1>. WITNESS to \in SeqsOf(d, v, taken)
<1>. QED
  BY <1>1, <1>2, <1>7, <1>8, <1>9, <1>10, <1>11 DEF VaultRead

(* The steps of a device keep the types; nothing else of LockInv is theirs *)
(* to break.                                                               *)
LEMMA DeviceKeepsLockInv ==
  ASSUME LockInv, NEW d \in Device, DeviceNext(d)
  PROVE  LockInv'
<1>1. UNCHANGED <<dbVars, txVars>>
  BY DEF DeviceNext, Ask, ListVaults, ReadVault, Apply, Lose, Join, Revoke, Leave, Move, RemoveVault
<1>. SUFFICES TypeOK'
  BY <1>1, LockInvFrame DEF LockInv
<1>. USE DEF LockInv
<1>2. CASE Ask(d)
  BY <1>2 DEF Ask, TypeOK, Request, dbVars, txVars, deviceVars
<1>3. CASE ListVaults(d)
  <2>1. req[d].from \in [Vault -> Nat]
    BY <1>3 DEF ListVaults, TypeOK, Request, NoReq
  <2>2. req' \in [Device -> Request]
    BY <1>3, <2>1, ConstantsAssumption DEF ListVaults, TypeOK, Request, Nothing
  <2>. QED
    BY <1>3, <2>2 DEF ListVaults, TypeOK, dbVars, txVars, deviceVars
<1>4. CASE ReadVault(d)
  <2>1. req' \in [Device -> Request]
    BY <1>4, ReadVaultRequest DEF VaultRead
  <2>. QED
    BY <1>4, <2>1 DEF ReadVault, TypeOK, dbVars, txVars, deviceVars
<1>5. CASE Apply(d)
  <2>1. req[d] \in Reading
    BY <1>5, ReadingRequest DEF Apply
  <2>2. req' \in [Device -> Request]
    BY <1>5 DEF Apply, TypeOK, Request
  <2>3. cursor' \in [Device -> [Vault -> Nat]]
    BY <1>5, <2>1 DEF Apply, TypeOK, Reading
  <2>4. \A v \in Vault : Merged(held[d][v], req[d].page[v]) \subseteq Row
    BY <2>1 DEF Merged, TypeOK, Reading
  <2>5. held' \in [Device -> [Vault -> SUBSET Row]]
    BY <1>5, <2>4 DEF Apply, TypeOK
  <2>6. torn' \in [Device -> SUBSET Vault]
    BY <1>5, <2>1 DEF Apply, TypeOK, Reading
  <2>. QED
    BY <1>5, <2>2, <2>3, <2>5, <2>6 DEF Apply, TypeOK, dbVars, txVars
<1>6. CASE Lose(d)
  BY <1>6 DEF Lose, TypeOK, Request, dbVars, txVars, deviceVars
<1>7. ASSUME NEW v \in Vault, Join(d, v) \/ Revoke(d, v) \/ Leave(d, v)
      PROVE  TypeOK'
  <2>4. PICK vaults \in SUBSET Vault : Move(d, vaults)
    <3>1. member[d] \subseteq Vault
      BY DEF TypeOK
    <3>2. member[d] \cup {v} \in SUBSET Vault /\ member[d] \ {v} \in SUBSET Vault
      BY <3>1
    <3>. QED
      BY <1>7, <3>2 DEF Join, Revoke, Leave
  <2>1. member' \in [Device -> SUBSET Vault] /\ moves' \in Nat
    BY <2>4 DEF Move, TypeOK
  <2>2. leaving' \in [Device -> SUBSET Vault]
    BY <1>7 DEF Join, Revoke, Leave, TypeOK
  <2>3. UNCHANGED <<dbVars, txVars, deviceVars, req>>
    BY <1>7 DEF Join, Revoke, Leave, Move
  <2>. QED
    BY <2>1, <2>2, <2>3 DEF TypeOK, dbVars, txVars, deviceVars
<1>8. ASSUME NEW v \in Vault, RemoveVault(d, v)
      PROVE  TypeOK'
  BY <1>8 DEF RemoveVault, TypeOK, dbVars, txVars
<1>. QED
  BY <1>2, <1>3, <1>4, <1>5, <1>6, <1>7, <1>8 DEF DeviceNext

LEMMA StepKeepsLockInv == LockInv /\ [Next]_vars => LockInv'
<1>1. LockInv /\ UNCHANGED vars => LockInv'
  <2>. SUFFICES ASSUME LockInv, UNCHANGED vars PROVE LockInv'
    OBVIOUS
  <2>1. TypeOK'
    BY DEF LockInv, TypeOK, vars, dbVars, txVars, deviceVars
  <2>. QED
    BY <2>1, LockInvFrame DEF LockInv, vars
<1>. QED
  BY <1>1, PushKeepsLockInv, DeviceKeepsLockInv DEF Next

LEMMA LockInvAlways == Spec => []LockInv
BY InitLockInv, StepKeepsLockInv, PTL DEF Spec

(* Every variable keeps its type: above all, numbering (TakeSeqs, Commit)  *)
(* only makes rows with a seq, and a page never overruns its room.         *)
THEOREM TypeCorrect == Spec => []TypeOK
BY LockInvAlways, PTL DEF LockInv

(* Whatever a push read of its vaults under lockVaults is still so when it *)
(* numbers and writes, for any number of pushes (access.ts, lockVaults;    *)
(* push.ts: "the compare-and-swap is decided under the lock").             *)
THEOREM ReadsStay == Spec => []ReadsStayCurrent
BY LockInvAlways, PTL DEF LockInv
-------------------------------------------------------------------------------
(***************************************************************************)
(* The cursor.                                                             *)
(***************************************************************************)
(* What a device has, or is about to get, of a vault.                      *)
Page(d, v) == IF req[d].at = "reading" THEN req[d].page[v] ELSE {}

Known(d, v) == held[d][v] \cup Page(d, v)

(* Every seq in sight was handed out and committed.                        *)
SeqsTaken ==
  /\ \A v \in Vault : \A x \in rows[v] : x.seq <= lastSeq[v]
  /\ \A d \in Device, v \in Vault : \A x \in Known(d, v) : x.seq <= lastSeq[v]
  /\ \A d \in Device, v \in Vault : cursor[d][v] <= lastSeq[v]
  /\ \A d \in Device, v \in Vault : req[d].at # "none" => req[d].from[v] <= lastSeq[v]
  /\ \A d \in Device, v \in Vault : req[d].at = "reading" => req[d].next[v] <= lastSeq[v]

(* No row of the vault lies below a purge of its record that was ever seen.*)
PurgesFinal ==
  /\ \A v \in Vault : BelowPurge(rows[v], rows[v]) = {}
  /\ \A d \in Device, v \in Vault : BelowPurge(rows[v], Known(d, v)) = {}

(* A page holds every row up to the cursor that goes with it.              *)
PageComplete ==
  \A d \in Device, v \in Vault : req[d].at = "reading" =>
    Between(rows[v], req[d].from[v], req[d].next[v]) \subseteq req[d].page[v]

(* The inductive invariant behind CursorCompleteUnlessTorn.                *)
CursorInv == SeqsTaken /\ PurgesFinal /\ PageComplete /\ CursorCompleteUnlessTorn

(* A commit appends: what it adds to a vault lies past every seq handed    *)
(* out before, and a purge among it has nothing of its record below it.    *)
LEMMA CommitAppends ==
  ASSUME LockInv, SeqsTaken, PurgesFinal, NEW p \in Push, Commit(p), NEW v \in Vault
  PROVE  /\ lastSeq[v] <= lastSeq'[v]
         /\ \A x \in rows'[v] : x \in rows[v] \/ (lastSeq[v] < x.seq /\ x.seq <= lastSeq'[v])
         /\ BelowPurge(rows'[v], rows'[v]) = {}
<1>. DEFINE W == Written(p, v)
<1>1. /\ lastSeq \in [Vault -> Nat]
      /\ rows[v] \subseteq Row
      /\ W \subseteq Row
      /\ ToNumber(p) = {}
  BY WrittenRows DEF LockInv, TypeOK, Commit
<1>2. /\ rows'[v] = (rows[v] \cup W) \ BelowPurge(rows[v] \cup W, W)
      /\ lastSeq'[v] = IF W = {} THEN lastSeq[v] ELSE first[p][v] + Len(plan[p][v]) - 1
  BY DEF Commit
<1>3. W # {} => \A x \in W : lastSeq[v] < x.seq /\ x.seq <= lastSeq'[v]
  <2>. SUFFICES ASSUME W # {} PROVE \A x \in W : lastSeq[v] < x.seq /\ x.seq <= lastSeq'[v]
    OBVIOUS
  <2>1. /\ v \in Writable(p)
        /\ first[p][v] \in Nat \ {0}
        /\ \A x \in W : first[p][v] <= x.seq /\ x.seq <= first[p][v] + Len(plan[p][v]) - 1
    BY <1>1, WrittenRows DEF LockInv
  <2>2. first[p][v] = lastSeq[v] + 1
    BY <2>1 DEF LockInv, FirstIsNext, Commit
  <2>. QED
    BY <1>1, <1>2, <2>1, <2>2 DEF Row
<1>4. lastSeq[v] <= lastSeq'[v]
  <2>1. CASE W = {}
    BY <1>1, <1>2, <2>1
  <2>2. CASE W # {}
    <3>1. lastSeq'[v] \in Nat
      BY <1>1, <1>2, <2>2, WrittenRows DEF LockInv
    <3>2. PICK x \in W : TRUE
      BY <2>2
    <3>. QED
      BY <1>1, <1>3, <3>1, <3>2 DEF Row
  <2>. QED
    BY <2>1, <2>2
<1>5. BelowPurge(rows'[v], rows'[v]) = {}
  <2>. SUFFICES ASSUME NEW x \in rows'[v], NEW t \in rows'[v],
                       t.purge, t.record = x.record, x.seq < t.seq
                PROVE  FALSE
    BY DEF BelowPurge
  <2>1. CASE t \in W
    BY <1>2, <2>1 DEF BelowPurge
  <2>2. CASE t \notin W /\ x \in W
    BY <1>1, <1>2, <1>3, <2>2 DEF SeqsTaken, Row
  <2>3. CASE t \in rows[v] /\ x \in rows[v]
    BY <2>3 DEF PurgesFinal, BelowPurge
  <2>. QED
    BY <1>2, <2>1, <2>2, <2>3
<1>. QED
  BY <1>2, <1>3, <1>4, <1>5

LEMMA DeviceTypes ==
  ASSUME TypeOK, NEW d \in Device, NEW v \in Vault
  PROVE  /\ Known(d, v) \subseteq Row
         /\ cursor[d][v] \in Nat
         /\ req[d].at # "none" => req[d].from[v] \in Nat
         /\ req[d].at = "reading" => req[d].next[v] \in Nat /\ req[d] \in Reading
<1>1. req[d] \in Request
  BY DEF TypeOK
<1>2. req[d].at = "reading" => req[d] \in Reading
  BY ReadingRequest
<1>3. req[d].at # "none" => req[d].from \in [Vault -> Nat]
  BY <1>1 DEF Request, NoReq
<1>4. held[d][v] \subseteq Row /\ cursor[d][v] \in Nat
  BY DEF TypeOK
<1>. QED
  BY <1>2, <1>3, <1>4 DEF Known, Page, Reading

LEMMA PushKeepsCursorInv ==
  ASSUME LockInv, CursorInv, NEW p \in Push, PushNext(p)
  PROVE  CursorInv'
<1>. USE DEF CursorInv
<1>0. UNCHANGED <<deviceVars, req>>
  BY DEF PushNext, Begin, LockNext, ReadHeads, TakeSeqs, Commit, Abort
<1>1. CASE UNCHANGED dbVars
  BY <1>0, <1>1 DEF CursorInv, SeqsTaken, PurgesFinal, PageComplete, CursorCompleteUnlessTorn,
                    Known, Page, dbVars, deviceVars
<1>2. CASE Commit(p)
  <2>1. \A v \in Vault :
          /\ lastSeq[v] \in Nat /\ lastSeq'[v] \in Nat /\ lastSeq[v] <= lastSeq'[v]
          /\ rows[v] \subseteq Row /\ rows'[v] \subseteq Row
          /\ \A x \in rows'[v] : x \in rows[v] \/ (lastSeq[v] < x.seq /\ x.seq <= lastSeq'[v])
          /\ BelowPurge(rows'[v], rows'[v]) = {}
    <3>1. TypeOK /\ TypeOK'
      BY PushKeepsLockInv DEF LockInv
    <3>. QED
      BY <1>2, <3>1, CommitAppends DEF TypeOK
  <2>2. \A d \in Device, v \in Vault :
          /\ Known(d, v)' = Known(d, v)
          /\ Known(d, v) \subseteq Row
          /\ cursor[d][v] \in Nat
          /\ req[d].at # "none" => req[d].from[v] \in Nat
          /\ req[d].at = "reading" => req[d].next[v] \in Nat
    <3>1. TypeOK
      BY DEF LockInv
    <3>2. \A d \in Device, v \in Vault : Known(d, v)' = Known(d, v)
      BY <1>0 DEF Known, Page, deviceVars
    <3>. QED
      BY <3>1, <3>2, DeviceTypes
  <2>3. SeqsTaken'
    <3>1. \A v \in Vault : \A x \in rows'[v] : x.seq <= lastSeq'[v]
      BY <2>1 DEF SeqsTaken, Row
    <3>2. \A d \in Device, v \in Vault : \A x \in Known(d, v)' : x.seq <= lastSeq'[v]
      BY <2>1, <2>2 DEF SeqsTaken, Row
    <3>3. \A d \in Device, v \in Vault : cursor'[d][v] <= lastSeq'[v]
      BY <1>0, <2>1, <2>2 DEF SeqsTaken, deviceVars
    <3>4. \A d \in Device, v \in Vault :
            /\ req'[d].at # "none" => req'[d].from[v] <= lastSeq'[v]
            /\ req'[d].at = "reading" => req'[d].next[v] <= lastSeq'[v]
      BY <1>0, <2>1, <2>2 DEF SeqsTaken
    <3>. QED
      BY <3>1, <3>2, <3>3, <3>4 DEF SeqsTaken
  <2>4. PurgesFinal'
    <3>. SUFFICES ASSUME NEW d \in Device, NEW v \in Vault,
                         NEW x \in rows'[v], NEW t \in Known(d, v),
                         t.purge, t.record = x.record, x.seq < t.seq
                  PROVE  FALSE
      BY <2>1, <2>2 DEF PurgesFinal, BelowPurge
    <3>1. CASE x \in rows[v]
      BY <3>1 DEF PurgesFinal, BelowPurge
    <3>2. CASE lastSeq[v] < x.seq
      BY <2>1, <2>2, <3>2 DEF SeqsTaken, Row
    <3>. QED
      BY <2>1, <3>1, <3>2
  <2>5. PageComplete'
    BY <1>0, <2>1, <2>2 DEF PageComplete, SeqsTaken, Between, Row
  <2>6. CursorCompleteUnlessTorn'
    BY <1>0, <2>1, <2>2 DEF CursorCompleteUnlessTorn, SeqsTaken, UpTo, Row, deviceVars
  <2>. QED
    BY <2>3, <2>4, <2>5, <2>6
<1>. QED
  BY <1>1, <1>2 DEF PushNext, Begin, LockNext, ReadHeads, TakeSeqs, Commit, Abort

(* Reading a vault puts into the page what lies between the two cursors.   *)
LEMMA ReadKeepsCursorInv ==
  ASSUME LockInv, CursorInv, NEW d \in Device, ReadVault(d)
  PROVE  CursorInv'
<1>. USE DEF CursorInv
<1>1. UNCHANGED <<dbVars, deviceVars>>
  BY DEF ReadVault
<1>2. TypeOK /\ RowsFinite
  BY DEF LockInv
<1>3. \E v \in Vault : \E taken \in SUBSET Past(d, v) : \E to \in SeqsOf(d, v, taken) :
        VaultRead(d, v, taken, to)
  BY <1>2, ReadVaultRequest
<1>31. PICK v \in Vault : \E taken \in SUBSET Past(d, v) : \E to \in SeqsOf(d, v, taken) :
         VaultRead(d, v, taken, to)
  BY <1>3
<1>32. PICK taken \in SUBSET Past(d, v) : \E to \in SeqsOf(d, v, taken) :
         VaultRead(d, v, taken, to)
  BY <1>31
<1>4. PICK to \in SeqsOf(d, v, taken) : VaultRead(d, v, taken, to)
  BY <1>32
<1>5. /\ req[d].at = "reading" /\ req'[d].at = "reading"
      /\ req[d].from \in [Vault -> Nat] /\ req[d].next \in [Vault -> Nat]
      /\ req[d].page \in [Vault -> SUBSET Row]
      /\ rows[v] \subseteq Row /\ lastSeq \in [Vault -> Nat]
  BY <1>2, <1>4 DEF VaultRead, Reading, TypeOK
<1>6. /\ req'[d].page[v] = taken /\ req'[d].next[v] = to
      /\ \A u \in Vault \ {v} : /\ req'[d].page[u] = req[d].page[u]
                                /\ req'[d].next[u] = req[d].next[u]
  BY <1>4, <1>5 DEF VaultRead
<1>7. taken \subseteq rows[v] /\ to \in Nat /\ to <= lastSeq[v]
  BY <1>4, <1>5 DEF SeqsTaken, Row, Past, SeqsOf
<1>8. \A e \in Device, u \in Vault :
        Page(e, u)' = IF e = d /\ u = v THEN taken ELSE Page(e, u)
  BY <1>4, <1>5, <1>6 DEF Page, VaultRead
<1>9. \A e \in Device, u \in Vault :
        Known(e, u)' \subseteq Known(e, u) \cup rows[u]
  BY <1>1, <1>7, <1>8 DEF Known, deviceVars
<1>10. SeqsTaken'
  <2>1. \A e \in Device, u \in Vault : \A x \in Known(e, u)' : x.seq <= lastSeq'[u]
    BY <1>1, <1>9 DEF SeqsTaken, dbVars
  <2>2. \A e \in Device, u \in Vault : req'[e].at # "none" => req'[e].from[u] <= lastSeq'[u]
    BY <1>1, <1>4, <1>5 DEF SeqsTaken, VaultRead, dbVars
  <2>3. \A e \in Device, u \in Vault : req'[e].at = "reading" => req'[e].next[u] <= lastSeq'[u]
    BY <1>1, <1>4, <1>5, <1>6, <1>7 DEF SeqsTaken, VaultRead, dbVars
  <2>. QED
    BY <1>1, <2>1, <2>2, <2>3 DEF SeqsTaken, dbVars, deviceVars
<1>11. PurgesFinal'
  BY <1>1, <1>9 DEF PurgesFinal, BelowPurge, dbVars
<1>12. PageComplete'
  <2>. SUFFICES ASSUME NEW e \in Device, NEW u \in Vault, req'[e].at = "reading",
                       NEW x \in rows[u], req'[e].from[u] < x.seq, x.seq <= req'[e].next[u]
                PROVE  x \in req'[e].page[u]
    BY <1>1 DEF PageComplete, Between, dbVars
  <2>1. CASE e = d /\ u = v
    <3>1. x \in Past(d, v) /\ x.seq <= to /\ x.seq \in Nat
      BY <1>4, <1>5, <1>6, <2>1 DEF VaultRead, Past, Row
    <3>2. \A y \in taken : y.seq \in Nat
      BY <1>5, <1>7 DEF Row
    <3>3. to = req[d].from[v] \/ \E y \in taken : to = y.seq
      BY <1>4 DEF SeqsOf
    <3>. QED
      BY <1>4, <1>5, <1>6, <2>1, <3>1, <3>2, <3>3 DEF VaultRead
  <2>2. CASE ~(e = d /\ u = v)
    BY <1>4, <1>5, <1>6, <2>2 DEF VaultRead, PageComplete, Between
  <2>. QED
    BY <2>1, <2>2
<1>13. CursorCompleteUnlessTorn'
  BY <1>1 DEF CursorCompleteUnlessTorn, UpTo, dbVars, deviceVars
<1>. QED
  BY <1>10, <1>11, <1>12, <1>13

(* Applying a page on top of the cursor it was asked from leaves no hole.  *)
LEMMA ApplyKeepsCursorInv ==
  ASSUME LockInv, CursorInv, NEW d \in Device, Apply(d)
  PROVE  CursorInv'
<1>. USE DEF CursorInv
<1>. DEFINE r == req[d]
<1>1. UNCHANGED dbVars /\ TypeOK /\ r \in Reading /\ r.at = "reading"
  BY ReadingRequest DEF Apply, LockInv
<1>2. \A e \in Device \ {d} : /\ held'[e] = held[e] /\ cursor'[e] = cursor[e]
                              /\ torn'[e] = torn[e] /\ req'[e] = req[e]
  BY <1>1 DEF Apply, TypeOK
<1>3. /\ req'[d] = NoReq
      /\ \A v \in Vault :
           /\ held'[d][v] = IF v \in r.vaults THEN Merged(held[d][v], r.page[v]) ELSE {}
           /\ cursor'[d][v] = IF v \in r.vaults THEN r.next[v] ELSE 0
      /\ torn'[d] = { v \in r.vaults : v \in torn[d] \/ cursor[d][v] # r.from[v] }
  BY <1>1 DEF Apply, TypeOK
<1>4. \A v \in Vault : Known(d, v) = held[d][v] \cup r.page[v]
  BY <1>1 DEF Known, Page
<1>5. \A v \in Vault : Known(d, v)' \subseteq Known(d, v)
  <2>1. \A v \in Vault : Page(d, v)' = {}
    BY <1>3 DEF Page, NoReq
  <2>2. \A v \in Vault : held'[d][v] \subseteq held[d][v] \cup r.page[v]
    BY <1>3 DEF Merged
  <2>. QED
    BY <1>4, <2>1, <2>2 DEF Known
<1>6. \A e \in Device \ {d}, v \in Vault : Known(e, v)' = Known(e, v)
  BY <1>2 DEF Known, Page
<1>7. SeqsTaken'
  <2>1. \A e \in Device, v \in Vault : \A x \in Known(e, v)' : x.seq <= lastSeq'[v]
    BY <1>1, <1>5, <1>6 DEF SeqsTaken, dbVars
  <2>2. \A e \in Device, v \in Vault : cursor'[e][v] <= lastSeq'[v]
    <3>1. \A v \in Vault : cursor'[d][v] = 0 \/ cursor'[d][v] = r.next[v]
      BY <1>3
    <3>2. \A v \in Vault : lastSeq[v] \in Nat /\ r.next[v] <= lastSeq[v]
      BY <1>1 DEF SeqsTaken, TypeOK
    <3>3. \A v \in Vault : cursor'[d][v] <= lastSeq[v]
      BY <3>1, <3>2
    <3>. QED
      BY <1>1, <1>2, <3>3 DEF SeqsTaken, dbVars
  <2>. QED
    BY <1>1, <1>2, <1>3, <2>1, <2>2 DEF SeqsTaken, NoReq, dbVars
<1>8. PurgesFinal'
  BY <1>1, <1>5, <1>6 DEF PurgesFinal, BelowPurge, dbVars
<1>9. PageComplete'
  BY <1>1, <1>2, <1>3 DEF PageComplete, Between, NoReq, dbVars
<1>10. CursorCompleteUnlessTorn'
  <2>. SUFFICES ASSUME NEW e \in Device, NEW v \in Vault, v \notin torn'[e],
                       NEW x \in rows[v], x.seq <= cursor'[e][v]
                PROVE  x \in held'[e][v]
    BY <1>1 DEF CursorCompleteUnlessTorn, UpTo, dbVars
  <2>1. x \in Row /\ x.seq \in Nat \ {0}
    BY <1>1 DEF TypeOK, Row
  <2>2. CASE e # d
    BY <1>2, <2>2 DEF CursorCompleteUnlessTorn, UpTo
  <2>3. CASE e = d /\ v \notin r.vaults
    BY <1>3, <2>1, <2>3
  <2>4. CASE e = d /\ v \in r.vaults
    <3>1. v \notin torn[d] /\ cursor[d][v] = r.from[v] /\ x.seq <= r.next[v]
      BY <1>3, <2>4
    <3>2. r.from[v] \in Nat /\ r.next[v] \in Nat
      BY <1>1 DEF Reading
    <3>3. x \in held[d][v] \cup r.page[v]
      <4>1. CASE x.seq <= cursor[d][v]
        BY <3>1, <4>1 DEF CursorCompleteUnlessTorn, UpTo
      <4>2. CASE ~(x.seq <= cursor[d][v])
        BY <1>1, <2>1, <3>1, <3>2, <4>2 DEF PageComplete, Between
      <4>. QED
        BY <4>1, <4>2
    <3>4. x \notin BelowPurge(held[d][v] \cup r.page[v], held[d][v] \cup r.page[v])
      BY <1>4 DEF PurgesFinal, BelowPurge
    <3>. QED
      BY <1>3, <2>4, <3>3, <3>4 DEF Merged
  <2>. QED
    BY <2>2, <2>3, <2>4
<1>. QED
  BY <1>7, <1>8, <1>9, <1>10

(* A pull starts from the device's cursors, with an empty page.            *)
LEMMA AskKeepsCursorInv ==
  ASSUME LockInv, CursorInv, NEW d \in Device, Ask(d) \/ ListVaults(d) \/ Lose(d)
  PROVE  CursorInv'
<1>. USE DEF CursorInv
<1>1. UNCHANGED <<dbVars, deviceVars>> /\ TypeOK
  BY DEF Ask, ListVaults, Lose, LockInv
<1>2. \A e \in Device \ {d} : req'[e] = req[e]
  BY <1>1 DEF Ask, ListVaults, Lose, TypeOK
<1>3. \/ req'[d] = NoReq
      \/ req'[d].at = "sent" /\ req'[d].from = cursor[d]
      \/ /\ req[d].at = "sent" /\ req'[d].at = "reading"
         /\ req'[d].from = req[d].from /\ req'[d].next = req[d].from /\ req'[d].page = Nothing
  BY <1>1 DEF Ask, ListVaults, Lose, TypeOK
<1>4. \A e \in Device, v \in Vault : Known(e, v)' \subseteq Known(e, v)
  <2>1. \A v \in Vault : Page(d, v)' = {}
    BY <1>3 DEF Page, NoReq, Nothing
  <2>2. \A e \in Device \ {d}, v \in Vault : Page(e, v)' = Page(e, v)
    BY <1>2 DEF Page
  <2>. QED
    BY <1>1, <2>1, <2>2 DEF Known, deviceVars
<1>5. SeqsTaken'
  <2>1. \A v \in Vault : /\ req'[d].at # "none" => req'[d].from[v] <= lastSeq[v]
                         /\ req'[d].at = "reading" => req'[d].next[v] <= lastSeq[v]
    BY <1>3 DEF SeqsTaken, NoReq
  <2>. QED
    BY <1>1, <1>2, <1>4, <2>1 DEF SeqsTaken, dbVars, deviceVars
<1>6. PurgesFinal'
  BY <1>1, <1>4 DEF PurgesFinal, BelowPurge, dbVars
<1>7. PageComplete'
  <2>1. \A v \in Vault : req'[d].at = "reading" =>
          Between(rows[v], req'[d].from[v], req'[d].next[v]) = {}
    <3>. SUFFICES ASSUME NEW v \in Vault, req'[d].at = "reading"
                  PROVE  Between(rows[v], req'[d].from[v], req'[d].next[v]) = {}
      OBVIOUS
    <3>1. req'[d].from[v] = req'[d].next[v] /\ req'[d].from[v] \in Nat
      BY <1>1, <1>3, DeviceTypes DEF NoReq
    <3>2. \A x \in rows[v] : x.seq \in Nat
      BY <1>1 DEF TypeOK, Row
    <3>. QED
      BY <3>1, <3>2 DEF Between
  <2>. QED
    BY <1>1, <1>2, <2>1 DEF PageComplete, dbVars
<1>8. CursorCompleteUnlessTorn'
  BY <1>1 DEF CursorCompleteUnlessTorn, UpTo, dbVars, deviceVars
<1>. QED
  BY <1>5, <1>6, <1>7, <1>8

(* Dropping a vault takes its cursor along with its rows.                  *)
LEMMA RemoveVaultKeepsCursorInv ==
  ASSUME LockInv, CursorInv, NEW d \in Device, NEW v \in Vault, RemoveVault(d, v)
  PROVE  CursorInv'
<1>. USE DEF CursorInv
<1>1. UNCHANGED <<dbVars, req>> /\ TypeOK
  BY DEF RemoveVault, LockInv
<1>2. \A e \in Device, u \in Vault :
        \/ e = d /\ u = v /\ held'[e][u] = {} /\ cursor'[e][u] = 0
        \/ /\ ~(e = d /\ u = v)
           /\ held'[e][u] = held[e][u] /\ cursor'[e][u] = cursor[e][u]
           /\ u \in torn'[e] <=> u \in torn[e]
  BY <1>1 DEF RemoveVault, TypeOK
<1>3. \A e \in Device, u \in Vault : Known(e, u)' \subseteq Known(e, u)
  BY <1>1, <1>2 DEF Known, Page
<1>4. \A u \in Vault : lastSeq[u] \in Nat
  BY <1>1 DEF TypeOK
<1>5. \A e \in Device, u \in Vault : cursor'[e][u] <= lastSeq[u]
  BY <1>2, <1>4 DEF SeqsTaken
<1>6. SeqsTaken'
  BY <1>1, <1>3, <1>5 DEF SeqsTaken, dbVars
<1>7. PurgesFinal'
  BY <1>1, <1>3 DEF PurgesFinal, BelowPurge, dbVars
<1>8. PageComplete'
  BY <1>1 DEF PageComplete, dbVars
<1>9. CursorCompleteUnlessTorn'
  <2>. SUFFICES ASSUME NEW e \in Device, NEW u \in Vault, u \notin torn'[e],
                       NEW x \in rows[u], x.seq <= cursor'[e][u]
                PROVE  x \in held'[e][u]
    BY <1>1 DEF CursorCompleteUnlessTorn, UpTo, dbVars
  <2>1. x.seq \in Nat \ {0}
    BY <1>1 DEF TypeOK, Row
  <2>. QED
    BY <1>2, <2>1 DEF CursorCompleteUnlessTorn, UpTo
<1>. QED
  BY <1>6, <1>7, <1>8, <1>9

LEMMA InitCursorInv == Init => CursorInv
<1>. SUFFICES ASSUME Init PROVE CursorInv
  OBVIOUS
<1>1. \A d \in Device, v \in Vault : /\ Known(d, v) = {}
                                     /\ cursor[d][v] = 0
                                     /\ req[d].at = "none"
  BY DEF Init, Known, Page, NoReq, Nothing, Zero
<1>2. \A v \in Vault : rows[v] = {} /\ lastSeq[v] = 0
  BY DEF Init, Nothing, Zero
<1>. QED
  BY <1>1, <1>2 DEF CursorInv, SeqsTaken, PurgesFinal, PageComplete, CursorCompleteUnlessTorn,
                    BelowPurge, UpTo

LEMMA StepKeepsCursorInv == LockInv /\ CursorInv /\ [Next]_vars => CursorInv'
<1>. SUFFICES ASSUME LockInv, CursorInv, [Next]_vars PROVE CursorInv'
  OBVIOUS
<1>1. CASE UNCHANGED <<dbVars, deviceVars, req>>
  BY <1>1 DEF CursorInv, SeqsTaken, PurgesFinal, PageComplete, CursorCompleteUnlessTorn,
              Known, Page, dbVars, deviceVars
<1>2. CASE UNCHANGED vars
  BY <1>1, <1>2 DEF vars
<1>3. ASSUME NEW p \in Push, PushNext(p) PROVE CursorInv'
  BY <1>3, PushKeepsCursorInv
<1>4. ASSUME NEW d \in Device, DeviceNext(d) PROVE CursorInv'
  <2>1. CASE Ask(d) \/ ListVaults(d) \/ Lose(d)
    BY <2>1, AskKeepsCursorInv
  <2>2. CASE ReadVault(d)
    BY <2>2, ReadKeepsCursorInv
  <2>3. CASE Apply(d)
    BY <2>3, ApplyKeepsCursorInv
  <2>4. ASSUME NEW v \in Vault, Join(d, v) \/ Revoke(d, v) \/ Leave(d, v) PROVE CursorInv'
    BY <1>1, <2>4 DEF Join, Revoke, Leave, Move
  <2>5. ASSUME NEW v \in Vault, RemoveVault(d, v) PROVE CursorInv'
    BY <2>5, RemoveVaultKeepsCursorInv
  <2>. QED
    BY <1>4, <2>1, <2>2, <2>3, <2>4, <2>5 DEF DeviceNext
<1>. QED
  BY <1>2, <1>3, <1>4 DEF Next

(* Whatever commits between the reads of a page, or between a page's       *)
(* reading and its applying, and whatever is lost on the way: below its    *)
(* cursor a device holds all of a vault's rows, for any number of vaults,  *)
(* pushes, devices and page limits (router.ts, sync; vault.ts, applySync). *)
THEOREM CursorsComplete == Spec => []CursorCompleteUnlessTorn
<1>1. Init => CursorInv
  BY InitCursorInv
<1>2. LockInv /\ CursorInv /\ [Next]_vars => CursorInv'
  BY StepKeepsCursorInv
<1>3. CursorInv => CursorCompleteUnlessTorn
  BY DEF CursorInv
<1>. QED
  BY <1>1, <1>2, <1>3, LockInvAlways, PTL DEF Spec

-------------------------------------------------------------------------------
(***************************************************************************)
(* VaultSeq implements VaultLog: what a vault is to a device at the end of *)
(* a pull, and each step seen from outside.                                *)
(***************************************************************************)
(* Every set of natural numbers but the empty one has a least element.     *)
LEMMA LeastNumber ==
  ASSUME NEW T \in SUBSET Nat, T # {}
  PROVE  \E n \in T : \A m \in T : n <= m
<1> DEFINE R == OpToRel(<, Nat)
<1>1. IsWellFoundedOn(R, Nat)
  BY NatLessThanWellFounded
<1>2. \A m, n \in Nat : m < n => <<m, n>> \in R
  BY DEF OpToRel
<1> HIDE DEF R
<1>3. \E n \in T : \A m \in T : <<m, n>> \notin R
  BY <1>1, WFMin
<1>4. PICK n \in T : \A m \in T : <<m, n>> \notin R
  BY <1>3
<1>5. \A m \in T : n <= m
  <2>. TAKE m \in T
  <2>1. m \in Nat /\ n \in Nat
    OBVIOUS
  <2>2. ~(m < n)
    BY <1>2, <1>4, <2>1, Zenon
  <2>. QED
    BY <2>1, <2>2
<1>. QED
  BY <1>5

(* What lies below a purge lies below one that itself stays.               *)
LEMMA LastPurge ==
  ASSUME NEW S \in SUBSET Row, NEW n \in Nat, \A x \in S : x.seq <= n,
         NEW x \in Row, NEW t \in S, t.purge, t.record = x.record, x.seq < t.seq
  PROVE  \E u \in S : /\ u.purge /\ u.record = x.record /\ x.seq < u.seq
                      /\ u \notin BelowPurge(S, S)
<1> DEFINE P == { y \in S : y.purge /\ y.record = x.record /\ x.seq < y.seq }
           T == { n - y.seq : y \in P }
<1>1. \A y \in S : y.seq \in Nat /\ y.seq <= n
  BY DEF Row
<1>2. T \in SUBSET Nat /\ T # {}
  BY <1>1
<1>3. PICK k \in T : \A m \in T : k <= m
  BY <1>2, LeastNumber
<1>4. PICK u \in P : k = n - u.seq
  BY <1>3
<1>5. \A y \in P : y.seq <= u.seq
  <2>. TAKE y \in P
  <2>1. n - y.seq \in T /\ y \in S /\ u \in S
    OBVIOUS
  <2>2. n - u.seq <= n - y.seq
    BY <1>3, <1>4, <2>1
  <2>3. y.seq \in Nat /\ u.seq \in Nat
    BY <1>1, <2>1
  <2>. QED
    BY <2>2, <2>3
<1>6. u \notin BelowPurge(S, S)
  <2>. SUFFICES ASSUME NEW y \in S, y.purge, y.record = u.record, u.seq < y.seq PROVE FALSE
    BY DEF BelowPurge
  <2>1. y \in P
    BY <1>1, <1>4 DEF Row
  <2>. QED
    BY <1>1, <1>5, <2>1
<1>. QED
  BY <1>4, <1>6
-------------------------------------------------------------------------------
(***************************************************************************)
(* What a device has, besides missing nothing.                             *)
(***************************************************************************)
(* What a device has and the vault hasn't was purged: the purge is there.  *)
PurgedAway ==
  \A d \in Device, v \in Vault :
    Known(d, v) \subseteq rows[v] \cup BelowPurge(Known(d, v), rows[v])

(* A device keeps nothing below a purge it has.                            *)
HeldClean == \A d \in Device, v \in Vault : BelowPurge(held[d][v], held[d][v]) = {}

(* A page lies between the cursor it was asked from and the one it sets.   *)
PagesBetween ==
  \A d \in Device, v \in Vault : req[d].at = "reading" =>
    /\ req[d].from[v] <= req[d].next[v]
    /\ \A x \in req[d].page[v] : req[d].from[v] < x.seq /\ x.seq <= req[d].next[v]

ExactInv == PurgedAway /\ HeldClean /\ PagesBetween

(* A commit takes nothing away but what lies below a purge that it adds.   *)
LEMMA CommitPurges ==
  ASSUME LockInv, CursorInv, NEW p \in Push, Commit(p), NEW v \in Vault, NEW x \in rows[v] \ rows'[v]
  PROVE  \E t \in rows'[v] \ rows[v] : t.purge /\ t.record = x.record /\ x.seq < t.seq
<1> DEFINE W == Written(p, v)
<1>1. W \subseteq Row /\ rows[v] \subseteq Row /\ lastSeq'[v] \in Nat /\ lastSeq[v] \in Nat
  BY WrittenRows, PushKeepsLockInv DEF LockInv, TypeOK, Commit, PushNext
<1>2. rows'[v] = (rows[v] \cup W) \ BelowPurge(rows[v] \cup W, W)
  BY DEF Commit
<1>3. W # {} => /\ first[p][v] = lastSeq[v] + 1
                /\ \A y \in W : first[p][v] <= y.seq /\ y.seq <= lastSeq'[v]
  BY WrittenRows DEF LockInv, FirstIsNext, Commit
<1>4. PICK t \in W : t.purge /\ t.record = x.record /\ x.seq < t.seq
  BY <1>2 DEF BelowPurge
<1>5. PICK u \in W : /\ u.purge /\ u.record = x.record /\ x.seq < u.seq
                     /\ u \notin BelowPurge(W, W)
  BY <1>1, <1>3, <1>4, LastPurge
<1>6. u \notin rows[v]
  BY <1>1, <1>3, <1>5 DEF CursorInv, SeqsTaken, Row
<1>7. u \in rows'[v]
  BY <1>2, <1>5 DEF BelowPurge
<1>. QED
  BY <1>5, <1>6, <1>7

LEMMA PushKeepsExactInv ==
  ASSUME LockInv, CursorInv, ExactInv, NEW p \in Push, PushNext(p)
  PROVE  ExactInv'
<1>. USE DEF ExactInv
<1>1. UNCHANGED <<deviceVars, req>>
  BY DEF PushNext, Begin, LockNext, ReadHeads, TakeSeqs, Commit, Abort
<1>2. \A d \in Device, v \in Vault : Known(d, v)' = Known(d, v)
  BY <1>1 DEF Known, Page, deviceVars
<1>3. HeldClean' /\ PagesBetween'
  BY <1>1 DEF HeldClean, PagesBetween, deviceVars
<1>4. CASE UNCHANGED dbVars
  BY <1>2, <1>3, <1>4 DEF PurgedAway, dbVars
<1>5. CASE Commit(p)
  <2>. SUFFICES ASSUME NEW d \in Device, NEW v \in Vault, NEW x \in Known(d, v), x \notin rows'[v]
                PROVE  x \in BelowPurge(Known(d, v), rows'[v])
    BY <1>2, <1>3 DEF PurgedAway
  <2>1. \A y \in rows[v] \ rows'[v] :
          \E t \in rows'[v] \ rows[v] : t.purge /\ t.record = y.record /\ y.seq < t.seq
    BY <1>5, CommitPurges
  <2>2. x \in Row /\ rows[v] \subseteq Row /\ rows'[v] \subseteq Row
    BY DeviceTypes, PushKeepsLockInv DEF LockInv, TypeOK
  <2>3. CASE x \in rows[v]
    BY <2>1, <2>3 DEF BelowPurge
  <2>4. CASE x \notin rows[v]
    <3>1. PICK y \in rows[v] : y.purge /\ y.record = x.record /\ x.seq < y.seq
      BY <2>4 DEF PurgedAway, BelowPurge
    <3>2. CASE y \in rows'[v]
      BY <3>1, <3>2 DEF BelowPurge
    <3>3. CASE y \notin rows'[v]
      <4>1. PICK t \in rows'[v] : t.purge /\ t.record = y.record /\ y.seq < t.seq
        BY <2>1, <3>3
      <4>2. x.seq < t.seq
        BY <2>2, <3>1, <4>1 DEF Row
      <4>. QED
        BY <3>1, <4>1, <4>2 DEF BelowPurge
    <3>. QED
      BY <3>2, <3>3
  <2>. QED
    BY <2>3, <2>4
<1>. QED
  BY <1>4, <1>5 DEF PushNext, Begin, LockNext, ReadHeads, TakeSeqs, Commit, Abort

(* Applying leaves of what was known all that isn't below a purge.         *)
LEMMA MergedClean ==
  ASSUME NEW old, NEW page, BelowPurge(old, old) = {}
  PROVE  BelowPurge(Merged(old, page), Merged(old, page)) = {}
BY DEF Merged, BelowPurge

LEMMA DeviceKeepsExactInv ==
  ASSUME LockInv, CursorInv, ExactInv, NEW d \in Device, DeviceNext(d)
  PROVE  ExactInv'
<1>. USE DEF ExactInv
<1>1. UNCHANGED dbVars /\ TypeOK
  BY DEF DeviceNext, Ask, ListVaults, ReadVault, Apply, Lose, Join, Revoke, Leave, Move, RemoveVault, LockInv
<1>2. CASE UNCHANGED <<deviceVars, req>>
  BY <1>1, <1>2 DEF PurgedAway, HeldClean, PagesBetween, Known, Page, dbVars, deviceVars
<1>3. CASE Ask(d) \/ ListVaults(d) \/ Lose(d)
  <2>1. UNCHANGED deviceVars /\ \A e \in Device \ {d} : req'[e] = req[e]
    BY <1>1, <1>3 DEF Ask, ListVaults, Lose, TypeOK
  <2>2. \/ req'[d] = NoReq
        \/ req'[d].at = "sent"
        \/ /\ req[d].at = "sent" /\ req'[d].at = "reading"
           /\ req'[d].from = req[d].from /\ req'[d].next = req[d].from /\ req'[d].page = Nothing
    BY <1>1, <1>3 DEF Ask, ListVaults, Lose, TypeOK
  <2>3. \A e \in Device, v \in Vault : Known(e, v)' \subseteq Known(e, v)
    BY <2>1, <2>2 DEF Known, Page, NoReq, Nothing, deviceVars
  <2>4. PurgedAway'
    BY <1>1, <2>3 DEF PurgedAway, BelowPurge, dbVars
  <2>5. HeldClean'
    BY <2>1 DEF HeldClean, deviceVars
  <2>6. PagesBetween'
    <3>1. \A v \in Vault : req'[d].at = "reading" =>
            req'[d].from[v] = req'[d].next[v] /\ req'[d].from[v] \in Nat /\ req'[d].page[v] = {}
      BY <1>1, <2>2, DeviceTypes DEF NoReq, Nothing
    <3>. QED
      BY <2>1, <3>1 DEF PagesBetween
  <2>. QED
    BY <2>4, <2>5, <2>6
<1>4. CASE ReadVault(d)
  <2>1. UNCHANGED deviceVars
    BY <1>4 DEF ReadVault
  <2>2. \E v \in Vault : \E taken \in SUBSET Past(d, v) : \E to \in SeqsOf(d, v, taken) :
          VaultRead(d, v, taken, to)
    BY <1>4, ReadVaultRequest DEF LockInv
  <2>3. PICK v \in Vault : \E taken \in SUBSET Past(d, v) : \E to \in SeqsOf(d, v, taken) :
          VaultRead(d, v, taken, to)
    BY <2>2
  <2>4. PICK taken \in SUBSET Past(d, v) : \E to \in SeqsOf(d, v, taken) : VaultRead(d, v, taken, to)
    BY <2>3
  <2>5. PICK to \in SeqsOf(d, v, taken) : VaultRead(d, v, taken, to)
    BY <2>4
  <2>6. /\ req[d].at = "reading" /\ req'[d].at = "reading"
        /\ req[d].from \in [Vault -> Nat] /\ req[d].next \in [Vault -> Nat]
        /\ req[d].page \in [Vault -> SUBSET Row]
        /\ rows[v] \subseteq Row
        /\ req'[d].from = req[d].from
        /\ req'[d].page[v] = taken /\ req'[d].next[v] = to
        /\ \A u \in Vault \ {v} : /\ req'[d].page[u] = req[d].page[u]
                                  /\ req'[d].next[u] = req[d].next[u]
        /\ \A e \in Device \ {d} : req'[e] = req[e]
    BY <1>1, <2>5 DEF VaultRead, Reading, TypeOK
  <2>7. \A e \in Device, u \in Vault : Known(e, u)' \subseteq Known(e, u) \cup rows[u]
    BY <2>1, <2>6 DEF Known, Page, Past, deviceVars
  <2>8. PurgedAway'
    BY <1>1, <2>7 DEF PurgedAway, BelowPurge, dbVars
  <2>9. HeldClean'
    BY <2>1 DEF HeldClean, deviceVars
  <2>10. PagesBetween'
    <3>1. req[d].from[v] <= to
      BY <2>6 DEF SeqsOf, Past, Row
    <3>2. \A x \in taken : req[d].from[v] < x.seq /\ x.seq <= to
      BY <2>5, <2>6 DEF VaultRead, Past, Row
    <3>. QED
      BY <2>6, <3>1, <3>2 DEF PagesBetween
  <2>. QED
    BY <2>8, <2>9, <2>10
<1>5. CASE Apply(d)
  <2> DEFINE r == req[d]
  <2>1. r \in Reading /\ r.at = "reading"
    BY <1>1, <1>5, ReadingRequest DEF Apply
  <2>2. \A e \in Device \ {d} : held'[e] = held[e] /\ req'[e] = req[e]
    BY <1>1, <1>5 DEF Apply, TypeOK
  <2>3. /\ req'[d] = NoReq
        /\ \A v \in Vault : held'[d][v] = IF v \in r.vaults THEN Merged(held[d][v], r.page[v]) ELSE {}
    BY <1>1, <1>5 DEF Apply, TypeOK
  <2>4. \A v \in Vault : Known(d, v) = held[d][v] \cup r.page[v] /\ Known(d, v)' = held'[d][v]
    BY <2>1, <2>3 DEF Known, Page, NoReq
  <2>5. \A e \in Device, v \in Vault : Known(e, v)' \subseteq Known(e, v)
    BY <2>2, <2>3, <2>4 DEF Known, Page, Merged
  <2>6. PurgedAway'
    BY <1>1, <2>5 DEF PurgedAway, BelowPurge, dbVars
  <2>7. HeldClean'
    <3>1. \A v \in Vault : BelowPurge(held'[d][v], held'[d][v]) = {}
      <4>. TAKE v \in Vault
      <4>1. CASE v \in r.vaults
        <5>1. BelowPurge(held[d][v], held[d][v]) = {}
          BY DEF HeldClean
        <5>2. held'[d][v] = Merged(held[d][v], r.page[v])
          BY <2>3, <4>1
        <5>. QED
          BY <5>1, <5>2, MergedClean
      <4>2. CASE v \notin r.vaults
        BY <2>3, <4>2 DEF BelowPurge
      <4>. QED
        BY <4>1, <4>2
    <3>. QED
      BY <2>2, <3>1 DEF HeldClean
  <2>8. PagesBetween'
    BY <2>2, <2>3 DEF PagesBetween, NoReq
  <2>. QED
    BY <2>6, <2>7, <2>8
<1>6. ASSUME NEW v \in Vault, RemoveVault(d, v) PROVE ExactInv'
  <2>1. UNCHANGED req
    BY <1>6 DEF RemoveVault
  <2>2. \A e \in Device, u \in Vault : held'[e][u] = held[e][u] \/ held'[e][u] = {}
    BY <1>1, <1>6 DEF RemoveVault, TypeOK
  <2>3. \A e \in Device, u \in Vault : Known(e, u)' \subseteq Known(e, u)
    BY <2>1, <2>2 DEF Known, Page
  <2>4. PurgedAway'
    BY <1>1, <2>3 DEF PurgedAway, BelowPurge, dbVars
  <2>5. HeldClean'
    BY <2>2 DEF HeldClean, BelowPurge
  <2>6. PagesBetween'
    BY <2>1 DEF PagesBetween
  <2>. QED
    BY <2>4, <2>5, <2>6
<1>7. ASSUME NEW v \in Vault, Join(d, v) \/ Revoke(d, v) \/ Leave(d, v) PROVE ExactInv'
  BY <1>2, <1>7 DEF Join, Revoke, Leave, Move
<1>. QED
  BY <1>3, <1>4, <1>5, <1>6, <1>7 DEF DeviceNext

LEMMA InitExactInv == Init => ExactInv
<1>. SUFFICES ASSUME Init PROVE ExactInv
  OBVIOUS
<1>1. \A d \in Device, v \in Vault : Known(d, v) = {} /\ held[d][v] = {} /\ req[d].at = "none"
  BY DEF Init, Known, Page, NoReq, Nothing
<1>. QED
  BY <1>1 DEF ExactInv, PurgedAway, HeldClean, PagesBetween, BelowPurge

LEMMA StepKeepsExactInv == LockInv /\ CursorInv /\ ExactInv /\ [Next]_vars => ExactInv'
<1>. SUFFICES ASSUME LockInv, CursorInv, ExactInv, [Next]_vars PROVE ExactInv'
  OBVIOUS
<1>1. CASE UNCHANGED vars
  BY <1>1 DEF ExactInv, PurgedAway, HeldClean, PagesBetween, Known, Page, vars, dbVars, deviceVars
<1>. QED
  BY <1>1, PushKeepsExactInv, DeviceKeepsExactInv DEF Next

LEMMA ExactInvAlways == Spec => [](LockInv /\ CursorInv /\ ExactInv)
BY InitLockInv, InitCursorInv, InitExactInv, StepKeepsLockInv, StepKeepsCursorInv, StepKeepsExactInv, PTL DEF Spec

(* At the vault's end nothing is past the cursor, and what a device has    *)
(* kept besides lies below a purge that it would hold too.                 *)
LEMMA ExactAtTheEnd == LockInv /\ CursorInv /\ ExactInv => CaughtUpIsExact
<1>. SUFFICES ASSUME LockInv, CursorInv, ExactInv,
                     NEW d \in Device, NEW v \in Vault, v \notin torn[d],
                     cursor[d][v] = lastSeq[v]
              PROVE  held[d][v] = rows[v]
  BY DEF CaughtUpIsExact
<1>1. rows[v] \subseteq held[d][v]
  BY DEF CursorInv, SeqsTaken, CursorCompleteUnlessTorn, UpTo
<1>2. ASSUME NEW x \in held[d][v], x \notin rows[v] PROVE FALSE
  <2>1. PICK y \in rows[v] : y.purge /\ y.record = x.record /\ x.seq < y.seq
    BY <1>2 DEF ExactInv, PurgedAway, Known, BelowPurge
  <2>. QED
    BY <1>1, <1>2, <2>1 DEF ExactInv, HeldClean, BelowPurge
<1>. QED
  BY <1>1, <1>2

(* A device whose cursor is at the end of a vault has exactly the vault's  *)
(* rows: it missed none, and no purged row survives on it, however purges  *)
(* and pages interleave (store outbox-schema.ts, dropPurgedHistory).       *)
THEOREM CaughtUp == Spec => []CaughtUpIsExact
BY ExactInvAlways, ExactAtTheEnd, PTL
-------------------------------------------------------------------------------
(***************************************************************************)
(* The refinement of VaultLog.                                             *)
(***************************************************************************)
(* No two rows of a push take the same seq of a vault.                     *)
LEMMA SeqsApart ==
  ASSUME NEW n \in Nat, NEW changes \in Seq(Change),
         NEW x \in RowsFrom(n, changes), NEW y \in RowsFrom(n, changes), x.seq = y.seq
  PROVE  x = y
<1>1. DOMAIN changes \subseteq Nat
  OBVIOUS
<1>2. PICK i \in DOMAIN changes :
        x = [seq |-> n + i - 1, record |-> changes[i].record, purge |-> changes[i].purge]
  BY DEF RowsFrom
<1>3. PICK j \in DOMAIN changes :
        y = [seq |-> n + j - 1, record |-> changes[j].record, purge |-> changes[j].purge]
  BY DEF RowsFrom
<1>4. i = j
  BY <1>1, <1>2, <1>3
<1>. QED
  BY <1>2, <1>3, <1>4

(* A commit is one atomic write of the log.                                *)
LEMMA CommitIsWrite ==
  ASSUME LockInv, CursorInv, NEW p \in Push, Commit(p)
  PROVE  Log!Write
<1>1. UNCHANGED <<cursor, held, torn>>
  BY DEF Commit, deviceVars
<1>2. ASSUME NEW v \in Vault
      PROVE  LET new == rows'[v] \ rows[v]
             IN  /\ lastSeq'[v] >= lastSeq[v]
                 /\ \A x \in new : lastSeq[v] < x.seq /\ x.seq <= lastSeq'[v]
                 /\ \A x, y \in new : x.seq = y.seq => x = y
                 /\ \A x \in rows[v] \ rows'[v] : x \in Log!BelowPurge({x}, new)
                 /\ Log!BelowPurge(rows'[v], new) = {}
  <2> DEFINE new == rows'[v] \ rows[v]
             W == Written(p, v)
  <2>1. lastSeq[v] \in Nat /\ lastSeq'[v] \in Nat
    BY PushKeepsLockInv DEF LockInv, TypeOK, PushNext
  <2>2. /\ lastSeq[v] <= lastSeq'[v]
        /\ \A x \in rows'[v] : x \in rows[v] \/ (lastSeq[v] < x.seq /\ x.seq <= lastSeq'[v])
        /\ BelowPurge(rows'[v], rows'[v]) = {}
    BY CommitAppends DEF CursorInv
  <2>3. \A x, y \in new : x.seq = y.seq => x = y
    <3>1. new \subseteq W
      BY DEF Commit
    <3>2. CASE W = {}
      BY <3>1, <3>2
    <3>3. CASE W # {}
      <4>1. v \in Writable(p) /\ plan[p][v] # <<>> /\ first[p][v] \in Nat \ {0}
        BY <3>3, WrittenRows DEF LockInv, Commit
      <4>2. plan[p] \in Plans
        BY <4>1 DEF LockInv, TypeOK, Writable, NoPlan
      <4>3. plan[p][v] \in Seq(Change)
        BY <4>1, <4>2, PlansAssumption DEF Writable
      <4>4. W = RowsFrom(first[p][v], plan[p][v])
        BY <4>1 DEF Written
      <4>. QED
        BY <3>1, <4>1, <4>3, <4>4, SeqsApart
    <3>. QED
      BY <3>2, <3>3
  <2>4. \A x \in rows[v] \ rows'[v] :
          \E t \in rows'[v] \ rows[v] : t.purge /\ t.record = x.record /\ x.seq < t.seq
    BY CommitPurges
  <2>5. \A x \in rows[v] \ rows'[v] : x \in Log!BelowPurge({x}, new)
    BY <2>4 DEF Log!BelowPurge
  <2>6. Log!BelowPurge(rows'[v], new) = {}
    BY <2>2 DEF BelowPurge, Log!BelowPurge
  <2>. QED
    BY <2>1, <2>2, <2>3, <2>5, <2>6
<1>. QED
  BY <1>1, <1>2 DEF Log!Write

(* What the log has a device hold of a vault: nothing while it is torn.    *)
CursorOf(d, v) == IF v \in torn[d] THEN 0 ELSE cursor[d][v]
HeldOf(d, v)   == IF v \in torn[d] THEN {} ELSE held[d][v]

(* Advance or Forget of the log, in those terms.                           *)
Moves(d, v) ==
  \/ CursorOf(d, v)' = 0 /\ HeldOf(d, v)' = {}
  \/ /\ CursorOf(d, v)' >= CursorOf(d, v)
     /\ CursorOf(d, v)' <= lastSeq[v]
     /\ UpTo(rows[v], CursorOf(d, v)') \subseteq HeldOf(d, v)'
     /\ BelowPurge(HeldOf(d, v)', HeldOf(d, v)') = {}
     /\ HeldOf(d, v)' \ HeldOf(d, v) \subseteq
          Between(HeldOf(d, v)', CursorOf(d, v), CursorOf(d, v)')
     /\ HeldOf(d, v) \ HeldOf(d, v)' \subseteq BelowPurge(HeldOf(d, v), HeldOf(d, v)')

(* Applying a page to one vault moves its cursor on, or drops it.          *)
LEMMA ApplyAdvances ==
  ASSUME LockInv, CursorInv, ExactInv, CursorInv', ExactInv', NEW d \in Device, Apply(d),
         NEW v \in Vault
  PROVE  Moves(d, v)
<1> DEFINE r == req[d]  old == held[d][v]  now == held'[d][v]  all == old \cup r.page[v]
<1>1. UNCHANGED dbVars /\ TypeOK /\ r \in Reading /\ r.at = "reading"
  BY ReadingRequest DEF Apply, LockInv
<1>2. /\ now = IF v \in r.vaults THEN Merged(old, r.page[v]) ELSE {}
      /\ cursor'[d][v] = IF v \in r.vaults THEN r.next[v] ELSE 0
      /\ torn'[d] = { u \in r.vaults : u \in torn[d] \/ cursor[d][u] # r.from[u] }
  BY <1>1 DEF Apply, TypeOK
<1>3. CASE v \in torn'[d] \/ v \notin r.vaults
  BY <1>2, <1>3 DEF CursorOf, HeldOf, Moves
<1>4. CASE v \notin torn'[d] /\ v \in r.vaults
  <2>1. v \notin torn[d] /\ cursor[d][v] = r.from[v]
    BY <1>2, <1>4
  <2>2. /\ CursorOf(d, v) = r.from[v] /\ CursorOf(d, v)' = r.next[v]
        /\ HeldOf(d, v) = old /\ HeldOf(d, v)' = now
    BY <1>2, <1>4, <2>1 DEF CursorOf, HeldOf
  <2>3. /\ r.from[v] \in Nat /\ r.next[v] \in Nat /\ r.page[v] \subseteq Row
        /\ old \subseteq Row /\ lastSeq[v] \in Nat
    BY <1>1 DEF Reading, TypeOK
  <2>4. r.from[v] <= r.next[v] /\ r.next[v] <= lastSeq[v]
    BY <1>1 DEF ExactInv, PagesBetween, CursorInv, SeqsTaken
  <2>5. UpTo(rows[v], r.next[v]) \subseteq now
    BY <1>1, <1>2, <1>4 DEF CursorInv, CursorCompleteUnlessTorn, UpTo, dbVars
  <2>6. BelowPurge(now, now) = {}
    BY DEF ExactInv, HeldClean
  <2>7. now = all \ { x \in BelowPurge(all, all) : \E y \in r.page[v] : y.record = x.record }
    BY <1>2, <1>4 DEF Merged
  <2>8. now \ old \subseteq Between(now, r.from[v], r.next[v])
    BY <1>1, <2>7 DEF ExactInv, PagesBetween, Between
  <2>9. old \ now \subseteq BelowPurge(old, now)
    <3>. SUFFICES ASSUME NEW x \in old, x \notin now PROVE x \in BelowPurge(old, now)
      OBVIOUS
    <3>1. PICK t \in all : t.purge /\ t.record = x.record /\ x.seq < t.seq
      BY <2>7 DEF BelowPurge
    <3>2. all \in SUBSET Row /\ x \in Row
      BY <2>3
    <3>3. \A y \in all : y.seq <= lastSeq[v]
      BY <1>1 DEF CursorInv, SeqsTaken, Known, Page
    <3>4. PICK u \in all : /\ u.purge /\ u.record = x.record /\ x.seq < u.seq
                           /\ u \notin BelowPurge(all, all)
      BY <2>3, <3>1, <3>2, <3>3, LastPurge
    <3>. QED
      BY <2>7, <3>4 DEF BelowPurge
  <2>. QED
    BY <2>2, <2>3, <2>4, <2>5, <2>6, <2>8, <2>9 DEF Moves
<1>. QED
  BY <1>3, <1>4

(* What a device doesn't touch moves from itself to itself.                *)
LEMMA StillMoves ==
  ASSUME LockInv, CursorInv, ExactInv, NEW d \in Device, NEW v \in Vault,
         CursorOf(d, v)' = CursorOf(d, v), HeldOf(d, v)' = HeldOf(d, v)
  PROVE  Moves(d, v)
<1>1. CursorOf(d, v) \in Nat /\ CursorOf(d, v) <= lastSeq[v] /\ lastSeq[v] \in Nat
  BY DEF CursorOf, LockInv, TypeOK, CursorInv, SeqsTaken
<1>2. v \notin torn[d] => UpTo(rows[v], CursorOf(d, v)) \subseteq HeldOf(d, v)
  BY DEF CursorOf, HeldOf, CursorInv, CursorCompleteUnlessTorn
<1>3. BelowPurge(HeldOf(d, v), HeldOf(d, v)) = {}
  BY DEF HeldOf, ExactInv, HeldClean, BelowPurge
<1>4. v \in torn[d] => CursorOf(d, v) = 0 /\ HeldOf(d, v) = {}
  BY DEF CursorOf, HeldOf
<1>. QED
  BY <1>1, <1>2, <1>3, <1>4 DEF Moves

(* One device whose vaults all move, while the rest stands still, pulls.   *)
LEMMA MovesArePull ==
  ASSUME NEW d \in Device, UNCHANGED dbVars, \A v \in Vault : Moves(d, v),
         \A e \in Device \ {d}, v \in Vault :
           CursorOf(e, v)' = CursorOf(e, v) /\ HeldOf(e, v)' = HeldOf(e, v)
  PROVE  Log!Pull(d)
<1> DEFINE c == [e \in Device |-> [v \in Vault |-> IF v \in torn[e] THEN 0 ELSE cursor[e][v]]]
           h == [e \in Device |-> [v \in Vault |-> IF v \in torn[e] THEN {} ELSE held[e][v]]]
<1>1. \A e \in Device, v \in Vault : /\ c[e][v] = CursorOf(e, v) /\ h[e][v] = HeldOf(e, v)
                                      /\ c'[e][v] = CursorOf(e, v)' /\ h'[e][v] = HeldOf(e, v)'
  BY DEF CursorOf, HeldOf
<1>2. \A e \in Device \ {d} : c'[e] = c[e] /\ h'[e] = h[e]
  BY DEF CursorOf, HeldOf
<1> HIDE DEF c, h
<1>3. ASSUME NEW v \in Vault PROVE Log!Advance(d, v) \/ Log!Forget(d, v)
  BY <1>1 DEF c, h, Moves, Log!Advance, Log!Forget, UpTo, Log!UpTo, Between, Log!Between, BelowPurge, Log!BelowPurge
<1>. QED
  BY <1>2, <1>3 DEF Log!Pull, c, h, dbVars

LEMMA InitIsLogInit == Init => Log!Init
BY DEF Init, Log!Init, Zero, Nothing

(* Every step is a write, a pull of one device, or invisible.              *)
LEMMA StepIsLogStep ==
  ASSUME LockInv, CursorInv, ExactInv, LockInv', CursorInv', ExactInv', [Next]_vars
  PROVE  [Log!Next]_(Log!vars)
<1>1. CASE UNCHANGED <<dbVars, deviceVars>>
  BY <1>1 DEF Log!vars, dbVars, deviceVars
<1>2. ASSUME NEW p \in Push, Commit(p) PROVE Log!Next
  BY <1>2, CommitIsWrite DEF Log!Next
<1>3. ASSUME NEW d \in Device, Apply(d) PROVE Log!Next
  <2>1. UNCHANGED dbVars
    BY <1>3 DEF Apply
  <2>2. \A v \in Vault : Moves(d, v)
    BY <1>3, ApplyAdvances
  <2>3. \A e \in Device \ {d} : held'[e] = held[e] /\ cursor'[e] = cursor[e] /\ torn'[e] = torn[e]
    BY <1>3 DEF Apply, LockInv, TypeOK
  <2>4. \A e \in Device \ {d}, v \in Vault :
          CursorOf(e, v)' = CursorOf(e, v) /\ HeldOf(e, v)' = HeldOf(e, v)
    BY <2>3 DEF CursorOf, HeldOf
  <2>. QED
    BY <2>1, <2>2, <2>4, MovesArePull DEF Log!Next
<1>4. ASSUME NEW d \in Device, NEW v \in Vault, RemoveVault(d, v) PROVE Log!Next
  <2>1. UNCHANGED dbVars
    BY <1>4 DEF RemoveVault
  <2>2. \A e \in Device, u \in Vault :
          \/ e = d /\ u = v /\ held'[e][u] = {} /\ cursor'[e][u] = 0
          \/ /\ ~(e = d /\ u = v)
             /\ held'[e][u] = held[e][u] /\ cursor'[e][u] = cursor[e][u]
             /\ u \in torn'[e] <=> u \in torn[e]
    BY <1>4 DEF RemoveVault, LockInv, TypeOK
  <2>3. \A e \in Device, u \in Vault : ~(e = d /\ u = v) =>
          CursorOf(e, u)' = CursorOf(e, u) /\ HeldOf(e, u)' = HeldOf(e, u)
    BY <2>2 DEF CursorOf, HeldOf
  <2>4. Moves(d, v)
    BY <2>2 DEF Moves, CursorOf, HeldOf
  <2>5. \A u \in Vault : Moves(d, u)
    BY <2>3, <2>4, StillMoves
  <2>. QED
    BY <2>1, <2>3, <2>5, MovesArePull DEF Log!Next
<1>5. CASE UNCHANGED vars
  BY <1>1, <1>5 DEF vars
<1>6. ASSUME NEW p \in Push, PushNext(p) PROVE [Log!Next]_(Log!vars)
  BY <1>1, <1>2, <1>6 DEF PushNext, Begin, LockNext, ReadHeads, TakeSeqs, Abort
<1>7. ASSUME NEW d \in Device, DeviceNext(d) PROVE [Log!Next]_(Log!vars)
  BY <1>1, <1>3, <1>4, <1>7
  DEF DeviceNext, Ask, ListVaults, ReadVault, Lose, Join, Revoke, Leave, Move
<1>. QED
  BY <1>5, <1>6, <1>7 DEF Next

(* Transactions that lock vault by vault and take their seqs in between,   *)
(* pulls that read vault by vault and apply later, lost pages, comings and *)
(* goings of members: seen from outside, an atomic log per vault and       *)
(* devices that hold all of it up to their cursor (push.ts, router.ts      *)
(* sync, vault.ts applySync).                                              *)
THEOREM LogImplemented == Spec => ImplementsLog
<1>1. Init => Log!Init
  BY InitIsLogInit
<1>2. /\ LockInv /\ CursorInv /\ ExactInv
      /\ LockInv' /\ CursorInv' /\ ExactInv'
      /\ [Next]_vars
      => [Log!Next]_(Log!vars)
  BY StepIsLogStep
<1>. QED
  BY <1>1, <1>2, ExactInvAlways, PTL DEF Spec, ImplementsLog, Log!Spec
===============================================================================
