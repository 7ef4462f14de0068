------------------------------ MODULE VaultRekey ------------------------------
(***************************************************************************)
(* Re-encryption after a rotation of a shared vault's key (ADR 0001 D7):   *)
(* the device that rotates notes it, asks the server, and rewrites the     *)
(* live records as new versions; every device re-encrypts what it has not  *)
(* sent yet.                                                               *)
(*                                                                         *)
(* Client: vaults/rekey.ts, vaults/sharing.ts rotateVault and              *)
(* runSharingTasks, the round of sync-manager.ts.  Store: rekey markers,   *)
(* pending versions, the vault list, the keys in memory.  Server:          *)
(* rotateKey, acceptKey, record.push and record.sync, one step each        *)
(* (VaultSharing and VaultSeq have their statements).  The two ways to a   *)
(* rotation, a user's and the sync task's, may run at once on one device.  *)
(*                                                                         *)
(* A version's content is the set of the edits it reflects.  Left out:     *)
(* purges, pages, parking, quota and members who come and go.              *)
(***************************************************************************)
EXTENDS Integers, Sequences, FiniteSets, SequencesExt

CONSTANTS
  Record,        \* record ids
  Device,
  User,          \* the vault's members, owners and managers all
  Nobody,
  BatchSize,     \* records of one local write (REKEY_BATCH_SIZE)
  MaxEvents      \* bound on writes, rotations asked for and faults, in all

ASSUME RekeyAssumption ==
  /\ BatchSize \in Nat \ {0} /\ MaxEvents \in Nat
  /\ Nobody \notin Device

VARIABLES
  log,        \* server, records: each record's versions
  vaultKey,   \* server, vaults.keyVersion
  needed,     \* server, vaults.keyRotationNeeded
  wrap,       \* server, vault_members: the key version a member holds
  seal,       \*   and the one sealed to them, 0: none
  user,       \* whose a device is
  synced,     \* device, records: how many of a record's versions it has
  pending,    \* device, records and outbox: the unsent versions on top
  stored,     \* how many of those the server has, unknown to the device
  listed,     \* device, vaults: the key version of the vault list
  loaded,     \* device, secretsStore: the current key in memory
  target,     \* device, sync_meta: the rekey marker, 0: none
  round,      \* device, the sync round under way
  call,       \* device, rotateVault under way for the user, for the sync
  written,    \* writes so far, each edit's name
  spent,      \* rotations users asked for and faults so far
  owing,      \* history: who made the current key and has not gone through the records for it
  crossed,    \* history: another rotation of its took the marker, or put an older key's there
  unheard,    \* history: records it had not heard the last version of when it did
  blind,      \* history: records of a conflict that did not open
  met         \* history: records of two deletes, or a delete and a re-encryption

serverVars == <<log, vaultKey, needed, wrap, seal>>
storeVars == <<synced, pending, stored>>
keyVars == <<listed, loaded, target>>
historyVars == <<owing, crossed, unheard, blind, met>>
vars == <<serverVars, user, storeVars, keyVars, round, call, written, spent, historyVars>>

Version(edits, key) == [edits |-> edits, deleted |-> FALSE, saw |-> {}, key |-> key]

(* What a delete makes of the version below it: the content and its key    *)
(* stay.  History: the edits it knew of.                                   *)
Tombstone(below, saw) == [below EXCEPT !.deleted = TRUE, !.saw = saw]
Way == {"user", "task"}
Idle == [at |-> "idle"]
NoCall == [at |-> "none"]
NoTasks == [seal |-> 0, due |-> FALSE]

(* Some records are everywhere, the others nowhere yet; another member may *)
(* just have been removed.  Every member has a device.                     *)
Init ==
  /\ \E here \in SUBSET Record :
       log = [r \in Record |-> IF r \in here THEN <<Version({}, 1)>> ELSE <<>>]
  /\ vaultKey = 1 /\ needed \in BOOLEAN
  /\ wrap = [u \in User |-> 1] /\ seal = [u \in User |-> 0]
  /\ user \in Surjection(Device, User)
  /\ synced = [d \in Device |-> [r \in Record |-> Len(log[r])]]
  /\ pending = [d \in Device |-> [r \in Record |-> <<>>]]
  /\ stored = [d \in Device |-> [r \in Record |-> 0]]
  /\ listed = [d \in Device |-> 1] /\ loaded = [d \in Device |-> 1]
  /\ target = [d \in Device |-> 0]
  /\ round = [d \in Device |-> Idle]
  /\ call = [d \in Device |-> [w \in Way |-> NoCall]]
  /\ written = 0 /\ spent = 0
  /\ owing = Nobody /\ crossed = FALSE /\ unheard = {} /\ blind = {} /\ met = {}
-------------------------------------------------------------------------------
(***************************************************************************)
(* The device's records.                                                   *)
(***************************************************************************)
HeadVersion(d, r) == synced[d][r] + Len(pending[d][r])

Has(d, r) == HeadVersion(d, r) > 0

HeadOf(d, r) == IF pending[d][r] # <<>> THEN Last(pending[d][r]) ELSE log[r][synced[d][r]]

Live(d, r) == Has(d, r) /\ ~HeadOf(d, r).deleted

Created(r) == log[r] # <<>> \/ \E d \in Device : pending[d][r] # <<>>

(* writeLocalChange: the next version, pending.                            *)
AppendPending(d, r, v) == pending' = [pending EXCEPT ![d][r] = Append(@, v)]

UserWrites(d, r, v) ==
  /\ written + spent < MaxEvents
  /\ AppendPending(d, r, v)
  /\ written' = written + 1
  /\ UNCHANGED <<serverVars, user, synced, stored, keyVars, round, call, spent, historyVars>>

Create(d, r) ==
  /\ ~Created(r)
  /\ UserWrites(d, r, Version({written + 1}, loaded[d]))

(* An edit, or a restore: a tombstone is no obstacle.                      *)
Update(d, r) ==
  /\ Has(d, r)
  /\ UserWrites(d, r, Version(HeadOf(d, r).edits \cup {written + 1}, loaded[d]))

(* A tombstone carries the head's ciphertext, under its key.               *)
Delete(d, r) ==
  /\ Live(d, r)
  /\ UserWrites(d, r, Tombstone(HeadOf(d, r), HeadOf(d, r).edits))
-------------------------------------------------------------------------------
(***************************************************************************)
(* Before a push: reencryptForPush.                                        *)
(***************************************************************************)
(* reencrypt: under the current key, where there is a newer one in memory. *)
Reencrypt(d, v) == [v EXCEPT !.key = IF loaded[d] > @ THEN loaded[d] ELSE @]

(* reencryptPendingVersions: in place, tombstones aside.                   *)
ReencryptPending(d) ==
  [r \in Record |-> [i \in DOMAIN pending[d][r] |->
     LET v == pending[d][r][i]
     IN  IF ~v.deleted /\ v.key < listed[d] THEN Reencrypt(d, v) ELSE v]]

(* A round begins, or pushes for a second time.                            *)
Prepare(d) ==
  /\ round[d].at \in {"idle", "again"}
  /\ LET tasks == IF round[d].at = "again" THEN <<round[d].tasks>> ELSE <<>>
     IN  IF listed[d] = 1
         THEN round' = [round EXCEPT ![d] = [at |-> "send", tasks |-> tasks]] /\ UNCHANGED pending
         ELSE /\ round' = [round EXCEPT ![d] = [at |-> "list", tasks |-> tasks]]
              /\ pending' = [pending EXCEPT ![d] = ReencryptPending(d)]
  /\ UNCHANGED <<serverVars, user, synced, stored, keyVars, call, written, spent, historyVars>>

(* Faulty: without the wait for the server and the key.                    *)
MayRewriteAtOnce(d) == target[d] # 0

(* The rotation is confirmed here and its key loaded.                      *)
MayRewrite(d) == target[d] # 0 /\ listed[d] >= target[d] /\ loaded[d] = listed[d]

(* The live records under an older key, each with the version it was read  *)
(* at and its content under the new key.                                   *)
Stale(d) ==
  { [rec |-> r, ver |-> HeadVersion(d, r), new |-> Reencrypt(d, HeadOf(d, r))] :
      r \in { r \in Record : Live(d, r) /\ HeadOf(d, r).key < listed[d] } }

(* Records the server has versions of that the device hasn't heard of.     *)
Unheard(d) == { r \in Record : synced[d][r] # Len(log[r]) }

ListStale(d) ==
  /\ round[d].at = "list"
  /\ IF MayRewrite(d)
     THEN /\ round' = [round EXCEPT ![d] =
                        [at |-> "rewrite", tasks |-> @.tasks, goal |-> target[d], under |-> listed[d],
                         todo |-> Stale(d)]]
          /\ unheard' = IF owing = d THEN Unheard(d) ELSE unheard
     ELSE /\ round' = [round EXCEPT ![d] = [at |-> "send", tasks |-> @.tasks]]
          /\ UNCHANGED unheard
  /\ UNCHANGED <<serverVars, user, storeVars, keyVars, call, written, spent, owing, crossed, blind, met>>

(* Faulty: whatever was written since.                                     *)
StillHeadAnyway(d, x) == Live(d, x.rec)

(* writeReencryptedVersions leaves what was edited or deleted meanwhile.   *)
StillHead(d, x) == HeadVersion(d, x.rec) = x.ver /\ Live(d, x.rec)

(* One transaction of reencryptRotatedVaults.                              *)
WriteBatch(d) ==
  /\ round[d].at = "rewrite"
  /\ \E batch \in (SUBSET round[d].todo) \ {{}} :
       /\ Cardinality(batch) = BatchSize \/ (batch = round[d].todo /\ Cardinality(batch) < BatchSize)
       /\ pending' = [pending EXCEPT ![d] = [r \in Record |->
            @[r] \o IF \E x \in batch : x.rec = r /\ StillHead(d, x)
                    THEN <<(CHOOSE x \in batch : x.rec = r).new>> ELSE <<>>]]
       /\ round' = [round EXCEPT ![d].todo = @ \ batch]
  /\ UNCHANGED <<serverVars, user, synced, stored, keyVars, call, written, spent, historyVars>>

(* clearRekeyTarget: another rotation's marker stays.                      *)
Cleared(d, key) == IF target[d] = key THEN 0 ELSE target[d]

ClearTarget(d) ==
  /\ round[d].at = "rewrite" /\ round[d].todo = {}
  /\ target' = [target EXCEPT ![d] = Cleared(d, round[d].goal)]
  /\ LET gone == owing = d /\ target'[d] # target[d]
         older == round[d].goal < vaultKey /\ round[d].under < vaultKey
     IN  /\ owing' = IF gone /\ ~older THEN Nobody ELSE owing
         /\ crossed' = (crossed \/ (gone /\ older))
  /\ round' = [round EXCEPT ![d] = [at |-> "send", tasks |-> @.tasks]]
  /\ UNCHANGED <<serverVars, user, storeVars, listed, loaded, call, written, spent, unheard, blind, met>>
-------------------------------------------------------------------------------
(***************************************************************************)
(* The rest of a round: push, pull, push again what failed, tasks.         *)
(***************************************************************************)
(* The round with what is left of its tasks.                               *)
WithTasks(tasks) == IF tasks = NoTasks THEN Idle ELSE [at |-> "tasks", tasks |-> tasks]

(* Where a round goes when a push has ended.                               *)
AfterPush(d, failed) ==
  IF round[d].tasks = <<>> THEN [at |-> "pull", again |-> failed]
  ELSE WithTasks(round[d].tasks[1])

(* The changes of the chain the server doesn't have.                       *)
Unstored(d, r) == SubSeq(pending[d][r], stored[d][r] + 1, Len(pending[d][r]))

(* decideChain: the new changes of a chain apply if they are under the     *)
(* vault's key and build on the head; tombstones carry no ciphertext.      *)
Accepts(d, r) ==
  /\ \A v \in ToSet(Unstored(d, r)) : v.deleted \/ v.key = vaultKey
  /\ Unstored(d, r) # <<>> => Len(log[r]) = synced[d][r] + stored[d][r]

(* nextVersion: a tombstone keeps the ciphertext of the version below, so   *)
(* that of the last put under it in the chain, else of the head.           *)
Appended(below, chain) ==
  LET Puts(i) == { j \in 1..i : ~chain[j].deleted }
      Under(i) == IF Puts(i) = {} THEN Last(below)
                  ELSE chain[CHOOSE j \in Puts(i) : \A k \in Puts(i) : k <= j]
  IN  below \o [i \in DOMAIN chain |->
        IF chain[i].deleted THEN Tombstone(Under(i), chain[i].saw) ELSE chain[i]]

(* The outbox is read, sent and taken: what is written on the way makes no *)
(* difference to what the server does with the changes read.               *)
Push(d) ==
  /\ round[d].at = "send"
  /\ LET sent == { r \in Record : pending[d][r] # <<>> }
         taken == { r \in sent : Accepts(d, r) }
     IN  /\ log' = [r \in Record |->
              IF r \in taken THEN Appended(log[r], Unstored(d, r)) ELSE log[r]]
         /\ stored' = [stored EXCEPT ![d] = [r \in Record |->
              IF r \in taken THEN Len(pending[d][r]) ELSE @[r]]]
         /\ round' = [round EXCEPT ![d] =
              IF sent = {} THEN AfterPush(d, FALSE)
              ELSE [at |-> "answered", tasks |-> @.tasks, failed |-> sent # taken]]
  /\ UNCHANGED <<vaultKey, needed, wrap, seal, user, synced, pending, keyVars, call, written, spent, historyVars>>

(* ackPendingChange for what the server has, as the server has it.         *)
TakeAnswer(d) ==
  /\ round[d].at = "answered"
  /\ synced' = [synced EXCEPT ![d] = [r \in Record |-> @[r] + stored[d][r]]]
  /\ pending' = [pending EXCEPT ![d] = [r \in Record |->
                   SubSeq(@[r], stored[d][r] + 1, Len(@[r]))]]
  /\ stored' = [stored EXCEPT ![d] = [r \in Record |-> 0]]
  /\ round' = [round EXCEPT ![d] = AfterPush(d, @.failed)]
  /\ UNCHANGED <<serverVars, user, keyVars, call, written, spent, historyVars>>

(* record.sync reads the vaults and the tasks, then the rows.  A rotation   *)
(* is due for members who hold the current key.                            *)
PullVaults(d) ==
  /\ round[d].at = "pull"
  /\ round' = [round EXCEPT ![d] =
       [at |-> "rows", again |-> @.again, key |-> wrap[user[d]],
        tasks |-> [seal |-> seal[user[d]], due |-> needed /\ wrap[user[d]] = vaultKey]]]
  /\ UNCHANGED <<serverVars, user, storeVars, keyVars, call, written, spent, historyVars>>

(* The answer's keys come first, if its list differs (reloadVaultKeys):    *)
(* only a device's own steps may lie between the two.                      *)
PullRows(d) ==
  /\ round[d].at = "rows"
  /\ loaded' = [loaded EXCEPT ![d] = IF listed[d] # round[d].key THEN round[d].key ELSE @]
  /\ round' = [round EXCEPT ![d] =
       [at |-> "page", again |-> @.again, key |-> @.key, tasks |-> @.tasks,
        len |-> [r \in Record |-> Len(log[r])]]]
  /\ UNCHANGED <<serverVars, user, storeVars, listed, target, call, written, spent, historyVars>>

(* mergeRecord and resolveRecordConflict: what goes on top of the local    *)
(* chain, if anything.  An edit beats a delete.                            *)
Merged(local, remote, key) ==
  LET edits == local.edits \cup remote.edits
  IN  IF (local.deleted /\ remote.deleted) \/ (~local.deleted /\ edits = local.edits) THEN <<>>
      ELSE <<Version(edits, key)>>

(* A page with new versions of a record with unsent ones: those move up    *)
(* and are merged, if all versions open with the keys in memory.           *)
Conflict(d, r, page) == page.len[r] > synced[d][r] /\ pending[d][r] # <<>>

Opens(d, r, page) ==
  \A v \in ToSet(pending[d][r]) \cup { log[r][i] : i \in synced[d][r]..page.len[r] } : v.key <= loaded[d]

(* A conflict in which nobody's edit meets a delete.                       *)
NoEditMeets(d, r, page) ==
  LET base == log[r][synced[d][r]]
      local == Last(pending[d][r])
      remote == log[r][page.len[r]]
  IN  \/ local.deleted /\ remote.deleted
      \/ local.deleted /\ remote.edits = base.edits
      \/ remote.deleted /\ local.edits = base.edits

Rebase(d, r, page) ==
  pending[d][r] \o
    IF Conflict(d, r, page) /\ Opens(d, r, page)
    THEN Merged(Last(pending[d][r]), log[r][page.len[r]], loaded[d]) ELSE <<>>

(* applySync.                                                              *)
Apply(d) ==
  /\ round[d].at = "page"
  /\ LET page == round[d]
         conflicts == { r \in Record : Conflict(d, r, page) }
     IN  /\ listed' = [listed EXCEPT ![d] = page.key]
         /\ pending' = [pending EXCEPT ![d] = [r \in Record |-> Rebase(d, r, page)]]
         /\ synced' = [synced EXCEPT ![d] = [r \in Record |->
                         IF page.len[r] > @[r] THEN page.len[r] ELSE @[r]]]
         /\ round' = [round EXCEPT ![d] =
                        IF page.again THEN [at |-> "again", tasks |-> page.tasks]
                        ELSE WithTasks(page.tasks)]
         /\ blind' = blind \cup { r \in conflicts : ~Opens(d, r, page) }
         /\ met' = met \cup { r \in conflicts : NoEditMeets(d, r, page) }
  /\ UNCHANGED <<serverVars, user, stored, loaded, target, call, written, spent, owing, crossed, unheard>>

(* acceptKey: the key sealed to this user, unless another is by now.       *)
AcceptKey(d) ==
  /\ round[d].at = "tasks" /\ round[d].tasks.seal # 0
  /\ IF seal[user[d]] = round[d].tasks.seal
     THEN /\ wrap' = [wrap EXCEPT ![user[d]] = seal[user[d]]]
          /\ seal' = [seal EXCEPT ![user[d]] = 0]
     ELSE UNCHANGED <<wrap, seal>>
  /\ round' = [round EXCEPT ![d] = WithTasks([@.tasks EXCEPT !.seal = 0])]
  /\ UNCHANGED <<log, vaultKey, needed, user, storeVars, keyVars, call, written, spent, historyVars>>

-------------------------------------------------------------------------------
(***************************************************************************)
(* rotateVault.                                                            *)
(***************************************************************************)
Spend == written + spent < MaxEvents /\ spent' = spent + 1

(* The next key is made from the one in memory, and noted.                 *)
StartRotation(d, w) ==
  /\ call[d][w] = NoCall
  /\ target' = [target EXCEPT ![d] = loaded[d] + 1]
  /\ call' = [call EXCEPT ![d][w] = [at |-> "sent", key |-> loaded[d] + 1]]
  /\ UNCHANGED <<serverVars, user, storeVars, listed, loaded, written, historyVars>>

(* By hand, or after the user removed a member.                            *)
Rotate(d) ==
  /\ Spend
  /\ StartRotation(d, "user")
  /\ UNCHANGED round

(* A pull told that one is due.                                            *)
RotateDue(d) ==
  /\ round[d].at = "tasks" /\ round[d].tasks.due /\ round[d].tasks.seal = 0
  /\ StartRotation(d, "task")
  /\ round' = [round EXCEPT ![d] = [at |-> "rotating"]]
  /\ UNCHANGED spent

(* rotateKey compares and swaps.                                           *)
MayRotate(u, key) == wrap[u] = key - 1 /\ vaultKey = key - 1

HandleRotation(d, w) ==
  /\ call[d][w].at = "sent"
  /\ LET key == call[d][w].key
         u == user[d]
     IN  IF MayRotate(u, key)
         THEN /\ vaultKey' = key /\ needed' = FALSE
              /\ wrap' = [wrap EXCEPT ![u] = key]
              /\ seal' = [m \in User |-> IF m = u THEN seal[m] ELSE key]
              /\ call' = [call EXCEPT ![d][w].at = "rotated"]
              /\ owing' = d /\ crossed' = (target[d] # key) /\ unheard' = {}
         ELSE /\ call' = [call EXCEPT ![d][w].at = "refused"]
              /\ UNCHANGED <<vaultKey, needed, wrap, seal, owing, crossed, unheard>>
  /\ UNCHANGED <<log, user, storeVars, keyVars, round, written, spent, blind, met>>

(* The call is over; the sync task's round goes on with it.                *)
EndCall(d, w) ==
  /\ call' = [call EXCEPT ![d][w] = NoCall]
  /\ round' = IF w = "task" THEN [round EXCEPT ![d] = Idle] ELSE round

(* Refused: the vault stays at its key, and so must its records.           *)
TakeRefusal(d, w) ==
  /\ call[d][w].at = "refused"
  /\ target' = [target EXCEPT ![d] = Cleared(d, call[d][w].key)]
  /\ crossed' = (crossed \/ (owing = d /\ target'[d] # target[d]))
  /\ EndCall(d, w)
  /\ UNCHANGED <<serverVars, user, storeVars, listed, loaded, written, spent, owing, unheard, blind, met>>

(* saveVault.                                                              *)
SaveVault(d, w) ==
  /\ call[d][w].at = "rotated"
  /\ listed' = [listed EXCEPT ![d] = call[d][w].key]
  /\ call' = [call EXCEPT ![d][w].at = "saved"]
  /\ UNCHANGED <<serverVars, user, storeVars, loaded, target, round, written, spent, historyVars>>

ReloadKeys(d, w) ==
  /\ call[d][w].at = "saved"
  /\ loaded' = [loaded EXCEPT ![d] = listed[d]]
  /\ EndCall(d, w)
  /\ UNCHANGED <<serverVars, user, storeVars, listed, target, written, spent, historyVars>>
-------------------------------------------------------------------------------
(***************************************************************************)
(* What goes wrong.                                                        *)
(***************************************************************************)
(* A rotation's request or answer is lost: the marker stays.               *)
LoseRotation(d, w) ==
  /\ Spend
  /\ call[d][w].at \in {"sent", "rotated", "refused"}
  /\ EndCall(d, w)
  /\ UNCHANGED <<serverVars, user, storeVars, keyVars, written, historyVars>>

(* A round breaks off: a lost request or answer, a failed write.           *)
BreakRound(d) ==
  /\ Spend
  /\ round[d].at \notin {"idle", "rotating"}
  /\ round' = [round EXCEPT ![d] = Idle]
  /\ UNCHANGED <<serverVars, user, storeVars, keyVars, call, written, historyVars>>

(* The preparation of a push fails: the push goes on with what there is.   *)
FailToPrepare(d) ==
  /\ Spend
  /\ round[d].at \in {"list", "rewrite"}
  /\ round' = [round EXCEPT ![d] = [at |-> "send", tasks |-> @.tasks]]
  /\ UNCHANGED <<serverVars, user, storeVars, keyVars, call, written, historyVars>>

(* The app is closed or locked, and unlocked again with the list it has.   *)
Restart(d) ==
  /\ Spend
  /\ round' = [round EXCEPT ![d] = Idle]
  /\ call' = [call EXCEPT ![d] = [w \in Way |-> NoCall]]
  /\ loaded' = [loaded EXCEPT ![d] = listed[d]]
  /\ UNCHANGED <<serverVars, user, storeVars, listed, target, written, historyVars>>
-------------------------------------------------------------------------------
RoundNext(d) ==
  \/ Prepare(d) \/ ListStale(d) \/ WriteBatch(d) \/ ClearTarget(d)
  \/ Push(d) \/ TakeAnswer(d)
  \/ PullVaults(d) \/ PullRows(d) \/ Apply(d)
  \/ AcceptKey(d) \/ RotateDue(d)

CallNext(d, w) ==
  HandleRotation(d, w) \/ TakeRefusal(d, w) \/ SaveVault(d, w) \/ ReloadKeys(d, w)

Next ==
  \E d \in Device :
    \/ \E r \in Record : Create(d, r) \/ Update(d, r) \/ Delete(d, r)
    \/ RoundNext(d)
    \/ Rotate(d)
    \/ \E w \in Way : CallNext(d, w) \/ LoseRotation(d, w)
    \/ BreakRound(d) \/ FailToPrepare(d) \/ Restart(d)

Spec == Init /\ [][Next]_vars

(* Devices sync again and again (timers), calls are answered or fail.      *)
FairSpec ==
  /\ Spec
  /\ \A d \in Device : WF_vars(RoundNext(d))
  /\ \A d \in Device, w \in Way : WF_vars(CallNext(d, w))
-------------------------------------------------------------------------------
(***************************************************************************)
(* Properties.                                                             *)
(***************************************************************************)
TypeOK ==
  /\ \A r \in Record : \A i \in DOMAIN log[r] : log[r][i].key \in 1..vaultKey
  /\ needed \in BOOLEAN
  /\ \A u \in User : wrap[u] \in 1..vaultKey /\ seal[u] \in 0..vaultKey
  /\ \A d \in Device, r \in Record :
       /\ synced[d][r] \in 0..Len(log[r]) /\ stored[d][r] \in 0..Len(pending[d][r])
       /\ stored[d][r] > 0 => synced[d][r] + stored[d][r] <= Len(log[r])
  /\ \A d \in Device : {listed[d], loaded[d]} \subseteq 1..vaultKey /\ target[d] \in 0..(vaultKey + 1)
  /\ owing \in Device \cup {Nobody} /\ crossed \in BOOLEAN
  /\ unheard \subseteq Record /\ blind \subseteq Record /\ met \subseteq Record

Newest(r) == log[r][Len(log[r])]

UnderOldKey(r) == log[r] # <<>> /\ ~Newest(r).deleted /\ Newest(r).key < vaultKey

Waits(r) == \E d \in Device : pending[d][r] # <<>>

(* However rotations, rounds, edits and restarts meet, a live record the   *)
(* server has under an older key is still to be rewritten: by the device   *)
(* whose rotation it was, which has its marker, or by a change that waits. *)
(* Set apart: another rotation of that device, refused or from an older    *)
(* key, took the marker or put its own there (rotateVault), and versions   *)
(* it hadn't heard of when it went through its records                     *)
(* (reencryptRotatedVaults).                                               *)
OldKeysAreAccountedFor ==
  /\ TypeOK
  /\ \A r \in Record : UnderOldKey(r) =>
       \/ Waits(r)
       \/ owing # Nobody /\ (target[owing] # 0 \/ crossed)
       \/ owing = Nobody /\ r \in unheard

(* A rotation stays on the list until none of its vault's records is under *)
(* an older key (reencryptRotatedVaults).  Not what the code does.         *)
RotationStaysListed == owing # Nobody => target[owing] # 0

Settled ==
  \A d \in Device, r \in Record : pending[d][r] = <<>> /\ synced[d][r] = Len(log[r])

(* A re-encryption buries no edit, and a record that was deleted comes     *)
(* back only with an edit the delete didn't know (writeReencryptedVersions, *)
(* resolveRecordConflict).  Set apart: conflicts that didn't open, two     *)
(* deletes, and a delete that met a re-encryption.                         *)
ContentsStand ==
  Settled =>
    \A r \in Record \ (blind \cup met) : \A i \in DOMAIN log[r] :
      /\ log[r][i].edits \subseteq Newest(r).edits
      /\ log[r][i].deleted /\ ~Newest(r).deleted => ~(Newest(r).edits \subseteq log[r][i].saw)

(* Re-encrypting is not an edit (reencryptRotatedVaults), so no delete     *)
(* should lose to it (mergeRecord).  Not what the code does.               *)
DeletesStand ==
  Settled =>
    \A r \in Record : \A i \in DOMAIN log[r] :
      log[r][i].deleted /\ ~Newest(r).deleted => ~(Newest(r).edits \subseteq log[r][i].saw)

(* A device whose list has a new key gets to use it (reloadVaultKeys).  Not *)
(* what the code does: a rotation's reload may read the old list after a   *)
(* round loaded the new keys and before it stored the new list.            *)
KeysFollowTheList == \A d \in Device : []<>(loaded[d] = listed[d])

(* Where they do, what was rotated gets rewritten and what waits gets out, *)
(* whatever key it was written under: unless a second rotation took the    *)
(* marker (reencryptForPush).                                              *)
RotationsEnd ==
  KeysFollowTheList =>
    /\ \A d \in Device : owing = d ~> owing # d \/ target[d] # vaultKey
    /\ <>[](\A d \in Device, r \in Record : pending[d][r] = <<>>)
===============================================================================
