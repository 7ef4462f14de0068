# passmgr in TLA+

passmgr is an offline-first password manager: every device keeps the encrypted
records of its user's vaults in a local database, writes there first, and
exchanges versions with a server that can't read them (ADR 0001). This
directory models the parts of it where several actors meet, checks the models
with TLC and proves part of what the checks show with TLAPS.

## The system

| Part | State it keeps | Operations | What makes it correct |
|---|---|---|---|
| Vault rows and write order (`apps/server/src/vault/access.ts`, `packages/db`) | `vaults.lastSeq`, row locks, `records` | `lockVaults`, `takeVaultSeqs`, `memberVaults` | a vault's rows commit in `seq` order, transactions over several vaults don't wait in a circle |
| Push (`apps/server/src/record/push.ts`) | none between transactions | `pushChanges` | compare-and-swap decided on current heads; a chain applies whole or not at all; a retry appends nothing; a purge drops the history |
| Pull (`apps/server/src/record/router.ts`) | none | `record.sync` | a page is a prefix of what the user may read; its cursors miss nothing |
| Sync round (`packages/client/src/sync-manager.ts`) | timers, rerun and enabled flags, the round under way | `sync`, `syncFresh`, `pushOutbox`, `pullAll`, `pushBatch`, `dispose` | every local write reaches the server, every server row the device; one round at a time; a bad change holds up no other |
| Local store (`packages/store/src/vault.ts`, `schema/*`) | record versions, outbox, cursors, vault list, rekey targets, revoked vaults | `writeLocalChanges`, `purgeRecords`, `applySync`, `removeVault`, acknowledgements | outbox and pending versions agree; pending sits above synced; nothing written is lost by a merge |
| Merge (`records/resolve-record-conflict.ts`, `merge-record.ts`) | none | `resolveRecordConflict`, `mergeRecord` | edits of one side only survive; devices agree on the result |
| Sharing (`apps/server/src/vault/sharing.ts`, `vault/router.ts`, client `vaults/sharing.ts`) | memberships, roles, seals, key links, `keyRotationNeeded` | invite, accept, decline, leave, remove, roles, transfer, `rotateKey` | a vault keeps an owner, every active member can open every version, a removed one nothing new |
| Re-encryption (client `vaults/rekey.ts`) | rekey targets | `reencryptPendingVersions`, `reencryptRotatedVaults` | no live record stays under an old key |
| Quota (`record/quota.ts`) | `vaults.usedBytes` | budgets | the sum matches what is stored |
| Sessions and login (`apps/server/src/auth`, `util/redis-utils.ts`) | Redis sessions, cut-offs, throttle, one-time codes, nonces | login, second factor, recovery, revocation | a session from before a password change ends; a code counts once |
| Account flows (client `login.ts`, `recover.ts`, `account/*`, `hooks/use-unlock.ts`) | key wraps on the device | password change, recovery, linking a local vault | device and server hold the same wrap, or the device knows it can't tell |
| Profiles (`packages/store/src/profiles.ts`, `lock.ts`) | open profiles, catalogue | open, close, create, remove | one opener at a time |

Devices call the server over tRPC (`record.push`, `record.sync`), each call
independent of the others; an answer or a request may be lost, and a request
given up on may still arrive. The server pings a device's stream when one of its
vaults changed (`emitRecordsChanged`), which only wakes its next round. On the
server, transactions meet in Postgres at READ COMMITTED, through row locks of
`vaults`. On a device every store operation is one SQLite transaction; users
write between any two of them, also in the middle of a round.

What is hard, then: pages read while pushes commit; the retry of a push whose
answer was lost; a purge, which takes rows away that others may still build on;
a device that moves its unsent versions while some of them are on their way; a
vault that leaves and comes back; members who come and go while its key is
rotated; rounds that are asked for while one ends; a password that changes under
logins, resets and sessions. `PROJECT.json` lists the places one by one
("hazards"), each with the properties about it or why there is none.

## Modules

| Module | What it is |
|---|---|
| `VaultRows` | rows of a vault's log and the operators both other modules of the cursor use |
| `VaultLog` | abstract specification: an append-only log per vault, devices that hold all of it up to their cursors |
| `VaultSeq` | push transactions, pages and cursors at the grain of SQL statements and messages |
| `RecordSync` | versions, outbox, compare-and-swap, merge and purge of records shared by devices |
| `FieldMerge` | one record edited on several devices: field-level merge, times, tags, password date, tombstones |
| `VaultSharing` | the members of one vault, its key and its owners: statements, row locks, what devices seal to whom |
| `SyncScheduler` | when a device syncs: rounds, timers, fresh rounds, connecting and disposing |
| `OutboxPush` | one push of the outbox: batches, halving, parking, moves, quota, revoked vaults, rotated keys |
| `AccountPassword` | master password and recovery key of an account on the server and its devices |
| `VaultRekey` | re-encryption after rotations of a vault's key: markers, batches, rounds, several devices |
| `Sessions` | sessions, logins, second factor, device credentials and revocation, call by call |
| `VaultSeq_proofs`, `VaultSharing_proofs`, `Sessions_proofs`, `SyncScheduler_proofs`, `AccountPassword_proofs`, `VaultRekey_proofs`, `RecordSync_proofs`, `RecordSyncEdits_proofs` | theorems |
| `MC...` | instances for TLC |

The modules meet where the code does: a push is a transaction of `VaultSeq`, whose
decisions are `RecordSync`'s for versions, `OutboxPush`'s for bytes and moves, and
`VaultSharing`'s for membership and keys; a round of `SyncScheduler` is a round of
`RecordSync` seen from outside; a swap of `AccountPassword` ends the sessions of
`Sessions`; a rotation of `VaultRekey` is one of `VaultSharing` and the devices' work
after it. `VaultSeq` and `VaultLog` are composed by refinement; the others are
checked apart, since together they are out of TLC's reach.

### VaultSeq

Each push is a transaction that goes through `pc` = idle, locking, writing, done.

| Action | Code |
|---|---|
| `Begin` | `vaultAccess` has picked the writable vaults; `Plans` gives what will be decided for each |
| `LockNext` | one `SELECT ... FOR UPDATE` of `lockVaults`, least id first |
| `ReadHeads` | heads, stored changes, keys and budgets are read; `seen` keeps the vaults' `lastSeq` of that moment |
| `TakeSeqs` | one `UPDATE ... RETURNING lastSeq` of `takeVaultSeqs`, in id order |
| `Commit` | the insert, `dropPurgedHistory`, and the commit that shows all of it and frees the locks |
| `Abort` | lock timeout, unique violation, crash |
| `Ask`, `ListVaults`, `ReadVault`, `Apply`, `Lose` | `pullAll` sends its cursors; `memberVaults`; one page's SELECT for one vault; `applySync`; a lost call |
| `Join`, `Revoke`, `Leave`, `RemoveVault` | membership as a pull sees it; `leaveVault` first on the server, then `Vault.removeVault` |

A push that writes nothing stands for all other transactions that go through
`lockVaults`. The run's seq is checked against the committed `lastSeq` through
`first`, taken at the `UPDATE` and used at the commit. `torn` is a history
variable: the vaults whose last page was applied on top of another cursor than
the one it was asked from, which only `RemoveVault` during a pull brings about.

### RecordSync

A push and a page are one step each here: `VaultSeq` shows why they may be. A
version's content is the set of the edits it reflects, and every edit touches a
field of its own; that tells lost edits apart without fields and values.
`DropDeletesOfPurged`, `AckPending`, `PurgeRecord` and the rest of the store's
helpers carry the names of `outbox-schema.ts`; `rebasePendingVersions` is `Rebased`,
which moves every chain by its `Shift` (`Moved`) and appends the merges (`Merges`,
`Merged`). `Failure`, `ChainFailure`, `NextVersion` and `PushChanges` follow
`push.ts`. Rows, outbox and batch are sets, and the code's loops over them are
written as what they do to every member: the records of a page or a batch don't
affect each other but for the ids of merges, which are random (`ApplyPage` takes
them in any order), and the seqs, which count what comes before (`UpToChange`).
`Send`, `HandlePush`, `TakeResult`, `ReadPage` and `ApplyPage` are the steps of a
round. `Break` ends a
round anywhere: a lost request or answer (after the server acted: at "answered"),
a closed app, a failed local write. `GiveUp` and `ArriveLate` let a request
outlive its round. `spent` counts what went wrong, for the bounds.

`created`, `accepted` and `belated` are history variables: the records ever created
(ids are random, so none is created twice), the changes ever appended, and the records
to which a push was appended that its device had given up on.

### FieldMerge

`RecordSync` says when a merge is appended; `FieldMerge` says what is in it. A
write is numbered by the time it is made at, and a text field's value is the
number of the write that entered it. That makes the questions simple: which write
a field ends up with, and whether somebody had replaced it knowing it. `Resolve`
is `resolveRecordConflict` with the clamped times, `MergeRecord` and its helpers
`merge-record.ts`; `Pull` moves the pending chain and appends the merge
(`rebasePendingVersions`), `Push` appends a chain built on the head. A push and
its answer are one step. `Skew` is how far a device's clock runs ahead;
`SplitPages` whether a pull's page may end amid the versions a device lacks.

History variables: `current` has, for each field and tag, the writes nobody
replaced knowing them (what a device knows follows from the versions its head
builds on, `Known`), `standing` the edits nobody deleted knowing them; `buried`
tells that two tombstones with different contents met, `twice` that a conflict hit
before an earlier one's merge was pushed (`MCFieldMergeTime.cfg`).

### VaultSharing

Three kinds of steps: what a user asks for (`Ask...`, with what the client looks at
before it sends a request), what a device does by itself after a pull (`TaskAccept`,
`TaskRotate`), and the statements of the transactions under way (`req`).

| Action | Code |
|---|---|
| `Ask...` | the first read of the caller's membership; `own` keeps what it found |
| `LockVault`, `LockOwn` | `lockVaults` and the `FOR UPDATE` of `deleteAccount`; whoever waits simply can't take the step |
| `CommitInvite`, `CommitSetRole`, `CommitRemove`, `CommitLeave`, `CommitTransfer` | the last statements of the procedures of `sharing.ts`, which read members and owners again under the lock |
| `WriteAccept`/`CommitAccept`, `WriteDecline`/`CommitDecline` | the procedures that write a member's row before (or without) locking the vault |
| `CheckRotation`, `SealActive`, `SealPending`, `CommitRotation` | `rotateKey`: compare the members, then one pair of `UPDATE`s per member, then the vault |
| `CheckPut`, `CommitPut` | a push's check of the key version under the lock, and its commit |
| `DecideAccount`, `CommitDeleteAccount`, `Heir` | `deleteAccount`: who inherits, what is deleted |
| `Abort` | a refusal, a lock timeout, a deadlock that Postgres resolves, a lost request |

History: `knows` (who could have opened the current key), `stale` (a change of the
owners was decided on a role read before it changed), `crossed` (members who
accepted a key while a rotation was sealing the next), `lapsed` (whose invite
went with an account that wasn't active in the vault, their own or its sender's:
`deleteAccount` marks no rotation for them).

### SyncScheduler

A step is what JavaScript runs between two awaits; `Resolve` and `NextTask` put the
continuations of a promise before any timer or event, and `ReadOutbox` waits for the
counts a round that ends has asked the local database for. `EndRound` is the
`finally` block of `runRound`, whose last await runs with `syncing` unset already,
so that another round may begin behind it. `Ping` is the interval, the event
stream and `online`; `unheard` is history: a write whose `requestSync` fell on a
paused account.

### OutboxPush

`Record`s have a home vault and a size, changes are puts and moves (`UserMove`
writes the target's create and the source's tombstone, as `move` does). A push cuts
what it took into batches (`PushBatches`), sends one after the other (`SendBatch`),
halves a batch the server refuses whole (`RefuseBatch`, `Halves`), parks or counts
what comes back (`TakeAnswers`, `Count`). `Decide` is `pushChanges` for a batch:
chains in order, the owner's budget, moves after an overrun. `Revoke` and `Rotate`
happen to a vault between any two of these steps. History: `blamed` (records with
a change the server refuses for what it is), `apart` (moves whose two halves
weren't decided together), `excess` (bytes the quota lets through: tombstones and
what a rotation encrypts again).

### AccountPassword

The account key never changes, so a wrap is known by the secret that opens it;
secret number n is the password (and recovery key) the n-th change or reset makes.

| Action | Code |
|---|---|
| `LogIn`, `ReadKeys`, `OpenSession`, `DropLogin` | `finishLogin` and `completeLogin` for whoever logs in: the check of the cut-off, the key read, the session store, each a step |
| `UnlockHere`, `UnlockByServer`, `SaveUnlock`, `Lock`, `Crash` | `use-unlock.ts`, `secrets-store.ts` |
| `SendPending`, `FinishPending`, `BreakPending`, `LosePending`, `Login`, `SaveLogin`, `DropConnect` | `use-connect-server.ts`: a reset that waits goes first, then the login and what it stores |
| `SendRekey`, `CommitRekey`, `SaveRekey` | the Argon2 rekey behind a login |
| `FreshLogin`, `StartChange`, `TakeChange`, `RefuseChange`, `BreakChange`, `LoseChange`, `StoreChange`, `ConfirmChange`, `SaveConfirm`, `DropConfirm` | `change-password.ts`, `use-change-password.ts`, `finishPasswordChange` |
| `StartReset`, `ProveReset`, `TakeReset`, `BreakReset`, `LoseServerReset`, `KeepReset`, `StoreReset` | `use-recovery.ts`, `recover.ts`, `recovery-router.ts` |
| `GiveUp` (in the actions that lose an answer), `ArriveLate` | a request given up on that the server handles after all, or never |

A swap ends every session, also one a login has just stored (`RevokedFlow`), and a
login that passed its check before is marked `cut`: it goes on, and the session it
stores later is `"past"`, not `"live"`. `"past"` is also what sessions become when the
revocation fails after the commit (`SwapOnly`, in `BreakChange`, `BreakPending` and
`BreakReset`). The server takes both (`Taken`); the device can't tell them apart.

History: `swaps`, `told`, `shown`, `refused`, and what sets a case apart: `wiped`
(a recovery key thrown away because the answer was lost), `erred` and `denied`
(an error after the commit, or a denial of what is tried twice), `stray` (a rekey
that passed its session check before a swap, or under a session past one, and wrote
after it: `rekeyPasswordKeys` doesn't compare the key set).

### Sessions

One step per Redis call (a `MULTI` is one) or SQL statement, of any number of
`Login`s, `Handler`s (requests with a session) and `Check`s (requests with a code).
`Refuse` and `Starts` are `getSession`, with the cut-off compared as the code does
(`AfterCut`; `now` advances by `Tick`, so that two calls may share a millisecond).
`ReadLink`/`WriteLink` are the read and the write of `linkSessionCredential`, where
a revocation may fall in between; `ReadIds`, `Cut`, `SignOutAll`, `EndOwn` the
four calls of `revokeUserSessions`. History: `holders` (sessions the credential
belongs to), `slipped` (logins past their last check when the cut-off was written),
`missed` (a session ended while its credential was being linked), `entered`,
`compared`.

### VaultRekey

A server call is one step, a round of a device and a rotation one per await that
matters. A content is a set of edits, as in `RecordSync`, with the key version it is
under; a tombstone also carries what its delete knew (`saw`, history).

| Action | Code |
|---|---|
| `Create`, `Update`, `Delete` | `writeLocalChange`, under the key in memory |
| `Prepare` | `reencryptForPush`, `reencryptPendingVersions`: unsent versions in place |
| `ListStale`, `WriteBatch`, `ClearTarget` | `reencryptRotatedVaults`: what is under an older key is read, written in batches unless its head moved, and the marker cleared |
| `Push`, `TakeAnswer` | `record.push` with its check of the key version, and the acknowledgements |
| `PullVaults`, `PullRows`, `Apply` | `record.sync`: first the vaults with the user's key and tasks, then the rows; `reloadVaultKeys` and `applySync` |
| `AcceptKey`, `RotateDue` | `runSharingTasks` after a pull |
| `Rotate`, `HandleRotation`, `TakeRefusal`, `SaveVault`, `ReloadKeys` | `rotateVault`, the server's `rotateKey`, and what follows in `use-vaults.ts` |
| `LoseRotation`, `BreakRound`, `FailToPrepare`, `Restart` | a lost call, a round or its preparation that fails, a closed or locked app |

History: `owing` (the device whose rotation made the current key and which hasn't
gone through its records for it), and what sets a case apart: `crossed` (another
rotation of its took the marker, or put the one of an older key in its place), `unheard` (records it hadn't heard the last version of),
`blind` (conflicts that didn't open), `met` (a delete that met a delete or a
re-encryption).

## Runs

`CHECK_DEADLOCK` is on for `VaultSeq`, `RecordSync` and `VaultRekey`: pushes end,
but a device can always start another pull or round. It is off where everything
comes to rest once the bounded events are used up: `FieldMerge`, `VaultSharing`,
`SyncScheduler` (a device that was closed), `OutboxPush`, `AccountPassword`,
`Sessions`.

| Run | Instance | Shows |
|---|---|---|
| `vaultseq` | 2 pushes, 2 vaults, 2 records, 1 device, page of 1 row, 2 membership changes, fairness | `ReadsStayCurrent`, `CursorCompleteUnlessTorn`, `CaughtUpIsExact`, `ImplementsLog`, `PushesEnd`, `CatchesUp` |
| `recordsync` | 2 devices, 2 records, 4 changes with those that created the records there at the start, 1 fault (a refusal, a broken round or a late arrival), pages of 1 | `VersionsInOrder`, `Converged`, `NoEditLost` |
| `recordsync_live` | 2 devices, 1 record, 3 changes, 1 late arrival, pages of 1, fairness | `AppliedOnce`, `Drains` |
| `fieldmerge` | 2 devices, one 2 writes ahead, 2 fields, 5 writes, 2 of them deletes | `LatestEditWins`, `VersionsSound` |
| `fieldmerge_three` | 3 devices, 1 field, 1 tag, 4 writes, 2 of them deletes | `NothingReplacedReturns`, `EditBeatsDelete` |
| `sharing` | 3 users with any start of owners, managers and invitees, 2 requests at a time, 3 asked for by users | `PutsUnderCurrentKey`, `RotationsSound`, `ExMembersMark`, `MembersReachTheKey`, `OwnerStaysUnlessStale`, `NoCircleInOrder` |
| `scheduler` | 1 caller of `syncFresh`, 1 write, 2 failures, 1 ping in a round, 2 times on or off, fairness | `RoundsInOrder`, `FreshIsFresh`, `WritesGetOut`, `CallsReturn` |
| `outboxpush` | 3 records in 2 vaults, batches of 3 changes or 4 units, quota 3, 3 writes, 1 bad change, 1 broken push, 1 revocation or rotation | `BatchesRight`, `OthersGetThrough`, `AccountsRight`, `MoveArrivesIfTogether` |
| `accountpassword` | 2 devices, 2 changes or resets, 2 faults (1 with a rekey), a rekey due at the start or not | `EachSwapProvesTheCurrent`, `KeysInOrder`, `UsersKnow`, `ResetIsKept` |
| `sessions` | 2 logins, 2 requests and 2 code checks at a time, 3 sessions, 3 clock values, 2 codes, 2 tries, 1 expiry | `EndedStaysEnded`, `LiveIsListed`, `OldPasswordIsOut`, `RevokedDeviceIsOut`, `CodesCount` |
| `rekey` | 2 devices of 2 members, 2 records, batches of 1, 2 writes, rotations by hand and faults in all, a rotation due at the start or not | `OldKeysAreAccountedFor`, `ContentsStand` |
| `recordsync_stale` | 2 devices, 1 record, 3 changes | finding 1 |

Besides the runs there are configurations for the places listed under "Findings",
and two that pass: `MCVaultRekeyOwn.cfg`, the instance of `rekey` with both devices
one user's, and `MCVaultRekeyLive.cfg`, `RotationsEnd` under fairness with one
record.

The bounds. Two vaults are what a lock cycle and a page across vaults need, two
pushes let one commit between the other's steps. The plans put a purge, a batch
over both vaults and a transaction that only locks against each other. A page of
one row makes every vault boundary a page boundary. Three changes to a record that
is there (`MCInit` of `MCRecordSync`: created, pushed and pulled by all) are enough
for two devices to edit and delete it, with a purge or a restore on top, or for a
conflict next to the create of a second record in the same batches and pages.
`MaxBreaks` bounds lost answers because each can
be followed by a retry: a device that purges and one that restores, each losing
every answer, move a record's versions up without bound (the retry of an edit whose
version a purge dropped is stale and restores the record, as `push.ts` says
itself). In `MCRecordSyncLive` a lost answer is a push given up on that arrives at
once. In `FieldMerge` four writes are what it takes for two conflicts on one field
with a third device's edit between them; the fifth lets the dated field change as
well. In `VaultSharing` a conflict is one of two transactions, and three requests
by users let a third prepare it (an invitation, a role); what devices do by
themselves doesn't count. The roles `write` and `read` may do less than `manage`
and are treated alike, so members start as owners and managers. In `OutboxPush` a
batch holds three changes so that a chain of three just fits and a move may be cut
from what precedes it; `b`'s versions are large, so a batch can also end by bytes. In
`AccountPassword` each flow has one request that matters, so two faults let a lost
answer, a revocation that fails or a crash meet another; two changes let the second
one meet what the first left behind, and the third secret is theirs. A rekey is
due after a login with a wrap below the Argon2 floor (`weak`), which the account may
start with. It may fall into any step of the rest, so its states are bounded by a
CONSTRAINT of `MCAccountPassword` (`Bound`): one fault in a behaviour with a weak wrap
or a rekey, the rekey over before the last secret is made (one swap is what a rekey
can cross), and no way on from a rekey that strayed, of which every property is still
checked. The proofs are for every value of these
constants at once. In `Sessions` two requests meet one password change, and
with three clock values a login starts before, at and after the cut-off. In
`VaultRekey` two records and batches of one let a re-encryption be interrupted in
the middle (`MCInit`: at the start both are there or neither is); two events on top of the rotation that is due give two rotations at
once, or one with an edit, a delete or a fault; every member has a device, so that
a key that was sealed gets accepted. The devices are interchangeable in `RecordSync`,
`AccountPassword` and `VaultRekey`, the users in `VaultSharing` and `VaultRekey`,
logins, handlers, checks and codes in `Sessions`, records in `RecordSync` and
`VaultRekey`, hence the symmetry sets; the runs with liveness have none, nor has the one with a skewed clock.

### What the properties say

* `ReadsStayCurrent`: nobody commits to a vault a push has read under its lock.
* `CursorCompleteUnlessTorn`, `CaughtUpIsExact`: a cursor is a point below which
  the device misses nothing, and at the end it holds exactly the vault's rows, no
  purged history among them.
* `ImplementsLog`: seen from outside, pushes are atomic and devices hold prefixes.
  Torn vaults count as not synced in the refinement mapping.
* `VersionsInOrder`: pending versions sit above synced ones, the outbox names
  exactly them, and the server's versions have no gaps: what rebasing and pushing
  rest on. `AppliedOnce`: no change is applied twice.
* `Converged`: once nothing waits, devices and server agree. `NoEditLost`: the server's
  version on top has every edit made, at any time (as long as nobody deleted the
  record). Both set `belated` records apart: a push given up on that is appended after
  all can be one the device has stopped counting on (a purge before its create, below), or
  whose changes it takes for another device's when it pulls them (a shifted chain).
  It isn't enough to set apart those of the first kind: a device whose refused purge
  is stored late moves that purge above what others write on top of it, and drops
  their versions when the retry is answered.
* `Drains`: again and again every device is caught up and nothing waits but refused
  chains.
* `NothingReplacedReturns`, `LatestEditWins`: whatever merges met, a field ends up
  with a write nobody replaced knowing it; between two devices, with the latest.
  A clock that runs ahead wins only over edits made before the server saw the
  winner, and by no more than it is ahead. Both set apart two tombstones with
  different contents (`buried`): there nothing is appended, and the record keeps
  in the trash, and after a restore, the content of the tombstone pushed last,
  without the edits the other device made before its delete.
* `EditBeatsDelete`: a record ends up deleted only if every edit was known to
  somebody who deleted it. `VersionsSound`: a password keeps the date it was entered
  at through all merges.
* `PutsUnderCurrentKey`: once a rotation has committed, nothing is stored under the
  key a removed member has, however long a push had waited for the lock.
  `RotationsSound`: a rotation seals to exactly those who are members when it
  commits. `MembersReachTheKey`: every member can open the current key, but for
  `crossed` ones. `ExMembersMark`: whoever knows the key and is gone has left the
  vault marked for a rotation.
* `OwnerStaysUnlessStale`: however removals, demotions, transfers and account
  deletions meet, an active owner stays, unless a caller's own role changed between
  its read and the lock (there the last owner can go, see below).
* `NoCircleInOrder`: transactions never wait for each other in a circle, but for
  `declineInvite` (the member's row before the vault's lock) and an account deletion
  that found no vault to lock; Postgres breaks those up.
* `RoundsInOrder`: one round talks to the server at a time, a quiet device with
  unsent changes has a timer set, and after `dispose` no round runs. `FreshIsFresh`:
  `syncFresh` says true only after a round that started after the call pulled
  everything. `WritesGetOut`, `CallsReturn`: changes get out, calls end.
* `BatchesRight`: every change once, in order, a chain in one batch if it fits.
  `OthersGetThrough`: after a push that wasn't broken off, everything is stored but
  the records that have a bad change. `AccountsRight`: `usedBytes` is the sum of
  what is stored, and within the quota but for `excess`. `MoveArrivesIfTogether`: a
  record doesn't leave one vault without arriving in the other, if both changes
  travelled together and only the quota was in the way.
* `EachSwapProvesTheCurrent`: of a change, a reset and a late arrival, only one that
  proves what is in force lands, but for a change under a session past a swap.
  `KeysInOrder`: the password that logs in opens the key set (`RecordOpensTheKeySet`),
  and a device at rest under a live session has the current wraps (`LiveIsCurrent`),
  wherever a swap falls between the check, the key read and the store of a login;
  sessions past a swap and rekeys that stray are exempt. `UsersKnow` (`ToldTruly`,
  `RecoveryKeyShown`), `ResetIsKept`: what users are told and shown is what holds.
* `EndedStaysEnded`, `LiveIsListed`: no write-back revives what was signed out, and
  what works can be found and ended. `OldPasswordIsOut`, `RevokedDeviceIsOut`: a
  password change and a revocation end what they say, but for requests in flight
  past their check. `CodesCount` (`CodesEnterOnce`, `TriesAreCapped`): of codes tried
  in parallel each enters once, and no more are compared than a challenge allows.
* `OldKeysAreAccountedFor`: a live record the server has under an older key is still
  to be rewritten, by the device whose rotation it was or by a change that waits,
  but for `crossed` and `unheard`. `ContentsStand`: once nothing waits, the version on
  top has every edit, and a deleted record came back only with an edit its delete
  didn't know, but for `blind` and `met`. `RotationsEnd`: where the keys in memory
  follow the vault list, what was rotated gets rewritten and what waits gets out.

What is set apart in `RecordSync`, the `belated` records, is set apart in the
properties and not by the bounds: `recordsync` has late arrivals too, and
`MCRecordSyncPurge.cfg` and `MCRecordSyncShift.cfg` show what becomes of their
records. There are more ways there than these two. One without a refusal takes four
changes: the create is given up on, the purge that follows it is answered
`not_found` and counts as done, the record is restored on top of the purge, and when
the create arrives after all, another device's edit of it takes the version the
restored one builds on.

### Fairness

`VaultSeq`: a transaction that can go on does; Postgres hands a free lock on. A
device goes on with its pull or asks again: `SyncManager` retries with backoff,
syncs periodically and on a ping. `Connected` says that from some point on no
pull ends but by being applied; it restricts the behaviours instead of the
scheduling (it is not machine closed), because without it no device need ever
catch up. It is stated as `Lose(d) => Apply(d)` and not as `~Lose(d)`: applying a
page without news and losing it end in the same state, so the latter would rule
out every behaviour that goes on. `RecordSync`:
weak fairness of `RoundNext` per device, for the same timers; users and failures
have none. `Drains` is conditional on `Unstuck`, as finding 1 shows a livelock.
`VaultRekey`: weak fairness of each device's round and of each rotation's steps, for
the timers and because calls end; users and faults have none.
`SyncScheduler`: calls to the server are answered or fail, timers that are set fire,
promises are waited out. The interval is a timer too, but only relied on while the
account is paused, or was when something was written: there the code arms nothing
else.

## Findings

1. **A purge that stays stale** (`recordsync_stale`). The record's create is in
   flight, the user edits it and then purges it. `purgeRecord` finds no synced
   version and puts the purge above the unsent edit, which is dropped. The server
   stores the create only; the purge's base is one above its head, for ever.
   Nothing parks it, since `stale` never counts.

Other places where the code does less than a comment or a document next to it says.
They are too narrow, or too deliberate, to be runs of their own; the properties set
them apart by name, and most have a configuration that shows them:

* A vault left during a pull (`MCVaultSeqLeave.cfg`, `CursorComplete`). The page,
  applied after `leaveVault` removed the vault, stores its cursor without the rows
  below it; they are missing when the user joins again. Deleting a vault waits the
  pull out (`use-vaults.ts`, `syncFresh`); leaving doesn't.
* A purge before its create (`MCRecordSyncPurge.cfg`, `ConvergedAll`). `sync-manager.ts`
  takes a purge answered `not_found` for one "of a record the server never got (its
  create never arrived)" and counts it as done. If the create was given up on and
  arrives after that, the record lives on on the server and on the other devices,
  while the device that purged it keeps its tombstone above the versions it pulls.
* A shifted chain (`MCRecordSyncShift.cfg`, `NoEditLostAll`). A push with two changes is
  given up on, its retry is refused for quota and parked, and the first push arrives
  after all. The device pulls its own version as if another device had written it
  and moves its chain above it, so the rest of the chain claims a base one too high,
  which another device's version then happens to be.
* An older edit wins by a merge's date (`MCFieldMergeTime.cfg`). A merge counts as
  written at the later of its two heads, and so does every field it took over. The
  comment in `resolve-record-conflict.ts` says this needs a second conflict before
  the merge is pushed; it needs no such thing.
* A page between an edit and its merge (`MCFieldMergeSplit.cfg`). A device that pulls
  only the losing edit, at the end of a page, merges with it: the values it lacks
  count as changed back just then. The push keeps the two together, the pull doesn't.
* Owners (`EveryVaultHasAnOwner`, ADR 0001 D6). `leave` and `removeMember` decide on
  the caller's role as it was before the lock: of two owners who demote and leave at
  once, none may be left.
* Rotations (`EveryMemberReachesTheKey`, `MCVaultSharingStuck.cfg`,
  `MetaUnderCurrentKey`). An invitee who accepts between the two `UPDATE`s of a
  rotation keeps the old key and gets no seal; a manager whose sender was demoted
  meanwhile doesn't take its key, and if everybody who may rotate is such a one,
  the vault stays as it is; a rename encrypted before a rotation and stored
  after it leaves the name under the old key.
* A move in two batches (`MoveArrives`, `push.ts` "the record must not leave its vault
  without arriving in the other"): the quota check sees only its own batch.
* A refused reset (`MCAccountPasswordRefused.cfg`). The comment above
  `finishPendingReset` gives two reasons for a refusal; the second reset of a device,
  proved like its first, is refused for a third one.
* A login that slips past a password change (`MCAccountPasswordSlip.cfg`,
  `ChangeProvesTheCurrent`; `MCSessionsOld.cfg`, `OldPasswordNeverEnters`). `finishLogin`
  checks the cut-off (line 310), reads the keys (202) and stores the session (204),
  stamped then. A change or reset that commits and revokes after the check doesn't end
  that session. The device goes on with the wraps it was answered, which may be those of
  before, and its login counts as "a fresh OPAQUE login with the current password"
  (`user/router.ts`): a change under it replaces the password set meanwhile, though it
  proved the one before. `isLoginRevoked` says such a login "must not create a
  session". `KeysInOrder`, `EachSwapProvesTheCurrent` and `OldPasswordIsOut` show that
  the window is the only one, but for a revocation that failed.
* A credential linked while its session is revoked (`RevokeTakesTheCredential`)
  outlives the revocation.
* A marker cleared by another rotation (`MCVaultRekeyMarker.cfg`, `RotationStaysListed`;
  `rekey.ts` "a rotation stays on the list until none of its vault's records is under
  an older key"). Two rotations of one device at once, one by hand and one by the
  sync task, or a retry after a lost answer, note the same key version; the one the
  server refuses clears the marker the other needs. Where an answer was lost as well, the
  second one may ask for, and note, the key of before: a round in between loads the
  keys of a list it read earlier. The records are then gone through for the older
  key, and the marker is cleared. Versions the device hadn't heard
  of when it went through its records (`unheard`) stay under the older key as well,
  until somebody edits them.
* A delete that meets a re-encryption (`MCVaultRekeyDelete.cfg`, `DeletesStand`). "Not
  an edit", says `rekey.ts`, but `mergeRecord` can't tell: the record is restored.
* A conflict that doesn't open (`blind`). While a device's keys are behind what it
  pulls, between `saveVault` and the reload or when a rotation falls between the two
  reads of `record.sync`, the local version stays on top of the remote one unmerged,
  and it may be a mere re-encryption.
* Keys behind the list (`MCVaultRekeyKeys.cfg`, `KeysFollowTheList`). A rotation's
  reload that reads the old list, after a round loaded the new keys and before it
  stored the new list, leaves the old key in memory until the next restart. It takes
  a read of the local database as long as a pull.

## Proofs

Eight modules hold theorems, one per component and one for the edits of `RecordSync`. They
prove properties some run checks, for every value of the constants; the invariants
below were given to TLC before they were proved. The assumptions are those the
modules state by name, and TLC evaluates them on every run.

`VaultSeq_proofs`, for every set of vaults, pushes, devices, plans and every page
limit, from `PlansAssumption` and `ConstantsAssumption`: `TypeCorrect`,
`ReadsStay` (`ReadsStayCurrent`), `CursorsComplete` (`CursorCompleteUnlessTorn`).
The first two rest on `LockInv`: `ReadsStayCurrent` is not inductive by itself,
since a commit of another push is excluded only by the locks (`LocksHeld`), and
what a commit writes is right only if the run it took is the one after the
committed `lastSeq` (`FirstIsNext`), which again needs that nobody commits under
a lock. `RowsFinite` is there for the types: a page counts rows. The third adds
`CursorInv`: every seq in sight was handed out (`SeqsTaken`), no row lies below a
purge that was ever seen (`PurgesFinal`, so that dropping purged history never
drops a row the vault still has), and a page in the making holds everything
between the cursor it was asked from and the one it will set (`PageComplete`).
`CommitAppends` is the heart: a commit adds rows only past every seq that was
handed out, so no cursor is overtaken.

The refinement of `VaultLog`, in the same module, rests on all of that. `CaughtUp` (`CaughtUpIsExact`) adds
`ExactInv`: whatever a device has, in its store or in the page under way, and the
vault has no more, lies below a purge that the device has in sight as well
(`PurgedAway`); it keeps nothing below a purge it has (`HeldClean`); and a page
lies between the cursor it was asked from and the one it sets (`PagesBetween`).
`LogImplemented` (`ImplementsLog`) maps each step: a `Commit` is an `Append` per
vault, an `Apply` a `Sync`, a membership change what it is, all others stutter.

`VaultSharing_proofs`, for every set of users and requests and every bound, from
`SharingAssumption`:

* `PutsCurrent` (`PutsUnderCurrentKey`) and `RotationsRight` (`RotationsSound`) rest
  on `SharingInv`: the types, and `Holds`, which says what a request at each of its
  statements has locked. The key version a push compared, and the members a
  rotation compared, can't change before the commit because whoever changes them
  needs the lock the request has.
* `KeyReached` (`MembersReachTheKey`) adds `KeyInv`. The statement must hold in the
  middle of a rotation too, when some members have the next key sealed and some
  don't (`Reaches`); nobody holds a key or a seal of a version past the vault's
  unless a rotation is just writing it (`KeysInOrder`); and what a rotation at its
  statements has sealed and not yet sealed is all that its members are
  (`CallInOrder`), but for those who crossed it.
* `OwnerStays` (`OwnerStaysUnlessStale`) adds `OwnerInv`: what a request decided about
  owners under the lock still stands when it commits (`CallStands`). An account
  deletion is the hard case, since it has the lock of its user's row and of the
  vaults it saw, and the heir it chose was chosen under the latter.
* `MarkLeft` (`ExMembersMark`) adds what a request on its way to the mark still has
  to do: between the statement that takes a member away and the one that marks the
  vault, the lock is held. The attempt to prove it showed that `lapsed` was too
  narrow: a manager who is removed and invited again while their rotation runs
  commits it as an invitee, and deleting their account takes the invites they
  sealed, without a mark.
* `LocksInOrder` (`NoCircleInOrder`): of requests in order, one that waits for a row
  has the vault's lock or asks for no other row, and whoever holds a row and isn't
  the lock's owner waits for nothing. So in every set of them one doesn't wait.

`Sessions_proofs`, for every number of logins, requests, checks, codes and sessions
and every clock, from `SessionsAssumption`: `TypeCorrect`, `EndedSessions`
(`EndedStaysEnded`), `LiveSessionsListed` (`LiveIsListed`), `OneSessionPerCode`
(`CodesEnterOnce`), `TriesCapped` (`TriesAreCapped`), and of these two
`CodesCounted` (`CodesCount`). The first two share `EndInv`, in which the copy of a
row a request is about to write back is the row itself, or one that is gone and that
the write won't bring back (`CopyCurrent`). The others have invariants over the
checks in flight: a code that entered is used up before another check may take it,
and the tries a challenge has counted are those compared and those about to be
(`TriesOf`). `OldPasswordOut` (`OldPasswordIsOut`) follows each login from its
start to its session: which password it was checked against, and whether it is
past its last check when a cut-off is written. `RevokedDeviceOut`
(`RevokedDeviceIsOut`) says of every request between two calls what it may yet
write to the row and the credential.

`SyncScheduler_proofs`, from `SchedulerAssumption`: `InOrder` (`RoundsInOrder`) and
`Fresh` (`FreshIsFresh`), for any callers and bounds. `RoundInv` says that the flag
`syncing` stands for one round that talks, and that a round in its `finally` block
isn't counted any more; `RerunFits` that what was asked for meanwhile has a round to
end it, `CloseFits` what `dispose` waits for. `Covered` is the heart of
`QuietMeansArmed`: changes that should be sent have a timer, a round that will take
them or one that asks again at its end. `CallFits` says of a call of `syncFresh` that
the round it waits for started after it.

`AccountPassword_proofs`, from `PasswordAssumption` (a secret to start from, and
the two null records are no wrap and no reset), for every number of devices, secrets
and failures, with or without a rekey due: `SwapsProve` (`EachSwapProvesTheCurrent`), `ResetKept` (`ResetIsKept`),
`Ordered` (`KeysInOrder`), `Told` (`UsersKnow`). `TypeInv` says what a device in the
middle of a flow holds. `Proving` is why a late request harms nothing: whatever was
sent with a proof proves the secret it was made for, as does a login that no swap
fell into (`FreshProves`); a change under any other login carries `past`.
`Unencumbered` says that a device with a session, or in a login, has no reset that
waits, `OrderInv` which wraps a device may have by what its session and its flow are:
a login no swap fell into was answered the server's wraps as they are, from the key
read on, and a live session is one whose device stored them (`LiveHasTheWraps`). That
a swap ends each of these, or marks it as past, is `CutOff`. `KeptInv` says that the secrets of the resets
come in order, `KnowInv` what was told of every secret that is on its way: to the
server, in a late request, or in the hands of a device.

`VaultRekey_proofs`, from `RekeyAssumption`, for any records, devices, members and
batches: `OldKeys` (`OldKeysAreAccountedFor`). Its types are most of the work:
`TypeInv` has what a device sends, lists and was answered agree with the log, with
one number for each chain of how far the server has it. `RekeyInv` has the rest: as
long as nobody has gone through the records for the current key its maker has a
marker (`Marked`), afterwards each record under an older key has a change that
the server lacks or was unheard of (`Accounted`), and in between it is on the list
of the round (`OnTheList`). The attempt to prove it showed the marker of an older
key under "Findings".

`RecordSync_proofs`, from `RecordSyncAssumption`, for any records, devices, page
limits and bounds: `Ordered` (`VersionsInOrder`), `Once` (`AppliedOnce`) and `Convergence`
(`Converged`); `RecordSyncEdits_proofs`, on top of it, `EditsKept` (`NoEditLost`).
None of the four is inductive: what a device has in order
is changed by answers and pages the server made earlier, while users went on
writing. `SyncInv` is what makes the first two so.

* `DeviceInv` is the device's half of `VersionsInOrder` with what the transactions
  need besides: a purge is the first of what waits of its record, a delete comes on
  top of a put, and a change waits on one device only. It is kept by each transaction
  of `outbox-schema.ts` (`InsertFits`, `PurgeFits`, `AckFits`, `ParkFits`, `DropFits`,
  `RebasedFits`, `ApplyFits`), which rest on three ways to change a store: append on
  top (`AppendFits`), take away (`FewerFits`), move up (`ShiftFits`).
* `BatchesInv` says of every push on its way, given up on or not, that whatever of it
  still waits is above the version it was sent to build on, is of the kind it was
  sent as, and had everything that waits before it sent along. No transaction of the
  device can break that (`WaitsKept`): what waits after it is new, or waited before
  and moved up at most (`Follows`).
* `StoredOf` and `AnswersFit` relate the outbox to the server: what the server has
  of what waits lies not above it there, and the server has all that waits before
  it. So taking the answers first change first puts synced versions only below what
  still waits.
* `LogInv` is the server's numbering. That a push keeps it is `NewBases` (what is
  appended builds on the head, one version after the other). That the server has
  what waits before a change it has, after a push as before, takes `NoGap` (no
  change stored earlier lies between two that are appended) and `NothingLostBelow`
  (a purge in the batch would have taken the later change away as well).
* `AcceptedInv` is `Once`: what was accepted and is sent again is in the log, where
  `storedChanges` finds it, or a purge has come on top of its record.

`Convergence` rests on `AgreeInv` besides, which says of every device and every record
that isn't `belated` what the two know of each other before everything is settled
(`Agrees`). TLC was given it before it was proved, on all of one record's states with
three changes and two faults, and at random on larger instances.

* `HasAll` and `HasOnly` are the two halves of the property, moved back from the end
  of the log to the device's cursor: the device has what lies behind its cursor,
  unless a purge of its own is waiting to drop it, and what it counts as synced is
  on the server, unless a purge it has yet to pull dropped it there. A device that
  purges drops all it had of the record (`PurgeAlone`).
* They are kept only because a device never pulls a version of its own that it still
  takes for unsent. `Unanswered` says so: what the server has of what waits is past
  the cursor, was sent in this round or will be in the next one before it pulls, and
  is taken off the outbox by the answer. This is where `pushOutbox` coming before
  `pullAll` matters, and what a late arrival breaks.
* `AnswersAgree` and `PageAgrees` say what an answer and a page are still worth when
  they are taken: their rows are on the server still, or a purge past the cursor
  has dropped them; a page has everything between the cursor and its own end.
* A record the server doesn't have is on one device only (`Alone`), sent by it alone
  (`Own`) and from its first version on (`SentAgrees`), which is why a purge answered
  `not_found` may count as done.

`EditsKept` rests on `EditsInv` besides, which says which edits the versions on top
have, of every record that isn't `belated`, as far as its versions are puts. TLC was
given it before it was proved, as it was `AgreeInv`.

* `HeadHasAll` is the property: the server's head has every edit of its versions. A push
  keeps it because the last change of a batch has what the versions it is stored on top
  of have (`BatchHasEdits`): each change builds on the one before it and the first on a
  version of the server's (`BatchBuilds`, `FirstBuilds`), and the last has what any of
  them adds, what is stored of them already, and, if nothing is, what the version has
  that the batch was based on (`LastHasSent`, `LastHasStored`, `LastHasBase`). A batch
  that was based on anything but the head is refused as stale.
* A batch is made like that because the device is (`StoreHasEdits`): its head has what
  waits adds (`HeadHasWaiting`), what the server stored of it (`HeadHasStored`) and, if
  it stored nothing, what the newest synced version has (`HeadHasSynced`). It need not
  have every edit that was ever synced, nor does each version that waits: what was moved
  above another device's version lacks that one's edits, and only the merge on top has
  both.
* A page keeps that by way of the merge (`RebasedTo`, `MovedEdits`), if the version that
  waits was written on is there to merge with. It always is: a version builds on the one
  below it (`Builds`), and where nothing counts as synced, what the server has of the
  record is the device's own (`FirstIsOwn`).
* An answer may be taken rounds later, so what was sent and what was stored must still
  be what waits (`SentAsWaiting`, `StoredAsWaiting`), and no delete or purge comes out
  as a put (`WaitingKinds`, `SentKinds`).

Each step is proved for one record at a time: a step that leaves the rows, the log and
the outbox of a record as they are keeps what is said of it, and the transactions of
`outbox-schema.ts` have a lemma each on what they do to the rows of one record.

Two things about the proofs. `LeastNumber` and `GreatestNumber` (a set of numbers
has a least, and below a bound a greatest element) take the place of induction over
numbers, which the provers can't instantiate; they follow from the library's facts
about well-founded relations. And where the code goes through a list, the operators
proved about are written with functions and quantifiers, so that no proof
needs to look into a fold.

Model-checked only: everything about `FieldMerge` and `OutboxPush`, since what their
operators compute is defined by folds and recursion over chains, batches and merges,
and what those compute for every input takes induction over data; of `VaultRekey`
`ContentsStand`, which relates contents through any number of re-encryptions; and
liveness, which the prover doesn't do:
`PushesEnd`, `CatchesUp`, `Drains`, `WritesGetOut`, `CallsReturn`, `RotationsEnd`.

## What is left out

In the modelled parts:

* Records and merges: texts being cleared or set to a value they had before (a field
  changed and changed back counts as unchanged, so no device's write need stand),
  records of two types (a record keeps its type), a merge that throws because of a
  missing key, and a form's own normalisation. An edit is based on the head it is
  written on; a form left open while a pull brings a newer version is a hazard
  without a property. Local queries are answered in the order they are asked in.
* Quota: the bytes a purge frees, and other pushes of the owner at the same time.
* Sharing: key links and what opens older versions by way of them; vault names apart
  from the key they are under.
* Accounts: two flows of one account meet at their requests, not inside the server's
  transactions, which lock the account's row; a connect under way on a device isn't
  interleaved with a recovery on it. The time between a swap's commit and its revocation: until
  then the other sessions are past the swap just as after a revocation that fails,
  which the model has; that the revocation then ends them after all is left out, and
  `KeysInOrder` speaks of the time after it. Revocations that end some sessions and
  then fail, an error after a revocation that was made (to the client that sent it a
  lost answer, then an arrival), the second factor between check and key read (it
  only makes that gap longer), and a rekey in flight at a crash, which is handled
  before the crash or never.
* Re-encryption: purges, pages, parking, quota, members who come and go, records that
  no key opens, rotations of vaults that aren't on the server, and requests that
  arrive after they were given up on.
* Sessions: the throttle of logins, email codes, invitation codes, nonces of device
  logins, registration, and removing a credential by itself.

Not modelled: local profiles, linking a local vault, quick unlocks; see the components
of `PROJECT.json`. Profiles that are not linked don't sync. Cryptography, parsing and
views stay out.

## Plan

1. `VaultRows`, `VaultLog`, `VaultSeq`, `RecordSync`, `FieldMerge` (done).
2. `VaultSharing`, with rotations and account deletion (done).
3. `SyncScheduler` and `OutboxPush`, with quota, moves and revoked vaults (done).
4. `AccountPassword`, `Sessions` (done).
5. Proofs of the locks, cursors, keys, owners and sessions, of the refinement of
   `VaultLog`, of the scheduler, of password changes and resets, and of what a
   re-encryption leaves (done).
6. `VaultRekey`, re-encryption after a rotation, interrupted and taken up again (done).
7. The edit form with a stale snapshot; profiles; throttles.
8. Proofs of the versions of `RecordSync`, of changes being applied once, of devices
   and server agreeing in the end and of no edit being lost (done).
9. Proofs: `ContentsStand` of `VaultRekey`; `OutboxPush` and `FieldMerge`, with their
   folds written as functions.
