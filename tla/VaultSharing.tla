---------------------------- MODULE VaultSharing ----------------------------
(***************************************************************************)
(* The members of one shared vault and its key (ADR 0001 D7).              *)
(*                                                                         *)
(* Server: the procedures of vault/sharing.ts, vault/router.ts (rotateKey, *)
(* updateMeta, delete), user/delete-account.ts and the key check of        *)
(* record/push.ts, each a transaction of a few statements that run as      *)
(* `requests` side by side.  Device: what it looks at before it sends one  *)
(* (client vaults/sharing.ts), in the Ask actions.                         *)
(*                                                                         *)
(* Postgres runs READ COMMITTED.  A statement sees what was committed when *)
(* it started; an UPDATE or DELETE of a row another transaction has written*)
(* waits and then looks at the row again, so it acts as if started then; a *)
(* row its WHERE doesn't match is passed by without waiting.  Writes show  *)
(* to others at the commit, here the last step of a request.  A lock is    *)
(* taken at the statement that takes it, except that the last statements   *)
(* of a request go with its commit when nothing can come in between that   *)
(* they or others would read.                                              *)
(***************************************************************************)
EXTENDS Naturals, FiniteSets

CONSTANTS
  User,       \* accounts
  Request,    \* how many transactions run side by side
  Given,      \* the roles members have or are given in this instance
  MaxAsked,   \* bound on what users ask for; devices' own tasks don't count
  NoUser,
  NoRequest   \* the holder of a free lock

Role == {"owner", "manage", "write", "read"}

ASSUME SharingAssumption ==
  /\ Given \subseteq Role
  /\ NoUser \notin User
  /\ NoRequest \notin Request
  /\ MaxAsked \in Nat

VARIABLES
  (* The vault's row: *)
  keyVersion,         \* its current key
  metaKey,            \* the key its metadata (the name) is encrypted under
  keyRotationNeeded,
  ownerId,
  deleted,            \* deleted_at is set, or the row is gone
  (* The vault's rows of vault_members, and the users table: *)
  member,
  gone,               \* deleted accounts
  (* Transactions: *)
  vaultLock,          \* the request that holds the vault's row lock
  rowLock,            \* the one that holds a member's row lock
  req,                \* the requests under way
  asked,
  (* History, for the properties only: *)
  knows,              \* who could have opened the current key
  stale,              \* a change of the owners was decided on a role or status
                      \* that had changed since it was read
  crossed,            \* members who accepted a key while a rotation was sealing,
                      \* or whose rotation found them removed and invited again
  lapsed              \* whose invite went with an account that wasn't active in
                      \* the vault, theirs or its sender's

vaultVars   == <<keyVersion, metaKey, keyRotationNeeded, ownerId, deleted>>
lockVars    == <<vaultLock, rowLock>>
historyVars == <<knows, stale, crossed, lapsed>>
vars == <<vaultVars, member, gone, lockVars, req, asked, historyVars>>
-------------------------------------------------------------------------------
(***************************************************************************)
(* Rows, roles and requests.                                               *)
(***************************************************************************)
NoRow == [status |-> "none"]

(* wrap: the key version of the member's own wrap; seal: the one of the key *)
(* sealed to them by `by` and not yet accepted, 0 without one.             *)
Row ==
  [role : Role, status : {"active", "pending"}, wrap : Nat, seal : Nat, by : User \cup {NoUser}]

Members == { u \in User : member[u] # NoRow }
Active == { u \in User : member[u].status = "active" }
ActiveOwners == { u \in Active : member[u].role = "owner" }

AtMostOne(S) == \A x, y \in S : x = y

Manages(role) == role \in {"owner", "manage"}

(* Faulty: managers may do with owners what they may with others.          *)
CanAssignAny(actor, role) == Manages(actor)

CanAssign(actor, role) == actor = "owner" \/ (actor = "manage" /\ role # "owner")

(* What ownMembership and requireVaultRole read of the caller.             *)
Standing(u) ==
  IF u \in Members THEN [role |-> member[u].role, status |-> member[u].status] ELSE NoRow

NoReq == [at |-> "idle"]

Deciding == {"setRole", "remove", "leave", "transfer", "decline"}

(* at: how far the request is; own: the caller's standing when it was read, *)
(* for the procedures that decide on it later; target and role: whom it is *)
(* about and the role they get; ver: the key version it names; others: whom *)
(* a rotation seals to; todo, half and sealed: how far its seal loop is.   *)
Call(op, u) ==
  [op |-> op, at |-> "begun", user |-> u, target |-> u, role |-> "read", ver |-> 0,
   own |-> IF op \in Deciding THEN Standing(u) ELSE NoRow,
   others |-> {}, todo |-> {}, half |-> NoUser, sealed |-> {}]

Init ==
  /\ keyVersion = 1
  /\ metaKey = 1
  /\ keyRotationNeeded = FALSE
  /\ deleted = FALSE
  /\ ownerId \in User
  /\ member \in [User -> {NoRow}
       \cup [role : Given, status : {"active"}, wrap : {1}, seal : {0}, by : {NoUser}]
       \cup [role : Given, status : {"pending"}, wrap : {1}, seal : {1}, by : {ownerId}]]
  /\ ownerId \in ActiveOwners
  /\ gone = {}
  /\ vaultLock = NoRequest
  /\ rowLock = [u \in User |-> NoRequest]
  /\ req = [r \in Request |-> NoReq]
  /\ asked = 0
  /\ knows = Members
  /\ stale = FALSE
  /\ crossed = {}
  /\ lapsed = {}
-------------------------------------------------------------------------------
(***************************************************************************)
(* What is asked.  The first statement of every procedure reads the        *)
(* caller's membership, before any lock.                                   *)
(***************************************************************************)
Start(r, call) ==
  /\ req[r] = NoReq
  /\ req' = [req EXCEPT ![r] = call]
  /\ UNCHANGED <<vaultVars, member, gone, lockVars, historyVars>>

ByUser(u) ==
  /\ asked < MaxAsked
  /\ asked' = asked + 1
  /\ u \notin gone

(* A device seals the key it holds, the one of the member's wrap.          *)
AskInvite(r, u, target, role) ==
  /\ ByUser(u)
  /\ ~deleted
  /\ u \in Active
  /\ Manages(member[u].role)
  /\ CanAssign(member[u].role, role)
  /\ target \notin gone \cup {u}
  /\ Start(r, [Call("invite", u) EXCEPT !.target = target, !.role = role, !.ver = member[u].wrap])

(* The invitee has seen the invitation (`invitations` leaves out senders   *)
(* without an account) and it opened, which takes the metadata as well.    *)
AskAcceptInvite(r, u) ==
  /\ ByUser(u)
  /\ ~deleted
  /\ member[u].status = "pending"
  /\ member[u].by \notin gone
  /\ metaKey = member[u].seal
  /\ Start(r, [Call("accept", u) EXCEPT !.ver = member[u].seal])

AskDecline(r, u) ==
  /\ ByUser(u)
  /\ ~deleted
  /\ member[u].status = "pending"
  /\ Start(r, Call("decline", u))

AskSetRole(r, u, target, role) ==
  /\ ByUser(u)
  /\ ~deleted
  /\ u \in Active
  /\ Manages(member[u].role)
  /\ Start(r, [Call("setRole", u) EXCEPT !.target = target, !.role = role])

AskRemove(r, u, target) ==
  /\ ByUser(u)
  /\ ~deleted
  /\ u \in Active
  /\ Manages(member[u].role)
  /\ target # u
  /\ Start(r, [Call("remove", u) EXCEPT !.target = target])

AskLeave(r, u) ==
  /\ ByUser(u)
  /\ ~deleted
  /\ u \in Active
  /\ Start(r, Call("leave", u))

AskTransfer(r, u, target) ==
  /\ ByUser(u)
  /\ ~deleted
  /\ u \in Active
  /\ member[u].role = "owner"
  /\ target # u
  /\ Start(r, [Call("transfer", u) EXCEPT !.target = target])

(* A device fetches the members, makes the next key and seals it to each.  *)
Rotation(r, u) ==
  /\ ~deleted
  /\ u \in Active
  /\ Manages(member[u].role)
  /\ Start(r, [Call("rotate", u) EXCEPT !.ver = member[u].wrap + 1, !.others = Members \ {u}])

AskRotate(r, u) == ByUser(u) /\ Rotation(r, u)

(* The name encrypted under the key the device holds.                      *)
AskRename(r, u) ==
  /\ ByUser(u)
  /\ ~deleted
  /\ u \in Active
  /\ Manages(member[u].role)
  /\ Start(r, [Call("rename", u) EXCEPT !.ver = member[u].wrap])

AskDeleteVault(r, u) ==
  /\ ByUser(u)
  /\ ~deleted
  /\ u \in Active
  /\ member[u].role = "owner"
  /\ Start(r, Call("deleteVault", u))

(* A put under the key the device holds.                                   *)
AskPush(r, u) ==
  /\ ByUser(u)
  /\ ~deleted
  /\ u \in Active
  /\ member[u].role # "read"
  /\ Start(r, [Call("push", u) EXCEPT !.ver = member[u].wrap])

(* Candidates are read before the locks: without this vault among them     *)
(* nothing is locked.  The vaults of others don't matter here.             *)
AskDeleteAccount(r, u) ==
  /\ ByUser(u)
  /\ LET candidate == ~deleted /\ (ownerId = u \/ u \in Members)
     IN  Start(r, [Call("deleteAccount", u) EXCEPT
                       !.at = IF candidate THEN "begun" ELSE "unlocked"])

(* trustedSender: an active owner or manager, whose account exists.        *)
Trusted(u) == u \in Active \ gone /\ Manages(member[u].role)

(* runSharingTasks, what a pull told it: take the newer key sealed by a    *)
(* trusted sender (keyUpdates) ...                                         *)
TaskAccept(r, u) ==
  /\ ~deleted
  /\ u \in Active
  /\ member[u].seal # 0
  /\ Trusted(member[u].by)
  /\ Start(r, [Call("accept", u) EXCEPT !.ver = member[u].seal])
  /\ UNCHANGED asked

(* ... and rotate the vault marked for it (rotationsDue).                  *)
TaskRotate(r, u) ==
  /\ keyRotationNeeded
  /\ u \in Active
  /\ member[u].wrap = keyVersion
  /\ Rotation(r, u)
  /\ UNCHANGED asked
-------------------------------------------------------------------------------
(***************************************************************************)
(* Transactions.                                                           *)
(***************************************************************************)
At(r, op, at) == req[r] # NoReq /\ req[r].op = op /\ req[r].at = at

Step(r, at) == req' = [req EXCEPT ![r].at = at]

VaultFree(r) == vaultLock \in {r, NoRequest}
RowFree(r, u) == rowLock[u] \in {r, NoRequest}

TakeRow(r, u) == rowLock' = [rowLock EXCEPT ![u] = r]

(* A request ends, committed or not: its locks go.                         *)
End(r) ==
  /\ req' = [req EXCEPT ![r] = NoReq]
  /\ vaultLock' = IF vaultLock = r THEN NoRequest ELSE vaultLock
  /\ rowLock' = [u \in User |-> IF rowLock[u] = r THEN NoRequest ELSE rowLock[u]]
  /\ UNCHANGED asked

(* Refused by a check, a lock timeout or the deadlock detector, or lost.   *)
Abort(r) ==
  /\ req[r] # NoReq
  /\ End(r)
  /\ UNCHANGED <<vaultVars, member, gone, historyVars>>

(* The procedures that lock the vault before they look any further.        *)
Locking == {"invite", "setRole", "remove", "leave", "transfer", "rotate", "push", "deleteAccount"}

LockVault(r) ==
  /\ \E op \in Locking : At(r, op, "begun")
  /\ vaultLock = NoRequest
  /\ vaultLock' = r
  /\ Step(r, "locked")
  /\ UNCHANGED <<vaultVars, member, gone, rowLock, asked, historyVars>>

(* The commit decides on what it read of its caller before the lock.       *)
NoteStanding(r) == stale' = (stale \/ Standing(req[r].user) # req[r].own)

Unmarked == UNCHANGED <<keyVersion, metaKey, keyRotationNeeded, ownerId, deleted>>

RequireRotation ==
  /\ keyRotationNeeded' = TRUE
  /\ UNCHANGED <<keyVersion, metaKey, ownerId, deleted>>

Drop(u) == member' = [member EXCEPT ![u] = NoRow]

(* Faulty: without the key check.                                          *)
CommitInviteAnyKey(r) ==
  /\ At(r, "invite", "locked")
  /\ LET t == req[r].target
     IN  /\ t \notin Members \cup gone
         /\ member' = [member EXCEPT ![t] =
              [role |-> req[r].role, status |-> "pending", wrap |-> req[r].ver,
               seal |-> req[r].ver, by |-> req[r].user]]
         /\ knows' = knows \cup {t}
         /\ lapsed' = lapsed \ {t}
  /\ End(r)
  /\ Unmarked
  /\ UNCHANGED <<gone, stale, crossed>>

CommitInvite(r) ==
  /\ At(r, "invite", "locked")
  /\ req[r].ver = keyVersion
  /\ LET t == req[r].target
     IN  /\ t \notin Members \cup gone
         /\ member' = [member EXCEPT ![t] =
              [role |-> req[r].role, status |-> "pending", wrap |-> req[r].ver,
               seal |-> req[r].ver, by |-> req[r].user]]
         /\ knows' = knows \cup {t}
         /\ lapsed' = lapsed \ {t}
  /\ End(r)
  /\ Unmarked
  /\ UNCHANGED <<gone, stale, crossed>>

(* acceptKey: one UPDATE of the caller's row, without the vault's lock.    *)
WriteAccept(r) ==
  /\ At(r, "accept", "begun")
  /\ LET u == req[r].user
     IN  /\ u \in Members
         /\ member[u].seal = req[r].ver
         /\ RowFree(r, u)
         /\ TakeRow(r, u)
  /\ Step(r, "written")
  /\ UNCHANGED <<vaultVars, member, gone, vaultLock, asked, historyVars>>

Sealing(q) == At(q, "rotate", "sealing")

CommitAccept(r) ==
  /\ At(r, "accept", "written")
  /\ LET u == req[r].user
     IN  /\ member' = [member EXCEPT ![u] =
              [@ EXCEPT !.status = "active", !.wrap = req[r].ver, !.seal = 0, !.by = NoUser]]
         /\ crossed' = IF \E q \in Request : Sealing(q) THEN crossed \cup {u} ELSE crossed
  /\ End(r)
  /\ Unmarked
  /\ UNCHANGED <<gone, knows, stale, lapsed>>

(* declineInvite: the DELETE, of whatever the row is by now, ...           *)
WriteDecline(r) ==
  /\ At(r, "decline", "begun")
  /\ RowFree(r, req[r].user)
  /\ TakeRow(r, req[r].user)
  /\ Step(r, "written")
  /\ UNCHANGED <<vaultVars, member, gone, vaultLock, asked, historyVars>>

(* Faulty: without the mark.                                               *)
CommitDeclineUnmarked(r) ==
  /\ At(r, "decline", "written")
  /\ Drop(req[r].user)
  /\ Unmarked
  /\ NoteStanding(r)
  /\ End(r)
  /\ UNCHANGED <<gone, knows, crossed, lapsed>>

(* ... then the mark, an UPDATE of the vault's row.                        *)
CommitDecline(r) ==
  /\ At(r, "decline", "written")
  /\ VaultFree(r)
  /\ Drop(req[r].user)
  /\ RequireRotation
  /\ NoteStanding(r)
  /\ End(r)
  /\ UNCHANGED <<gone, knows, crossed, lapsed>>

CommitSetRole(r) ==
  /\ At(r, "setRole", "locked")
  /\ LET t == req[r].target
     IN  /\ t \in Members
         /\ CanAssign(req[r].own.role, member[t].role)
         /\ CanAssign(req[r].own.role, req[r].role)
         /\ ~(t \in ActiveOwners /\ req[r].role # "owner" /\ AtMostOne(ActiveOwners))
         /\ RowFree(r, t)
         /\ member' = [member EXCEPT ![t].role = req[r].role]
  /\ NoteStanding(r)
  /\ End(r)
  /\ Unmarked
  /\ UNCHANGED <<gone, knows, crossed, lapsed>>

CommitRemove(r) ==
  /\ At(r, "remove", "locked")
  /\ LET t == req[r].target
     IN  /\ t \in Members
         /\ CanAssign(req[r].own.role, member[t].role)
         /\ RowFree(r, t)
         /\ Drop(t)
  /\ RequireRotation
  /\ NoteStanding(r)
  /\ End(r)
  /\ UNCHANGED <<gone, knows, crossed, lapsed>>

CommitLeave(r) ==
  /\ At(r, "leave", "locked")
  /\ ~(req[r].own.role = "owner" /\ AtMostOne(ActiveOwners))
  /\ RowFree(r, req[r].user)
  /\ Drop(req[r].user)
  /\ RequireRotation
  /\ NoteStanding(r)
  /\ End(r)
  /\ UNCHANGED <<gone, knows, crossed, lapsed>>

CommitTransfer(r) ==
  /\ At(r, "transfer", "locked")
  /\ LET u == req[r].user
         t == req[r].target
     IN  /\ t \in Active
         /\ RowFree(r, u) /\ RowFree(r, t)
         /\ member' = [v \in User |->
              IF v = t THEN [member[v] EXCEPT !.role = "owner"]
              ELSE IF v = u /\ u \in Members THEN [member[v] EXCEPT !.role = "manage"]
              ELSE member[v]]
         /\ ownerId' = t
  /\ NoteStanding(r)
  /\ End(r)
  /\ UNCHANGED <<keyVersion, metaKey, keyRotationNeeded, deleted, gone, knows, crossed, lapsed>>
-------------------------------------------------------------------------------
(***************************************************************************)
(* rotateKey.                                                              *)
(***************************************************************************)
(* Faulty: without lockVaults.                                             *)
CheckRotationUnlocked(r) ==
  /\ At(r, "rotate", "begun")
  /\ LET u == req[r].user
     IN  /\ u \in Members
         /\ member[u].wrap = req[r].ver - 1
         /\ req[r].others = Members \ {u}
         /\ keyVersion = req[r].ver - 1
         /\ ~deleted
         /\ RowFree(r, u)
         /\ TakeRow(r, u)
  /\ req' = [req EXCEPT ![r] = [@ EXCEPT !.at = "sealing", !.todo = req[r].others]]
  /\ UNCHANGED <<vaultVars, member, gone, vaultLock, asked, historyVars>>

(* The members are read and compared under the lock, then the vault's and  *)
(* the caller's rows are written.                                          *)
CheckRotation(r) ==
  /\ At(r, "rotate", "locked")
  /\ LET u == req[r].user
     IN  /\ u \in Members
         /\ member[u].wrap = req[r].ver - 1
         /\ req[r].others = Members \ {u}
         /\ keyVersion = req[r].ver - 1
         /\ ~deleted
         /\ RowFree(r, u)
         /\ TakeRow(r, u)
  /\ req' = [req EXCEPT ![r] = [@ EXCEPT !.at = "sealing", !.todo = req[r].others]]
  /\ UNCHANGED <<vaultVars, member, gone, vaultLock, asked, historyVars>>

(* The loop's body is two UPDATEs of a member's row, one for active members *)
(* and one for invitees.                                                   *)
SealActive(r) ==
  /\ Sealing(r)
  /\ req[r].half = NoUser
  /\ \E m \in req[r].todo :
       IF member[m].status = "active"
       THEN /\ RowFree(r, m)
            /\ TakeRow(r, m)
            /\ req' = [req EXCEPT ![r] = [@ EXCEPT !.half = m, !.sealed = req[r].sealed \cup {m}]]
       ELSE /\ req' = [req EXCEPT ![r].half = m]
            /\ UNCHANGED rowLock
  /\ UNCHANGED <<vaultVars, member, gone, vaultLock, asked, historyVars>>

SealPending(r) ==
  /\ Sealing(r)
  /\ req[r].half # NoUser
  /\ LET m == req[r].half
     IN  IF member[m].status = "pending"
         THEN /\ RowFree(r, m)
              /\ TakeRow(r, m)
              /\ req' = [req EXCEPT ![r] =
                   [@ EXCEPT !.half = NoUser, !.todo = req[r].todo \ {m},
                            !.sealed = req[r].sealed \cup {m}]]
         ELSE /\ req' = [req EXCEPT ![r] = [@ EXCEPT !.half = NoUser, !.todo = req[r].todo \ {m}]]
              /\ UNCHANGED rowLock
  /\ UNCHANGED <<vaultVars, member, gone, vaultLock, asked, historyVars>>

CommitRotation(r) ==
  /\ Sealing(r)
  /\ req[r].todo = {}
  /\ LET u == req[r].user
         ver == req[r].ver
     IN  /\ keyVersion' = ver
         /\ metaKey' = ver
         /\ keyRotationNeeded' = FALSE
         /\ member' = [m \in User |->
              IF m = u THEN [member[m] EXCEPT !.wrap = ver]
              ELSE IF m \in req[r].sealed
                   THEN [member[m] EXCEPT !.seal = ver, !.by = u,
                           !.wrap = IF member[m].status = "pending" THEN ver ELSE member[m].wrap]
              ELSE member[m]]
         /\ knows' = {u} \cup req[r].sealed
         /\ crossed' = (crossed \ req[r].sealed) \cup ({u} \ Active)
  /\ End(r)
  /\ UNCHANGED <<ownerId, deleted, gone, stale, lapsed>>
-------------------------------------------------------------------------------
(***************************************************************************)
(* The vault itself, records and accounts.                                 *)
(***************************************************************************)
(* updateMeta names no key version.                                        *)
CommitRename(r) ==
  /\ At(r, "rename", "begun")
  /\ VaultFree(r)
  /\ metaKey' = req[r].ver
  /\ End(r)
  /\ UNCHANGED <<keyVersion, keyRotationNeeded, ownerId, deleted, member, gone, historyVars>>

CommitDeleteVault(r) ==
  /\ At(r, "deleteVault", "begun")
  /\ VaultFree(r)
  /\ deleted' = TRUE
  /\ End(r)
  /\ UNCHANGED <<keyVersion, metaKey, keyRotationNeeded, ownerId, member, gone, historyVars>>

(* Faulty: the key is read before the lock.                                *)
CheckPutUnlocked(r) ==
  /\ At(r, "push", "begun")
  /\ req[r].ver = keyVersion
  /\ Step(r, "put")
  /\ UNCHANGED <<vaultVars, member, gone, lockVars, asked, historyVars>>

(* The put passes decideChain's key check, under the lock.  Its records    *)
(* are VaultSeq's business.                                                *)
CheckPut(r) ==
  /\ At(r, "push", "locked")
  /\ req[r].ver = keyVersion
  /\ Step(r, "put")
  /\ UNCHANGED <<vaultVars, member, gone, lockVars, asked, historyVars>>

CommitPut(r) ==
  /\ At(r, "push", "put")
  /\ End(r)
  /\ UNCHANGED <<vaultVars, member, gone, historyVars>>

(* Faulty: the account's rows are locked before the vaults.                *)
LockOwnFirst(r) ==
  /\ At(r, "deleteAccount", "begun")
  /\ RowFree(r, req[r].user)
  /\ TakeRow(r, req[r].user)
  /\ UNCHANGED <<vaultVars, member, gone, vaultLock, req, asked, historyVars>>

(* deleteAccount, under the vault's lock: its own row is locked, ...       *)
LockOwn(r) ==
  /\ \E at \in {"locked", "unlocked"} :
       /\ At(r, "deleteAccount", at)
       /\ Step(r, IF at = "locked" THEN "own" ELSE "leaving")
  /\ RowFree(r, req[r].user)
  /\ TakeRow(r, req[r].user)
  /\ UNCHANGED <<vaultVars, member, gone, vaultLock, asked, historyVars>>

(* ... the members are read: with others and no other owner it is refused; *)
(* with another owner they get the vault; with nobody else it goes.        *)
DecideAccount(r) ==
  /\ At(r, "deleteAccount", "own")
  /\ LET u == req[r].user
         shared == ~deleted /\ (ownerId = u \/ u \in Active)
         others == Active \ {u}
         owners == ActiveOwners \ {u}
     IN  /\ shared /\ others # {} => owners # {}
         /\ \E heir \in IF owners = {} THEN {u} ELSE owners :
              req' = [req EXCEPT ![r] = [@ EXCEPT
                !.target = heir,
                !.at = IF ~shared THEN "leaving" ELSE IF owners = {} THEN "dropping" ELSE "handing"]]
  /\ UNCHANGED <<vaultVars, member, gone, lockVars, asked, historyVars>>

Heir(r) == IF req[r].at = "handing" /\ ownerId = req[r].user THEN req[r].target ELSE ownerId

(* The account goes, and what hangs on it: its memberships and the vaults  *)
(* it is recorded as owner of (ON DELETE CASCADE), after its open invites. *)
CommitDeleteAccount(r) ==
  /\ \E at \in {"leaving", "handing", "dropping"} : At(r, "deleteAccount", at)
  /\ LET u == req[r].user
         handing == req[r].at = "handing"
         drops == req[r].at = "dropping" \/ Heir(r) = u
         rows == IF drops THEN Members
                 ELSE { m \in Members : m = u \/ (member[m].status = "pending" /\ member[m].by = u) }
     IN  /\ drops => VaultFree(r)
         /\ \A m \in rows : RowFree(r, m)
         /\ member' = [m \in User |-> IF m \in rows THEN NoRow ELSE member[m]]
         /\ ownerId' = Heir(r)
         /\ deleted' = (deleted \/ drops)
         /\ keyRotationNeeded' = (keyRotationNeeded \/ (handing /\ u \in Active))
         /\ gone' = gone \cup {u}
         /\ stale' = (stale \/ (rowLock[u] = r /\ vaultLock # r /\ (u \in Members \/ ownerId = u)))
         /\ lapsed' = IF u \in Active THEN lapsed ELSE lapsed \cup rows
  /\ End(r)
  /\ UNCHANGED <<keyVersion, metaKey, knows, crossed>>
-------------------------------------------------------------------------------
Ask(r) ==
  \E u \in User :
    \/ AskAcceptInvite(r, u) \/ AskDecline(r, u) \/ AskLeave(r, u) \/ AskRotate(r, u)
    \/ AskRename(r, u) \/ AskDeleteVault(r, u) \/ AskPush(r, u) \/ AskDeleteAccount(r, u)
    \/ \E t \in User : AskRemove(r, u, t) \/ AskTransfer(r, u, t)
    \/ \E t \in User, role \in Given : AskInvite(r, u, t, role) \/ AskSetRole(r, u, t, role)

Task(r) == \E u \in User : TaskAccept(r, u) \/ TaskRotate(r, u)

(* A statement or the commit of a request under way.                       *)
Statement(r) ==
  \/ LockVault(r) \/ CommitInvite(r) \/ WriteAccept(r) \/ CommitAccept(r)
  \/ WriteDecline(r) \/ CommitDecline(r) \/ CommitSetRole(r) \/ CommitRemove(r)
  \/ CommitLeave(r) \/ CommitTransfer(r) \/ CheckRotation(r) \/ SealActive(r)
  \/ SealPending(r) \/ CommitRotation(r) \/ CommitRename(r) \/ CommitDeleteVault(r)
  \/ CheckPut(r) \/ CommitPut(r) \/ LockOwn(r) \/ DecideAccount(r) \/ CommitDeleteAccount(r)

Next == \E r \in Request : Ask(r) \/ Task(r) \/ Statement(r) \/ Abort(r)

Spec == Init /\ [][Next]_vars
-------------------------------------------------------------------------------
(***************************************************************************)
(* Properties.                                                             *)
(***************************************************************************)
CallType ==
  [op : Locking \cup {"accept", "decline", "rename", "deleteVault"},
   at : {"begun", "locked", "unlocked", "written", "sealing", "put", "own", "leaving", "handing",
         "dropping"},
   user : User, target : User, role : Role, ver : Nat,
   own : [role : Role, status : {"active", "pending"}] \cup {NoRow},
   others : SUBSET User, todo : SUBSET User, half : User \cup {NoUser}, sealed : SUBSET User]

(* Every variable has its type.                                            *)
TypeOK ==
  /\ keyVersion \in Nat \ {0}
  /\ metaKey \in Nat
  /\ keyRotationNeeded \in BOOLEAN
  /\ ownerId \in User
  /\ deleted \in BOOLEAN
  /\ member \in [User -> Row \cup {NoRow}]
  /\ gone \subseteq User
  /\ vaultLock \in Request \cup {NoRequest}
  /\ rowLock \in [User -> Request \cup {NoRequest}]
  /\ req \in [Request -> CallType \cup {NoReq}]
  /\ asked \in Nat
  /\ knows \subseteq User
  /\ stale \in BOOLEAN
  /\ crossed \subseteq User
  /\ lapsed \subseteq User

(* From a rotation's commit on, record.push takes puts under the new key   *)
(* only (router.ts, rotateKey), whatever key the device sealed them under  *)
(* and however long the push had waited.                                   *)
PutsUnderCurrentKey ==
  \A r \in Request : At(r, "push", "put") => req[r].ver = keyVersion

(* A rotation seals to exactly those who are members when it commits, not  *)
(* only to those who were when its list was compared (router.ts,           *)
(* memberKeys): nobody joins or goes under the vault's lock.  An invitee   *)
(* whose inviter deletes their account is set apart: that DELETE takes no  *)
(* lock of a vault the inviter has left.                                   *)
SealsToTheMembers ==
  \A r \in Request : Sealing(r) =>
    /\ Members \ {req[r].user} \subseteq req[r].others
    /\ \A m \in req[r].others \ Members : gone # {}

(* Calls stay in their states, and rotations seal to the members           *)
(* (router.ts, rotateKey).                                                 *)
RotationsSound == TypeOK /\ SealsToTheMembers

(* Whoever could have opened the current key and isn't a member any more   *)
(* left a mark: the vault waits for a rotation (sharing.ts, "whoever       *)
(* leaves or is removed still knows the current key").  Set apart are the  *)
(* invites that go with the account of an invitee: deleteAccount marks the *)
(* vaults the account is active in.                                        *)
ExMembersMark ==
  ~deleted /\ ~stale => keyRotationNeeded \/ knows \subseteq Members \cup lapsed

(* Every member has, or is sealed, the vault's current key, unless they    *)
(* accepted a key while a rotation was sealing the next one, or were       *)
(* removed and invited again while they rotated.                           *)
MembersReachTheKey ==
  \A u \in Members \ crossed :
    \/ member[u].seal = keyVersion
    \/ member[u].status = "active" /\ member[u].wrap = keyVersion

(* The same without the exception (router.ts, rotateKey: "the new key      *)
(* sealed to every other member and invitee").                             *)
EveryMemberReachesTheKey ==
  \A u \in Members :
    \/ member[u].seal = keyVersion
    \/ member[u].status = "active" /\ member[u].wrap = keyVersion

(* A vault keeps an active owner, whoever leaves, is removed, demoted or   *)
(* deletes their account at the same time, as long as nobody's role        *)
(* changed under a request that changes the owners.                        *)
OwnerStaysUnlessStale == ~deleted /\ ~stale => ActiveOwners # {}

(* ADR 0001 D6: "Every vault has at least one owner."                      *)
EveryVaultHasAnOwner == ~deleted => ActiveOwners # {}

(* The metadata opens with the vault's current key (ADR 0001 D3: "vault    *)
(* metadata of v" under vaultKey[v]).                                      *)
MetaUnderCurrentKey == metaKey = keyVersion

(* Someone can rotate the vault: an owner or manager who holds its current *)
(* key, or whose device will take it from its sender.                      *)
SomeoneCanRotate ==
  ~deleted /\ ~stale => \E u \in Active :
    /\ Manages(member[u].role)
    /\ \/ member[u].wrap = keyVersion
       \/ member[u].seal = keyVersion /\ Trusted(member[u].by)

(* The rows a request's next statement may have to wait for.               *)
RowsNext(r) ==
  LET q == req[r]
  IN  IF q = NoReq THEN {}
      ELSE CASE q.op \in {"accept", "decline"} -> IF q.at = "begun" THEN {q.user} ELSE {}
             [] q.op \in {"setRole", "remove"} /\ q.at = "locked" -> {q.target}
             [] q.op \in {"leave", "rotate"} /\ q.at = "locked" -> {q.user}
             [] q.op = "transfer" /\ q.at = "locked" -> {q.user, q.target}
             [] q.at = "sealing" -> IF q.half = NoUser THEN q.todo ELSE {q.half}
             [] q.op = "deleteAccount" /\ q.at # "begun" -> Members
             [] OTHER -> {}

VaultNext(r) ==
  \/ \E op \in Locking \cup {"rename", "deleteVault"} : At(r, op, "begun")
  \/ At(r, "decline", "written")

WaitsFor(r, q) ==
  /\ r # q
  /\ \/ VaultNext(r) /\ vaultLock = q
     \/ \E u \in RowsNext(r) : rowLock[u] = q

(* Requests that wait for each other in a circle need a declineInvite, or  *)
(* an account deletion that found no vault to lock: all others take the    *)
(* vault's lock first, or one row only (delete-account.ts, "the order      *)
(* removeMember takes").                                                   *)
InOrder(r) == ~(\E at \in {"begun", "written"} : At(r, "decline", at)) /\ ~(
  \E at \in {"unlocked", "leaving"} : At(r, "deleteAccount", at) /\ vaultLock # r)

NoCircleInOrder ==
  \A S \in (SUBSET { r \in Request : InOrder(r) }) \ {{}} :
    \E r \in S : \A q \in S : ~WaitsFor(r, q)
===============================================================================
