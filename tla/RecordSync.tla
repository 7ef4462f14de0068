------------------------------ MODULE RecordSync ------------------------------
(***************************************************************************)
(* Offline-first records of one shared vault: local writes that wait in an *)
(* outbox, the push that appends them on the server by compare-and-swap,   *)
(* the pull that brings the other devices' versions and moves (and merges) *)
(* what still waits, and the purge that deletes a record for good          *)
(* (ADR 0001 D5, D8).                                                      *)
(*                                                                         *)
(* Server: record/push.ts pushChanges and record/router.ts sync, each one  *)
(* step here (VaultSeq shows a push to be atomic and a page to be a prefix *)
(* of the vault's log).  Device: store schema/outbox-schema.ts and         *)
(* vault.ts, every transaction one step, and the round of                  *)
(* sync-manager.ts: push, pull page by page, push again.  Users write      *)
(* between any two steps, an answer or a request may be lost, the app      *)
(* closed, and a request given up on may still reach the server.           *)
(*                                                                         *)
(* A version's content is the set of the edits it reflects: each edit      *)
(* changes a field of its own, so that a merge loses none of them.  Which  *)
(* side wins a field both sides changed is left out, as are keys,          *)
(* encryption and access.                                                  *)
(***************************************************************************)
EXTENDS Integers, FiniteSets, Functions

CONSTANTS
  Record,        \* record ids
  Device,
  PageLimit,     \* the most rows of a page (MAX_SYNC_RECORDS)
  MaxChanges,    \* bound on the users' writes
  MaxRefusals,   \* bound on the chains the server refuses (quota)
  MaxBreaks,     \* bound on the rounds that break off
  MaxLate,       \* bound on the requests that arrive after being given up
  MaxFaults      \* bound on the three together

ASSUME RecordSyncAssumption ==
  /\ PageLimit \in Nat \ {0}
  /\ {MaxChanges, MaxRefusals, MaxBreaks, MaxLate, MaxFaults} \subseteq Nat

VARIABLES
  log,        \* server, records: the vault's rows
  lastSeq,    \* server, vaults.lastSeq
  store,      \* device, records: versions, synced or pending
  outbox,     \* device, outbox: the pending changes, numbered in write order
  cursor,     \* device, sync_meta: the pull cursor
  round,      \* device, the sync round under way
  late,       \* requests given up on that may still arrive
  nextId,     \* the next change id, which is also the edit's name
  spent,      \* how much went wrong so far
  created,    \* history: records ever created
  accepted,   \* history: changes the server ever appended
  belated     \* history: records a push given up on was appended to after all

serverVars == <<log, lastSeq, accepted, belated>>
deviceVars == <<store, outbox>>
vars == <<serverVars, deviceVars, cursor, round, late, nextId, spent, created>>

Idle == [at |-> "idle"]

Init ==
  /\ log = {}
  /\ lastSeq = 0
  /\ store = [d \in Device |-> {}]
  /\ outbox = [d \in Device |-> {}]
  /\ cursor = [d \in Device |-> 0]
  /\ round = [d \in Device |-> Idle]
  /\ late = {}
  /\ nextId = 1
  /\ spent = [refused |-> 0, broken |-> 0, late |-> 0]
  /\ created = {}
  /\ accepted = {}
  /\ belated = {}

Faults == spent.refused + spent.broken + spent.late
-------------------------------------------------------------------------------
(***************************************************************************)
(* Versions.  A version is a `put` (with content), a `deleted` tombstone   *)
(* (which keeps the content it deleted) or a `purged` one (without).       *)
(***************************************************************************)
Kind == {"put", "deleted", "purged"}

Of(rows, r) == { x \in rows : x.rec = r }

Highest(rows) == CHOOSE x \in rows : \A y \in rows : y.ver <= x.ver

(* The newest version of a record, where there is one.                     *)
HeadOf(rows, r) == Highest(Of(rows, r))

Pending(rows) == { x \in rows : ~x.synced }
Synced(rows) == { x \in rows : x.synced }

(* The rows below a purged tombstone of the same record.                   *)
BelowPurge(rows) ==
  { x \in rows : \E p \in rows : p.kind = "purged" /\ p.rec = x.rec /\ x.ver < p.ver }

LocalRow(r, ver, kind, edits, synced) ==
  [rec |-> r, ver |-> ver, kind |-> kind, edits |-> edits, synced |-> synced]
-------------------------------------------------------------------------------
(***************************************************************************)
(* The device's store.  A helper takes what a transaction works on, the    *)
(* device's rows, its outbox and the next change id, and returns it.       *)
(***************************************************************************)
Device0(d) == [rows |-> store[d], queue |-> outbox[d], id |-> nextId]

Keep(d, dev) ==
  \E new \in {dev} :  \* evaluates dev once
    /\ store' = [store EXCEPT ![d] = new.rows]
    /\ outbox' = [outbox EXCEPT ![d] = new.queue]
    /\ nextId' = new.id

(* A pending version and its outbox entry.                                 *)
InsertPending(dev, r, ver, kind, edits) ==
  [rows  |-> dev.rows \cup {LocalRow(r, ver, kind, edits, FALSE)},
   queue |-> dev.queue \cup {[id |-> dev.id, rec |-> r, ver |-> ver, parked |-> FALSE]},
   id    |-> dev.id + 1]

(* Every version and unsent change goes; a purged tombstone comes on top   *)
(* of the last synced version, else of the newest unsent one.              *)
PurgeRecord(dev, r) ==
  LET mine == Of(dev.rows, r)
      below == IF Synced(mine) # {} THEN Highest(Synced(mine)) ELSE Highest(mine)
      rest == [rows |-> dev.rows \ mine, queue |-> dev.queue \ Of(dev.queue, r), id |-> dev.id]
  IN  InsertPending(rest, r, below.ver + 1, "purged", {})

(* Server rows replace the local version of the same number.               *)
Upsert(rows, new) ==
  { x \in rows : \A y \in new : y.rec # x.rec \/ y.ver # x.ver } \cup new

AsSynced(row) == LocalRow(row.rec, row.ver, row.kind, row.edits, TRUE)

(* The server stored a change: its entry goes, its row is the server's     *)
(* copy, or just counts as synced when there is none.  A change that is no *)
(* longer waiting (purged meanwhile) is left alone.                        *)
AckPending(dev, id, serverRows) ==
  LET entries == { e \in dev.queue : e.id = id }
      at == { x \in dev.rows : \E e \in entries : x.rec = e.rec /\ x.ver = e.ver }
  IN  IF entries = {} THEN dev
      ELSE [rows  |-> IF serverRows = {}
                      THEN (dev.rows \ at) \cup { AsSynced(x) : x \in at }
                      ELSE Upsert(dev.rows \ at, { AsSynced(row) : row \in serverRows }),
            queue |-> dev.queue \ entries,
            id    |-> dev.id]

Park(dev, id) ==
  [dev EXCEPT !.queue = { IF e.id = id THEN [e EXCEPT !.parked = TRUE] ELSE e : e \in @ }]

(* dropDeletesOfPurged: a chain that ends in a delete goes when the newest *)
(* pulled version of its record is a purge.                                *)
DropDeletesOfPurged(dev, pulled) ==
  LET Gone(r) ==
        /\ Of(pulled, r) # {} /\ HeadOf(pulled, r).kind = "purged"
        /\ Of(dev.rows, r) # {} /\ ~HeadOf(dev.rows, r).synced /\ HeadOf(dev.rows, r).kind # "put"
        /\ \A x \in Synced(Of(dev.rows, r)) : x.ver <= HeadOf(pulled, r).ver
  IN  [rows  |-> { x \in dev.rows : x.synced \/ ~Gone(x.rec) },
       queue |-> { e \in dev.queue : ~Gone(e.rec) },
       id    |-> dev.id]

(* Faulty: the local side overwrites the remote one.                       *)
MergeLocal(base, local, remote) == local

(* Three-way merge of contents.                                            *)
Merge(base, local, remote) == (local \cap remote) \cup (local \ base) \cup (remote \ base)

(* rebasePendingVersions.  A record's chain, where it starts, and the      *)
(* pulled versions it collides with.                                       *)
Chain(dev, r) == Pending(Of(dev.rows, r))
Start(dev, r) == CHOOSE n \in { x.ver : x \in Chain(dev, r) } : \A x \in Chain(dev, r) : n <= x.ver
Remote(dev, r, pulled) == { x \in Of(pulled, r) : Chain(dev, r) # {} /\ x.ver >= Start(dev, r) }

(* Faulty: nothing moves.                                                  *)
ShiftNothing(dev, r, pulled) == 0

(* How far the chain moves up: above the newest of them.                   *)
Shift(dev, r, pulled) ==
  IF Remote(dev, r, pulled) = {} THEN 0
  ELSE Highest(Remote(dev, r, pulled)).ver + 1 - Start(dev, r)

Moved(dev, pulled) ==
  [rows  |-> Synced(dev.rows) \cup
               { [x EXCEPT !.ver = @ + Shift(dev, x.rec, pulled)] : x \in Pending(dev.rows) },
   queue |-> { [e EXCEPT !.ver = @ + Shift(dev, e.rec, pulled)] : e \in dev.queue },
   id    |-> dev.id]

(* The merge of a chain with what it collided with, where the version they *)
(* both build on is here.                                                  *)
Bases(dev, r, pulled) ==
  { x \in Of(dev.rows, r) \cup Of(pulled, r) : x.ver = Start(dev, r) - 1 }

Merged(dev, r, pulled) ==
  Merge((CHOOSE x \in Bases(dev, r, pulled) : TRUE).edits,
        Highest(Chain(dev, r)).edits, Highest(Remote(dev, r, pulled)).edits)

(* It is appended unless a purge is involved or it says no more than the   *)
(* chain's head (resolveRecordConflict).                                   *)
Merges(dev, r, pulled) ==
  LET mine == Highest(Chain(dev, r)) IN
  /\ Remote(dev, r, pulled) # {} /\ Bases(dev, r, pulled) # {}
  /\ \A x \in Bases(dev, r, pulled) \cup Chain(dev, r) \cup Remote(dev, r, pulled) : x.kind # "purged"
  /\ IF mine.kind = "put" THEN Merged(dev, r, pulled) # mine.edits
     ELSE Highest(Remote(dev, r, pulled)).kind = "put"

MergedRecords(dev, pulled) == { r \in Record : Merges(dev, r, pulled) }

(* The merges are written record by record, in the order of their ids,     *)
(* which are random: `ids` is the order.                                   *)
Rebased(dev, pulled, ids) ==
  LET moved == Moved(dev, pulled)
      merges == MergedRecords(dev, pulled)
      Version(r) == Highest(Chain(moved, r)).ver + 1
  IN  [rows  |-> moved.rows \cup
                   { LocalRow(r, Version(r), "put", Merged(dev, r, pulled), FALSE) : r \in merges },
       queue |-> moved.queue \cup
                   { [id |-> ids[r], rec |-> r, ver |-> Version(r), parked |-> FALSE] : r \in merges },
       id    |-> dev.id + Cardinality(merges)]

MergedBy(dev, page) ==
  LET pulled == { AsSynced(row) : row \in page }
  IN  MergedRecords(DropDeletesOfPurged(dev, pulled), pulled)

(* What applySync has written before it drops purged history.              *)
Written(dev, page, ids) ==
  LET pulled == { AsSynced(row) : row \in page }
      rebased == Rebased(DropDeletesOfPurged(dev, pulled), pulled, ids)
  IN  [rebased EXCEPT !.rows = Upsert(@, pulled)]

(* Faulty: without the store's dropPurgedHistory.                          *)
ApplyRowsKeepsHistory(dev, page, ids) == Written(dev, page, ids)

(* applySync of one page.                                                  *)
ApplyRows(dev, page, ids) ==
  LET written == Written(dev, page, ids)
  IN  [written EXCEPT !.rows =
         @ \ { x \in Synced(BelowPurge(@)) : \E row \in page : row.rec = x.rec }]
-------------------------------------------------------------------------------
(***************************************************************************)
(* What users do.                                                          *)
(***************************************************************************)
MayWrite == nextId <= MaxChanges

UserWrite(d, dev) ==
  /\ Keep(d, dev)
  /\ UNCHANGED <<serverVars, cursor, round, late, spent>>

Create(d, r) ==
  /\ MayWrite
  /\ r \notin created
  /\ created' = created \cup {r}
  /\ UserWrite(d, InsertPending(Device0(d), r, 1, "put", {nextId}))

Present(d, r) == Of(store[d], r) # {}

(* An edit, or a restore: a tombstone is no obstacle.                      *)
Update(d, r) ==
  /\ MayWrite /\ Present(d, r)
  /\ LET head == HeadOf(store[d], r)
     IN  UserWrite(d, InsertPending(Device0(d), r, head.ver + 1, "put", head.edits \cup {nextId}))
  /\ UNCHANGED created

Delete(d, r) ==
  /\ MayWrite /\ Present(d, r)
  /\ LET head == HeadOf(store[d], r)
     IN  /\ head.kind = "put"
         /\ UserWrite(d, InsertPending(Device0(d), r, head.ver + 1, "deleted", head.edits))
  /\ UNCHANGED created

Purge(d, r) ==
  /\ MayWrite /\ Present(d, r)
  /\ HeadOf(store[d], r).kind # "purged"
  /\ UserWrite(d, PurgeRecord(Device0(d), r))
  /\ UNCHANGED created

RetryParked(d) ==
  /\ \E e \in outbox[d] : e.parked
  /\ outbox' = [outbox EXCEPT ![d] = { [e EXCEPT !.parked = FALSE] : e \in @ }]
  /\ UNCHANGED <<serverVars, store, cursor, round, late, nextId, spent, created>>
-------------------------------------------------------------------------------
(***************************************************************************)
(* pushChanges on the server.                                              *)
(***************************************************************************)
(* Faulty: every change counts as new.                                     *)
IsNeverStored(rows, c) == FALSE

IsStored(rows, c) == \E x \in rows : x.rec = c.rec /\ x.id = c.id

ServerHead(rows, r) ==
  IF Of(rows, r) = {} THEN [ver |-> 0, kind |-> "put", edits |-> {}] ELSE HeadOf(rows, r)

(* A batch's changes of a record the server doesn't have yet.              *)
Fresh(batch, r) == { c \in Of(batch, r) : ~IsStored(log, c) }

First(changes) == CHOOSE c \in changes : \A e \in changes : c.id <= e.id
Last(changes) == CHOOSE c \in changes : \A e \in changes : e.id <= c.id

(* Why a chain's new change can't apply, were the ones before it appended  *)
(* on top of version `ver`.                                                *)
Failure(fresh, c, ver) ==
  LET head == ver + Cardinality({ e \in fresh : e.id < c.id })
  IN  IF head = 0
      THEN IF c.kind # "put" \/ c.base # 0 THEN "not_found" ELSE "none"
      ELSE IF c.base # head THEN "stale" ELSE "none"

(* All of a chain's new changes get the first failure among them; the      *)
(* quota is looked at last.                                                *)
ChainFailure(fresh, r, refused) ==
  LET ver == ServerHead(log, r).ver
      failing == { c \in fresh : Failure(fresh, c, ver) # "none" }
  IN  CASE failing # {} -> Failure(fresh, First(failing), ver)
        [] failing = {} /\ r \in refused -> "refused"
        [] OTHER -> "none"

(* A chain's change as the version on top of the ones before it.  What it  *)
(* comes from is the last change that is no delete, or the head: what is   *)
(* purged stays so whatever tombstone comes on top, and a tombstone keeps  *)
(* the content below it.                                                   *)
NextVersion(fresh, c, seq) ==
  LET head == ServerHead(log, c.rec)
      written == { e \in fresh : e.id <= c.id /\ e.kind # "deleted" }
      origin == IF written = {} THEN head ELSE Last(written)
      kind == IF origin.kind = "purged" THEN "purged" ELSE c.kind
  IN  [seq |-> seq, rec |-> c.rec, kind |-> kind, id |-> c.id,
       ver |-> head.ver + Cardinality({ e \in fresh : e.id <= c.id }),
       edits |-> IF kind = "purged" THEN {} ELSE origin.edits]

(* Chains are taken in the order of their first changes.                   *)
UpToChange(batch, changes, c) ==
  LET Turn(e) == First(Of(batch, e.rec)).id
  IN  { e \in changes : Turn(e) < Turn(c) \/ (e.rec = c.rec /\ e.id <= c.id) }

(* Each record's changes are decided as a whole, the new versions appended *)
(* on the head and the history below a purge dropped.  What is stored      *)
(* already answers as applied whatever becomes of the rest.                *)
PushChanges(batch, refused) ==
  LET failure == [r \in { c.rec : c \in batch } |-> ChainFailure(Fresh(batch, r), r, refused)]
      new == { c \in batch : ~IsStored(log, c) /\ failure[c.rec] = "none" }
      Seq(c) == lastSeq + Cardinality(UpToChange(batch, new, c))
      all == log \cup { NextVersion(Fresh(batch, c.rec), c, Seq(c)) : c \in new }
      Answer(c) ==
        IF c \in new \/ IsStored(log, c)
        THEN [status |-> "applied", row |-> CHOOSE x \in all : x.rec = c.rec /\ x.id = c.id]
        ELSE [status |-> failure[c.rec], head |-> ServerHead(log, c.rec).ver]
  IN  [log     |-> all \ BelowPurge(all),
       seq     |-> lastSeq + Cardinality(new),
       results |-> [id \in { c.id : c \in batch } |-> Answer(CHOOSE c \in batch : c.id = id)]]

(* The chains the quota may refuse: they have a put.                       *)
Refusable(batch) ==
  { refused \in SUBSET { c.rec : c \in { c \in batch : c.kind = "put" } } :
      /\ spent.refused + Cardinality(refused) <= MaxRefusals
      /\ Faults + Cardinality(refused) <= MaxFaults }

(* The server takes a batch.                                               *)
Serve(batch, refused, outcome) ==
  /\ spent' = [spent EXCEPT !.refused = @ + Cardinality(refused)]
  /\ outcome = PushChanges(batch, refused)
  /\ log' = outcome.log
  /\ lastSeq' = outcome.seq
  /\ accepted' = accepted \cup { id \in DOMAIN outcome.results : outcome.results[id].status = "applied" }
-------------------------------------------------------------------------------
(***************************************************************************)
(* A sync round.                                                           *)
(***************************************************************************)
(* toPushChange: a pending version builds on the version below it.         *)
ToPushChange(d, e) ==
  LET x == CHOOSE x \in store[d] : x.rec = e.rec /\ x.ver = e.ver
  IN  [id |-> e.id, rec |-> e.rec, kind |-> x.kind, base |-> x.ver - 1, edits |-> x.edits]

(* The outbox but the records with a parked change.                        *)
Sendable(d) ==
  { ToPushChange(d, e) : e \in { e \in outbox[d] : \A f \in Of(outbox[d], e.rec) : ~f.parked } }

Go(d, next) == round' = [round EXCEPT ![d] = next]

(* What follows the pushes: the pull, or the end after the second one.     *)
AfterPush(repush, again) ==
  IF repush THEN Idle ELSE [at |-> "ask", again |-> again]

(* pushOutbox: at the start of a round, and again after a pull when the    *)
(* first push left changes unapplied.                                      *)
Send(d) ==
  /\ round[d].at \in {"idle", "repush"}
  /\ LET repush == round[d].at = "repush"
         batch  == Sendable(d)
     IN  Go(d, IF batch = {} THEN AfterPush(repush, FALSE)
               ELSE [at |-> "sent", batch |-> batch, repush |-> repush])
  /\ UNCHANGED <<serverVars, deviceVars, cursor, late, nextId, spent, created>>

HandlePush(d) ==
  /\ round[d].at = "sent"
  /\ LET b == round[d].batch
     IN  \E refused \in Refusable(b) :
           \E outcome \in {PushChanges(b, refused)} :
             /\ Serve(b, refused, outcome)
             /\ Go(d, [at |-> "answered", batch |-> b, results |-> outcome.results,
                       again |-> FALSE, repush |-> round[d].repush])
  /\ UNCHANGED <<deviceVars, cursor, late, nextId, created, belated>>

(* pushBatch takes the results one by one, each its own transaction.       *)
TakeResultOf(d, c) ==
  /\ LET r == round[d]
         result == r.results[c.id]
         done == \/ result.status = "applied"
                 \/ result.status = "not_found" /\ c.kind = "purged"
         dev == CASE result.status = "applied" -> AckPending(Device0(d), c.id, {result.row})
                  [] done /\ result.status # "applied" -> AckPending(Device0(d), c.id, {})
                  [] result.status = "stale" -> Device0(d)
                  [] OTHER -> Park(Device0(d), c.id)
         again == r.again \/ ~done
     IN  /\ Keep(d, dev)
         /\ Go(d, IF r.batch = {c} THEN AfterPush(r.repush, again)
                  ELSE [at |-> "answered", batch |-> r.batch \ {c}, results |-> r.results,
                        again |-> again, repush |-> r.repush])
  /\ UNCHANGED <<serverVars, cursor, late, spent, created>>

(* Faulty: the last result first.                                          *)
TakeLastResult(d) == round[d].at = "answered" /\ TakeResultOf(d, Last(round[d].batch))

TakeResult(d) == round[d].at = "answered" /\ TakeResultOf(d, First(round[d].batch))

(* record.sync: the next rows past the cursor, in seq order.               *)
ReadPage(d) ==
  /\ round[d].at = "ask"
  /\ LET past == { x \in log : x.seq > cursor[d] }
         page == { x \in past : Cardinality({ y \in past : y.seq <= x.seq }) <= PageLimit }
     IN  Go(d, [at |-> "page", page |-> page, more |-> page # past, again |-> round[d].again])
  /\ UNCHANGED <<serverVars, deviceVars, cursor, late, nextId, spent, created>>

Newest(seqs) == CHOOSE n \in seqs : \A m \in seqs : m <= n

ApplyPage(d) ==
  /\ round[d].at = "page"
  /\ LET r == round[d]
         dev == Device0(d)
         merged == MergedBy(dev, r.page)
     IN  /\ \E ids \in Bijection(merged, nextId..(nextId + Cardinality(merged) - 1)) :
              Keep(d, ApplyRows(dev, r.page, ids))
         /\ cursor' = [cursor EXCEPT ![d] = Newest({@} \cup { x.seq : x \in r.page })]
         /\ Go(d, CASE r.more -> [at |-> "ask", again |-> r.again]
                    [] ~r.more /\ r.again -> [at |-> "repush"]
                    [] OTHER -> Idle)
  /\ UNCHANGED <<serverVars, late, spent, created>>

(* The round ends early: a request or an answer lost, the app closed.      *)
Break(d) ==
  /\ round[d].at # "idle"
  /\ spent.broken < MaxBreaks /\ Faults < MaxFaults
  /\ spent' = [spent EXCEPT !.broken = @ + 1]
  /\ Go(d, Idle)
  /\ UNCHANGED <<serverVars, deviceVars, cursor, late, nextId, created>>

(* A push the device gave up on that is still on its way ...               *)
GiveUp(d) ==
  /\ round[d].at = "sent"
  /\ spent.late < MaxLate /\ Faults < MaxFaults
  /\ spent' = [spent EXCEPT !.late = @ + 1]
  /\ late' = late \cup {round[d].batch}
  /\ Go(d, Idle)
  /\ UNCHANGED <<serverVars, deviceVars, cursor, nextId, created>>

(* ... and arrives.  Nobody takes its answer.                              *)
ArriveLate(batch) ==
  /\ late' = late \ {batch}
  /\ \E refused \in Refusable(batch) : Serve(batch, refused, PushChanges(batch, refused))
  /\ belated' = belated \cup { x.rec : x \in log' \ log }
  /\ UNCHANGED <<deviceVars, cursor, round, nextId, created>>
-------------------------------------------------------------------------------
UserNext(d) ==
  \/ \E r \in Record : Create(d, r) \/ Update(d, r) \/ Delete(d, r) \/ Purge(d, r)
  \/ RetryParked(d)

RoundNext(d) ==
  Send(d) \/ HandlePush(d) \/ TakeResult(d) \/ ReadPage(d) \/ ApplyPage(d)

Next ==
  \/ \E d \in Device : UserNext(d) \/ RoundNext(d) \/ Break(d) \/ GiveUp(d)
  \/ \E batch \in late : ArriveLate(batch)

Spec == Init /\ [][Next]_vars

(* A device that can go on with its round, or start one, does: on a timer, *)
(* on a ping of the server, after a write and after a failure.             *)
FairSpec == Spec /\ \A d \in Device : WF_vars(RoundNext(d))
-------------------------------------------------------------------------------
(***************************************************************************)
(* Properties.                                                             *)
(***************************************************************************)
ServerRow ==
  [seq : Nat \ {0}, rec : Record, ver : Nat \ {0}, id : Nat \ {0}, kind : Kind, edits : SUBSET Nat]

StoreRow == [rec : Record, ver : Nat \ {0}, kind : Kind, edits : SUBSET Nat, synced : BOOLEAN]

Entry == [id : Nat \ {0}, rec : Record, ver : Nat \ {0}, parked : BOOLEAN]

PushChange == [id : Nat \ {0}, rec : Record, kind : Kind, base : Nat, edits : SUBSET Nat]

TypeOK ==
  /\ log \subseteq ServerRow
  /\ lastSeq \in Nat
  /\ \A d \in Device :
       /\ store[d] \subseteq StoreRow
       /\ outbox[d] \subseteq Entry
       /\ cursor[d] \in 0..lastSeq
       /\ round[d].at \in {"idle", "sent", "answered", "ask", "page", "repush"}
  /\ \A batch \in late : batch \subseteq PushChange
  /\ nextId \in Nat \ {0}
  /\ spent \in [refused : 0..MaxRefusals, broken : 0..MaxBreaks, late : 0..MaxLate]
  /\ created \subseteq Record
  /\ accepted \subseteq 1..(nextId - 1)
  /\ belated \subseteq Record

(* Pending versions sit above the synced ones: what rebasePendingVersions  *)
(* relies on (outbox-schema.ts: "only pulled rows can collide").           *)
PendingAboveSynced ==
  \A d \in Device : \A x \in Pending(store[d]), y \in Synced(store[d]) :
    x.rec = y.rec => y.ver < x.ver

(* The outbox names the pending versions, each once, in the order of their *)
(* versions: a push sends exactly what waits, oldest first.                *)
OutboxNamesPending ==
  \A d \in Device :
    /\ \A e, f \in outbox[d] :
         /\ e.id = f.id => e = f
         /\ e.rec = f.rec /\ e.id < f.id => e.ver < f.ver
    /\ { <<e.rec, e.ver>> : e \in outbox[d] } = { <<x.rec, x.ver>> : x \in Pending(store[d]) }
    /\ \A x, y \in store[d] : x.rec = y.rec /\ x.ver = y.ver => x = y

(* Versions of a record on the server are numbered without a gap from 1,   *)
(* or from the purge that dropped the ones below, in seq order.            *)
ServerNumbering ==
  \A x \in log :
    /\ \A y \in log : x # y => x.seq # y.seq /\ (x.rec = y.rec => x.id # y.id)
    /\ \A y \in log : x.rec = y.rec /\ x.ver < y.ver => x.seq < y.seq
    /\ \/ x.ver = 1
       \/ x.kind = "purged"
       \/ \E y \in log : y.rec = x.rec /\ y.ver = x.ver - 1

(* What a crash, a broken-off round or a user's write between two steps    *)
(* must leave in order: the local database's versions and outbox           *)
(* (outbox-schema.ts), and the server's numbering (push.ts, nextVersion).  *)
VersionsInOrder ==
  /\ TypeOK
  /\ PendingAboveSynced
  /\ OutboxNamesPending
  /\ ServerNumbering

(* A change is appended once, however often it is pushed, lost, pushed     *)
(* again or moved (push.ts, clientChangeId), as long as no purge takes the *)
(* version it wrote away.                                                  *)
AppliedOnce ==
  [][\A x \in log' \ log :
       x.id \in accepted => \E p \in log' : p.rec = x.rec /\ p.kind = "purged"]_vars

Settled ==
  /\ late = {}
  /\ \A d \in Device : round[d] = Idle /\ outbox[d] = {} /\ cursor[d] = lastSeq

(* When nothing waits and every cursor is at the end, every device has the *)
(* server's versions and no others, but for the tombstone of a record      *)
(* purged before it reached the server.  Set apart: records to which a     *)
(* push was appended that its device had given up on; see the README for   *)
(* what may become of those.                                               *)
Converged ==
  Settled => \A d \in Device, r \in Record \ belated :
    { x \in Of(store[d], r) : x.kind # "purged" \/ Of(log, r) # {} } = { AsSynced(x) : x \in Of(log, r) }

(* Edits made at the same time are all in the version on top, at any time, *)
(* as long as nobody deletes the record.  Set apart: the same records.     *)
NoEditLost ==
  \A x \in { x \in log : x.rec \notin belated } :
    (\A y \in Of(log, x.rec) : y.kind = "put") =>
      { id \in accepted : \E y \in Of(log, x.rec) : id \in y.edits }
        \subseteq HeadOf(log, x.rec).edits

(* The least base of a record's changes in a batch.                        *)
LeastBase(batch, r) ==
  LET bases == { c.base : c \in Of(batch, r) }
  IN  CHOOSE n \in bases : \A m \in bases : n <= m

(* The server answers `stale` to a device that is behind: the next pull    *)
(* brings a version the chain moves above (sync-manager.ts: "Another       *)
(* device wrote first: the pull merges it, so it never counts").           *)
StaleIsBehind ==
  \A d \in Device : round[d].at = "answered" =>
    \A c \in round[d].batch :
      LET result == round[d].results[c.id]
      IN  result.status = "stale" => result.head > LeastBase(round[d].batch, c.rec)

(* A device in a livelock: see StaleIsBehind.                              *)
Unstuck == []StaleIsBehind

(* Every device catches up, again and again, with nothing waiting but the  *)
(* chains the server refused.                                              *)
Drained(d) == \A e \in outbox[d] : \E f \in outbox[d] : f.rec = e.rec /\ f.parked

Drains == Unstuck => []<>(\A d \in Device : cursor[d] = lastSeq /\ Drained(d))
===============================================================================
