----------------------------- MODULE OutboxPush -----------------------------
(***************************************************************************)
(* One push of the outbox: how SyncManager cuts it into batches, what it   *)
(* does with a batch the server refuses as a whole and with each answer    *)
(* (client sync-manager.ts), and what the server decides for a batch as a  *)
(* whole: storage quota and the two sides of a move (record/push.ts,       *)
(* record/quota.ts).                                                       *)
(*                                                                         *)
(* RecordSync has the conflicts with other devices; here this device is    *)
(* the only one that writes its records, so that an answer `stale` or      *)
(* `not_found` can only come from changes sent out of order.               *)
(***************************************************************************)
EXTENDS Integers, FiniteSets, SequencesExt

CONSTANTS
  Record,
  Vault,
  Home,         \* [Record -> Vault]
  Bytes,        \* [Record -> Nat], what a version with content takes
  MaxChanges, MaxBytes,   \* what one batch may carry
  Quota,        \* bytes an owner may store; one owner for all vaults here
  MaxAttempts,  \* MAX_PUSH_ATTEMPTS
  MaxWrites,    \* bound on local changes
  MaxBad,       \* bound on changes the server refuses as malformed
  MaxBreaks,    \* bound on calls that fail
  MaxEvents,    \* bound on what others do: revoke access, rotate a key
  NoPush

ASSUME OutboxAssumption ==
  /\ Home \in [Record -> Vault]
  /\ Bytes \in [Record -> Nat \ {0}]
  /\ {MaxChanges, MaxBytes, MaxAttempts} \subseteq Nat \ {0}
  /\ {Quota, MaxWrites, MaxBad, MaxBreaks, MaxEvents} \subseteq Nat

VARIABLES
  outbox,      \* pending changes in write order
  knownKey,    \* the vaults' keys as the device has them
  queue,       \* batches still to send, NoPush between pushes
  failed,      \* records with a change of this push that wasn't applied
  taken,       \* the changes this push took from the outbox
  (* Server: *)
  stored,      \* versions
  usedBytes,
  writable,    \* the vaults this user may write to
  vaultKey,
  (* History: *)
  blamed,      \* records of which the server refused a change for what it is
  apart,       \* records whose move was sent without its target, or with a target
               \* refused for something else than quota
  excess,      \* bytes stored that the quota doesn't stop
  spent

deviceVars  == <<outbox, knownKey, queue, failed, taken>>
serverVars  == <<stored, usedBytes, writable, vaultKey>>
historyVars == <<blamed, apart, excess, spent>>
vars == <<deviceVars, serverVars, historyVars>>

Init ==
  /\ outbox = <<>>
  /\ knownKey = [v \in Vault |-> 1]
  /\ queue = NoPush /\ failed = {} /\ taken = <<>>
  /\ stored = {}
  /\ usedBytes = [v \in Vault |-> 0]
  /\ writable = Vault
  /\ vaultKey = [v \in Vault |-> 1]
  /\ blamed = {} /\ apart = {} /\ excess = 0
  /\ spent = [writes |-> 0, bad |-> 0, breaks |-> 0, events |-> 0]

Spend(kind, limit) == spent[kind] < limit /\ spent' = [spent EXCEPT ![kind] = @ + 1]
-------------------------------------------------------------------------------
(***************************************************************************)
(* Changes and batches.                                                    *)
(***************************************************************************)
Sum(f, S) == FoldSet(LAMBDA x, acc : f[x] + acc, 0, S)

(* In a batch a delete carries no content; stored, it keeps the head's.    *)
PushChangeBytes(c) == IF c.op = "put" THEN Bytes[c.record] ELSE 1

Fits(cs) ==
  /\ Len(cs) <= MaxChanges
  /\ FoldLeft(LAMBDA sum, c : sum + PushChangeBytes(c), 0, cs) <= MaxBytes

(* groupChains: each record's changes in order, records as first met.      *)
Chains(cs) ==
  LET firsts == SelectSeq([i \in DOMAIN cs |-> i],
                          LAMBDA i : \A j \in 1..(i - 1) : cs[j].record # cs[i].record)
  IN  [k \in DOMAIN firsts |-> SelectSeq(cs, LAMBDA c : c.record = cs[firsts[k]].record)]

(* As many parts as fit, in order, one after the other.                    *)
Pack(parts) ==
  FoldLeft(LAMBDA packed, part :
             IF packed # <<>> /\ Fits(Last(packed) \o part)
             THEN Append(Front(packed), Last(packed) \o part)
             ELSE Append(packed, part),
           <<>>, parts)

Singles(cs) == [i \in DOMAIN cs |-> <<cs[i]>>]

(* Faulty: cut anywhere.                                                   *)
PushBatchesAnywhere(cs) == Pack(Singles(cs))

(* A chain is cut only where it is too big for a batch.                    *)
PushBatches(cs) ==
  Pack(FlattenSeq([k \in DOMAIN Chains(cs) |-> Pack(Singles(Chains(cs)[k]))]))

-------------------------------------------------------------------------------
(***************************************************************************)
(* The user writes.                                                        *)
(***************************************************************************)
Of(r, rows) == { row \in rows : row.record = r }

NewestIn(rows) == IF rows = {} THEN 0 ELSE Max({ row.version : row \in rows })

Newest(r) == NewestIn(Of(r, stored \cup ToSet(outbox)))

Moved(r) == \E c \in Of(r, stored \cup ToSet(outbox)) : c.op = "move"

(* to: the record a move makes of this one, itself otherwise.              *)
NewChange(r, op, to, bad) ==
  [record |-> r, version |-> Newest(r) + 1, op |-> op, to |-> to, bad |-> bad,
   key |-> knownKey[Home[r]], attempts |-> 0, parked |-> FALSE]

Writes(bad) ==
  /\ spent.writes < MaxWrites
  /\ bad => spent.bad < MaxBad
  /\ spent' = [spent EXCEPT !.writes = @ + 1, !.bad = @ + IF bad THEN 1 ELSE 0]

UserPut(r) ==
  /\ ~Moved(r)
  /\ \E bad \in BOOLEAN :
       Writes(bad) /\ outbox' = Append(outbox, NewChange(r, "put", r, bad))
  /\ UNCHANGED <<knownKey, queue, failed, taken, serverVars, blamed, apart, excess>>

(* The target, a new record in another vault, then the source's tombstone. *)
UserMove(r, to) ==
  /\ Newest(r) > 0 /\ ~Moved(r)
  /\ Newest(to) = 0
  /\ Home[r] # Home[to]
  /\ \E bad \in BOOLEAN :
       /\ Writes(bad)
       /\ outbox' = outbox \o <<NewChange(to, "put", to, bad), NewChange(r, "move", to, FALSE)>>
  /\ UNCHANGED <<knownKey, queue, failed, taken, serverVars, blamed, apart, excess>>

RetryParked ==
  /\ queue = NoPush
  /\ \E c \in ToSet(outbox) : c.parked
  /\ Spend("breaks", MaxBreaks)
  /\ outbox' = [i \in DOMAIN outbox |->
       IF outbox[i].parked THEN [outbox[i] EXCEPT !.parked = FALSE, !.attempts = 0] ELSE outbox[i]]
  /\ UNCHANGED <<knownKey, queue, failed, taken, serverVars, blamed, apart, excess>>
-------------------------------------------------------------------------------
(***************************************************************************)
(* The server: pushChanges.                                                *)
(***************************************************************************)
IsStored(c) == \E row \in Of(c.record, stored) : row.version = c.version

NewOnes(chain) == SelectSeq(chain, LAMBDA c : ~IsStored(c))

(* decideChange; head is what the chain's changes before it would leave.   *)
Failure(c, head) ==
  CASE Home[c.record] \notin writable -> "forbidden"
    [] Home[c.record] \in writable /\ IsStored(c) -> "none"
    [] Home[c.record] \in writable /\ ~IsStored(c) ->
         IF c.op = "put" /\ c.key # vaultKey[Home[c.record]] THEN "key_version"
         ELSE IF c.version - 1 = head THEN "none"
         ELSE IF Of(c.record, stored) = {} THEN "not_found" ELSE "stale"

(* decideChain: the first failure is the whole chain's.                    *)
ChainFailure(chain) ==
  LET head(i) == NewestIn(Of(chain[i].record, stored)) + Len(NewOnes(SubSeq(chain, 1, i - 1)))
      failing == { i \in DOMAIN chain : Failure(chain[i], head(i)) # "none" }
  IN  IF failing = {} THEN "none" ELSE Failure(chain[Min(failing)], head(Min(failing)))

HasPut(chain) == \E c \in ToSet(chain) : c.op = "put"

(* A record whose newest version is under an old key.                      *)
RewritesOldKey(r) ==
  \E row \in Of(r, stored) : row.version = NewestIn(Of(r, stored)) /\ row.key < vaultKey[Home[r]]

Remaining == Quota - Sum(usedBytes, Vault)

WithinQuota(bytes, chain, left) == bytes = 0 \/ bytes <= left \/ ~HasPut(chain)

(* Chain by chain: what is appended, what is left of the owner's budget,   *)
(* and why a record's chain isn't appended.                                *)
DecideChain(decided, chain) ==
  LET r == chain[1].record
      failure == ChainFailure(chain)
      new == NewOnes(chain)
      bytes == Len(new) * Bytes[r]
  IN  IF failure # "none" THEN [decided EXCEPT !.why[r] = failure]
      ELSE IF RewritesOldKey(r)
      THEN [decided EXCEPT !.planned = @ \o new, !.excess = @ + bytes]
      ELSE IF WithinQuota(bytes, chain, decided.left)
      THEN [decided EXCEPT !.planned = @ \o new, !.left = @ - bytes,
                           !.excess = @ + IF HasPut(chain) THEN 0 ELSE bytes]
      ELSE [decided EXCEPT !.why[r] = "quota"]

(* Faulty: move sources are appended all the same.                         *)
MoveSourcesKept(decided) == decided

(* A batch with a put over quota appends no chain with a move's source.    *)
MoveSources(decided) ==
  IF \A r \in DOMAIN decided.why : decided.why[r] # "quota" THEN decided
  ELSE LET back == { c.record : c \in { c \in ToSet(decided.planned) : c.op = "move" } }
       IN  [decided EXCEPT
              !.planned = SelectSeq(@, LAMBDA c : c.record \notin back),
              !.why = [r \in DOMAIN @ |-> IF r \in back THEN "quota" ELSE @[r]]]

Decide(batch) ==
  MoveSources(FoldLeft(DecideChain,
    [planned |-> <<>>, left |-> Remaining, excess |-> 0,
     why |-> [r \in { c.record : c \in ToSet(batch) } |-> "none"]],
    Chains(batch)))

VersionOf(c) ==
  [record |-> c.record, version |-> c.version, op |-> c.op, to |-> c.to,
   key |-> IF c.op = "put" THEN c.key
           ELSE (CHOOSE row \in stored \cup ToSet(outbox) :
                   row.record = c.record /\ row.version = c.version - 1).key]

(* Faulty: a retry's versions are counted again.                           *)
AddedBytesAll(decided, batch, v) ==
  Sum([c \in ToSet(batch) |-> Bytes[c.record]],
      { c \in ToSet(batch) : Home[c.record] = v /\ decided.why[c.record] = "none" })

AddedBytes(decided, batch, v) ==
  Sum([c \in ToSet(decided.planned) |-> Bytes[c.record]],
      { c \in ToSet(decided.planned) : Home[c.record] = v })

(* insertVersions.                                                         *)
Insert(decided, batch) ==
  /\ stored' = stored \cup { VersionOf(c) : c \in ToSet(decided.planned) }
  /\ usedBytes' = [v \in Vault |-> usedBytes[v] + AddedBytes(decided, batch, v)]
  /\ excess' = excess + decided.excess
-------------------------------------------------------------------------------
(***************************************************************************)
(* The device: pushOutbox and pushBatch.                                   *)
(***************************************************************************)
(* What is pending under an old key is encrypted again (prepareOutbox).    *)
Prepared ==
  [i \in DOMAIN outbox |->
     IF outbox[i].op = "put" THEN [outbox[i] EXCEPT !.key = knownKey[Home[outbox[i].record]]]
     ELSE outbox[i]]

BeginPush ==
  /\ queue = NoPush
  /\ outbox' = Prepared
  /\ LET held == { c.record : c \in { c \in ToSet(outbox) : c.parked } }
     IN  taken' = SelectSeq(Prepared, LAMBDA c : c.record \notin held)
  /\ taken' # <<>>
  /\ queue' = PushBatches(taken')
  /\ failed' = {}
  /\ blamed' = {}
  /\ UNCHANGED <<knownKey, serverVars, apart, excess, spent>>

Sending == queue # NoPush /\ queue # <<>>

(* The rest of a chain of which a part failed isn't sent.                  *)
Batch == SelectSeq(Head(queue), LAMBDA c : c.record \notin failed)

Skip ==
  /\ Sending
  /\ Batch = <<>>
  /\ queue' = Tail(queue)
  /\ UNCHANGED <<outbox, knownKey, failed, taken, serverVars, historyVars>>

Malformed(c) == c.bad

(* fail: parked once it has failed too often.                              *)
Count(c) == [c EXCEPT !.attempts = @ + 1, !.parked = @ \/ c.attempts + 1 >= MaxAttempts]

Answer(decided, c) ==
  LET why == decided.why[c.record]
  IN  IF why = "forbidden" THEN why ELSE IF IsStored(c) THEN "none" ELSE why

Is(c, d) == c.record = d.record /\ c.version = d.version

(* Each answer, on the outbox as it is by now.                             *)
TakeAnswers(decided) ==
  LET answer(c) == IF \E d \in ToSet(Batch) : Is(c, d) THEN Answer(decided, c) ELSE "unasked"
      left == SelectSeq(outbox, LAMBDA c : answer(c) # "none")
  IN  /\ outbox' = [i \in DOMAIN left |->
             CASE answer(left[i]) \in {"unasked", "stale"} -> left[i]
               [] answer(left[i]) = "key_version" -> Count(left[i])
               [] OTHER -> [left[i] EXCEPT !.attempts = @ + 1, !.parked = TRUE]]
      /\ failed' = failed \cup { c.record : c \in { c \in ToSet(Batch) : Answer(decided, c) # "none" } }

(* History: the moves this batch may take apart.                           *)
TakesApart(decided) ==
  { c.record : c \in { c \in ToSet(Batch) :
      /\ c.op = "move"
      /\ ~IsStored(c)
      /\ Of(c.to, stored) = {}
      /\ c.to \in DOMAIN decided.why => decided.why[c.to] \notin {"none", "quota"} } }

Refusing == {"forbidden", "key_version", "quota"}

SendBatch ==
  /\ Sending
  /\ Batch # <<>>
  /\ \A c \in ToSet(Batch) : ~Malformed(c)
  /\ LET decided == Decide(Batch)
     IN  /\ Insert(decided, Batch)
         /\ apart' = apart \cup TakesApart(decided)
         /\ blamed' = blamed \cup { r \in DOMAIN decided.why : decided.why[r] \in Refusing }
         /\ \/ /\ TakeAnswers(decided)
               /\ queue' = Tail(queue)
               /\ UNCHANGED spent
            \/ /\ Spend("breaks", MaxBreaks)
               /\ queue' = NoPush
               /\ UNCHANGED <<outbox, failed>>
  /\ UNCHANGED <<knownKey, taken, writable, vaultKey>>

(* The call fails before it reaches the server.                            *)
LoseBatch ==
  /\ Sending
  /\ Spend("breaks", MaxBreaks)
  /\ queue' = NoPush
  /\ UNCHANGED <<outbox, knownKey, failed, taken, serverVars, blamed, apart, excess>>

(* A batch refused as a whole, down to one record's changes: those fail.   *)
RefuseRecord ==
  /\ Sending
  /\ \E c \in ToSet(Batch) : Malformed(c)
  /\ Len(Chains(Batch)) = 1
  /\ outbox' = [i \in DOMAIN outbox |->
       IF \E d \in ToSet(Batch) : Is(outbox[i], d) THEN Count(outbox[i]) ELSE outbox[i]]
  /\ failed' = failed \cup {Batch[1].record}
  /\ blamed' = blamed \cup {Batch[1].record}
  /\ queue' = Tail(queue)
  /\ UNCHANGED <<knownKey, taken, serverVars, apart, excess, spent>>

(* Faulty: the half with the odd chain is one short.                       *)
HalvesShort(chains) ==
  LET half == Len(chains) \div 2
  IN  <<FlattenSeq(SubSeq(chains, 1, half)), FlattenSeq(SubSeq(chains, Len(chains) - half + 1, Len(chains)))>>

Halves(chains) ==
  LET half == (Len(chains) + 1) \div 2
  IN  <<FlattenSeq(SubSeq(chains, 1, half)), FlattenSeq(SubSeq(chains, half + 1, Len(chains)))>>

RefuseBatch ==
  /\ Sending
  /\ \E c \in ToSet(Batch) : Malformed(c)
  /\ Len(Chains(Batch)) > 1
  /\ queue' = Halves(Chains(Batch)) \o Tail(queue)
  /\ UNCHANGED <<outbox, knownKey, failed, taken, serverVars, historyVars>>

EndPush ==
  /\ queue = <<>>
  /\ queue' = NoPush
  /\ UNCHANGED <<outbox, knownKey, failed, taken, serverVars, historyVars>>

(* The pull brings the vaults' current keys.                               *)
Pull ==
  /\ queue = NoPush
  /\ knownKey # vaultKey
  /\ knownKey' = vaultKey
  /\ UNCHANGED <<outbox, queue, failed, taken, serverVars, historyVars>>
-------------------------------------------------------------------------------
(***************************************************************************)
(* What others do meanwhile.                                               *)
(***************************************************************************)
Revoke(v) ==
  /\ v \in writable
  /\ Spend("events", MaxEvents)
  /\ writable' = writable \ {v}
  /\ UNCHANGED <<deviceVars, stored, usedBytes, vaultKey, blamed, apart, excess>>

Rotate(v) ==
  /\ Spend("events", MaxEvents)
  /\ vaultKey' = [vaultKey EXCEPT ![v] = @ + 1]
  /\ UNCHANGED <<deviceVars, stored, usedBytes, writable, blamed, apart, excess>>
-------------------------------------------------------------------------------
Next ==
  \/ \E r \in Record : UserPut(r) \/ \E to \in Record : UserMove(r, to)
  \/ RetryParked
  \/ BeginPush \/ Skip \/ SendBatch \/ LoseBatch \/ RefuseRecord \/ RefuseBatch \/ EndPush \/ Pull
  \/ \E v \in Vault : Revoke(v) \/ Rotate(v)

Spec == Init /\ [][Next]_vars
-------------------------------------------------------------------------------
(***************************************************************************)
(* Properties.                                                             *)
(***************************************************************************)
ChangeType ==
  [record : Record, version : Nat \ {0}, op : {"put", "move"}, to : Record, bad : BOOLEAN,
   key : Nat \ {0}, attempts : 0..MaxAttempts, parked : BOOLEAN]

(* Every variable has its type; a change that failed MaxAttempts times is  *)
(* not sent again unless the user asks for it.                             *)
TypeOK ==
  /\ ToSet(outbox) \cup ToSet(taken) \subseteq ChangeType
  /\ knownKey \in [Vault -> Nat \ {0}] /\ vaultKey \in [Vault -> Nat \ {0}]
  /\ queue = NoPush \/ \A b \in ToSet(queue) : ToSet(b) \subseteq ChangeType
  /\ failed \cup blamed \cup apart \subseteq Record
  /\ stored \subseteq
       [record : Record, version : Nat \ {0}, op : {"put", "move"}, to : Record, key : Nat \ {0}]
  /\ usedBytes \in [Vault -> Nat]
  /\ writable \subseteq Vault
  /\ excess \in Nat

(* pushBatches: every change once, "keeping each record's changes together *)
(* and in order. Only a chain too big for one batch is split", and a batch *)
(* within its limits unless it is a single change.                         *)
BatchesRight ==
  LET batches == PushBatches(taken)
      chain(r, cs) == SelectSeq(cs, LAMBDA c : c.record = r)
  IN  /\ \A b \in ToSet(batches) : Fits(b) \/ Len(b) = 1
      /\ \A r \in { c.record : c \in ToSet(taken) } :
           /\ chain(r, FlattenSeq(batches)) = chain(r, taken)
           /\ Fits(chain(r, taken)) => \E b \in ToSet(batches) : chain(r, b) = chain(r, taken)

(* A push that wasn't broken off has got everything through, but for the   *)
(* records with a change the server refuses for what it is (pushBatch,     *)
(* "so one bad change doesn't block the others"): however batches were cut *)
(* and split, nothing was sent out of order or left out.                   *)
OthersGetThrough ==
  queue = <<>> => \A c \in ToSet(taken) : IsStored(c) \/ c.record \in blamed

(* usedBytes is the size of what is stored, whatever was retried.          *)
UsedIsStored ==
  \A v \in Vault :
    usedBytes[v] = Sum([row \in stored |-> Bytes[row.record]], { row \in stored : Home[row.record] = v })

(* An owner's vaults stay within their quota together, but for tombstones  *)
(* and for records a rotation encrypts again (pushChanges).                *)
QuotaKept == Sum(usedBytes, Vault) <= Quota + excess

(* The accounts are right: bytes used, and an owner's quota (push.ts,      *)
(* withinQuota).                                                           *)
AccountsRight ==
  /\ TypeOK
  /\ UsedIsStored
  /\ QuotaKept

Arrived(row) == row.op = "move" => Of(row.to, stored) # {}

(* pushChanges: "the record must not leave its vault without arriving in   *)
(* the other", when both changes of a move are in one batch and nothing    *)
(* but the quota is in the target's way.                                   *)
MoveArrivesIfTogether == \A row \in stored : row.record \in apart \/ Arrived(row)

(* The same for all moves.                                                 *)
MoveArrives == \A row \in stored : Arrived(row)
===============================================================================
