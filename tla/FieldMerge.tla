----------------------------- MODULE FieldMerge -----------------------------
(***************************************************************************)
(* One record edited on several devices, and the field-level merge that    *)
(* brings their edits together (packages/client/src/records/               *)
(* merge-record.ts and resolve-record-conflict.ts).                        *)
(*                                                                         *)
(* A text value is the number of the write that entered it, and a write is *)
(* numbered by the time it is made at; so values tell when they were       *)
(* entered, two writes never enter the same text, and no text is empty.    *)
(* How pushes and pulls interleave, fail and are repeated is RecordSync's  *)
(* subject: here a push is taken whole and its answer arrives.  A record   *)
(* keeps its type (record-edit.ts, recordFromForm), so the merge of two    *)
(* types is left out.                                                      *)
(***************************************************************************)
EXTENDS Integers, SequencesExt, FiniteSetsExt

CONSTANTS
  Device,
  Field,       \* text fields
  Password,    \* the field passwordChangedAt dates, if a member of Field
  Tag,
  Skew,        \* how far each device's clock runs ahead
  SplitPages,  \* whether a pull's page may end amid the record's versions
  MaxWrites,   \* bound on the writes of all users
  MaxDeletes   \* bound on the deletes among them

ASSUME FieldMergeAssumption ==
  /\ Skew \in [Device -> Nat]
  /\ SplitPages \in BOOLEAN
  /\ MaxWrites \in Nat
  /\ MaxDeletes \in Nat

VARIABLES
  now,         \* the server's clock: the number of writes so far
  server,      \* the record's versions on the server
  synced,      \* how many of them each device has
  pending,     \* each device's versions on top, not pushed yet
  deletes,     \* how many of the writes were deletes
  (* History: *)
  current,     \* the writes of a field or tag that no later one replaced
               \* by somebody who knew it
  standing,    \* edits and restores nobody deleted knowing them
  buried,      \* two tombstones met whose contents differ
  twice        \* a conflict hit while an earlier one's merge was pending

vars == <<now, server, synced, pending, deletes, current, standing, buried, twice>>

(* A version: its content, the device's time of writing, whether it is a   *)
(* tombstone, and the write it comes from (0: none, a merge).  On the      *)
(* server, also when it arrived (created_at).                              *)
Origin == [data |-> [fields |-> [f \in Field |-> 0], tags |-> {}, date |-> 0],
           at |-> 0, deleted |-> FALSE, id |-> 0, arrived |-> 0]

Init ==
  /\ now = 0
  /\ server = <<Origin>>
  /\ synced = [d \in Device |-> 1]
  /\ pending = [d \in Device |-> <<>>]
  /\ deletes = 0
  /\ current = [what : Field \cup Tag, id : {0}, set : {FALSE}]
  /\ standing = {}
  /\ buried = FALSE
  /\ twice = FALSE
-----------------------------------------------------------------------------
(***************************************************************************)
(* mergeRecord.                                                            *)
(***************************************************************************)
Later(a, b) == a > b

(* When a chain last changed a field, walking from base; -1 for never.     *)
FieldEditTime(base, chain, f) ==
  LET Before(i) == IF i = 1 THEN base ELSE chain[i - 1].data
      changes == { i \in DOMAIN chain : Before(i).fields[f] # chain[i].data.fields[f] }
  IN  IF changes = {} THEN -1 ELSE chain[Max(changes)].at

MergeField(base, local, remote, f) ==
  LET b == base.fields[f]
      l == Last(local).data.fields[f]
      r == Last(remote).data.fields[f]
  IN  CASE r = b \/ l = r -> l
        [] l = b /\ r # b -> r
        [] OTHER -> IF Later(FieldEditTime(base, local, f), FieldEditTime(base, remote, f))
                    THEN l ELSE r

(* Faulty: the tags of both sides.                                         *)
UniteTags(b, l, r) == l \cup r

MergeTags(b, l, r) == (l \cup r) \ { t \in b : t \notin l \/ t \notin r }

(* Faulty: the later date, whatever the password.                          *)
LatestDate(password, versions) == Max({ x.date : x \in versions })

(* The latest date among the versions that hold the merged password.       *)
MergedPasswordDate(password, versions) ==
  Max({0} \cup { x.date : x \in { y \in versions : y.fields[Password] = password } })

(* Faulty: a delete on either side wins.                                   *)
EitherDeleted(local, remote) == Last(local).deleted \/ Last(remote).deleted

BothDeleted(local, remote) == Last(local).deleted /\ Last(remote).deleted

MergeRecord(base, local, remote) ==
  LET l == Last(local).data
      r == Last(remote).data
      fields == [f \in Field |-> MergeField(base, local, remote, f)]
  IN  [data |-> [fields |-> fields,
                 tags |-> MergeTags(base.tags, l.tags, r.tags),
                 date |-> IF Password \in Field
                          THEN MergedPasswordDate(fields[Password], {base, l, r}) ELSE 0],
       deleted |-> BothDeleted(local, remote)]

SameRecordData(a, b) == a.fields = b.fields /\ a.tags = b.tags
-----------------------------------------------------------------------------
(***************************************************************************)
(* resolveRecordConflict: what to append on the local chain, if anything.  *)
(***************************************************************************)
(* Faulty: device clocks are believed.                                     *)
Unclamped(version, notAfter) == version

(* No version counts as written later than the server saw it.              *)
Clamped(version, notAfter) == [version EXCEPT !.at = Min({@, notAfter})]

Resolve(base, local, remote, receivedAt) ==
  LET localChain  == [i \in DOMAIN local |-> Clamped(local[i], receivedAt)]
      remoteChain == [i \in DOMAIN remote |-> Clamped(remote[i], remote[i].arrived)]
      merged      == MergeRecord(base, localChain, remoteChain)
      head        == Last(localChain)
  IN  IF merged.deleted \/ (~head.deleted /\ SameRecordData(merged.data, head.data))
      THEN <<>>
      ELSE <<[data |-> merged.data, at |-> Max({head.at, Last(remoteChain).at}),
              deleted |-> FALSE, id |-> 0, arrived |-> 0]>>
-----------------------------------------------------------------------------
(***************************************************************************)
(* The device.                                                             *)
(***************************************************************************)
HeadOf(d) == IF pending[d] = <<>> THEN server[synced[d]] ELSE Last(pending[d])

(* The writes a device's head builds on.                                   *)
Known(d) == { server[i].id : i \in 1..synced[d] } \cup { v.id : v \in ToSet(pending[d]) }

(* writeLocalChange: the next version on top.                              *)
Write(d, data, deleted) ==
  /\ now < MaxWrites
  /\ now' = now + 1
  /\ pending' = [pending EXCEPT ![d] =
       Append(@, [data |-> data, at |-> now' + Skew[d], deleted |-> deleted,
                  id |-> now', arrived |-> 0])]
  /\ UNCHANGED <<server, synced, buried, twice>>

(* History: a write of a field or tag replaces those its author knew.      *)
Replace(d, what, set) ==
  current' = { w \in current : w.what = what => w.id \notin Known(d) }
             \cup {[what |-> what, id |-> now', set |-> set]}

(* RecordRepository.update: a changed password is dated.                   *)
EditField(d, f) ==
  LET data == HeadOf(d).data
  IN  /\ ~HeadOf(d).deleted
      /\ Write(d, [data EXCEPT !.fields[f] = now',
                               !.date = IF f = Password THEN now' + Skew[d] ELSE @], FALSE)
      /\ Replace(d, f, TRUE)
      /\ standing' = standing \cup {now'}
      /\ UNCHANGED deletes

EditTag(d, t) ==
  LET data == HeadOf(d).data
      add  == t \notin data.tags
  IN  /\ ~HeadOf(d).deleted
      /\ Write(d, [data EXCEPT !.tags = IF add THEN @ \cup {t} ELSE @ \ {t}], FALSE)
      /\ Replace(d, t, add)
      /\ standing' = standing \cup {now'}
      /\ UNCHANGED deletes

(* A tombstone keeps the content it deleted.                               *)
Delete(d) ==
  /\ ~HeadOf(d).deleted
  /\ deletes < MaxDeletes
  /\ deletes' = deletes + 1
  /\ Write(d, HeadOf(d).data, TRUE)
  /\ standing' = standing \ Known(d)
  /\ UNCHANGED current

(* An update with the tombstone's content.                                 *)
Restore(d) ==
  /\ HeadOf(d).deleted
  /\ Write(d, HeadOf(d).data, FALSE)
  /\ standing' = standing \cup {now'}
  /\ UNCHANGED <<deletes, current>>

(* A pull brings versions the device lacks, perhaps not all of them (a     *)
(* page).  rebasePendingVersions moves the pending ones above them and     *)
(* appends what the resolver says.                                         *)
Pull(d) ==
  \E upTo \in synced[d] + 1 .. Len(server) :
    /\ SplitPages \/ upTo = Len(server)
    /\ LET remote == SubSeq(server, synced[d] + 1, upTo)
           base   == server[synced[d]].data
           local  == pending[d]
           merge  == Resolve(base, local, remote, now)
       IN  /\ synced' = [synced EXCEPT ![d] = upTo]
           /\ pending' = [pending EXCEPT ![d] = IF local = <<>> THEN <<>> ELSE local \o merge]
           /\ buried' = \/ buried
                        \/ /\ local # <<>>
                           /\ BothDeleted(local, remote)
                           /\ ~SameRecordData(Last(local).data, Last(remote).data)
           /\ twice' = \/ twice
                       \/ \E v \in ToSet(local) : v.id = 0
           /\ UNCHANGED <<now, server, deletes, current, standing>>

(* A push of a chain built on the server's head.  Any other is stale and   *)
(* changes nothing.                                                        *)
Push(d) ==
  /\ pending[d] # <<>>
  /\ synced[d] = Len(server)
  /\ server' = server \o [i \in DOMAIN pending[d] |-> [pending[d][i] EXCEPT !.arrived = now]]
  /\ synced' = [synced EXCEPT ![d] = Len(server')]
  /\ pending' = [pending EXCEPT ![d] = <<>>]
  /\ UNCHANGED <<now, deletes, current, standing, buried, twice>>

Next ==
  \E d \in Device :
    \/ \E f \in Field : EditField(d, f)
    \/ \E t \in Tag : EditTag(d, t)
    \/ Delete(d) \/ Restore(d) \/ Pull(d) \/ Push(d)

Spec == Init /\ [][Next]_vars
-----------------------------------------------------------------------------
(***************************************************************************)
(* Properties.  Most are about a record everybody has pushed.              *)
(***************************************************************************)
Settled == \A d \in Device : pending[d] = <<>>

Final == Last(server)

Content == [fields : [Field -> Nat], tags : SUBSET Tag, date : Nat]
Version == [data : Content, at : Nat, deleted : BOOLEAN, id : Nat, arrived : Nat]

(* Every variable has its type.                                            *)
TypeOK ==
  /\ now \in Nat /\ deletes \in Nat
  /\ server \in Seq(Version) /\ server # <<>>
  /\ synced \in [Device -> 1..Len(server)]
  /\ pending \in [Device -> Seq(Version)]
  /\ current \subseteq [what : Field \cup Tag, id : Nat, set : BOOLEAN]
  /\ standing \subseteq Nat
  /\ buried \in BOOLEAN /\ twice \in BOOLEAN

(* A text or tag that somebody replaced knowing it doesn't come back,      *)
(* however the merges of several devices meet (merge-record.ts,            *)
(* mergeRecord: one side's changes are taken).                             *)
NothingReplacedReturns ==
  Settled /\ ~buried =>
    /\ \A f \in Field : \E w \in current : w.what = f /\ w.id = Final.data.fields[f]
    /\ \A t \in Tag : \E w \in current : w.what = t /\ w.set = (t \in Final.data.tags)

(* Each field ends up with its latest edit (vaults-and-sync.md: "the later *)
(* clientUpdatedAt wins a field changed on both sides").  A clock that runs *)
(* ahead wins only over edits made before the server saw the winner, and   *)
(* by no more than it runs ahead (resolve-record-conflict.ts, the clamps). *)
LatestEdits ==
  \A f \in Field : \A w \in { x \in current : x.what = f } :
    w.id <= Final.data.fields[f] \/
      \E v \in ToSet(server) : v.id = Final.data.fields[f] /\ w.id <= Min({v.at, v.arrived})

LatestEditWins == Settled /\ ~buried => LatestEdits

(* A record ends up deleted only if every edit was known to somebody who   *)
(* deleted it then (merge-record.ts: "Edit vs. delete: the edit wins").    *)
EditBeatsDelete == Settled /\ Final.deleted => standing = {}

(* A password carries the date it was entered at on some device, in every  *)
(* version anywhere (merge-record.ts: passwordChangedAt follows it).       *)
DateFollowsPassword ==
  \A v \in ToSet(server) \cup UNION { ToSet(pending[d]) : d \in Device } :
    LET entered == v.data.fields[Password]
    IN  IF entered = 0 THEN v.data.date = 0
        ELSE \E d \in Device : v.data.date = entered + Skew[d]

(* Every version of the record anywhere is well formed, its password's     *)
(* date included (merge-record.ts, mergedPasswordDate).                    *)
VersionsSound == TypeOK /\ DateFollowsPassword

(* What resolve-record-conflict.ts says of the merge's time: that it may   *)
(* be too late for a field "only matters when another conflict hits before *)
(* the merge is pushed".                                                   *)
MergeTimeMattersOnlyTwice == Settled /\ ~buried /\ ~twice => LatestEdits
=============================================================================
