----------------------- MODULE RecordSyncEdits_proofs -----------------------
(***************************************************************************)
(* No edit of RecordSync is lost to another made at the same time, for     *)
(* every set of records and devices, every page limit and every bound on   *)
(* what users write and on what goes wrong.                                *)
(***************************************************************************)
EXTENDS RecordSync_proofs

(***************************************************************************)
(* Which edits the versions on top have, of one record as above, while     *)
(* nobody deletes or purges it.                                            *)
(***************************************************************************)
Puts(rows) == \A x \in rows : x.kind = "put"

IsTop(h, rows) == h \in rows /\ \A y \in rows : y.ver <= h.ver

IsEdited(i, rows) == \E y \in rows : i \in y.edits

(* What the server has of what waits, or of what was sent.                 *)
Stored(L, Q) == { x \in L : \E e \in Q : x.id = e.id }

(* The server's head has every edit.                                       *)
HeadHasAll(L) == \A h, y \in L : IsTop(h, L) => y.edits \subseteq h.edits

(* What waits builds on the version below it, which is here.               *)
Builds(S) == \A x \in Pending(S) : x.ver = 1 \/ \E y \in S : y.ver = x.ver - 1

(* The device's head has what is edited here and not on the server; it has *)
(* what the newest version has that the server is known to have, or has of *)
(* what waits.                                                             *)
HeadHasWaiting(L, S) ==
  \A h \in S, x \in Pending(S) : IsTop(h, S) => \A i \in x.edits : i \in h.edits \/ IsEdited(i, L)

HeadHasSynced(S) ==
  \A h \in S, y \in Synced(S) : IsTop(h, S) /\ IsTop(y, Synced(S)) => y.edits \subseteq h.edits

HeadHasStored(L, S, Q) ==
  \A h \in S, y \in Stored(L, Q) : IsTop(h, S) /\ IsTop(y, Stored(L, Q)) => y.edits \subseteq h.edits

(* The server stored what waits as the version it is here.                 *)
StoredAsWaiting(L, S, Q) ==
  \A x \in L, e \in Q, y \in S : x.id = e.id /\ IsRowOf(y, e) => x.ver = y.ver /\ x.edits = y.edits

(* What it has of a record is from here, where none of it counts as        *)
(* synced.                                                                 *)
FirstIsOwn(L, S, Q) == S # {} /\ L # {} /\ Synced(S) = {} => Stored(L, Q) # {}

StoreHasEdits(L, S, Q) ==
  /\ Builds(S) /\ HeadHasWaiting(L, S) /\ HeadHasStored(L, S, Q)
  /\ Stored(L, Q) = {} => HeadHasSynced(S)
  /\ StoredAsWaiting(L, S, Q) /\ FirstIsOwn(L, S, Q)

(* No delete or purge is stored as a put.                                  *)
WaitingKinds(L, S, Q) ==
  \A x \in L, e \in Q, y \in Pending(S) : x.id = e.id /\ IsRowOf(y, e) /\ x.kind = "put" => y.kind = "put"

SentKinds(L, b) == \A x \in L, c \in b : x.id = c.id /\ x.kind = "put" => c.kind = "put"

(* The same of a batch's changes: each builds on the one before, the first *)
(* of them on a version of the server's, and the last has all.             *)
IsFirstOf(f, b) == f \in b /\ \A c \in b : f.id <= c.id
IsLastOf(l, b) == l \in b /\ \A c \in b : c.id <= l.id

BatchBuilds(b) == \A c \in b : IsFirstOf(c, b) \/ \E p \in b : p.id < c.id /\ p.base + 1 = c.base

StoredAsSent(L, b) == \A x \in L, c \in b : x.id = c.id => x.ver = c.base + 1

FirstBuilds(L, b) ==
  \A f \in b : IsFirstOf(f, b) => f.base = 0 \/ Stored(L, b) # {} \/ \E y \in L : y.ver = f.base

LastHasSent(L, b) ==
  \A l, c \in b : IsLastOf(l, b) => \A i \in c.edits : i \in l.edits \/ IsEdited(i, L)

LastHasStored(L, b) ==
  \A l \in b, x \in Stored(L, b) : IsLastOf(l, b) /\ IsTop(x, Stored(L, b)) => x.edits \subseteq l.edits

LastHasBase(L, b) ==
  Stored(L, b) = {} =>
    \A l, f \in b, y \in L : IsLastOf(l, b) /\ IsFirstOf(f, b) /\ y.ver = f.base => y.edits \subseteq l.edits

BatchHasEdits(L, b) ==
  /\ BatchBuilds(b) /\ StoredAsSent(L, b) /\ FirstBuilds(L, b)
  /\ LastHasSent(L, b) /\ LastHasStored(L, b) /\ LastHasBase(L, b)

(* What was sent waits as it was sent, with nothing lost on top of it.     *)
SentAsWaiting(S, Q, b) ==
  /\ \A c \in b : \E e \in Q : c.id = e.id
  /\ \A c \in b, e \in Q, y \in S : c.id = e.id /\ IsRowOf(y, e) => y.ver = c.base + 1 /\ y.edits = c.edits
  /\ \A c \in b, h \in S : IsLastOf(c, b) /\ IsTop(h, S) => c.edits \subseteq h.edits

SentHasEdits(L, S, Q, b) ==
  /\ SentKinds(L, b)
  /\ Puts(L) /\ Puts(b) /\ (L # {} \/ \E c \in b : c.base = 0) => BatchHasEdits(L, b)
  /\ Puts(S) /\ Puts(b) => SentAsWaiting(S, Q, b)

EditsStandOf(L, S, Q, rd, r) ==
  /\ WaitingKinds(L, S, Q)
  /\ Puts(L) /\ Puts(S) => StoreHasEdits(L, S, Q)
  /\ rd.at = "sent" => SentHasEdits(L, S, Q, Of(rd.batch, r))

EditsStand(d, r) == EditsStandOf(Of(log, r), Of(store[d], r), Of(outbox[d], r), round[d], r)

(* A change is sent by its own device only.                                *)
OwnSent ==
  \A d, g \in Device : round[d].at = "sent" /\ round[g].at = "sent" /\ d # g =>
    \A c \in round[d].batch, e \in round[g].batch : c.id # e.id

EditsInv ==
  /\ OwnSent
  /\ \A r \in Record \ belated :
       /\ Puts(Of(log, r)) => HeadHasAll(Of(log, r))
       /\ \A d \in Device : EditsStand(d, r)

(* The head of a record's rows on the server.                              *)
LEMMA TopOfLog ==
  ASSUME LogInv, NEW r, Of(log, r) # {}
  PROVE  IsTop(HeadOf(log, r), Of(log, r))
<1>1. IsFiniteSet(Of(log, r))
  BY FS_Subset DEF LogInv, Of
<1>2. \A x \in Of(log, r) : x.ver \in Nat
  BY DEF LogInv, Of, ServerRow
<1>. QED
  BY <1>1, <1>2, HighestRow DEF HeadOf, IsTop

LEMMA EditsStandIsEnough ==
  ASSUME LogInv, EditsInv
  PROVE  NoEditLost
<1>. SUFFICES ASSUME NEW x \in log, x.rec \notin belated, \A y \in Of(log, x.rec) : y.kind = "put",
                     NEW y \in Of(log, x.rec), NEW id \in y.edits
              PROVE  id \in HeadOf(log, x.rec).edits
  BY DEF NoEditLost
<1>1. x \in Of(log, x.rec) /\ x.rec \in Record
  BY DEF Of, LogInv, ServerRow
<1>2. HeadHasAll(Of(log, x.rec))
  BY <1>1 DEF EditsInv, Puts
<1>3. IsTop(HeadOf(log, x.rec), Of(log, x.rec))
  BY <1>1, TopOfLog
<1>. QED
  BY <1>2, <1>3 DEF HeadHasAll, IsTop

-------------------------------------------------------------------------------
(* A step of a device, which leaves the other devices and the server alone.*)
LEMMA StepEdits ==
  ASSUME SyncInv, AgreeInv, EditsInv, NEW d \in Device, log' = log, belated' = belated,
         \A g \in Device \ {d} : store'[g] = store[g] /\ outbox'[g] = outbox[g] /\ round'[g] = round[g],
         round'[d].at = "sent" =>
           round'[d] = round[d] \/ \A c \in round'[d].batch : \E e \in outbox[d] : c.id = e.id,
         \A r \in Record \ belated : EditsStand(d, r)'
  PROVE  EditsInv'
<1>1. OwnSent'
  <2>. SUFFICES ASSUME NEW k \in Device, NEW g \in Device, k # g,
                       round'[k].at = "sent", round'[g].at = "sent",
                       NEW c \in round'[k].batch, NEW e \in round'[g].batch, c.id = e.id
                PROVE  FALSE
    BY DEF OwnSent
  <2>1. CASE round'[k] = round[k] /\ round'[g] = round[g]
    BY <2>1 DEF EditsInv, OwnSent
  <2>2. CASE round'[k] # round[k]
    <3>1. k = d /\ round'[g] = round[g]
      BY <2>2
    <3>2. PICK h \in outbox[d] : e.id = h.id
      BY <2>2
    <3>3. round[g].at = "sent" /\ e \in round[g].batch /\ g # d
      BY <3>1
    <3>. QED
      BY <3>2, <3>3 DEF AgreeInv, Own
  <2>3. CASE round'[g] # round[g]
    <3>1. g = d /\ (\E h \in outbox[d] : e.id = h.id) /\ round'[k] = round[k]
      BY <2>3
    <3>. QED
      BY <3>1 DEF AgreeInv, Own
  <2>. QED
    BY <2>1, <2>2, <2>3
<1>2. ASSUME NEW r \in Record \ belated
      PROVE  (Puts(Of(log', r)) => HeadHasAll(Of(log', r))) /\ \A g \in Device : EditsStand(g, r)'
  <2>1. \A g \in Device \ {d} : EditsStand(g, r)'
    BY DEF EditsInv, EditsStand
  <2>. QED
    BY <2>1 DEF EditsInv
<1>. QED
  BY <1>1, <1>2 DEF EditsInv

(* A version on top of a record's, with all that its head has.             *)
LEMMA InsertEdits ==
  ASSUME NEW L, NEW S, NEW Q, NEW rd, NEW r, EditsStandOf(L, S, Q, rd, r),
         NEW x, ~x.synced, NEW e, IsRowOf(x, e),
         \A y \in L : y.id # e.id, \A f \in Q : ~IsRowOf(x, f), \A y \in S : ~IsRowOf(y, e),
         rd.at = "sent" => \A c \in Of(rd.batch, r) : c.id # e.id,
         \A y \in S : y.ver \in Nat, x.ver \in Nat,
         \/ S = {} /\ Q = {} /\ L = {} /\ x.ver = 1
         \/ \E h \in S : IsTop(h, S) /\ x.ver = h.ver + 1 /\ h.edits \subseteq x.edits
  PROVE  EditsStandOf(L, S \cup {x}, Q \cup {e}, rd, r)
<1> DEFINE T == S \cup {x}
           P == Q \cup {e}
           b == Of(rd.batch, r)
<1>1. Synced(T) = Synced(S) /\ Pending(T) = Pending(S) \cup {x}
  BY DEF Synced, Pending
<1>2. \A y \in S : y.ver < x.ver
  BY DEF IsTop
<1>3. \A h \in T : IsTop(h, T) => h = x
  <2>. SUFFICES ASSUME NEW h \in S, IsTop(h, T) PROVE FALSE
    OBVIOUS
  <2>1. x.ver <= h.ver /\ h.ver < x.ver /\ h.ver \in Nat
    BY <1>2 DEF IsTop
  <2>. QED
    BY <2>1
<1>4. Stored(L, P) = Stored(L, Q)
  BY DEF Stored
<1>5. Puts(T) => Puts(S)
  BY DEF Puts
<1>6. WaitingKinds(L, T, P)
  BY <1>1 DEF EditsStandOf, WaitingKinds
<1>7. ASSUME Puts(L), Puts(T) PROVE StoreHasEdits(L, T, P)
  <2>1. StoreHasEdits(L, S, Q)
    BY <1>5, <1>7 DEF EditsStandOf
  <2>2. Builds(T)
    <3>1. x.ver = 1 \/ \E y \in T : y.ver = x.ver - 1
      OBVIOUS
    <3>2. \A y \in Pending(S) : y.ver = 1 \/ \E z \in T : z.ver = y.ver - 1
      BY <2>1 DEF StoreHasEdits, Builds
    <3>. QED
      BY <1>1, <3>1, <3>2 DEF Builds
  <2>3. CASE S = {} /\ Q = {} /\ L = {}
    <3>1. HeadHasWaiting(L, T)
      BY <1>1, <1>3, <2>3 DEF HeadHasWaiting, Pending
    <3>2. HeadHasSynced(T)
      BY <1>1, <2>3 DEF HeadHasSynced, Synced
    <3>3. Stored(L, P) = {} /\ HeadHasStored(L, T, P) /\ StoredAsWaiting(L, T, P) /\ FirstIsOwn(L, T, P)
      BY <2>3 DEF Stored, HeadHasStored, StoredAsWaiting, FirstIsOwn
    <3>. QED
      BY <2>2, <3>1, <3>2, <3>3 DEF StoreHasEdits
  <2>4. ASSUME NEW h \in S, IsTop(h, S), h.edits \subseteq x.edits
        PROVE  StoreHasEdits(L, T, P)
    <3>1. HeadHasWaiting(L, T)
      BY <1>1, <1>3, <2>1, <2>4 DEF StoreHasEdits, HeadHasWaiting
    <3>2. Stored(L, P) = {} => HeadHasSynced(T)
      BY <1>1, <1>3, <1>4, <2>1, <2>4 DEF StoreHasEdits, HeadHasSynced
    <3>3. HeadHasStored(L, T, P)
      BY <1>3, <1>4, <2>1, <2>4 DEF StoreHasEdits, HeadHasStored
    <3>4. StoredAsWaiting(L, T, P)
      BY <2>1 DEF StoreHasEdits, StoredAsWaiting
    <3>5. FirstIsOwn(L, T, P)
      BY <1>1, <1>4, <2>1 DEF StoreHasEdits, FirstIsOwn
    <3>. QED
      BY <2>2, <3>1, <3>2, <3>3, <3>4, <3>5 DEF StoreHasEdits
  <2>. QED
    BY <2>3, <2>4
<1>8. ASSUME rd.at = "sent" PROVE SentHasEdits(L, T, P, b)
  <2>1. SentHasEdits(L, S, Q, b)
    BY <1>8 DEF EditsStandOf
  <2>2. ASSUME Puts(T), Puts(b) PROVE SentAsWaiting(T, P, b)
    <3>1. SentAsWaiting(S, Q, b)
      BY <1>5, <2>1, <2>2 DEF SentHasEdits
    <3>2. \A c \in b : c.id # e.id
      BY <1>8
    <3> HIDE DEF b
    <3>3. \A c \in b : \E f \in P : c.id = f.id
      BY <3>1 DEF SentAsWaiting
    <3>4. \A c \in b, f \in P, y \in T : c.id = f.id /\ IsRowOf(y, f) => y.ver = c.base + 1 /\ y.edits = c.edits
      <4>. SUFFICES ASSUME NEW c \in b, NEW f \in P, NEW y \in T, c.id = f.id, IsRowOf(y, f)
                    PROVE  y.ver = c.base + 1 /\ y.edits = c.edits
        OBVIOUS
      <4>1. f \in Q
        BY <3>2
      <4>2. y \in S
        BY <4>1
      <4>. QED
        BY <3>1, <4>1, <4>2 DEF SentAsWaiting
    <3>5. \A c \in b, h \in T : IsLastOf(c, b) /\ IsTop(h, T) => c.edits \subseteq h.edits
      BY <1>3, <3>1 DEF SentAsWaiting
    <3>. QED
      BY <3>3, <3>4, <3>5 DEF SentAsWaiting
  <2>. QED
    BY <2>1, <2>2 DEF SentHasEdits
<1>. QED
  BY <1>6, <1>7, <1>8 DEF EditsStandOf

(* A purge in the place of all of them.                                    *)
LEMMA PurgeEdits ==
  ASSUME NEW L, NEW S, NEW Q, NEW rd, NEW r, EditsStandOf(L, S, Q, rd, r),
         NEW x, x.kind = "purged", NEW e, \A y \in L : y.id # e.id
  PROVE  EditsStandOf(L, {x}, {e}, rd, r)
<1>1. ~Puts({x}) /\ WaitingKinds(L, {x}, {e})
  BY DEF Puts, WaitingKinds
<1>2. rd.at = "sent" => SentHasEdits(L, {x}, {e}, Of(rd.batch, r))
  BY <1>1 DEF EditsStandOf, SentHasEdits
<1>. QED
  BY <1>1, <1>2 DEF EditsStandOf

(* The same entries, parked or not.                                        *)
SameEntries(Q, P) ==
  /\ \A f \in P : \E e \in Q : e.id = f.id /\ e.rec = f.rec /\ e.ver = f.ver
  /\ \A e \in Q : \E f \in P : e.id = f.id /\ e.rec = f.rec /\ e.ver = f.ver

LEMMA SameEntriesEdits ==
  ASSUME NEW L, NEW S, NEW Q, NEW rd, NEW r, EditsStandOf(L, S, Q, rd, r),
         NEW P, SameEntries(Q, P)
  PROVE  EditsStandOf(L, S, P, rd, r)
<1>1. Stored(L, P) = Stored(L, Q)
  BY DEF Stored, SameEntries
<1>2. WaitingKinds(L, S, P)
  <2>. SUFFICES ASSUME NEW x \in L, NEW f \in P, NEW y \in Pending(S),
                       x.id = f.id, IsRowOf(y, f), x.kind = "put"
                PROVE  y.kind = "put"
    BY DEF WaitingKinds
  <2>1. PICK e \in Q : e.id = f.id /\ e.rec = f.rec /\ e.ver = f.ver
    BY DEF SameEntries
  <2>. QED
    BY <2>1 DEF EditsStandOf, WaitingKinds, IsRowOf
<1>3. ASSUME Puts(L), Puts(S) PROVE StoreHasEdits(L, S, P)
  <2>1. StoreHasEdits(L, S, Q)
    BY <1>3 DEF EditsStandOf
  <2>2. StoredAsWaiting(L, S, P)
    <3>. SUFFICES ASSUME NEW x \in L, NEW f \in P, NEW y \in S, x.id = f.id, IsRowOf(y, f)
                  PROVE  x.ver = y.ver /\ x.edits = y.edits
      BY DEF StoredAsWaiting
    <3>1. PICK e \in Q : e.id = f.id /\ e.rec = f.rec /\ e.ver = f.ver
      BY DEF SameEntries
    <3>. QED
      BY <2>1, <3>1 DEF StoreHasEdits, StoredAsWaiting, IsRowOf
  <2>. QED
    BY <1>1, <2>1, <2>2 DEF StoreHasEdits, HeadHasStored, FirstIsOwn
<1>4. ASSUME rd.at = "sent" PROVE SentHasEdits(L, S, P, Of(rd.batch, r))
  <2> DEFINE b == Of(rd.batch, r)
  <2>1. SentHasEdits(L, S, Q, b)
    BY <1>4 DEF EditsStandOf
  <2> HIDE DEF b
  <2>2. ASSUME Puts(S), Puts(b) PROVE SentAsWaiting(S, P, b)
    <3>1. SentAsWaiting(S, Q, b)
      BY <2>1, <2>2 DEF SentHasEdits
    <3>2. \A c \in b : \E f \in P : c.id = f.id
      <4>. SUFFICES ASSUME NEW c \in b PROVE \E f \in P : c.id = f.id
        OBVIOUS
      <4>1. PICK e \in Q : c.id = e.id
        BY <3>1 DEF SentAsWaiting
      <4>. QED
        BY <4>1 DEF SameEntries
    <3>3. \A c \in b, f \in P, y \in S : c.id = f.id /\ IsRowOf(y, f) => y.ver = c.base + 1 /\ y.edits = c.edits
      <4>. SUFFICES ASSUME NEW c \in b, NEW f \in P, NEW y \in S, c.id = f.id, IsRowOf(y, f)
                    PROVE  y.ver = c.base + 1 /\ y.edits = c.edits
        OBVIOUS
      <4>1. PICK e \in Q : e.id = f.id /\ e.rec = f.rec /\ e.ver = f.ver
        BY DEF SameEntries
      <4>. QED
        BY <3>1, <4>1 DEF SentAsWaiting, IsRowOf
    <3>. QED
      BY <3>1, <3>2, <3>3 DEF SentAsWaiting
  <2>3. SentHasEdits(L, S, P, b)
    BY <2>1, <2>2 DEF SentHasEdits
  <2>. QED
    BY <2>3 DEF b
<1>. QED
  BY <1>2, <1>3, <1>4 DEF EditsStandOf

(* A round at another step than a push sent.                               *)
LEMMA QuietEdits ==
  ASSUME NEW L, NEW S, NEW Q, NEW rd, NEW r, EditsStandOf(L, S, Q, rd, r),
         NEW next, next.at # "sent"
  PROVE  EditsStandOf(L, S, Q, next, r)
BY DEF EditsStandOf

(* What a user writes of one record.                                       *)
LEMMA WriteEdits ==
  ASSUME SyncInv, AgreeInv, EditsInv, NEW d \in Device, NEW new, UserWrite(d, new), NEW r0 \in Record,
         \A r : r # r0 =>
           Of(new.rows, r) = Of(store[d], r) /\ Of(new.queue, r) = Of(outbox[d], r),
         EditsStandOf(Of(log, r0), Of(store[d], r0), Of(outbox[d], r0), round[d], r0) =>
           EditsStandOf(Of(log, r0), Of(new.rows, r0), Of(new.queue, r0), round[d], r0)
  PROVE  EditsInv'
<1>1. store = [g \in Device |-> store[g]] /\ outbox = [g \in Device |-> outbox[g]]
  BY DEF SyncInv, Shapes
<1>2. store' = [store EXCEPT ![d] = new.rows] /\ outbox' = [outbox EXCEPT ![d] = new.queue]
  BY DEF UserWrite, Keep
<1>3. log' = log /\ belated' = belated /\ round' = round
  BY DEF UserWrite, serverVars
<1>4. /\ store'[d] = new.rows /\ outbox'[d] = new.queue
      /\ \A g \in Device \ {d} : store'[g] = store[g] /\ outbox'[g] = outbox[g]
  BY <1>1, <1>2, Zenon
<1>5. ASSUME NEW r \in Record \ belated PROVE EditsStand(d, r)'
  <2>1. EditsStandOf(Of(log, r), Of(store[d], r), Of(outbox[d], r), round[d], r)
    BY DEF EditsInv, EditsStand
  <2>2. CASE r = r0
    BY <1>3, <1>4, <2>1, <2>2 DEF EditsStand
  <2>3. CASE r # r0
    <3>1. Of(store'[d], r) = Of(store[d], r) /\ Of(outbox'[d], r) = Of(outbox[d], r)
      BY <1>4, <2>3
    <3>. QED
      BY <1>3, <2>1, <3>1 DEF EditsStand
  <2>. QED
    BY <2>2, <2>3
<1>. QED
  BY <1>3, <1>4, <1>5, StepEdits

LEMMA InsertStepEdits ==
  ASSUME SyncInv, AgreeInv, EditsInv, NEW d \in Device, NEW r0 \in Record, NEW ver \in Nat, NEW kind,
         NEW edits, UserWrite(d, InsertPending(Device0(d), r0, ver, kind, edits)),
         \/ Of(store[d], r0) = {} /\ r0 \notin created /\ ver = 1
         \/ \E h \in Of(store[d], r0) :
              IsTop(h, Of(store[d], r0)) /\ ver = h.ver + 1 /\ h.edits \subseteq edits
  PROVE  EditsInv'
<1> DEFINE new == InsertPending(Device0(d), r0, ver, kind, edits)
           x == LocalRow(r0, ver, kind, edits, FALSE)
           e == [id |-> nextId, rec |-> r0, ver |-> ver, parked |-> FALSE]
           L == Of(log, r0)
           S == Of(store[d], r0)
           Q == Of(outbox[d], r0)
<1>1. new.rows = store[d] \cup {x} /\ new.queue = outbox[d] \cup {e}
  BY DEF InsertPending, Device0
<1>2. x.rec = r0 /\ x.ver = ver /\ ~x.synced /\ x.edits = edits
  BY DEF LocalRow
<1>3. e.id = nextId /\ e.rec = r0 /\ e.ver = ver
  OBVIOUS
<1>4. UserWrite(d, new)
  OBVIOUS
<1> HIDE DEF new, x, e
<1>5. \A r : r # r0 => Of(new.rows, r) = Of(store[d], r) /\ Of(new.queue, r) = Of(outbox[d], r)
  BY <1>1, <1>2, <1>3 DEF Of
<1>6. Of(new.rows, r0) = S \cup {x} /\ Of(new.queue, r0) = Q \cup {e}
  BY <1>1, <1>2, <1>3 DEF Of
<1>7. \A y \in L : y.id # e.id
  BY <1>3, NewIdFacts
<1>8. /\ \A y \in S : y.ver \in Nat
      /\ \A f \in Q : \E y \in Pending(S) : IsRowOf(y, f)
  BY RecordFacts
<1>9. \A y \in S : y.ver # ver
  BY <1>8 DEF IsTop
<1>10. \A f \in Q : ~IsRowOf(x, f)
  BY <1>2, <1>8, <1>9 DEF IsRowOf, Pending
<1>11. IsRowOf(x, e) /\ \A y \in S : ~IsRowOf(y, e)
  BY <1>2, <1>3, <1>9 DEF IsRowOf
<1>12. round[d].at = "sent" => \A c \in Of(round[d].batch, r0) : c.id # e.id
  <2>1. round[d].at = "sent" => BatchFits(round[d].batch)
    BY BatchFacts DEF Batches
  <2>2. nextId \in Nat
    BY NewIdFacts
  <2>. QED
    BY <1>3, <2>1, <2>2 DEF BatchFits, PushChange, Of
<1>13. \/ S = {} /\ Q = {} /\ L = {} /\ x.ver = 1
       \/ \E h \in S : IsTop(h, S) /\ x.ver = h.ver + 1 /\ h.edits \subseteq x.edits
  <2>1. CASE S = {} /\ r0 \notin created /\ ver = 1
    <3>1. Q = {}
      BY <1>8, <2>1 DEF Pending
    <3>2. L = {}
      BY <2>1 DEF SyncInv, LogInv, Of
    <3>. QED
      BY <1>2, <2>1, <3>1, <3>2
  <2>2. CASE \E h \in S : IsTop(h, S) /\ ver = h.ver + 1 /\ h.edits \subseteq edits
    BY <1>2, <2>2
  <2>. QED
    BY <2>1, <2>2
<1>14. x.ver \in Nat
  BY <1>2
<1>15. EditsStandOf(L, S, Q, round[d], r0) => EditsStandOf(L, Of(new.rows, r0), Of(new.queue, r0), round[d], r0)
  <2> HIDE DEF L, S, Q
  <2>. QED
    BY <1>2, <1>6, <1>7, <1>8, <1>10, <1>11, <1>12, <1>13, <1>14, InsertEdits
<1>. QED
  BY <1>4, <1>5, <1>15, WriteEdits

(* The head of a record's rows on a device.                                *)
LEMMA TopOfStore ==
  ASSUME SyncInv, NEW d \in Device, NEW r, Of(store[d], r) # {}
  PROVE  IsTop(HeadOf(store[d], r), Of(store[d], r))
<1>1. IsFiniteSet(Of(store[d], r))
  BY DeviceFacts, FS_Subset DEF RowsFit, Of
<1>2. \A x \in Of(store[d], r) : x.ver \in Nat
  BY RecordFacts
<1>. QED
  BY <1>1, <1>2, HighestRow DEF HeadOf, IsTop

LEMMA CreateEdits ==
  ASSUME SyncInv, AgreeInv, EditsInv, NEW d \in Device, NEW r \in Record, Create(d, r)
  PROVE  EditsInv'
<1>1. Of(store[d], r) = {}
  BY DeviceFacts DEF Create, Known, Of
<1>. QED
  BY <1>1, InsertStepEdits DEF Create

LEMMA UpdateEdits ==
  ASSUME SyncInv, AgreeInv, EditsInv, NEW d \in Device, NEW r \in Record, Update(d, r) \/ Delete(d, r)
  PROVE  EditsInv'
<1> DEFINE head == HeadOf(store[d], r)
<1>1. Of(store[d], r) # {}
  BY DEF Update, Delete, Present
<1>2. IsTop(head, Of(store[d], r)) /\ head.ver + 1 \in Nat
  <2>1. IsTop(head, Of(store[d], r))
    BY <1>1, TopOfStore
  <2>2. head.ver \in Nat
    BY <2>1, RecordFacts DEF IsTop
  <2> HIDE DEF head
  <2>. QED
    BY <2>1, <2>2
<1>3. PICK kind, edits : /\ head.edits \subseteq edits
                         /\ UserWrite(d, InsertPending(Device0(d), r, head.ver + 1, kind, edits))
  <2>1. CASE Update(d, r)
    BY <2>1 DEF Update
  <2>2. CASE Delete(d, r)
    BY <2>2 DEF Delete
  <2>. QED
    BY <2>1, <2>2
<1> HIDE DEF head
<1>4. \E h \in Of(store[d], r) :
        IsTop(h, Of(store[d], r)) /\ head.ver + 1 = h.ver + 1 /\ h.edits \subseteq edits
  BY <1>2, <1>3 DEF IsTop
<1>. QED
  BY <1>2, <1>3, <1>4, InsertStepEdits

LEMMA PurgeStepEdits ==
  ASSUME SyncInv, AgreeInv, EditsInv, NEW d \in Device, NEW r \in Record, Purge(d, r)
  PROVE  EditsInv'
<1> DEFINE mine == Of(store[d], r)
           below == IF Synced(mine) # {} THEN Highest(Synced(mine)) ELSE Highest(mine)
           x == LocalRow(r, below.ver + 1, "purged", {}, FALSE)
           e == [id |-> nextId, rec |-> r, ver |-> below.ver + 1, parked |-> FALSE]
           new == PurgeRecord(Device0(d), r)
<1>1. UserWrite(d, new)
  BY DEF Purge
<1>2. new.rows = (store[d] \ mine) \cup {x} /\ new.queue = (outbox[d] \ Of(outbox[d], r)) \cup {e}
  BY DEF PurgeRecord, InsertPending, Device0
<1>3. x.rec = r /\ x.kind = "purged" /\ e.id = nextId /\ e.rec = r
  BY DEF LocalRow
<1> HIDE DEF below, x, e, new
<1>4. \A q : q # r => Of(new.rows, q) = Of(store[d], q) /\ Of(new.queue, q) = Of(outbox[d], q)
  BY <1>2, <1>3 DEF Of
<1>5. Of(new.rows, r) = {x} /\ Of(new.queue, r) = {e}
  BY <1>2, <1>3 DEF Of
<1>6. \A y \in Of(log, r) : y.id # e.id
  BY <1>3, NewIdFacts
<1>7. EditsStandOf(Of(log, r), mine, Of(outbox[d], r), round[d], r) =>
        EditsStandOf(Of(log, r), Of(new.rows, r), Of(new.queue, r), round[d], r)
  <2> HIDE DEF mine
  <2>. QED
    BY <1>3, <1>5, <1>6, PurgeEdits
<1>. QED
  BY <1>1, <1>4, <1>7, WriteEdits

LEMMA RetryEdits ==
  ASSUME SyncInv, AgreeInv, EditsInv, NEW d \in Device, RetryParked(d)
  PROVE  EditsInv'
<1>1. /\ log' = log /\ belated' = belated /\ store' = store /\ round' = round
      /\ outbox' = [outbox EXCEPT ![d] = { [e EXCEPT !.parked = FALSE] : e \in @ }]
  BY DEF RetryParked, serverVars
<1>2. outbox = [g \in Device |-> outbox[g]]
  BY DEF SyncInv, Shapes
<1>3. /\ outbox'[d] = { [e EXCEPT !.parked = FALSE] : e \in outbox[d] }
      /\ \A g \in Device \ {d} : outbox'[g] = outbox[g]
  BY <1>1, <1>2, Zenon
<1>4. SameEntries(outbox[d], outbox'[d])
  <2>1. \A e \in outbox[d] : e \in Entry
    BY DeviceFacts, EntryTypes
  <2>2. \A e \in Entry : LET f == [e EXCEPT !.parked = FALSE]
                         IN  e.id = f.id /\ e.rec = f.rec /\ e.ver = f.ver
    BY DEF Entry
  <2>. QED
    BY <1>3, <2>1, <2>2 DEF SameEntries
<1>5. ASSUME NEW r \in Record \ belated PROVE EditsStand(d, r)'
  <2>1. EditsStandOf(Of(log, r), Of(store[d], r), Of(outbox[d], r), round[d], r)
    BY DEF EditsInv, EditsStand
  <2>2. SameEntries(Of(outbox[d], r), Of(outbox'[d], r))
    BY <1>4 DEF SameEntries, Of
  <2>3. EditsStandOf(Of(log, r), Of(store[d], r), Of(outbox'[d], r), round[d], r)
    BY <2>1, <2>2, SameEntriesEdits
  <2>. QED
    BY <1>1, <2>3 DEF EditsStand
<1>. QED
  BY <1>1, <1>3, <1>5, StepEdits

(* A step of the round that touches nothing but the round.                 *)
LEMMA RoundEdits ==
  ASSUME SyncInv, AgreeInv, EditsInv, NEW d \in Device, NEW next, Go(d, next),
         UNCHANGED <<serverVars, deviceVars>>,
         next.at = "sent" => \A c \in next.batch : \E e \in outbox[d] : c.id = e.id,
         \A r \in Record \ belated :
           EditsStandOf(Of(log, r), Of(store[d], r), Of(outbox[d], r), round[d], r) =>
             EditsStandOf(Of(log, r), Of(store[d], r), Of(outbox[d], r), next, r)
  PROVE  EditsInv'
<1>1. round'[d] = next /\ \A g \in Device \ {d} : round'[g] = round[g]
  BY GoFacts
<1>2. log' = log /\ belated' = belated /\ store' = store /\ outbox' = outbox
  BY DEF serverVars, deviceVars
<1>3. ASSUME NEW r \in Record \ belated PROVE EditsStand(d, r)'
  BY <1>1, <1>2 DEF EditsInv, EditsStand
<1>. QED
  BY <1>1, <1>2, <1>3, StepEdits

LEMMA QuietStepEdits ==
  ASSUME SyncInv, AgreeInv, EditsInv, NEW d \in Device, Break(d) \/ GiveUp(d) \/ ReadPage(d)
  PROVE  EditsInv'
<1>1. PICK next : Go(d, next) /\ next.at # "sent"
  BY DEF Break, GiveUp, ReadPage, Idle
<1>2. UNCHANGED <<serverVars, deviceVars>>
  BY DEF Break, GiveUp, ReadPage
<1>. QED
  BY <1>1, <1>2, QuietEdits, RoundEdits

-------------------------------------------------------------------------------
(***************************************************************************)
(* A push sent.                                                            *)
(***************************************************************************)
(* A change says what its row does.                                        *)
IsSentFor(c, x, Q) ==
  /\ x.ver = c.base + 1 /\ x.kind = c.kind /\ x.edits = c.edits
  /\ \A e \in Q : c.id = e.id => IsRowOf(x, e)

(* All that waits, in the order it was written.                            *)
SentOf(S, Q, b) ==
  /\ \A c \in b : c.id \in Nat /\ c.base \in Nat
  /\ \A c \in b : \E x \in Pending(S) : IsSentFor(c, x, Q)
  /\ \A x \in Pending(S) : \E c \in b : IsSentFor(c, x, Q)
  /\ \A c, e \in b : c.id < e.id <=> c.base < e.base
  /\ \A c \in b : \E e \in Q : c.id = e.id
  /\ \A e \in Q : \E c \in b : c.id = e.id

LEMMA SentOfRecord ==
  ASSUME SyncInv, NEW d \in Device, NEW r
  PROVE  \/ Of(Sendable(d), r) = {}
         \/ SentOf(Of(store[d], r), Of(outbox[d], r), Of(Sendable(d), r))
<1> DEFINE S == Of(store[d], r)
           Q == Of(outbox[d], r)
           b == Of(Sendable(d), r)
<1>1. SUFFICES ASSUME b # {} PROVE SentOf(S, Q, b)
  OBVIOUS
<1>2. /\ Sendable(d) = { ToPushChange(d, e) : e \in Sent(d) }
      /\ Sent(d) \in SUBSET outbox[d]
      /\ \A e \in Sent(d), f \in outbox[d] : f.rec = e.rec => f \in Sent(d)
  BY SentChanges
<1>3. \A e \in outbox[d] : \E x \in Pending(store[d]) :
        /\ IsRowOf(x, e) /\ x \in StoreRow
        /\ ToPushChange(d, e)
             = [id |-> e.id, rec |-> e.rec, kind |-> x.kind, base |-> x.ver - 1, edits |-> x.edits]
  BY ToPushFacts
<1>4. \A e \in Q : e \in outbox[d] /\ e.rec = r /\ e \in Entry
  BY DeviceFacts, EntryTypes DEF Of
<1>5. \A e \in Q : \E x \in Pending(S) :
        /\ IsRowOf(x, e) /\ x \in StoreRow
        /\ ToPushChange(d, e)
             = [id |-> e.id, rec |-> e.rec, kind |-> x.kind, base |-> x.ver - 1, edits |-> x.edits]
  <2>. TAKE e \in Q
  <2>1. PICK x \in Pending(store[d]) :
          /\ IsRowOf(x, e) /\ x \in StoreRow
          /\ ToPushChange(d, e)
               = [id |-> e.id, rec |-> e.rec, kind |-> x.kind, base |-> x.ver - 1, edits |-> x.edits]
    BY <1>3, <1>4
  <2>2. x \in Pending(S)
    BY <1>4, <2>1 DEF Pending, Of, IsRowOf
  <2>. QED
    BY <2>1, <2>2
<1>6. \A e \in outbox[d] : ToPushChange(d, e).rec = e.rec /\ ToPushChange(d, e).id = e.id
  BY <1>3
<1>7. PICK e0 \in Q : e0 \in Sent(d)
  <2>1. PICK c \in Sendable(d) : c.rec = r
    BY <1>1 DEF Of
  <2>2. PICK e \in Sent(d) : c = ToPushChange(d, e)
    BY <1>2, <2>1
  <2>. QED
    BY <1>2, <1>6, <2>1, <2>2 DEF Of
<1>8. Q \subseteq Sent(d)
  BY <1>2, <1>4, <1>7
<1>9. /\ \A c \in b : \E e \in Q : c = ToPushChange(d, e)
      /\ \A e \in Q : \E c \in b : c = ToPushChange(d, e)
  <2>1. ASSUME NEW c \in b PROVE \E e \in Q : c = ToPushChange(d, e)
    <3>1. c \in Sendable(d) /\ c.rec = r
      BY DEF Of
    <3>2. PICK e \in Sent(d) : c = ToPushChange(d, e)
      BY <1>2, <3>1
    <3>. QED
      BY <1>2, <1>6, <3>1, <3>2 DEF Of
  <2>2. ASSUME NEW e \in Q PROVE ToPushChange(d, e) \in b
    BY <1>2, <1>4, <1>6, <1>8 DEF Of
  <2>. QED
    BY <2>1, <2>2
<1>10. /\ \A e, f \in Q : (e.id = f.id => e = f) /\ (e.id < f.id => e.ver < f.ver)
       /\ \A x \in Pending(S) : \E e \in Q : IsRowOf(x, e)
  <2>1. QueueFits(Pending(store[d]), outbox[d])
    BY DeviceFacts
  <2>2. \A x \in Pending(S) : x \in Pending(store[d]) /\ x.rec = r
    BY DEF Pending, Of
  <2>3. \A e, f \in Q : (e.id = f.id => e = f) /\ (e.id < f.id => e.ver < f.ver)
    BY <1>4, <2>1 DEF QueueFits
  <2>4. ASSUME NEW x \in Pending(S) PROVE \E e \in Q : IsRowOf(x, e)
    BY <2>1, <2>2 DEF QueueFits, Of, IsRowOf
  <2>. QED
    BY <2>3, <2>4
<1>11. \A e, f \in Q : e.id \in Nat /\ f.id \in Nat /\ e.ver \in Nat \ {0} /\ f.ver \in Nat \ {0}
  BY <1>4 DEF Entry
<1>12. \A e \in Q, x \in Pending(S) : IsRowOf(x, e) => IsSentFor(ToPushChange(d, e), x, Q)
  <2>. SUFFICES ASSUME NEW e \in Q, NEW x \in Pending(S), IsRowOf(x, e)
                PROVE  IsSentFor(ToPushChange(d, e), x, Q)
    OBVIOUS
  <2>1. PICK y \in Pending(S) :
          /\ IsRowOf(y, e) /\ y \in StoreRow
          /\ ToPushChange(d, e)
               = [id |-> e.id, rec |-> e.rec, kind |-> y.kind, base |-> y.ver - 1, edits |-> y.edits]
    BY <1>5
  <2>2. x = y
    <3>1. RowsFit(store[d]) /\ x \in store[d] /\ y \in store[d]
      BY DeviceFacts DEF Pending, Of
    <3>. QED
      BY <2>1, <3>1 DEF RowsFit, IsRowOf
  <2>3. x.ver = (x.ver - 1) + 1
    BY <2>1, <2>2 DEF StoreRow
  <2>. QED
    BY <1>10, <2>1, <2>2, <2>3 DEF IsSentFor
<1>13. \A e \in Q : ToPushChange(d, e).id = e.id /\ ToPushChange(d, e).base = e.ver - 1
  BY <1>5 DEF IsRowOf
<1> HIDE DEF S, Q, b
<1>14. \A c \in b : c.id \in Nat /\ c.base \in Nat
  BY <1>9, <1>11, <1>13
<1>15. \A c \in b : \E x \in Pending(S) : IsSentFor(c, x, Q)
  BY <1>5, <1>9, <1>12
<1>16. \A x \in Pending(S) : \E c \in b : IsSentFor(c, x, Q)
  BY <1>9, <1>10, <1>12
<1>17. \A e, f \in Q : e.id < f.id <=> e.ver - 1 < f.ver - 1
  <2>. SUFFICES ASSUME NEW e \in Q, NEW f \in Q PROVE e.id < f.id <=> e.ver - 1 < f.ver - 1
    OBVIOUS
  <2>1. e.id < f.id => e.ver < f.ver
    BY <1>10
  <2>2. f.id < e.id => f.ver < e.ver
    BY <1>10
  <2>3. e.id = f.id => e.ver = f.ver
    BY <1>10
  <2>. QED
    BY <1>11, <2>1, <2>2, <2>3
<1>18. \A c, e \in b : c.id < e.id <=> c.base < e.base
  BY <1>9, <1>13, <1>17
<1>19. (\A c \in b : \E e \in Q : c.id = e.id) /\ \A e \in Q : \E c \in b : c.id = e.id
  BY <1>9, <1>13
<1>. QED
  BY <1>14, <1>15, <1>16, <1>18, <1>19 DEF SentOf

(* A device's versions of a record and their synced copies, as the server  *)
(* has them.                                                               *)
SyncedThere(L, S) == \A x \in Synced(S) : \E y \in L : x = AsSynced(y)

LEMMA SyncedAreThere ==
  ASSUME NEW L, NEW S, NEW n, HasOnly(L, S, n), Puts(L), L # {} \/ Synced(S) = {} \/ Puts(S)
  PROVE  SyncedThere(L, S)
<1>. SUFFICES ASSUME NEW x \in Synced(S) PROVE \E y \in L : x = AsSynced(y)
  BY DEF SyncedThere
<1>1. ~PurgedAbove(L, x.ver, n)
  BY DEF PurgedAbove, Puts
<1>2. ~(L = {} /\ x.kind = "purged")
  BY DEF Puts, Synced
<1>. QED
  BY <1>1, <1>2 DEF HasOnly

LEMMA SendHasEdits ==
  ASSUME NEW L, NEW S, NEW Q, NEW n, NEW b, SentOf(S, Q, b),
         WaitingKinds(L, S, Q), Puts(L) /\ Puts(S) => StoreHasEdits(L, S, Q), HasOnly(L, S, n),
         L = {} /\ Synced(S) # {} => \A c \in b : c.base # 0,
         \A x, y \in S : x.ver = y.ver => x = y,
         \A x, y \in L : x.ver = y.ver => x = y,
         \A x \in Pending(S), y \in Synced(S) : y.ver < x.ver,
         \A x \in S : x.ver \in Nat \ {0},
         \A x \in L : x.ver \in Nat \ {0},
         \A e \in Q : \E x \in Pending(S) : IsRowOf(x, e)
  PROVE  SentHasEdits(L, S, Q, b)
<1>1. /\ \A c \in b : c.id \in Nat /\ c.base \in Nat
      /\ \A c \in b : \E x \in Pending(S) : IsSentFor(c, x, Q)
      /\ \A x \in Pending(S) : \E c \in b : IsSentFor(c, x, Q)
      /\ \A c, e \in b : c.id < e.id <=> c.base < e.base
      /\ \A c \in b : \E e \in Q : c.id = e.id
      /\ \A e \in Q : \E c \in b : c.id = e.id
  BY DEF SentOf
<1>2. /\ \A x \in Pending(S) : x \in S
      /\ \A x \in Synced(S) : x \in S
      /\ \A x \in S : x \in Pending(S) \/ x \in Synced(S)
  BY DEF Pending, Synced
<1>3. SentKinds(L, b)
  <2>. SUFFICES ASSUME NEW x \in L, NEW c \in b, x.id = c.id, x.kind = "put" PROVE c.kind = "put"
    BY DEF SentKinds
  <2>1. PICK e \in Q : c.id = e.id
    BY <1>1
  <2>2. PICK y \in Pending(S) : IsSentFor(c, y, Q)
    BY <1>1
  <2>3. IsRowOf(y, e) /\ y.kind = c.kind
    BY <2>1, <2>2 DEF IsSentFor
  <2>. QED
    BY <2>1, <2>3 DEF WaitingKinds
(* The row of the last change is the head.                                 *)
<1>4. ASSUME NEW l \in b, IsLastOf(l, b)
      PROVE  \E x \in S : IsTop(x, S) /\ x.edits = l.edits
  <2>1. PICK x \in Pending(S) : IsSentFor(l, x, Q)
    BY <1>1
  <2>2. ASSUME NEW y \in Pending(S) PROVE y.ver <= x.ver
    <3>1. PICK c \in b : IsSentFor(c, y, Q)
      BY <1>1
    <3>2. c.id <= l.id /\ c.id \in Nat /\ l.id \in Nat /\ c.base \in Nat /\ l.base \in Nat
      BY <1>1, <1>4 DEF IsLastOf
    <3>3. ~(l.id < c.id)
      BY <3>2
    <3>4. ~(l.base < c.base)
      BY <1>1, <3>3
    <3>5. x.ver = l.base + 1 /\ y.ver = c.base + 1
      BY <2>1, <3>1 DEF IsSentFor
    <3>. QED
      BY <3>2, <3>4, <3>5
  <2>3. \A y \in Synced(S) : y.ver <= x.ver
    BY <1>2
  <2>. QED
    BY <1>2, <2>1, <2>2, <2>3 DEF IsTop, IsSentFor
<1>5. \A x, y \in S : IsTop(x, S) /\ IsTop(y, S) => x = y
  BY DEF IsTop
<1>6. SentAsWaiting(S, Q, b)
  <2>1. ASSUME NEW c \in b, NEW e \in Q, NEW y \in S, c.id = e.id, IsRowOf(y, e)
        PROVE  y.ver = c.base + 1 /\ y.edits = c.edits
    <3>1. PICK x \in Pending(S) : IsSentFor(c, x, Q)
      BY <1>1
    <3>2. x = y
      BY <1>2, <2>1, <3>1 DEF IsSentFor, IsRowOf
    <3>. QED
      BY <3>1, <3>2 DEF IsSentFor
  <2>2. ASSUME NEW c \in b, NEW h \in S, IsLastOf(c, b), IsTop(h, S) PROVE c.edits \subseteq h.edits
    BY <1>4, <1>5, <2>2
  <2>. QED
    BY <1>1, <2>1, <2>2 DEF SentAsWaiting
<1>7. ASSUME Puts(L), Puts(b), L # {} \/ \E c \in b : c.base = 0
      PROVE  BatchHasEdits(L, b)
  <2>1. SyncedThere(L, S)
    BY <1>7, SyncedAreThere
  <2>2. Puts(S)
    <3>1. \A x \in Pending(S) : x.kind = "put"
      BY <1>1, <1>7 DEF Puts, IsSentFor
    <3>2. \A x \in Synced(S) : x.kind = "put"
      BY <1>7, <2>1 DEF SyncedThere, Puts, AsSynced, LocalRow
    <3>. QED
      BY <1>2, <3>1, <3>2 DEF Puts
  <2>3. StoreHasEdits(L, S, Q)
    BY <1>7, <2>2
  (* What a change builds on: nothing, the one before, or what is synced.  *)
  <2>4. ASSUME NEW c \in b
        PROVE  \/ c.base = 0
               \/ \E p \in b : p.id < c.id /\ p.base + 1 = c.base
               \/ \E y \in Synced(S) : y.ver = c.base /\ IsTop(y, Synced(S)) /\ IsFirstOf(c, b)
    <3>1. PICK x \in Pending(S) : IsSentFor(c, x, Q)
      BY <1>1
    <3>2. x.ver = c.base + 1 /\ c.base \in Nat /\ x.ver \in Nat
      BY <1>1, <1>2, <3>1 DEF IsSentFor
    <3>3. CASE x.ver = 1
      BY <3>2, <3>3
    <3>4. ASSUME NEW y \in Pending(S), y.ver = x.ver - 1
          PROVE  \E p \in b : p.id < c.id /\ p.base + 1 = c.base
      <4>1. PICK p \in b : IsSentFor(p, y, Q)
        BY <1>1
      <4>2. p.base \in Nat /\ y.ver = p.base + 1
        BY <1>1, <4>1 DEF IsSentFor
      <4>3. p.base + 1 = c.base /\ p.base < c.base
        BY <3>2, <3>4, <4>2
      <4>4. p.id < c.id
        BY <1>1, <4>3
      <4>. QED
        BY <4>3, <4>4
    <3>5. ASSUME NEW y \in Synced(S), y.ver = x.ver - 1
          PROVE  y.ver = c.base /\ IsTop(y, Synced(S)) /\ IsFirstOf(c, b)
      <4>1. y.ver = c.base
        BY <3>2, <3>5
      <4>2. \A z \in Synced(S) : z.ver <= y.ver
        <5>. TAKE z \in Synced(S)
        <5>1. z.ver < x.ver /\ z.ver \in Nat
          BY <1>2, <3>1
        <5>. QED
          BY <3>2, <3>5, <5>1
      <4>3. \A e \in b : c.id <= e.id
        <5>. TAKE e \in b
        <5>1. PICK z \in Pending(S) : IsSentFor(e, z, Q)
          BY <1>1
        <5>2. y.ver < z.ver /\ z.ver = e.base + 1 /\ e.base \in Nat /\ e.id \in Nat /\ c.id \in Nat
          BY <1>1, <5>1 DEF IsSentFor
        <5>3. ~(e.base < c.base)
          BY <3>2, <4>1, <5>2
        <5>4. ~(e.id < c.id)
          BY <1>1, <5>3
        <5>. QED
          BY <5>2, <5>4
      <4>. QED
        BY <4>1, <4>2, <4>3 DEF IsTop, IsFirstOf
    <3>6. x.ver = 1 \/ \E y \in S : y.ver = x.ver - 1
      BY <2>3, <3>1 DEF StoreHasEdits, Builds
    <3>. QED
      BY <1>2, <3>3, <3>4, <3>5, <3>6
  <2>5. \A c \in b : c.base = 0 => IsFirstOf(c, b)
    <3>. SUFFICES ASSUME NEW c \in b, c.base = 0, NEW e \in b PROVE c.id <= e.id
      BY DEF IsFirstOf
    <3>1. ~(e.base < c.base) /\ c.id \in Nat /\ e.id \in Nat
      BY <1>1
    <3>2. ~(e.id < c.id)
      BY <1>1, <3>1
    <3>. QED
      BY <3>1, <3>2
  <2>6. BatchBuilds(b)
    BY <2>4, <2>5 DEF BatchBuilds
  <2>7. StoredAsSent(L, b)
    <3>. SUFFICES ASSUME NEW x \in L, NEW c \in b, x.id = c.id PROVE x.ver = c.base + 1
      BY DEF StoredAsSent
    <3>1. PICK e \in Q : c.id = e.id
      BY <1>1
    <3>2. PICK y \in Pending(S) : IsSentFor(c, y, Q)
      BY <1>1
    <3>3. IsRowOf(y, e) /\ y.ver = c.base + 1 /\ y \in S
      BY <1>2, <3>1, <3>2 DEF IsSentFor
    <3>. QED
      BY <2>3, <3>1, <3>3 DEF StoreHasEdits, StoredAsWaiting
  <2>8. ASSUME NEW f \in b, IsFirstOf(f, b)
        PROVE  \/ f.base = 0
               \/ \E y \in Synced(S), z \in L : y = AsSynced(z) /\ z.ver = f.base /\ IsTop(y, Synced(S))
    <3>1. ~\E p \in b : p.id < f.id
      BY <1>1, <2>8 DEF IsFirstOf
    <3>2. \A y \in Synced(S) : \E z \in L : y = AsSynced(z) /\ z.ver = y.ver
      BY <2>1 DEF SyncedThere, AsSynced, LocalRow
    <3>. QED
      BY <2>4, <3>1, <3>2
  <2>9. FirstBuilds(L, b)
    BY <2>8 DEF FirstBuilds
  <2>10. Stored(L, b) = Stored(L, Q)
    BY <1>1 DEF Stored
  <2>11. LastHasSent(L, b)
    <3>. SUFFICES ASSUME NEW l \in b, NEW c \in b, IsLastOf(l, b), NEW i \in c.edits
                  PROVE  i \in l.edits \/ IsEdited(i, L)
      BY DEF LastHasSent
    <3>1. PICK h \in S : IsTop(h, S) /\ h.edits = l.edits
      BY <1>4
    <3>2. PICK x \in Pending(S) : IsSentFor(c, x, Q)
      BY <1>1
    <3>3. i \in x.edits
      BY <3>2 DEF IsSentFor
    <3>. QED
      BY <2>3, <3>1, <3>3 DEF StoreHasEdits, HeadHasWaiting
  <2>12. LastHasStored(L, b)
    <3>. SUFFICES ASSUME NEW l \in b, NEW x \in Stored(L, Q), IsLastOf(l, b), IsTop(x, Stored(L, Q))
                  PROVE  x.edits \subseteq l.edits
      BY <2>10 DEF LastHasStored
    <3>1. PICK h \in S : IsTop(h, S) /\ h.edits = l.edits
      BY <1>4
    <3>. QED
      BY <2>3, <3>1 DEF StoreHasEdits, HeadHasStored
  <2>13. LastHasBase(L, b)
    <3>. SUFFICES ASSUME Stored(L, Q) = {}, NEW l \in b, NEW f \in b, NEW y \in L,
                         IsLastOf(l, b), IsFirstOf(f, b), y.ver = f.base
                  PROVE  y.edits \subseteq l.edits
      BY <2>10 DEF LastHasBase
    <3>1. PICK h \in S : IsTop(h, S) /\ h.edits = l.edits
      BY <1>4
    <3>2. PICK x \in Synced(S), z \in L : x = AsSynced(z) /\ z.ver = f.base /\ IsTop(x, Synced(S))
      BY <2>8
    <3>3. z = y /\ x.edits = y.edits
      BY <3>2 DEF AsSynced, LocalRow
    <3>4. x.edits \subseteq h.edits
      BY <2>3, <3>1, <3>2 DEF StoreHasEdits, HeadHasSynced
    <3>. QED
      BY <3>1, <3>3, <3>4
  <2>. QED
    BY <2>6, <2>7, <2>9, <2>11, <2>12, <2>13 DEF BatchHasEdits
<1>. QED
  BY <1>3, <1>6, <1>7 DEF SentHasEdits

LEMMA NothingSent ==
  ASSUME NEW L, NEW S, NEW Q
  PROVE  SentHasEdits(L, S, Q, {})
BY DEF SentHasEdits, SentKinds, BatchHasEdits, BatchBuilds, StoredAsSent, FirstBuilds, LastHasSent,
       LastHasStored, LastHasBase, SentAsWaiting

LEMMA SendEdits ==
  ASSUME SyncInv, AgreeInv, EditsInv, NEW d \in Device, Send(d)
  PROVE  EditsInv'
<1> DEFINE batch == Sendable(d)
           repush == round[d].at = "repush"
           next == IF batch = {} THEN AfterPush(repush, FALSE)
                   ELSE [at |-> "sent", batch |-> batch, repush |-> repush]
<1>1. Go(d, next) /\ UNCHANGED <<serverVars, deviceVars>>
  BY DEF Send
<1>2. /\ batch = {} => next.at # "sent"
      /\ batch # {} => next.at = "sent" /\ next.batch = batch
  BY DEF AfterPush, Idle
<1>3. next.at = "sent" => \A c \in next.batch : \E e \in outbox[d] : c.id = e.id
  <2>1. \A c \in batch : \E e \in Sent(d) : c.id = e.id
    BY SentChanges
  <2>2. Sent(d) \in SUBSET outbox[d]
    BY SentChanges
  <2> HIDE DEF next, batch
  <2>. QED
    BY <1>2, <2>1, <2>2
<1> HIDE DEF next
<1>4. SyncInv' /\ AgreeInv'
  <2>1. [Next]_vars
    BY DEF Next, RoundNext
  <2>. QED
    BY <2>1, NextKeepsInv, NextAgrees
<1>5. ASSUME NEW r \in Record \ belated, next.at = "sent",
             EditsStandOf(Of(log, r), Of(store[d], r), Of(outbox[d], r), round[d], r)
      PROVE  SentHasEdits(Of(log, r), Of(store[d], r), Of(outbox[d], r), Of(batch, r))
  <2> DEFINE L == Of(log, r)
             S == Of(store[d], r)
             Q == Of(outbox[d], r)
             b == Of(batch, r)
  <2>1. CASE b = {}
    <3>1. SentHasEdits(L, S, Q, {})
      BY NothingSent
    <3>. QED
      BY <2>1, <3>1
  <2>2. CASE b # {}
    <3>1. SentOf(S, Q, b)
      BY <2>2, SentOfRecord
    <3>2. WaitingKinds(L, S, Q) /\ (Puts(L) /\ Puts(S) => StoreHasEdits(L, S, Q))
      BY <1>5 DEF EditsStandOf
    <3>3. HasOnly(L, S, cursor[d])
      BY DEF AgreeInv, Agrees, AgreesOf
    <3>4. L = {} /\ Synced(S) # {} => \A c \in b : c.base # 0
      <4>1. round'[d] = next /\ next.batch = batch
        BY <1>1, <1>2, <1>5, GoFacts
      <4>2. AgreesOf(Of(log, r), Of(store[d], r), Of(outbox[d], r), cursor[d], next, r)
        <5>1. log' = log /\ store' = store /\ outbox' = outbox /\ cursor' = cursor /\ belated' = belated
          BY DEF Send, serverVars, deviceVars
        <5>. QED
          BY <1>4, <4>1, <5>1 DEF AgreeInv, Agrees
      <4>. QED
        BY <1>5, <4>1, <4>2 DEF AgreesOf, SentAgrees
    <3>5. RowsFit(store[d]) /\ \A x \in S : x \in store[d] /\ x.rec = r /\ x.ver \in Nat \ {0}
      BY DeviceFacts, RecordFacts
    <3>6. /\ \A x, y \in S : x.ver = y.ver => x = y
          /\ \A x \in Pending(S), y \in Synced(S) : y.ver < x.ver
      BY <3>5 DEF RowsFit, Pending, Synced
    <3>7. /\ \A x, y \in L : x.ver = y.ver => x = y
          /\ \A x \in L : x.ver \in Nat \ {0}
          /\ \A e \in Q : \E x \in Pending(S) : IsRowOf(x, e)
      BY RecordFacts
    <3> HIDE DEF L, S, Q, b
    <3>. QED
      BY <3>1, <3>2, <3>3, <3>4, <3>5, <3>6, <3>7, SendHasEdits DEF L, S, Q, b
  <2>. QED
    BY <2>1, <2>2
<1>6. ASSUME NEW r \in Record \ belated,
             EditsStandOf(Of(log, r), Of(store[d], r), Of(outbox[d], r), round[d], r)
      PROVE  EditsStandOf(Of(log, r), Of(store[d], r), Of(outbox[d], r), next, r)
  BY <1>2, <1>5, <1>6 DEF EditsStandOf
<1>. QED
  BY <1>1, <1>3, <1>6, RoundEdits

-------------------------------------------------------------------------------
(***************************************************************************)
(* What a push appends.                                                    *)
(***************************************************************************)
(* A put is appended as it was sent.                                       *)
LEMMA PutsAppended ==
  ASSUME LogInv, NEW b, BatchFits(b), NEW refused, NEW c \in NewOf(b, refused),
         RowFor(b, refused, c).kind = "put"
  PROVE  c.kind = "put" /\ RowFor(b, refused, c).edits = c.edits
<1> DEFINE F == Fresh(b, c.rec)
           head == ServerHead(log, c.rec)
           written == { e \in F : e.id <= c.id /\ e.kind # "deleted" }
           origin == IF written = {} THEN head ELSE Last(written)
           kind == IF origin.kind = "purged" THEN "purged" ELSE c.kind
           row == RowFor(b, refused, c)
<1>1. row.kind = kind /\ row.edits = IF kind = "purged" THEN {} ELSE origin.edits
  BY DEF RowFor, NextVersion
<1>2. c.kind = "put" /\ kind = "put" /\ row.edits = origin.edits
  BY <1>1
<1>3. /\ IsFiniteSet(F) /\ \A e \in F : e.id \in Nat
      /\ \A e, f \in F : e.id = f.id => e = f
  BY FreshFacts
<1>4. c \in F
  BY NewFacts
<1>5. c \in written
  BY <1>2, <1>3, <1>4
<1>6. IsFiniteSet(written) /\ \A e \in written : e \in F /\ e.id \in Nat /\ e.id <= c.id
  BY <1>3, FS_Subset
<1>7. origin = Last(written)
  BY <1>5
<1> HIDE DEF written, origin, F
<1>8. Last(written) \in written /\ c.id <= Last(written).id
  BY <1>5, <1>6, LastChange
<1>9. Last(written).id = c.id
  BY <1>5, <1>6, <1>8
<1>10. Last(written) = c
  BY <1>3, <1>4, <1>6, <1>8, <1>9
<1>. QED
  BY <1>2, <1>7, <1>10

(* The rows `M` of a record after a push, of the rows `L` before it and of *)
(* the batch's changes of it.                                              *)
IsFresh(L, c) == \A x \in L : x.id # c.id

IsAppended(x, c) == x.id = c.id /\ x.ver = c.base + 1 /\ x.edits = c.edits /\ c.kind = "put"

OnTop(L, b, c) ==
  /\ \A x \in L : x.ver <= c.base
  /\ \/ L = {} /\ c.base = 0
     \/ \E x \in L : x.ver = c.base
     \/ \E p \in b : IsFresh(L, p) /\ p.id < c.id

AppendedTo(L, M, b) ==
  /\ L \subseteq M
  /\ \A x \in M : x \in L \/ \E c \in b : IsFresh(L, c) /\ IsAppended(x, c)
  /\ M # L => \A c \in b : IsFresh(L, c) => (\E x \in M : IsAppended(x, c)) /\ OnTop(L, b, c)

LEMMA RecordAppended ==
  ASSUME LogInv, NEW b, BatchFits(b), NEW refused, ServerStep(b, refused), NEW r
  PROVE  /\ \A x \in Of(log', r) :
              \/ x \in Of(log, r)
              \/ \E c \in Of(b, r) : x.id = c.id /\ (x.kind = "put" => c.kind = "put")
         /\ Puts(Of(log', r)) => AppendedTo(Of(log, r), Of(log', r), Of(b, r))
<1> DEFINE L == Of(log, r)
           M == Of(log', r)
           B == Of(b, r)
<1>1. \A x \in M :
        \/ x \in L
        \/ \E c \in NewOf(b, refused) :
             c.rec = r /\ x = RowFor(b, refused, c) /\ x.id = c.id /\ lastSeq < x.seq
  BY RowsAfterStep
<1>2. \A x \in AllOf(b, refused) : x.rec = r => x \in log' \/ PurgedAbove(M, x.ver, lastSeq)
  BY RowsAfterStep
<1>3. \A c \in NewOf(b, refused) : c \in b /\ ~IsStored(log, c)
  BY NewFacts
<1>4. \A x \in M :
        \/ x \in L
        \/ \E c \in B : x.id = c.id /\ (x.kind = "put" => c.kind = "put")
  <2>. SUFFICES ASSUME NEW x \in M, x \notin L
                PROVE  \E c \in B : x.id = c.id /\ (x.kind = "put" => c.kind = "put")
    OBVIOUS
  <2>1. PICK c \in NewOf(b, refused) : c.rec = r /\ x = RowFor(b, refused, c) /\ x.id = c.id
    BY <1>1
  <2>2. x.kind = "put" => c.kind = "put"
    BY <2>1, PutsAppended
  <2>3. c \in B
    BY <1>3, <2>1 DEF Of
  <2>. QED
    BY <2>1, <2>2, <2>3
<1>5. ASSUME Puts(M) PROVE AppendedTo(L, M, B)
  <2>1. \A x \in AllOf(b, refused) : x.rec = r => x \in M
    <3>1. \A v : ~PurgedAbove(M, v, lastSeq)
      BY <1>5 DEF PurgedAbove, Puts
    <3>. QED
      BY <1>2, <3>1 DEF Of
  <2>2. L \subseteq M
    <3>1. log \subseteq AllOf(b, refused)
      BY AllRows
    <3>2. \A x \in L : x \in log /\ x.rec = r
      BY DEF Of
    <3> HIDE DEF L, M
    <3>. QED
      BY <2>1, <3>1, <3>2
  <2>3. ASSUME NEW c \in NewOf(b, refused), c.rec = r
        PROVE  /\ RowFor(b, refused, c) \in M /\ IsAppended(RowFor(b, refused, c), c)
               /\ c \in B /\ IsFresh(L, c) /\ OnTop(L, B, c)
    <3>1. /\ RowFor(b, refused, c).rec = c.rec /\ RowFor(b, refused, c).id = c.id
          /\ RowFor(b, refused, c).ver = c.base + 1
      BY NewRow
    <3>2. RowFor(b, refused, c) \in M
      BY <2>1, <2>3, <3>1, AllRows
    <3>3. RowFor(b, refused, c).kind = "put"
      BY <1>5, <3>2 DEF Puts
    <3>4. c.kind = "put" /\ RowFor(b, refused, c).edits = c.edits
      BY <3>3, PutsAppended
    <3>5. c \in B
      BY <1>3, <2>3 DEF Of
    <3>6. IsFresh(L, c)
      BY <1>3, <2>3 DEF IsFresh, IsStored, Of
    <3>7. /\ ServerHead(log, r).ver <= c.base
          /\ \/ c.base = ServerHead(log, r).ver
             \/ \E p \in NewOf(b, refused) : p.rec = r /\ p.id < c.id
      BY <2>3, NewBases
    <3>8. \A x \in L : x.ver <= c.base
      <4>1. \A x \in L : x.ver <= ServerHead(log, r).ver /\ x.ver \in Nat
        BY HeadOnServer DEF Of, LogInv, ServerRow
      <4>2. ServerHead(log, r).ver \in Nat /\ c.base \in Nat
        BY HeadOnServer, NewFacts
      <4> HIDE DEF L
      <4>. QED
        BY <3>7, <4>1, <4>2
    <3>9. ASSUME NEW p \in NewOf(b, refused), p.rec = r PROVE p \in B /\ IsFresh(L, p)
      BY <1>3, <3>9 DEF Of, IsFresh, IsStored
    <3>10. ASSUME c.base = ServerHead(log, r).ver PROVE OnTop(L, B, c)
      <4>1. CASE L = {}
        <5>1. ServerHead(log, r).ver = 0
          BY <4>1 DEF ServerHead
        <5>. QED
          BY <3>8, <3>10, <4>1, <5>1 DEF OnTop
      <4>2. CASE L # {}
        <5>1. IsTop(HeadOf(log, r), L) /\ ServerHead(log, r) = HeadOf(log, r)
          BY <4>2, TopOfLog DEF ServerHead
        <5>. QED
          BY <3>8, <3>10, <5>1 DEF OnTop, IsTop
      <4>. QED
        BY <4>1, <4>2
    <3>11. OnTop(L, B, c)
      <4>1. CASE \E p \in NewOf(b, refused) : p.rec = r /\ p.id < c.id
        BY <3>8, <3>9, <4>1 DEF OnTop
      <4>. QED
        BY <3>7, <3>10, <4>1
    <3>12. IsAppended(RowFor(b, refused, c), c)
      BY <3>1, <3>4 DEF IsAppended
    <3>. QED
      BY <3>2, <3>5, <3>6, <3>11, <3>12
  <2>4. \A x \in M : x \in L \/ \E c \in B : IsFresh(L, c) /\ IsAppended(x, c)
    BY <1>1, <2>3
  <2>5. ASSUME M # L, NEW c \in B, IsFresh(L, c)
        PROVE  (\E x \in M : IsAppended(x, c)) /\ OnTop(L, B, c)
    <3>1. PICK x \in M : x \notin L
      BY <2>2, <2>5
    <3>2. PICK k \in NewOf(b, refused) : k.rec = r
      BY <1>1, <3>1
    <3>3. c \in b /\ c.rec = r /\ ~IsStored(log, c)
      BY <2>5 DEF Of, IsFresh, IsStored
    <3>4. c \in NewOf(b, refused)
      BY <3>2, <3>3, NewFacts
    <3>. QED
      BY <2>3, <3>3, <3>4
  <2>. QED
    BY <2>2, <2>4, <2>5 DEF AppendedTo
<1>. QED
  BY <1>4, <1>5

(* The last change of the batch is the new head, and has every edit.       *)
NewHead(M, b) == \E l \in b, x \in M : IsLastOf(l, b) /\ IsAppended(x, l) /\ IsTop(x, M)

LEMMA AppendedHasAll ==
  ASSUME NEW L, NEW M, NEW b, AppendedTo(L, M, b), M # L, IsFiniteSet(b),
         \A c \in b : c.id \in Nat /\ c.base \in Nat,
         \A c, e \in b : (c.id = e.id => c = e) /\ (c.id < e.id => c.base < e.base),
         \A x \in M : x.ver \in Nat \ {0}, \A x, y \in M : x.ver = y.ver => x = y,
         HeadHasAll(L), L # {} \/ (\E c \in b : c.base = 0) => BatchHasEdits(L, b)
  PROVE  HeadHasAll(M) /\ NewHead(M, b)
<1> DEFINE F == { c \in b : IsFresh(L, c) }
           f == First(F)
           l == Last(b)
<1>1. /\ L \subseteq M
      /\ \A x \in M : x \in L \/ \E c \in b : IsFresh(L, c) /\ IsAppended(x, c)
      /\ \A c \in b : IsFresh(L, c) => (\E x \in M : IsAppended(x, c)) /\ OnTop(L, b, c)
  BY DEF AppendedTo
<1>2. F # {} /\ b # {} /\ \A c \in F : c \in b /\ c.id \in Nat /\ IsFresh(L, c)
  BY <1>1
<1>3. f \in F /\ \A c \in F : f.id <= c.id
  <2> HIDE DEF F
  <2>. QED
    BY <1>2, FirstChange
<1>4. l \in b /\ \A c \in b : c.id <= l.id
  BY <1>2, LastChange
<1> HIDE DEF f, l
<1>5. f \in b /\ IsFresh(L, f) /\ f.id \in Nat /\ f.base \in Nat
  BY <1>2, <1>3
<1>6. ~\E p \in b : IsFresh(L, p) /\ p.id < f.id
  <2>. SUFFICES ASSUME NEW p \in b, IsFresh(L, p), p.id < f.id PROVE FALSE
    OBVIOUS
  <2>1. f.id <= p.id /\ p.id \in Nat
    BY <1>3
  <2>. QED
    BY <1>5, <2>1
<1>7. OnTop(L, b, f)
  BY <1>1, <1>5
<1>8. /\ \A x \in L : x.ver <= f.base
      /\ (L = {} /\ f.base = 0) \/ (\E x \in L : x.ver = f.base)
  BY <1>6, <1>7 DEF OnTop
<1> HIDE DEF F
<1>9. BatchHasEdits(L, b)
  BY <1>5, <1>8
<1>10. \A x \in L, c \in b : x.id = c.id => x.ver = c.base + 1
  BY <1>9 DEF BatchHasEdits, StoredAsSent
(* What is stored comes before what is appended.                           *)
<1>11. ASSUME NEW x \in L, NEW c \in b, x.id = c.id PROVE c.id < f.id
  <2>1. c.base + 1 <= f.base /\ c.id \in Nat /\ c.base \in Nat
    BY <1>8, <1>10, <1>11
  <2>2. c # f
    BY <1>5, <1>11 DEF IsFresh
  <2>3. c.id # f.id
    BY <1>5, <2>2
  <2>4. ~(f.id < c.id)
    <3>1. SUFFICES ASSUME f.id < c.id PROVE FALSE
      OBVIOUS
    <3>2. f.base < c.base
      BY <1>5, <3>1
    <3>. QED
      BY <1>5, <2>1, <3>2
  <2>. QED
    BY <1>5, <2>1, <2>3, <2>4
<1>12. IsFresh(L, l)
  <2>. SUFFICES ASSUME NEW x \in L, x.id = l.id PROVE FALSE
    BY DEF IsFresh
  <2>1. l.id < f.id /\ f.id <= l.id /\ l.id \in Nat
    BY <1>4, <1>5, <1>11
  <2>. QED
    BY <1>5, <2>1
<1>13. PICK top \in M : IsAppended(top, l)
  BY <1>1, <1>4, <1>12
<1>14. IsTop(top, M)
  <2>. SUFFICES ASSUME NEW y \in M PROVE y.ver <= top.ver
    BY DEF IsTop
  <2>1. top.ver = l.base + 1 /\ l.base \in Nat /\ l.id \in Nat
    BY <1>4, <1>13 DEF IsAppended
  <2>2. CASE y \in L
    <3>1. y.ver <= l.base
      BY <1>1, <1>4, <1>12, <2>2 DEF OnTop
    <3>. QED
      BY <2>1, <3>1
  <2>3. ASSUME NEW c \in b, IsAppended(y, c) PROVE y.ver <= top.ver
    <3>1. y.ver = c.base + 1 /\ c.base \in Nat /\ c.id \in Nat /\ c.id <= l.id
      BY <1>4, <2>3 DEF IsAppended
    <3>2. c = l \/ c.base < l.base
      <4>1. c.id = l.id \/ c.id < l.id
        BY <2>1, <3>1
      <4>. QED
        BY <1>4, <4>1
    <3>. QED
      BY <2>1, <3>1, <3>2
  <2>. QED
    BY <1>1, <2>2, <2>3
<1>15. IsLastOf(l, b)
  BY <1>4 DEF IsLastOf
<1>16. ASSUME NEW y \in L PROVE y.edits \subseteq l.edits
  <2>1. PICK h \in L : h.ver = f.base
    BY <1>8
  <2>2. IsTop(h, L)
    BY <1>8, <2>1 DEF IsTop
  <2>3. y.edits \subseteq h.edits
    BY <2>2 DEF HeadHasAll
  <2>4. CASE IsFirstOf(f, b)
    <3>1. Stored(L, b) = {}
      <4>. SUFFICES ASSUME NEW x \in L, NEW c \in b, x.id = c.id PROVE FALSE
        BY DEF Stored
      <4>1. c.id < f.id /\ f.id <= c.id /\ c.id \in Nat
        BY <1>11, <2>4 DEF IsFirstOf
      <4>. QED
        BY <1>5, <4>1
    <3>2. h.edits \subseteq l.edits
      BY <1>4, <1>5, <1>9, <1>15, <2>1, <2>4, <3>1 DEF BatchHasEdits, LastHasBase
    <3>. QED
      BY <2>3, <3>2
  <2>5. CASE ~IsFirstOf(f, b)
    <3>1. PICK p \in b : p.id < f.id /\ p.base + 1 = f.base
      BY <1>5, <1>9, <2>5 DEF BatchHasEdits, BatchBuilds
    <3>2. PICK x \in L : x.id = p.id
      BY <1>6, <3>1 DEF IsFresh
    <3>3. x.ver = h.ver
      BY <1>10, <2>1, <3>1, <3>2
    <3>4. x = h
      BY <1>1, <3>3
    <3>5. h \in Stored(L, b)
      BY <3>2, <3>4 DEF Stored
    <3>6. IsTop(h, Stored(L, b))
      BY <2>2, <3>5 DEF IsTop, Stored
    <3>7. h.edits \subseteq l.edits
      BY <1>4, <1>9, <1>15, <3>5, <3>6 DEF BatchHasEdits, LastHasStored
    <3>. QED
      BY <2>3, <3>7
  <2>. QED
    BY <2>4, <2>5
<1>17. ASSUME NEW y \in M PROVE y.edits \subseteq top.edits
  <2>1. top.edits = l.edits
    BY <1>13 DEF IsAppended
  <2>2. CASE y \in L
    BY <1>16, <2>1, <2>2
  <2>3. ASSUME NEW c \in b, IsAppended(y, c), NEW i \in y.edits PROVE i \in top.edits
    <3>1. i \in c.edits
      BY <2>3 DEF IsAppended
    <3>2. i \in l.edits \/ IsEdited(i, L)
      BY <1>4, <1>9, <1>15, <3>1 DEF BatchHasEdits, LastHasSent
    <3>. QED
      BY <1>16, <2>1, <3>2 DEF IsEdited
  <2>. QED
    BY <1>1, <2>2, <2>3
<1>18. \A h \in M : IsTop(h, M) => h = top
  <2>. SUFFICES ASSUME NEW h \in M, IsTop(h, M) PROVE h = top
    OBVIOUS
  <2>1. h.ver <= top.ver /\ top.ver <= h.ver /\ h.ver \in Nat /\ top.ver \in Nat
    BY <1>14 DEF IsTop
  <2>. QED
    BY <2>1
<1>19. HeadHasAll(M)
  BY <1>17, <1>18 DEF HeadHasAll
<1>. QED
  BY <1>4, <1>13, <1>14, <1>15, <1>19 DEF NewHead

(* The device that pushed has been answered.                               *)
LEMMA PushedHere ==
  ASSUME NEW L, NEW M, NEW S, NEW Q, NEW rd, NEW r, EditsStandOf(L, S, Q, rd, r),
         NEW b, SentHasEdits(L, S, Q, b), NEW next, next.at # "sent",
         \A x \in M : x \in L \/ \E c \in b : x.id = c.id /\ (x.kind = "put" => c.kind = "put"),
         \A c \in b, e \in Q, y \in Pending(S) : c.id = e.id /\ IsRowOf(y, e) => y.kind = c.kind,
         Puts(M) => AppendedTo(L, M, b),
         Puts(M) /\ Puts(b) /\ M # L => NewHead(M, b),
         \A x \in M : x.ver \in Nat, \A x, y \in M : x.ver = y.ver => x = y
  PROVE  EditsStandOf(M, S, Q, next, r)
<1>1. SentHasEdits(L, S, Q, b) /\ WaitingKinds(L, S, Q)
  BY DEF EditsStandOf
<1>2. WaitingKinds(M, S, Q)
  <2>. SUFFICES ASSUME NEW x \in M, NEW e \in Q, NEW y \in Pending(S), x.id = e.id, IsRowOf(y, e),
                       x.kind = "put"
                PROVE  y.kind = "put"
    BY DEF WaitingKinds
  <2>1. CASE x \in L
    BY <1>1, <2>1 DEF WaitingKinds
  <2>2. CASE x \notin L
    <3>1. PICK c \in b : x.id = c.id /\ c.kind = "put"
      BY <2>2
    <3>2. c.id = e.id
      BY <3>1
    <3>. QED
      BY <3>1, <3>2
  <2>. QED
    BY <2>1, <2>2
<1>3. ASSUME Puts(M), Puts(S) PROVE StoreHasEdits(M, S, Q)
  <2>1. /\ L \subseteq M
        /\ \A x \in M : x \in L \/ \E c \in b : IsFresh(L, c) /\ IsAppended(x, c)
        /\ M # L => \A c \in b : IsFresh(L, c) => \E x \in M : IsAppended(x, c)
    BY <1>3 DEF AppendedTo
  <2>2. StoreHasEdits(L, S, Q)
    BY <1>3, <2>1 DEF EditsStandOf, Puts
  <2>3. CASE M = L
    BY <2>2, <2>3
  <2>4. CASE M # L
    <3>1. Puts(b)
      <4>. SUFFICES ASSUME NEW c \in b PROVE c.kind = "put"
        BY DEF Puts
      <4>1. CASE IsFresh(L, c)
        BY <2>1, <2>4, <4>1 DEF IsAppended
      <4>2. CASE ~IsFresh(L, c)
        <5>1. PICK x \in L : x.id = c.id
          BY <4>2 DEF IsFresh
        <5>2. x.kind = "put"
          BY <1>3, <2>1 DEF Puts
        <5>. QED
          BY <1>1, <5>1, <5>2 DEF SentHasEdits, SentKinds
      <4>. QED
        BY <4>1, <4>2
    <3>2. PICK l \in b, top \in M : IsLastOf(l, b) /\ IsAppended(top, l) /\ IsTop(top, M)
      BY <1>3, <2>4, <3>1 DEF NewHead
    <3>3. SentAsWaiting(S, Q, b)
      BY <1>1, <1>3, <3>1 DEF SentHasEdits
    <3>4. HeadHasWaiting(M, S)
      BY <2>1, <2>2 DEF StoreHasEdits, HeadHasWaiting, IsEdited
    <3>5. top \in Stored(M, Q)
      BY <3>2, <3>3 DEF Stored, SentAsWaiting, IsAppended
    <3>6. HeadHasStored(M, S, Q)
      <4>. SUFFICES ASSUME NEW h \in S, NEW y \in Stored(M, Q), IsTop(h, S), IsTop(y, Stored(M, Q))
                    PROVE  y.edits \subseteq h.edits
        BY DEF HeadHasStored
      <4>1. y = top
        <5>1. y \in M /\ y.ver <= top.ver /\ top.ver <= y.ver
          BY <3>2, <3>5 DEF IsTop, Stored
        <5>. QED
          BY <5>1
      <4>2. y.edits = l.edits
        BY <3>2, <4>1 DEF IsAppended
      <4>. QED
        BY <3>2, <3>3, <4>2 DEF SentAsWaiting
    <3>7. StoredAsWaiting(M, S, Q)
      <4>. SUFFICES ASSUME NEW x \in M, NEW e \in Q, NEW y \in S, x.id = e.id, IsRowOf(y, e)
                    PROVE  x.ver = y.ver /\ x.edits = y.edits
        BY DEF StoredAsWaiting
      <4>1. CASE x \in L
        BY <2>2, <4>1 DEF StoreHasEdits, StoredAsWaiting
      <4>2. ASSUME NEW c \in b, IsAppended(x, c) PROVE x.ver = y.ver /\ x.edits = y.edits
        <5>1. c.id = e.id /\ x.ver = c.base + 1 /\ x.edits = c.edits
          BY <4>2 DEF IsAppended
        <5>2. y.ver = c.base + 1 /\ y.edits = c.edits
          BY <3>3, <5>1 DEF SentAsWaiting
        <5>. QED
          BY <5>1, <5>2
      <4>. QED
        BY <2>1, <4>1, <4>2
    <3>8. Stored(M, Q) # {}
      BY <3>5
    <3>. QED
      BY <2>2, <3>4, <3>6, <3>7, <3>8 DEF StoreHasEdits, FirstIsOwn
  <2>. QED
    BY <2>3, <2>4
<1>. QED
  BY <1>2, <1>3 DEF EditsStandOf

(* The other devices: nothing of theirs was appended.                      *)
LEMMA PushedElsewhere ==
  ASSUME NEW L, NEW M, NEW S, NEW Q, NEW rd, NEW r, EditsStandOf(L, S, Q, rd, r),
         \A x \in M, e \in Q : x.id = e.id => x \in L,
         rd.at = "sent" => \A x \in M, c \in Of(rd.batch, r) : x.id = c.id => x \in L,
         L = {} /\ M # {} => S = {},
         rd.at = "sent" /\ L = {} /\ Of(rd.batch, r) # {} => S # {},
         Puts(M) => L \subseteq M,
         \A x \in M : x.ver \in Nat \ {0}, \A x, y \in M : x.ver = y.ver => x = y
  PROVE  EditsStandOf(M, S, Q, rd, r)
<1>1. WaitingKinds(M, S, Q)
  BY DEF EditsStandOf, WaitingKinds
<1>2. ASSUME Puts(M), Puts(S) PROVE StoreHasEdits(M, S, Q)
  <2>1. L \subseteq M
    BY <1>2
  <2>2. StoreHasEdits(L, S, Q)
    BY <1>2, <2>1 DEF EditsStandOf, Puts
  <2>3. Stored(M, Q) = Stored(L, Q)
    BY <2>1 DEF Stored
  <2>4. HeadHasWaiting(M, S)
    BY <2>1, <2>2 DEF StoreHasEdits, HeadHasWaiting, IsEdited
  <2>5. StoredAsWaiting(M, S, Q)
    BY <2>2 DEF StoreHasEdits, StoredAsWaiting
  <2>6. FirstIsOwn(M, S, Q)
    BY <2>2, <2>3 DEF StoreHasEdits, FirstIsOwn
  <2>. QED
    BY <2>2, <2>3, <2>4, <2>5, <2>6 DEF StoreHasEdits, HeadHasStored
<1>3. ASSUME rd.at = "sent" PROVE SentHasEdits(M, S, Q, Of(rd.batch, r))
  <2> DEFINE b == Of(rd.batch, r)
  <2>1. SentHasEdits(L, S, Q, b)
    BY <1>3 DEF EditsStandOf
  <2>2. /\ \A x \in M, c \in b : x.id = c.id => x \in L
        /\ L = {} /\ b # {} => S # {}
    BY <1>3
  <2> HIDE DEF b
  <2>3. SentKinds(M, b)
    BY <2>1, <2>2 DEF SentHasEdits, SentKinds
  <2>4. ASSUME Puts(M), Puts(b), M # {} \/ (\E c \in b : c.base = 0), b # {}
        PROVE  BatchHasEdits(M, b)
    <3>1. L \subseteq M
      BY <2>4
    <3>2. L # {} \/ \E c \in b : c.base = 0
      BY <2>2, <2>4
    <3>3. BatchHasEdits(L, b)
      BY <2>1, <2>4, <3>1, <3>2 DEF SentHasEdits, Puts
    <3>4. Stored(M, b) = Stored(L, b)
      BY <2>2, <3>1 DEF Stored
    <3>5. StoredAsSent(M, b)
      BY <2>2, <3>3 DEF BatchHasEdits, StoredAsSent
    <3>6. FirstBuilds(M, b) /\ LastHasSent(M, b) /\ LastHasStored(M, b)
      BY <3>1, <3>3, <3>4 DEF BatchHasEdits, FirstBuilds, LastHasSent, LastHasStored, IsEdited
    <3>7. LastHasBase(M, b)
      <4>. SUFFICES ASSUME Stored(L, b) = {}, NEW l \in b, NEW f \in b, NEW y \in M,
                           IsLastOf(l, b), IsFirstOf(f, b), y.ver = f.base
                    PROVE  y.edits \subseteq l.edits
        BY <3>4 DEF LastHasBase
      <4>1. \E z \in L : z.ver = f.base
        BY <3>3 DEF BatchHasEdits, FirstBuilds
      <4>2. y \in L
        BY <3>1, <4>1
      <4>. QED
        BY <3>3, <4>2 DEF BatchHasEdits, LastHasBase
    <3>. QED
      BY <3>3, <3>5, <3>6, <3>7 DEF BatchHasEdits
  <2>5. b = {} => BatchHasEdits(M, b)
    BY DEF BatchHasEdits, BatchBuilds, StoredAsSent, FirstBuilds, LastHasSent, LastHasStored, LastHasBase
  <2>6. SentHasEdits(M, S, Q, b)
    BY <2>1, <2>3, <2>4, <2>5 DEF SentHasEdits
  <2>. QED
    BY <2>6 DEF b
<1>. QED
  BY <1>1, <1>2, <1>3 DEF EditsStandOf

LEMMA HandlePushEdits ==
  ASSUME SyncInv, AgreeInv, EditsInv, NEW g \in Device, HandlePush(g)
  PROVE  EditsInv'
<1> DEFINE b == round[g].batch
<1>1. PICK refused : ServerStep(b, refused)
  BY HandlePushStep
<1>2. store' = store /\ outbox' = outbox /\ belated' = belated /\ round[g].at = "sent"
  BY DEF HandlePush, deviceVars
<1>3. /\ round'[g].at # "sent"
      /\ \A d \in Device \ {g} : round'[d] = round[d]
  <2>1. PICK next : Go(g, next) /\ next.at # "sent"
    BY DEF HandlePush
  <2>. QED
    BY <2>1, GoFacts
<1>4. LogInv /\ BatchFits(b) /\ b \in Batches
  <2>1. b \in Batches
    BY <1>2 DEF Batches
  <2>. QED
    BY <2>1, BatchFacts
<1>5. LogInv'
  BY <1>1, <1>4, ServerLog
<1>6. OwnSent'
  BY <1>3 DEF EditsInv, OwnSent
<1>7. ASSUME NEW r \in Record \ belated
      PROVE  (Puts(Of(log', r)) => HeadHasAll(Of(log', r))) /\ \A d \in Device : EditsStand(d, r)'
  <2> DEFINE L == Of(log, r)
             M == Of(log', r)
             B == Of(b, r)
  <2>1. /\ \A x \in M : x \in L \/ \E c \in B : x.id = c.id /\ (x.kind = "put" => c.kind = "put")
        /\ Puts(M) => AppendedTo(L, M, B)
    BY <1>1, <1>4, RecordAppended
  <2>2. /\ \A x \in M : x.ver \in Nat \ {0}
        /\ \A x, y \in M : x.ver = y.ver => x = y
    BY <1>5 DEF LogInv, Of, ServerRow
  <2>3. /\ IsFiniteSet(B) /\ \A c \in B : c.id \in Nat /\ c.base \in Nat
        /\ \A c, e \in B : (c.id = e.id => c = e) /\ (c.id < e.id => c.base < e.base)
    <3>1. B \in SUBSET b
      BY DEF Of
    <3>2. IsFiniteSet(B)
      BY <1>4, <3>1, FS_Subset DEF BatchFits
    <3>. QED
      BY <1>4, <3>2 DEF BatchFits, PushChange, Of
  <2>4. EditsStandOf(L, Of(store[g], r), Of(outbox[g], r), round[g], r)
        /\ (Puts(L) => HeadHasAll(L))
    BY DEF EditsInv, EditsStand
  <2>5. SentHasEdits(L, Of(store[g], r), Of(outbox[g], r), B)
    BY <1>2, <2>4 DEF EditsStandOf
  <2>6. L \subseteq M => (Puts(M) => Puts(L))
    BY DEF Puts
  <2>7. Puts(M) /\ M # L => Puts(B)
    <3>. SUFFICES ASSUME Puts(M), M # L, NEW c \in B PROVE c.kind = "put"
      BY DEF Puts
    <3>1. AppendedTo(L, M, B)
      BY <2>1
    <3>2. CASE IsFresh(L, c)
      BY <3>1, <3>2 DEF AppendedTo, IsAppended
    <3>3. CASE ~IsFresh(L, c)
      <4>1. PICK x \in L : x.id = c.id
        BY <3>3 DEF IsFresh
      <4>2. x.kind = "put"
        BY <3>1 DEF AppendedTo, Puts
      <4>. QED
        BY <2>5, <4>1, <4>2 DEF SentHasEdits, SentKinds
    <3>. QED
      BY <3>2, <3>3
  <2> HIDE DEF L, M, B, b
  <2>8. ASSUME Puts(M), M # L
        PROVE  HeadHasAll(M) /\ NewHead(M, B)
    <3>1. AppendedTo(L, M, B) /\ Puts(L) /\ Puts(B)
      BY <2>1, <2>6, <2>7, <2>8 DEF AppendedTo
    <3>2. L # {} \/ (\E c \in B : c.base = 0) => BatchHasEdits(L, B)
      BY <2>5, <3>1 DEF SentHasEdits
    <3>3. HeadHasAll(L)
      BY <2>4, <3>1
    <3>. QED
      BY <2>2, <2>3, <2>8, <3>1, <3>2, <3>3, AppendedHasAll
  <2>9. Puts(M) => HeadHasAll(M)
    BY <2>4, <2>8
  <2>10. ASSUME NEW d \in Device PROVE EditsStandOf(M, Of(store[d], r), Of(outbox[d], r), round'[d], r)
    <3> DEFINE S == Of(store[d], r)
               Q == Of(outbox[d], r)
    <3>1. EditsStandOf(L, S, Q, round[d], r)
      BY DEF EditsInv, EditsStand, L
    <3>2. CASE d = g
      <4>1. \A c \in B, e \in Q, y \in Pending(S) : c.id = e.id /\ IsRowOf(y, e) => y.kind = c.kind
        <5>1. StillWaits(b, d)
          BY <1>4 DEF SyncInv, BatchesInv
        <5>. QED
          BY <5>1 DEF StillWaits, Pending, Of, B
      <4>2. SentHasEdits(L, S, Q, B) /\ round'[d].at # "sent"
        BY <1>3, <2>5, <3>2
      <4>3. \A x \in M : x.ver \in Nat
        BY <2>2
      <4>4. Puts(M) /\ Puts(B) /\ M # L => NewHead(M, B)
        BY <2>8
      <4>5. Puts(M) => AppendedTo(L, M, B)
        BY <2>1
      <4> DEFINE next == round'[d]
      <4> HIDE DEF S, Q, next
      <4>6. EditsStandOf(M, S, Q, next, r)
        BY <2>1, <2>2, <3>1, <4>1, <4>2, <4>3, <4>4, <4>5, PushedHere DEF next
      <4>. QED
        BY <4>6 DEF S, Q, next
    <3>3. CASE d # g
      <4>1. \A x \in M, e \in Q : x.id = e.id => x \in L
        <5>1. \A c \in b, e \in outbox[d] : c.id # e.id
          BY <1>2, <3>3 DEF AgreeInv, Own, b
        <5>. QED
          BY <2>1, <5>1 DEF Of, B
      <4>2. round[d].at = "sent" => \A x \in M, c \in Of(round[d].batch, r) : x.id = c.id => x \in L
        <5>1. round[d].at = "sent" => \A c \in b, e \in round[d].batch : c.id # e.id
          BY <1>2, <3>3 DEF EditsInv, OwnSent, b
        <5>. QED
          BY <2>1, <5>1 DEF Of, B
      <4>3. L = {} /\ M # {} => S = {}
        <5>. SUFFICES ASSUME L = {}, M # {} PROVE S = {}
          OBVIOUS
        <5>1. PICK c \in NewOf(b, refused) : c.rec = r
          BY <1>1, <1>4, RowsAfterStep DEF L, M
        <5>. QED
          BY <1>2, <3>3, <5>1, NewIsAlone DEF L, b
      <4>4. round[d].at = "sent" /\ L = {} /\ Of(round[d].batch, r) # {} => S # {}
        <5>1. SentAgrees(L, S, Q, round[d], r)
          BY DEF AgreeInv, Agrees, AgreesOf, L
        <5>. QED
          BY <5>1 DEF SentAgrees
      <4>5. Puts(M) => L \subseteq M
        BY <2>1 DEF AppendedTo
      <4>6. round'[d] = round[d]
        BY <1>3, <3>3
      <4>. QED
        BY <2>2, <3>1, <4>1, <4>2, <4>3, <4>4, <4>5, <4>6, PushedElsewhere
    <3>. QED
      BY <3>2, <3>3
  <2>. QED
    BY <1>2, <2>9, <2>10 DEF EditsStand, M
<1>. QED
  BY <1>2, <1>6, <1>7 DEF EditsInv

LEMMA ArriveLateEdits ==
  ASSUME SyncInv, EditsInv, NEW b \in late, ArriveLate(b)
  PROVE  EditsInv'
<1>1. /\ store' = store /\ outbox' = outbox /\ round' = round
      /\ belated' = belated \cup { x.rec : x \in log' \ log }
  BY DEF ArriveLate, deviceVars
<1>2. ASSUME NEW r \in Record \ belated' PROVE Of(log', r) = Of(log, r)
  BY <1>1, ArriveLateRows
<1>3. OwnSent'
  BY <1>1 DEF EditsInv, OwnSent
<1>4. ASSUME NEW r \in Record \ belated'
      PROVE  (Puts(Of(log', r)) => HeadHasAll(Of(log', r))) /\ \A d \in Device : EditsStand(d, r)'
  BY <1>1, <1>2 DEF EditsInv, EditsStand
<1>. QED
  BY <1>3, <1>4 DEF EditsInv

-------------------------------------------------------------------------------
(***************************************************************************)
(* An answer taken.                                                        *)
(***************************************************************************)
(* One record's rows and entries on a device, in order.                    *)
OrderedOf(S, Q, r) ==
  /\ \A x \in S : x.rec = r /\ x.ver \in Nat \ {0} /\ x.synced \in BOOLEAN
  /\ \A x, y \in S :
       /\ x.ver = y.ver => x = y
       /\ ~x.synced /\ y.synced => y.ver < x.ver
  /\ \A e \in Q : e.rec = r /\ e.id \in Nat /\ \E x \in Pending(S) : IsRowOf(x, e)
  /\ \A x \in Pending(S) : \E e \in Q : IsRowOf(x, e)
  /\ \A e, f \in Q :
       /\ e.id = f.id => e = f
       /\ e.id < f.id => e.ver < f.ver

LEMMA DevOrdered ==
  ASSUME NEW rows, NEW queue, RowsFit(rows), QueueFits(Pending(rows), queue), NEW r
  PROVE  OrderedOf(Of(rows, r), Of(queue, r), r)
<1> DEFINE S == Of(rows, r)
           Q == Of(queue, r)
<1>1. /\ \A x \in S : x \in rows /\ x.rec = r
      /\ \A e \in Q : e \in queue /\ e.rec = r
      /\ \A x \in rows : x.rec = r => x \in S
      /\ \A e \in queue : e.rec = r => e \in Q
  BY DEF Of
<1>2. Pending(S) = { x \in Pending(rows) : x.rec = r }
  BY DEF Pending, Of
<1> HIDE DEF S, Q
<1>3. \A x \in S : x.rec = r /\ x.ver \in Nat \ {0} /\ x.synced \in BOOLEAN
  BY <1>1 DEF RowsFit, StoreRow
<1>4. \A x, y \in S : (x.ver = y.ver => x = y) /\ (~x.synced /\ y.synced => y.ver < x.ver)
  BY <1>1 DEF RowsFit
<1>5. \A e \in Q : e.rec = r /\ e.id \in Nat
  BY <1>1 DEF QueueFits, Entry
<1>6. ASSUME NEW e \in Q PROVE \E x \in Pending(S) : IsRowOf(x, e)
  <2>1. PICK x \in Pending(rows) : IsRowOf(x, e)
    BY <1>1 DEF QueueFits
  <2>. QED
    BY <1>1, <1>2, <2>1 DEF IsRowOf
<1>7. ASSUME NEW x \in Pending(S) PROVE \E e \in Q : IsRowOf(x, e)
  <2>1. PICK e \in queue : IsRowOf(x, e)
    BY <1>2 DEF QueueFits
  <2>. QED
    BY <1>1, <1>2, <2>1 DEF IsRowOf
<1>8. \A e, f \in Q : (e.id = f.id => e = f) /\ (e.id < f.id => e.ver < f.ver)
  BY <1>1 DEF QueueFits
<1>9. OrderedOf(S, Q, r)
  BY <1>3, <1>4, <1>5, <1>6, <1>7, <1>8 DEF OrderedOf
<1>. QED
  BY <1>9 DEF S, Q

(* The row `x0` counts as synced.                                          *)
Flipped(S, T, x0, z) ==
  /\ z \in T /\ z.synced /\ z.ver = x0.ver /\ z.edits = x0.edits
  /\ \A x \in T : x = z \/ (x \in S /\ x # x0)
  /\ \A x \in S : x = x0 \/ x \in T

LEMMA FlippedEdits ==
  ASSUME NEW L, NEW S, NEW Q, NEW r, OrderedOf(S, Q, r), StoreHasEdits(L, S, Q),
         \A x \in L : x.ver \in Nat, \A x, y \in L : x.id = y.id => x = y,
         NEW e \in Q, \A f \in Q : e.id <= f.id, NEW x0 \in Pending(S), IsRowOf(x0, e),
         NEW row \in L, row.id = e.id, NEW z, NEW T, Flipped(S, T, x0, z)
  PROVE  StoreHasEdits(L, T, Q \ {e})
<1> DEFINE P == Q \ {e}
<1>1. x0 \in S /\ ~x0.synced
  BY DEF Pending
<1>2. row.ver = x0.ver /\ row.edits = x0.edits
  BY <1>1 DEF StoreHasEdits, StoredAsWaiting
<1>3. \A f \in P : e.ver < f.ver
  <2>. SUFFICES ASSUME NEW f \in P PROVE e.ver < f.ver
    OBVIOUS
  <2>1. e.id <= f.id /\ e.id # f.id /\ e.id \in Nat /\ f.id \in Nat
    BY DEF OrderedOf
  <2>. QED
    BY <2>1 DEF OrderedOf
<1>4. ASSUME NEW h \in T, IsTop(h, T)
      PROVE  \E g \in S : IsTop(g, S) /\ g.edits = h.edits
  <2>1. \A x \in S : x.ver <= h.ver
    <3>. SUFFICES ASSUME NEW x \in S PROVE x.ver <= h.ver
      OBVIOUS
    <3>1. CASE x = x0
      BY <1>4, <3>1 DEF Flipped, IsTop
    <3>2. CASE x # x0
      BY <1>4, <3>2 DEF Flipped, IsTop
    <3>. QED
      BY <3>1, <3>2
  <2>2. CASE h = z
    BY <1>1, <2>1, <2>2 DEF Flipped, IsTop
  <2>3. CASE h # z
    BY <2>1, <2>3 DEF Flipped, IsTop
  <2>. QED
    BY <2>2, <2>3
<1>5. \A x \in Pending(T) : x \in Pending(S) /\ x \in S /\ x # x0
  BY DEF Pending, Flipped
<1>6. Builds(T)
  <2>. SUFFICES ASSUME NEW x \in Pending(T) PROVE x.ver = 1 \/ \E y \in T : y.ver = x.ver - 1
    BY DEF Builds
  <2>1. x.ver = 1 \/ \E y \in S : y.ver = x.ver - 1
    BY <1>5 DEF StoreHasEdits, Builds
  <2>. QED
    BY <2>1 DEF Flipped
<1>7. HeadHasWaiting(L, T)
  <2>. SUFFICES ASSUME NEW h \in T, NEW x \in Pending(T), IsTop(h, T), NEW i \in x.edits
                PROVE  i \in h.edits \/ IsEdited(i, L)
    BY DEF HeadHasWaiting
  <2>1. PICK g \in S : IsTop(g, S) /\ g.edits = h.edits
    BY <1>4
  <2>2. x \in Pending(S)
    BY <1>5
  <2>3. i \in g.edits \/ IsEdited(i, L)
    BY <2>1, <2>2 DEF StoreHasEdits, HeadHasWaiting
  <2>. QED
    BY <2>1, <2>3
<1>8. \A x \in Stored(L, P) : x \in Stored(L, Q) /\ x # row
  BY DEF Stored, OrderedOf
<1>9. \A x \in Stored(L, Q) : x = row \/ x \in Stored(L, P)
  <2>. SUFFICES ASSUME NEW x \in Stored(L, Q), x # row PROVE x \in Stored(L, P)
    OBVIOUS
  <2>1. PICK f \in Q : x.id = f.id /\ x \in L
    BY DEF Stored
  <2>2. f # e
    BY <2>1
  <2>. QED
    BY <2>1, <2>2 DEF Stored
<1>10. \A x \in Stored(L, P) : row.ver < x.ver
  <2>. SUFFICES ASSUME NEW x \in Stored(L, P) PROVE row.ver < x.ver
    OBVIOUS
  <2>1. PICK f \in P : x.id = f.id /\ x \in L
    BY DEF Stored
  <2>2. PICK y \in Pending(S) : IsRowOf(y, f)
    BY DEF OrderedOf
  <2>3. x.ver = y.ver
    BY <2>1, <2>2 DEF StoreHasEdits, StoredAsWaiting, Pending
  <2>. QED
    BY <1>2, <1>3, <2>1, <2>2, <2>3 DEF IsRowOf
<1>11. row \in Stored(L, Q)
  BY DEF Stored
<1>12. HeadHasStored(L, T, P)
  <2>. SUFFICES ASSUME NEW h \in T, NEW y \in Stored(L, P), IsTop(h, T), IsTop(y, Stored(L, P))
                PROVE  y.edits \subseteq h.edits
    BY DEF HeadHasStored
  <2>1. PICK g \in S : IsTop(g, S) /\ g.edits = h.edits
    BY <1>4
  <2>2. y \in Stored(L, Q)
    BY <1>8
  <2>3. \A x \in Stored(L, Q) : x.ver <= y.ver
    <3>. SUFFICES ASSUME NEW x \in Stored(L, Q) PROVE x.ver <= y.ver
      OBVIOUS
    <3>1. CASE x = row
      <4>1. row.ver < y.ver /\ y \in L
        BY <1>10 DEF Stored
      <4>. QED
        BY <3>1, <4>1
    <3>2. CASE x # row
      BY <1>9, <3>2 DEF IsTop
    <3>. QED
      BY <3>1, <3>2
  <2>4. IsTop(y, Stored(L, Q))
    BY <2>2, <2>3 DEF IsTop
  <2>. QED
    BY <2>1, <2>2, <2>4 DEF StoreHasEdits, HeadHasStored
<1>13. ASSUME Stored(L, P) = {} PROVE HeadHasSynced(T)
  <2>. SUFFICES ASSUME NEW h \in T, NEW y \in Synced(T), IsTop(h, T), IsTop(y, Synced(T))
                PROVE  y.edits \subseteq h.edits
    BY DEF HeadHasSynced
  <2>1. PICK g \in S : IsTop(g, S) /\ g.edits = h.edits
    BY <1>4
  <2>2. \A x \in Stored(L, Q) : x = row
    BY <1>9, <1>13
  <2>3. row.ver \in Nat
    OBVIOUS
  <2>4. IsTop(row, Stored(L, Q))
    BY <1>11, <2>2, <2>3 DEF IsTop
  <2>5. row.edits \subseteq g.edits
    BY <1>11, <2>1, <2>4 DEF StoreHasEdits, HeadHasStored
  <2>6. y = z
    <3>1. z \in Synced(T)
      BY DEF Synced, Flipped
    <3>2. z.ver <= y.ver
      BY <3>1 DEF IsTop
    <3>. SUFFICES ASSUME y # z PROVE FALSE
      OBVIOUS
    <3>3. y \in S /\ y.synced
      BY DEF Synced, Flipped
    <3>4. y.ver < x0.ver /\ y.ver \in Nat /\ x0.ver \in Nat
      BY <1>1, <3>3 DEF OrderedOf
    <3>. QED
      BY <3>2, <3>4 DEF Flipped
  <2>. QED
    BY <1>2, <2>1, <2>5, <2>6 DEF Flipped
<1>14. StoredAsWaiting(L, T, P)
  <2>. SUFFICES ASSUME NEW x \in L, NEW f \in P, NEW y \in T, x.id = f.id, IsRowOf(y, f)
                PROVE  x.ver = y.ver /\ x.edits = y.edits
    BY DEF StoredAsWaiting
  <2>1. y # z
    <3>. SUFFICES ASSUME y = z PROVE FALSE
      OBVIOUS
    <3>1. f.ver = e.ver /\ e.ver < f.ver /\ e.ver = x0.ver /\ x0.ver \in Nat
      BY <1>1, <1>3 DEF Flipped, IsRowOf, OrderedOf
    <3>. QED
      BY <3>1
  <2>2. y \in S
    BY <2>1 DEF Flipped
  <2>. QED
    BY <2>2 DEF StoreHasEdits, StoredAsWaiting
<1>15. FirstIsOwn(L, T, P)
  BY DEF FirstIsOwn, Synced, Flipped
<1>. QED
  BY <1>6, <1>7, <1>12, <1>13, <1>14, <1>15 DEF StoreHasEdits

(* The oldest of what waits, answered as applied or as never stored.       *)
LEMMA AckEdits ==
  ASSUME NEW L, NEW S, NEW Q, NEW rd, NEW r, NEW n, EditsStandOf(L, S, Q, rd, r),
         OrderedOf(S, Q, r), HasOnly(L, S, n),
         \A x \in L : x.ver \in Nat, \A x, y \in L : x.id = y.id => x = y,
         NEW e \in Q, \A f \in Q : e.id <= f.id, NEW x0 \in Pending(S), IsRowOf(x0, e),
         NEW z, AckedTo(L, S, n, e.id, x0, z),
         z.ver <= x0.ver,
         NEW T, z \in T, \A x \in T : (x \in S /\ x # x0) \/ x = z,
         \A x \in S : x = x0 \/ x \in T \/ x.ver = z.ver,
         NEW next, next.at # "sent"
  PROVE  EditsStandOf(L, T, Q \ {e}, next, r)
<1> DEFINE P == Q \ {e}
<1>1. x0 \in S /\ ~x0.synced /\ z.synced
  BY DEF Pending, AckedTo
<1>2. WaitingKinds(L, T, P)
  <2>1. \A x \in Pending(T) : x \in Pending(S)
    BY <1>1 DEF Pending
  <2>. QED
    BY <2>1 DEF EditsStandOf, WaitingKinds
<1>3. ASSUME Puts(L), Puts(T) PROVE StoreHasEdits(L, T, P)
  <2>1. z.kind = "put"
    BY <1>3 DEF Puts
  <2>2. \A ver : ~PurgedAbove(L, ver, n)
    BY <1>3 DEF Puts, PurgedAbove
  <2>3. PICK row \in L : z = AsSynced(row) /\ row.id = e.id
    BY <2>1, <2>2 DEF AckedTo
  <2>4. z.ver = row.ver /\ z.edits = row.edits /\ row.kind = "put" /\ row.ver \in Nat
    BY <1>3, <2>3 DEF AsSynced, LocalRow, Puts
  <2>5. z.ver <= x0.ver
    BY <2>3
  <2>6. x0.kind = "put"
    BY <2>3, <2>4 DEF EditsStandOf, WaitingKinds
  <2>7. Puts(S)
    <3>. SUFFICES ASSUME NEW x \in S, x # x0, x \notin T PROVE x.kind = "put"
      BY <1>3, <2>6 DEF Puts
    <3>1. x.ver = z.ver /\ x.ver # x0.ver
      BY <1>1 DEF OrderedOf
    <3>2. CASE x.synced
      <4>1. x \in Synced(S)
        BY <3>2 DEF Synced
      <4>2. PICK y \in L : x = AsSynced(y)
        BY <2>2, <2>3, <4>1 DEF HasOnly
      <4>. QED
        BY <1>3, <4>2 DEF AsSynced, LocalRow, Puts
    <3>3. CASE ~x.synced
      <4>1. x \in Pending(S)
        BY <3>3 DEF Pending
      <4>2. PICK f \in Q : IsRowOf(x, f)
        BY <4>1 DEF OrderedOf
      <4>3. f.id # e.id
        BY <3>1, <4>2 DEF OrderedOf, IsRowOf
      <4>4. e.id < f.id
        BY <4>3 DEF OrderedOf
      <4>5. e.ver < f.ver
        BY <4>4 DEF OrderedOf
      <4>6. x0.ver < x.ver /\ x.ver \in Nat /\ x0.ver \in Nat
        BY <1>1, <4>2, <4>5 DEF OrderedOf, IsRowOf
      <4>. QED
        BY <2>5, <3>1, <4>6
    <3>. QED
      BY <3>2, <3>3
  <2>8. StoreHasEdits(L, S, Q)
    BY <1>3, <2>7 DEF EditsStandOf
  <2>9. row.ver = x0.ver /\ row.edits = x0.edits
    BY <1>1, <2>3, <2>8 DEF StoreHasEdits, StoredAsWaiting
  <2>10. \A x \in S : x = x0 \/ x \in T
    BY <1>1, <2>4, <2>9 DEF OrderedOf
  <2>11. Flipped(S, T, x0, z)
    BY <1>1, <2>4, <2>9, <2>10 DEF Flipped
  <2>. QED
    BY <2>3, <2>8, <2>11, FlippedEdits
<1>. QED
  BY <1>2, <1>3 DEF EditsStandOf

(* An answer that ends a change's wait, for its own record and the others. *)
LEMMA EndedEdits ==
  ASSUME SyncInv, AgreeInv, EditsInv, NEW d \in Device, round[d].at = "answered",
         NEW c, c = First(round[d].batch), NEW next, next.at # "sent",
         NEW result, result = round[d].results[c.id], Done(c, result),
         NEW e \in outbox[d], e.id = c.id,
         NEW new, new = AckPending(Device0(d), e.id, Copies(result)), NEW r \in Record \ belated
  PROVE  EditsStandOf(Of(log, r), Of(new.rows, r), Of(new.queue, r), next, r)
<1> DEFINE L == Of(log, r)
           S == Of(store[d], r)
           Q == Of(outbox[d], r)
           T == Of(new.rows, r)
           P == Of(new.queue, r)
           n == cursor[d]
           rd == round[d]
<1> DEFINE serverRows == Copies(result)
<1>1. /\ result.status = "applied" => serverRows = {result.row}
      /\ result.status # "applied" => serverRows = {}
  BY DEF Copies
<1> HIDE DEF serverRows
<1>2. AgreesOf(L, S, Q, n, rd, r) /\ EditsStandOf(L, S, Q, rd, r)
  BY DEF AgreeInv, Agrees, EditsInv, EditsStand
<1>3. DevFits(Device0(d)) /\ Device0(d).rows = store[d] /\ Device0(d).queue = outbox[d]
  BY DeviceFacts
<1>4. PICK x0 \in Pending(store[d]) : IsRowOf(x0, e)
  BY DeviceFacts DEF QueueFits
<1>5. /\ new.queue = outbox[d] \ {e}
      /\ serverRows = {} => new.rows = (store[d] \ {x0}) \cup {AsSynced(x0)}
      /\ \A row : serverRows = {row} => new.rows = Upsert(store[d] \ {x0}, {AsSynced(row)})
  <2> DEFINE dev == Device0(d)
  <2>1. /\ DevFits(dev) /\ e \in dev.queue /\ x0 \in Pending(dev.rows)
        /\ new = AckPending(dev, e.id, serverRows)
        /\ dev.rows = store[d] /\ dev.queue = outbox[d]
    BY <1>3 DEF serverRows
  <2> HIDE DEF dev
  <2>2. Acked(dev, e, serverRows, x0, new)
    BY <1>4, <2>1, AckedRows
  <2>. QED
    BY <2>1, <2>2 DEF Acked
<1>6. x0 \in store[d] /\ ~x0.synced /\ x0.rec = e.rec /\ x0.ver = e.ver
  BY <1>4 DEF Pending, IsRowOf
<1>7. c \in rd.batch
  BY FirstAnswered
<1>8. result.status = "applied" =>
        result.row \in ServerRow /\ result.row.rec = e.rec /\ result.row.ver <= e.ver
  <2>1. AnswersFit(d)
    BY DEF SyncInv, RoundFits
  <2>. QED
    BY <1>7, <2>1 DEF AnswersFit
<1> DEFINE z == IF result.status = "applied" THEN AsSynced(result.row) ELSE AsSynced(x0)
<1>9. z.synced /\ z.rec = e.rec /\ z.ver <= x0.ver
  <2>1. x0.ver \in Nat
    BY <1>6, DeviceFacts DEF RowsFit, StoreRow
  <2>. QED
    BY <1>6, <1>8, <2>1 DEF AsSynced, LocalRow
<1>10. /\ \A x \in new.rows : x \in store[d] \ {x0} \/ x = z
       /\ z \in new.rows
       /\ \A x \in store[d] : x # x0 => x \in new.rows \/ (x.rec = z.rec /\ x.ver = z.ver)
  <2>1. CASE result.status # "applied"
    <3>1. new.rows = (store[d] \ {x0}) \cup {z}
      BY <1>1, <1>5, <2>1
    <3>. QED
      BY <3>1
  <2>2. CASE result.status = "applied"
    <3>1. serverRows = {result.row} /\ z = AsSynced(result.row)
      BY <1>1, <2>2
    <3>2. new.rows = Upsert(store[d] \ {x0}, {z})
      BY <1>5, <3>1
    <3> HIDE DEF z
    <3>. QED
      BY <3>2 DEF Upsert
  <2>. QED
    BY <2>1, <2>2
<1>11. CASE r # e.rec
  <2> HIDE DEF z
  <2>1. T = S
    BY <1>6, <1>9, <1>10, <1>11 DEF Of
  <2>2. P = Q
    BY <1>5, <1>11 DEF Of
  <2>. QED
    BY <1>2, <2>1, <2>2, QuietEdits
<1>12. CASE r = e.rec
  <2>1. e \in Q /\ x0 \in Pending(S) /\ P = Q \ {e}
    BY <1>4, <1>5, <1>6, <1>12 DEF Of, Pending
  <2>2. OrderedOf(S, Q, r)
    BY DeviceFacts, DevOrdered
  <2>3. HasOnly(L, S, n)
    BY <1>2 DEF AgreesOf
  <2>4. \A f \in Q : e.id <= f.id
    <3>1. \A f \in outbox[d] : f.rec = e.rec => e.id <= f.id
      BY FirstAnswered
    <3>. QED
      BY <1>12, <3>1 DEF Of
  <2>5. \A x \in Pending(S) : x # x0 => x.kind # "purged"
    <3>1. \A x, y \in Pending(store[d]) :
            IsRowOf(x, e) /\ y.rec = e.rec /\ y # x => y.kind # "purged"
      BY FirstAnswered
    <3>2. \A x \in Pending(S) : x \in Pending(store[d]) /\ x.rec = e.rec
      BY <1>12 DEF Pending, Of
    <3>. QED
      BY <1>4, <3>1, <3>2
  <2>6. AckedTo(L, S, n, e.id, x0, z)
    <3>1. /\ \A y \in Pending(S) : IsRowOf(y, e) => y.kind = c.kind
          /\ result.status = "applied" =>
               result.row.id = e.id /\ (result.row \in L \/ PurgedAbove(L, result.row.ver, n))
          /\ result.status = "not_found" /\ c.kind = "purged" => L = {}
      BY <1>2, <1>7, <2>1 DEF AgreesOf, AnswersAgree
    <3>2. CASE result.status = "applied"
      <4>1. z = AsSynced(result.row)
        BY <3>2
      <4>. QED
        BY <1>8, <1>9, <2>5, <3>1, <3>2, <4>1 DEF AckedTo
    <3>3. CASE result.status # "applied"
      <4>1. L = {} /\ x0.kind = "purged"
        BY <1>4, <2>1, <3>1, <3>3 DEF Done
      <4>2. z = AsSynced(x0)
        BY <3>3
      <4>3. z.kind = "purged"
        BY <4>1, <4>2 DEF AsSynced, LocalRow
      <4>. QED
        BY <1>9, <2>5, <4>1, <4>3 DEF AckedTo
    <3>. QED
      BY <3>2, <3>3
  <2>7. \A x \in L : x.ver \in Nat
    BY RecordFacts
  <2>8. \A x, y \in L : x.id = y.id => x = y
    BY DEF SyncInv, LogInv, Of
  <2> HIDE DEF z
  <2>9. /\ z \in T /\ \A x \in T : (x \in S /\ x # x0) \/ x = z
        /\ \A x \in S : x = x0 \/ x \in T \/ x.ver = z.ver
    BY <1>6, <1>9, <1>10, <1>12 DEF Of
  <2> HIDE DEF L, S, Q, T, P, n, rd
  <2>10. EditsStandOf(L, T, Q \ {e}, next, r)
    BY <1>2, <1>4, <1>9, <2>1, <2>2, <2>3, <2>4, <2>6, <2>7, <2>8, <2>9, AckEdits
  <2>11. EditsStandOf(L, T, P, next, r)
    BY <2>1, <2>10
  <2>. QED
    BY <2>11 DEF L, T, P
<1>. QED
  BY <1>11, <1>12

LEMMA TakeResultEdits ==
  ASSUME SyncInv, AgreeInv, EditsInv, NEW d \in Device, TakeResult(d)
  PROVE  EditsInv'
<1> DEFINE rd == round[d]
           c == First(rd.batch)
           result == rd.results[c.id]
           done == \/ result.status = "applied"
                   \/ result.status = "not_found" /\ c.kind = "purged"
           new == CASE result.status = "applied" -> AckPending(Device0(d), c.id, {result.row})
                    [] done /\ result.status # "applied" -> AckPending(Device0(d), c.id, {})
                    [] result.status = "stale" -> Device0(d)
                    [] OTHER -> Park(Device0(d), c.id)
           again == rd.again \/ ~done
           after == AfterPush(rd.repush, again)
           on == [at |-> "answered", batch |-> rd.batch \ {c}, results |-> rd.results,
                  again |-> again, repush |-> rd.repush]
           next == IF rd.batch = {c} THEN after ELSE on
<1>1. /\ Keep(d, new) /\ Go(d, next) /\ UNCHANGED <<serverVars, cursor, late, spent, created>>
      /\ rd.at = "answered"
  BY DEF TakeResult, TakeResultOf
<1>2. \/ /\ result.status = "applied" /\ Done(c, result)
         /\ new = AckPending(Device0(d), c.id, {result.row})
      \/ result.status # "applied" /\ Done(c, result) /\ new = AckPending(Device0(d), c.id, {})
      \/ ~Done(c, result) /\ new \in {Device0(d), Park(Device0(d), c.id)}
  BY DEF Done
<1>3. next.at # "sent"
  BY DEF AfterPush, Idle
<1>4. Device0(d).rows = store[d] /\ Device0(d).queue = outbox[d] /\ IsDev(Device0(d))
  BY DeviceFacts
<1> HIDE DEF new, next, after, on, again, done, result, c
<1>5. \A r \in Record \ belated : EditsStandOf(Of(log, r), Of(new.rows, r), Of(new.queue, r), next, r)
  <2>1. CASE ~Done(c, result) \/ \A e \in outbox[d] : e.id # c.id
    <3>1. new.rows = store[d] /\ \A r : SameEntries(Of(outbox[d], r), Of(new.queue, r))
      <4>1. new = Device0(d) \/ new = Park(Device0(d), c.id)
        BY <1>2, <1>4, <2>1, AckNothing
      <4>2. CASE new = Device0(d)
        BY <1>4, <4>2 DEF SameEntries
      <4>3. CASE new = Park(Device0(d), c.id)
        <5> DEFINE g(e) == IF e.id = c.id THEN [e EXCEPT !.parked = TRUE] ELSE e
                   queue == { g(e) : e \in outbox[d] }
        <5>1. new = [Device0(d) EXCEPT !.queue = queue]
          BY <1>4, <4>3 DEF Park
        <5>2. \A e \in outbox[d] : g(e).id = e.id /\ g(e).rec = e.rec /\ g(e).ver = e.ver
          <6>1. \A e \in outbox[d] : e \in Entry
            BY DeviceFacts DEF QueueFits
          <6>. QED
            BY <6>1 DEF Entry
        <5> HIDE DEF g
        <5>3. \A f \in queue : \E e \in outbox[d] : f = g(e)
          OBVIOUS
        <5>4. \A e \in outbox[d] : g(e) \in queue
          OBVIOUS
        <5> HIDE DEF queue
        <5>5. new.rows = store[d] /\ new.queue = queue
          <6>1. [Device0(d) EXCEPT !.queue = queue] = [rows |-> store[d], queue |-> queue, id |-> Device0(d).id]
            BY <1>4, DevParts
          <6>. QED
            BY <5>1, <6>1
        <5>6. \A r : SameEntries(Of(outbox[d], r), Of(queue, r))
          <6>. TAKE r
          <6>1. \A f \in Of(queue, r) : \E e \in Of(outbox[d], r) : e.id = f.id /\ e.rec = f.rec /\ e.ver = f.ver
            BY <5>2, <5>3 DEF Of
          <6>2. \A e \in Of(outbox[d], r) : \E f \in Of(queue, r) : e.id = f.id /\ e.rec = f.rec /\ e.ver = f.ver
            BY <5>2, <5>4 DEF Of
          <6>. QED
            BY <6>1, <6>2 DEF SameEntries
        <5>. QED
          BY <5>5, <5>6
      <4>. QED
        BY <4>1, <4>2, <4>3
    <3>. TAKE r \in Record \ belated
    <3>2. EditsStandOf(Of(log, r), Of(store[d], r), Of(outbox[d], r), rd, r)
      BY DEF EditsInv, EditsStand
    <3>3. EditsStandOf(Of(log, r), Of(store[d], r), Of(new.queue, r), rd, r)
      BY <3>1, <3>2, SameEntriesEdits
    <3>. QED
      BY <1>3, <3>1, <3>3, QuietEdits
  <2>2. CASE Done(c, result) /\ \E e \in outbox[d] : e.id = c.id
    <3>1. PICK e \in outbox[d] : e.id = c.id
      BY <2>2
    <3>2. new = AckPending(Device0(d), e.id, Copies(result))
      BY <1>2, <2>2, <3>1 DEF Copies
    <3>. TAKE r \in Record \ belated
    <3>3. c = First(round[d].batch) /\ result = round[d].results[c.id]
      BY DEF c, result
    <3>4. round[d].at = "answered" /\ Done(c, result)
      BY <1>1, <2>2
    <3> HIDE DEF rd
    <3>. QED
      BY <1>3, <3>1, <3>2, <3>3, <3>4, EndedEdits
  <2>. QED
    BY <2>1, <2>2
<1>6. /\ store'[d] = new.rows /\ outbox'[d] = new.queue
      /\ \A g \in Device \ {d} : store'[g] = store[g] /\ outbox'[g] = outbox[g]
  <2>1. store = [g \in Device |-> store[g]] /\ outbox = [g \in Device |-> outbox[g]]
    BY DEF SyncInv, Shapes
  <2>2. store' = [store EXCEPT ![d] = new.rows] /\ outbox' = [outbox EXCEPT ![d] = new.queue]
    BY <1>1 DEF Keep
  <2>. QED
    BY <2>1, <2>2, Zenon
<1>7. round'[d] = next /\ \A g \in Device \ {d} : round'[g] = round[g]
  BY <1>1, GoFacts
<1>8. log' = log /\ belated' = belated
  BY <1>1 DEF serverVars
<1>9. \A r \in Record \ belated : EditsStand(d, r)'
  BY <1>5, <1>6, <1>7, <1>8 DEF EditsStand
<1>. QED
  BY <1>3, <1>6, <1>7, <1>8, <1>9, StepEdits

-------------------------------------------------------------------------------
(***************************************************************************)
(* A page applied.                                                         *)
(***************************************************************************)
(* What a page makes of the rows that wait, `w` the lowest of them and `l` *)
(* the highest: nothing if all of the page lies below, else they move      *)
(* above the page's newest row `top`, and what merges it comes on top.     *)
IsMovedUp(p, x, w, top) == p.ver = x.ver + (top.ver + 1 - w.ver) /\ p.edits = x.edits

IsMergeOf(edits, S, G, w, l, top) ==
  \E b \in S \cup G : b.ver = w.ver - 1 /\ edits = Merge(b.edits, l.edits, top.edits)

Between(S, G, w, l, top) ==
  /\ w \in Pending(S) /\ l \in Pending(S) /\ top \in G /\ w.ver <= top.ver
  /\ \A x \in Pending(S) : w.ver <= x.ver /\ x.ver <= l.ver
  /\ \A g \in G : g.ver <= top.ver

MovedOver(S, T, G, w, l, top) ==
  /\ \A x \in Pending(S) : \E p \in Pending(T) : IsMovedUp(p, x, w, top)
  /\ \A p \in Pending(T) :
       \/ \E x \in Pending(S) : IsMovedUp(p, x, w, top)
       \/ p.ver = l.ver + (top.ver + 1 - w.ver) + 1 /\ IsMergeOf(p.edits, S, G, w, l, top)
  /\ (\E b \in S \cup G : b.ver = w.ver - 1) =>
       \A p \in Pending(T) : IsTop(p, Pending(T)) => IsMergeOf(p.edits, S, G, w, l, top)

RebasedTo(S, T, G) ==
  \/ Pending(T) = Pending(S) /\ \A g \in G, x \in Pending(S) : g.ver < x.ver
  \/ \E w, l, top : Between(S, G, w, l, top) /\ MovedOver(S, T, G, w, l, top)

(* Where the server has nothing of what waits, it has all that counts as   *)
(* synced, and what waits builds on the newest of that.                    *)
Copied(L, rows) == \A x \in rows : \E y \in L : x = AsSynced(y)

LEMMA ChainOnSynced ==
  ASSUME NEW L, NEW S, NEW Q, NEW r, OrderedOf(S, Q, r), StoreHasEdits(L, S, Q),
         Stored(L, Q) = {}, L # {}, NEW w \in Pending(S), \A x \in Pending(S) : w.ver <= x.ver
  PROVE  \E b \in Synced(S) : b.ver = w.ver - 1 /\ IsTop(b, Synced(S))
<1>1. w \in S /\ ~w.synced /\ w.ver \in Nat \ {0}
  BY DEF Pending, OrderedOf
<1>2. \A y \in Synced(S) : y \in S /\ y.synced /\ y.ver \in Nat \ {0} /\ y.ver < w.ver
  BY <1>1 DEF Synced, OrderedOf
<1>3. PICK y \in Synced(S) : TRUE
  BY <1>1 DEF StoreHasEdits, FirstIsOwn
<1>4. w.ver # 1
  BY <1>1, <1>2, <1>3
<1>5. PICK b \in S : b.ver = w.ver - 1
  BY <1>4 DEF StoreHasEdits, Builds
<1>6. b \in Synced(S)
  <2>. SUFFICES ASSUME ~b.synced PROVE FALSE
    BY DEF Synced
  <2>1. w.ver <= b.ver
    BY DEF Pending
  <2>. QED
    BY <1>1, <1>5, <2>1
<1>7. IsTop(b, Synced(S))
  BY <1>1, <1>2, <1>5, <1>6 DEF IsTop
<1>. QED
  BY <1>5, <1>6, <1>7

(* Nothing moves.                                                          *)
LEMMA StayedEdits ==
  ASSUME NEW L, NEW S, NEW Q, NEW r, OrderedOf(S, Q, r), StoreHasEdits(L, S, Q), Stored(L, Q) = {},
         NEW G, Copied(L, G), NEW T, NEW P, OrderedOf(T, P, r),
         \A x : x \in Synced(T) <=> x \in Synced(S) \/ x \in G,
         Pending(T) = Pending(S), \A g \in G, x \in Pending(S) : g.ver < x.ver,
         NEW w, Pending(S) # {} => w \in Pending(S) /\ \A x \in Pending(S) : w.ver <= x.ver
  PROVE  Builds(T) /\ HeadHasWaiting(L, T) /\ HeadHasSynced(T) /\ (L # {} => T = {} \/ Synced(T) # {})
<1>1. \A x \in T : x \in Pending(T) \/ x \in Synced(T)
  BY DEF Pending, Synced
<1>2. \A x \in S : x \in Pending(S) \/ x \in Synced(S)
  BY DEF Pending, Synced
<1>3. \A x \in S : x \in T
  <2>1. \A x \in Pending(T) : x \in T
    BY DEF Pending
  <2>2. \A x \in Synced(T) : x \in T
    BY DEF Synced
  <2>. QED
    BY <1>2, <2>1, <2>2
<1>4. ASSUME NEW h \in T, IsTop(h, T), Pending(S) # {} PROVE h \in S /\ IsTop(h, S)
  <2>1. \A x \in S : x.ver <= h.ver
    BY <1>3, <1>4 DEF IsTop
  <2>2. h \in Pending(T)
    <3>. SUFFICES ASSUME h.synced PROVE FALSE
      BY DEF Pending
    <3>1. w \in T /\ ~w.synced /\ w.ver <= h.ver
      BY <1>4 DEF Pending, IsTop
    <3>. QED
      BY <3>1 DEF OrderedOf
  <2>. QED
    BY <2>1, <2>2 DEF IsTop, Pending
<1>5. Builds(T)
  BY <1>3 DEF StoreHasEdits, Builds
<1>6. HeadHasWaiting(L, T)
  BY <1>4 DEF StoreHasEdits, HeadHasWaiting
<1>7. L = {} => G = {}
  BY DEF Copied
<1>8. CASE Pending(S) = {}
  <2>1. \A x \in T : x \in Synced(T)
    BY <1>1, <1>8
  <2>2. HeadHasSynced(T)
    <3>. SUFFICES ASSUME NEW h \in T, NEW y \in Synced(T), IsTop(h, T), IsTop(y, Synced(T))
                  PROVE  h = y
      BY DEF HeadHasSynced
    <3>1. y \in T /\ h.ver <= y.ver /\ y.ver <= h.ver
      BY <2>1 DEF IsTop, Synced
    <3>2. h.ver \in Nat /\ y.ver \in Nat
      BY <3>1 DEF OrderedOf
    <3>3. h.ver = y.ver
      BY <3>1, <3>2
    <3>. QED
      BY <3>1, <3>3 DEF OrderedOf
  <2>. QED
    BY <1>5, <1>6, <2>1, <2>2
<1>9. CASE Pending(S) # {} /\ L = {}
  <2>1. \A y : y \in Synced(T) <=> y \in Synced(S)
    BY <1>7, <1>9
  <2>2. HeadHasSynced(T)
    <3>. SUFFICES ASSUME NEW h \in T, NEW y \in Synced(T), IsTop(h, T), IsTop(y, Synced(T))
                  PROVE  y.edits \subseteq h.edits
      BY DEF HeadHasSynced
    <3>1. y \in Synced(S) /\ IsTop(y, Synced(S))
      BY <2>1 DEF IsTop
    <3>. QED
      BY <1>4, <1>9, <3>1 DEF StoreHasEdits, HeadHasSynced
  <2>. QED
    BY <1>5, <1>6, <1>9, <2>2
<1>10. CASE Pending(S) # {} /\ L # {}
  <2>1. PICK b \in Synced(S) : b.ver = w.ver - 1 /\ IsTop(b, Synced(S))
    BY <1>10, ChainOnSynced
  <2>2. HeadHasSynced(T)
    <3>. SUFFICES ASSUME NEW h \in T, NEW y \in Synced(T), IsTop(h, T), IsTop(y, Synced(T))
                  PROVE  y.edits \subseteq h.edits
      BY DEF HeadHasSynced
    <3>1. h \in S /\ IsTop(h, S)
      BY <1>4, <1>10
    <3>2. y \in T /\ y.synced /\ w \in T /\ ~w.synced /\ b \in T
      BY <1>10, <2>1 DEF Synced, Pending
    <3>3. y.ver < w.ver /\ y.ver \in Nat /\ w.ver \in Nat /\ b.ver <= y.ver
      BY <2>1, <3>2 DEF OrderedOf, IsTop
    <3>4. y.ver = b.ver
      BY <2>1, <3>3
    <3>5. y = b
      BY <3>2, <3>4 DEF OrderedOf
    <3>. QED
      BY <2>1, <3>1, <3>5 DEF StoreHasEdits, HeadHasSynced
  <2>. QED
    BY <1>5, <1>6, <2>1, <2>2
<1>. QED
  BY <1>8, <1>9, <1>10

(* What waits moves above the page's newest row, and is merged with it.    *)
LEMMA MovedEdits ==
  ASSUME NEW L, \A x, y \in L : x.ver = y.ver => x = y,
         NEW S, NEW Q, NEW r, OrderedOf(S, Q, r), StoreHasEdits(L, S, Q), Stored(L, Q) = {},
         NEW G, Copied(L, G), Copied(L, Synced(S)), NEW T, NEW P, OrderedOf(T, P, r),
         \A x : x \in Synced(T) <=> x \in Synced(S) \/ x \in G,
         NEW w, NEW l, NEW top, Between(S, G, w, l, top), MovedOver(S, T, G, w, l, top)
  PROVE  Builds(T) /\ HeadHasWaiting(L, T) /\ HeadHasSynced(T) /\ Synced(T) # {}
<1> DEFINE k == top.ver + 1 - w.ver
<1>1. /\ w \in S /\ ~w.synced /\ l \in S /\ ~l.synced /\ top \in G
      /\ w.ver \in Nat \ {0} /\ l.ver \in Nat /\ w.ver <= top.ver
      /\ \A x \in Pending(S) : x.ver \in Nat /\ w.ver <= x.ver /\ x.ver <= l.ver
  BY DEF Between, Pending, OrderedOf
<1>2. top \in Synced(T) /\ top \in T /\ top.ver \in Nat
  <2>1. top \in Synced(T)
    BY <1>1
  <2>. QED
    BY <2>1 DEF Synced, OrderedOf
<1>3. k \in Nat /\ k + w.ver = top.ver + 1
  BY <1>1, <1>2
<1>4. L # {}
  BY <1>1 DEF Copied
<1>5. PICK b \in Synced(S) : b.ver = w.ver - 1 /\ IsTop(b, Synced(S))
  BY <1>4, ChainOnSynced DEF Between
<1>6. \A x, y : (\E u \in L : x = AsSynced(u)) /\ (\E v \in L : y = AsSynced(v)) /\ x.ver = y.ver => x = y
  <2>1. \A u : AsSynced(u).ver = u.ver
    BY DEF AsSynced, LocalRow
  <2>. QED
    BY <2>1
<1>7. ASSUME NEW c \in S \cup G, c.ver = w.ver - 1 PROVE c = b
  <2>1. CASE c \in G
    BY <1>5, <1>6, <1>7, <2>1 DEF Copied
  <2>2. CASE c \in S
    <3>1. b \in S
      BY DEF Synced
    <3>. QED
      BY <1>5, <1>7, <2>2, <3>1 DEF OrderedOf
  <2>. QED
    BY <2>1, <2>2
<1>8. b.edits \subseteq l.edits
  <2>1. \A x \in S : x.ver <= l.ver
    <3>. SUFFICES ASSUME NEW x \in S PROVE x.ver <= l.ver
      OBVIOUS
    <3>1. CASE x.synced
      BY <1>1, <3>1 DEF OrderedOf
    <3>2. CASE ~x.synced
      BY <1>1, <3>2 DEF Pending
    <3>. QED
      BY <3>1, <3>2
  <2>2. IsTop(l, S)
    BY <1>1, <2>1 DEF IsTop
  <2>. QED
    BY <1>1, <1>5, <2>2 DEF StoreHasEdits, HeadHasSynced
<1> DEFINE m == Merge(b.edits, l.edits, top.edits)
<1>9. top.edits \subseteq m
  BY <1>8 DEF Merge
<1>10. \A i \in l.edits : i \in m \/ IsEdited(i, L)
  <2>1. \A i \in b.edits : IsEdited(i, L)
    <3>1. PICK u \in L : b = AsSynced(u)
      BY DEF Copied
    <3>2. u.edits = b.edits
      BY <3>1 DEF AsSynced, LocalRow
    <3>. QED
      BY <3>2 DEF IsEdited
  <2>. QED
    BY <2>1 DEF Merge
<1> HIDE DEF m
<1>11. \A edits : IsMergeOf(edits, S, G, w, l, top) => edits = m
  BY <1>7 DEF IsMergeOf, m
<1>12. /\ \A x \in Pending(S) : \E p \in Pending(T) : p.ver = x.ver + k /\ p.edits = x.edits
       /\ \A p \in Pending(T) :
            \/ \E x \in Pending(S) : p.ver = x.ver + k /\ p.edits = x.edits
            \/ p.ver = l.ver + k + 1 /\ p.edits = m
       /\ \A p \in Pending(T) : IsTop(p, Pending(T)) => p.edits = m
  <2>1. b \in S \cup G
    BY DEF Synced
  <2>. QED
    BY <1>5, <1>11, <2>1 DEF MovedOver, IsMovedUp
<1>13. \A p \in Pending(T) : p \in T /\ ~p.synced /\ p.ver \in Nat
  BY DEF Pending, OrderedOf
<1>14. PICK p0 \in Pending(T) : TRUE
  BY <1>12 DEF Between
<1>15. ASSUME NEW h \in T, IsTop(h, T) PROVE h.edits = m
  <2>1. h \in Pending(T)
    <3>. SUFFICES ASSUME h.synced PROVE FALSE
      BY DEF Pending
    <3>1. h.ver < p0.ver /\ p0.ver <= h.ver /\ h.ver \in Nat /\ p0.ver \in Nat
      BY <1>13, <1>15 DEF OrderedOf, IsTop
    <3>. QED
      BY <3>1
  <2>2. IsTop(h, Pending(T))
    BY <1>13, <1>15, <2>1 DEF IsTop
  <2>. QED
    BY <1>12, <2>1, <2>2
<1> HIDE DEF k
<1>16. Builds(T)
  <2>. SUFFICES ASSUME NEW p \in Pending(T) PROVE \E y \in T : y.ver = p.ver - 1
    BY DEF Builds
  <2>1. CASE p.ver = l.ver + k + 1
    <3>1. PICK y \in Pending(T) : y.ver = l.ver + k
      BY <1>12 DEF Between
    <3>. QED
      BY <1>1, <1>3, <1>13, <2>1, <3>1
  <2>2. CASE \E x \in Pending(S) : p.ver = x.ver + k
    <3>1. PICK x \in Pending(S) : p.ver = x.ver + k
      BY <2>2
    <3>2. x.ver \in Nat /\ w.ver <= x.ver
      BY <1>1
    <3>3. CASE x.ver = w.ver
      <4>1. top.ver = p.ver - 1
        BY <1>1, <1>2, <1>3, <3>1, <3>3
      <4>. QED
        BY <1>2, <4>1
    <3>4. CASE x.ver # w.ver
      <4>1. w.ver < x.ver
        BY <1>1, <3>2, <3>4
      <4>2. PICK y \in S : y.ver = x.ver - 1
        BY <1>1, <3>2, <4>1 DEF StoreHasEdits, Builds
      <4>3. w.ver <= y.ver /\ y.ver \in Nat
        BY <1>1, <3>2, <4>1, <4>2
      <4>4. y \in Pending(S)
        <5>. SUFFICES ASSUME y.synced PROVE FALSE
          BY DEF Pending
        <5>1. y.ver < w.ver
          BY <1>1 DEF OrderedOf
        <5>. QED
          BY <1>1, <4>3, <5>1
      <4>5. PICK q \in Pending(T) : q.ver = y.ver + k
        BY <1>12, <4>4
      <4>6. q.ver = p.ver - 1
        BY <1>3, <3>1, <3>2, <4>2, <4>3, <4>5
      <4>. QED
        BY <1>13, <4>6
    <3>. QED
      BY <3>3, <3>4
  <2>. QED
    BY <1>12, <2>1, <2>2
<1>17. HeadHasWaiting(L, T)
  <2>. SUFFICES ASSUME NEW h \in T, NEW p \in Pending(T), IsTop(h, T), NEW i \in p.edits
                PROVE  i \in m \/ IsEdited(i, L)
    BY <1>15 DEF HeadHasWaiting
  <2>1. CASE p.edits = m
    BY <2>1
  <2>2. CASE \E x \in Pending(S) : p.edits = x.edits
    <3>1. PICK x \in Pending(S) : p.edits = x.edits
      BY <2>2
    <3>2. \A y \in S : y.ver <= l.ver
      <4>. SUFFICES ASSUME NEW y \in S PROVE y.ver <= l.ver
        OBVIOUS
      <4>1. CASE y.synced
        BY <1>1, <4>1 DEF OrderedOf
      <4>2. CASE ~y.synced
        BY <1>1, <4>2 DEF Pending
      <4>. QED
        BY <4>1, <4>2
    <3>3. IsTop(l, S)
      BY <1>1, <3>2 DEF IsTop
    <3>4. i \in l.edits \/ IsEdited(i, L)
      BY <1>1, <3>1, <3>3 DEF StoreHasEdits, HeadHasWaiting
    <3>. QED
      BY <1>10, <3>4
  <2>. QED
    BY <1>12, <2>1, <2>2
<1>18. HeadHasSynced(T)
  <2>. SUFFICES ASSUME NEW h \in T, NEW y \in Synced(T), IsTop(h, T), IsTop(y, Synced(T))
                PROVE  y.edits \subseteq m
    BY <1>15 DEF HeadHasSynced
  <2>1. y \in T /\ y.ver \in Nat /\ top.ver <= y.ver
    BY <1>2 DEF Synced, IsTop, OrderedOf
  <2>2. y.ver <= top.ver
    <3>1. CASE y \in G
      BY <3>1 DEF Between
    <3>2. CASE y \in Synced(S)
      <4>1. y.ver < w.ver
        BY <1>1, <3>2 DEF Synced, OrderedOf
      <4>. QED
        BY <1>1, <1>2, <2>1, <4>1
    <3>. QED
      BY <3>1, <3>2
  <2>3. y = top
    BY <1>2, <2>1, <2>2 DEF OrderedOf
  <2>. QED
    BY <1>9, <2>3
<1>. QED
  BY <1>2, <1>16, <1>17, <1>18

(* The page's rows of one record, all of them puts.                        *)
LEMMA AppliedEdits ==
  ASSUME NEW L, NEW n, \A x \in L : x.ver \in Nat, \A x, y \in L : x.ver = y.ver => x = y,
         NEW S, NEW Q, NEW rd, NEW r, EditsStandOf(L, S, Q, rd, r),
         OrderedOf(S, Q, r), HasOnly(L, S, n), IsFiniteSet(S),
         Stored(L, Q) = {}, NEW G, Puts(L) => Copied(L, G),
         NEW T, NEW P, OrderedOf(T, P, r), AppliedTo(S, T, G), \A g \in G : g.synced,
         Puts(G) => \A q \in Pending(S) : \E p \in Pending(T) : p.kind = q.kind,
         Puts(S) /\ Puts(G) => RebasedTo(S, T, G),
         Stored(L, P) = {}, NEW next, next.at # "sent"
  PROVE  EditsStandOf(L, T, P, next, r)
<1>1. \A x \in L, f \in P : x.id # f.id
  BY DEF Stored
<1>2. WaitingKinds(L, T, P)
  BY <1>1 DEF WaitingKinds
<1>3. ASSUME Puts(L), Puts(T) PROVE StoreHasEdits(L, T, P)
  <2>1. Copied(L, G) /\ Puts(G)
    <3>1. \A u : AsSynced(u).kind = u.kind
      BY DEF AsSynced, LocalRow
    <3>. QED
      BY <1>3, <3>1 DEF Copied, Puts
  <2>2. \A q \in Pending(S) : q.kind = "put"
    BY <1>3, <2>1 DEF Puts, Pending
  <2>3. Copied(L, Synced(S))
    <3>1. \A x \in Synced(S) : (\E y \in L : x = AsSynced(y)) \/ (L = {} /\ x.kind = "purged")
      BY <1>3 DEF HasOnly, PurgedAbove, Puts
    <3>. SUFFICES ASSUME Synced(S) # {}, L = {} PROVE FALSE
      BY <3>1 DEF Copied
    <3>2. IsFiniteSet(Synced(S)) /\ \A x \in Synced(S) : x.ver \in Nat
      BY FS_Subset DEF Synced, OrderedOf
    <3> DEFINE x == Highest(Synced(S))
    <3>3. x \in Synced(S) /\ \A y \in Synced(S) : y.ver <= x.ver
      BY <3>2, HighestRow
    <3> HIDE DEF x
    <3>4. G = {}
      BY <2>1 DEF Copied
    <3>5. \/ x \in T
          \/ \E p : (p \in Synced(S) \/ p \in Pending(T)) /\ p.kind = "purged" /\ x.ver < p.ver
      BY <3>3, <3>4 DEF AppliedTo
    <3>6. x \notin T
      BY <1>3, <3>1, <3>3 DEF Puts
    <3>7. \A p \in Pending(T) : p.kind = "put"
      BY <1>3 DEF Puts, Pending
    <3>8. PICK p \in Synced(S) : x.ver < p.ver
      BY <3>5, <3>6, <3>7
    <3>. QED
      BY <3>2, <3>3, <3>8
  <2>4. Puts(S)
    <3>1. \A x \in Synced(S) : x.kind = "put"
      <4>1. \A u : AsSynced(u).kind = u.kind
        BY DEF AsSynced, LocalRow
      <4>. QED
        BY <1>3, <2>3, <4>1 DEF Copied, Puts
    <3>. QED
      BY <2>2, <3>1 DEF Puts, Pending, Synced
  <2>5. StoreHasEdits(L, S, Q)
    BY <1>3, <2>4 DEF EditsStandOf
  <2>6. \A x : x \in Synced(T) <=> x \in Synced(S) \/ x \in G
    <3>1. \A x \in Synced(T) : x \in G \/ x \in Synced(S)
      BY DEF AppliedTo
    <3>. SUFFICES ASSUME NEW x, x \in G \/ x \in Synced(S) PROVE x \in Synced(T)
      BY <3>1
    <3>2. x.synced
      BY DEF Synced
    <3>3. ~\E p : (p \in G \/ p \in Synced(S) \/ p \in Pending(T)) /\ p.kind = "purged" /\ x.ver < p.ver
      BY <1>3, <2>1, <2>4 DEF Puts, Pending, Synced
    <3>4. x \in T \/ (x \notin G /\ \E y \in G : y.ver = x.ver)
      BY <3>3 DEF AppliedTo
    <3>5. ASSUME x \notin G, NEW y \in G, y.ver = x.ver PROVE FALSE
      <4>1. PICK u \in L : x = AsSynced(u)
        BY <2>3, <3>5 DEF Copied
      <4>2. PICK v \in L : y = AsSynced(v)
        BY <2>1 DEF Copied
      <4>3. u.ver = v.ver
        BY <3>5, <4>1, <4>2 DEF AsSynced, LocalRow
      <4>. QED
        BY <3>5, <4>1, <4>2, <4>3
    <3>. QED
      BY <3>2, <3>4, <3>5 DEF Synced
  <2>7. RebasedTo(S, T, G)
    BY <2>1, <2>4
  <2>8. Builds(T) /\ HeadHasWaiting(L, T) /\ HeadHasSynced(T) /\ (L # {} => T = {} \/ Synced(T) # {})
    <3>1. CASE Pending(T) = Pending(S) /\ \A g \in G, x \in Pending(S) : g.ver < x.ver
      <4> DEFINE seqs == { x.ver : x \in Pending(S) }
      <4>1. \E w : Pending(S) # {} => w \in Pending(S) /\ \A x \in Pending(S) : w.ver <= x.ver
        <5>. SUFFICES ASSUME Pending(S) # {}
                      PROVE  \E w \in Pending(S) : \A x \in Pending(S) : w.ver <= x.ver
          OBVIOUS
        <5>1. seqs \in SUBSET Nat /\ seqs # {}
          BY DEF OrderedOf, Pending
        <5>2. PICK k \in seqs : \A j \in seqs : k <= j
          BY <5>1, LeastOfNumbers
        <5>. QED
          BY <5>2
      <4>2. PICK w : Pending(S) # {} => w \in Pending(S) /\ \A x \in Pending(S) : w.ver <= x.ver
        BY <4>1
      <4>. QED
        BY <2>1, <2>5, <2>6, <3>1, <4>2, StayedEdits
    <3>2. CASE \E w, l, top : Between(S, G, w, l, top) /\ MovedOver(S, T, G, w, l, top)
      <4>1. PICK w, l, top : Between(S, G, w, l, top) /\ MovedOver(S, T, G, w, l, top)
        BY <3>2
      <4>. QED
        BY <2>1, <2>3, <2>5, <2>6, <4>1, MovedEdits
    <3>. QED
      BY <2>7, <3>1, <3>2 DEF RebasedTo
  <2>9. HeadHasStored(L, T, P) /\ StoredAsWaiting(L, T, P)
    BY <1>1 DEF HeadHasStored, StoredAsWaiting
  <2>10. FirstIsOwn(L, T, P)
    BY <2>8 DEF FirstIsOwn
  <2>. QED
    BY <2>8, <2>9, <2>10 DEF StoreHasEdits
<1>. QED
  BY <1>2, <1>3 DEF EditsStandOf

(* What a rebase makes of what waits of one record, puts only.             *)
LEMMA RebasedChain ==
  ASSUME NEW dev, DevFits(dev), NEW pulled, PulledFits(pulled), NEW ids, NEW r \in Record,
         NEW S, S = Of(dev.rows, r), NEW G, G = Of(pulled, r), Puts(S), Puts(G),
         NEW T, Pending(T) = Pending(Of(Rebased(dev, pulled, ids).rows, r))
  PROVE  RebasedTo(S, T, G)
<1> DEFINE C == Chain(dev, r)
           W == Pending(dev.rows)
           k == Shift(dev, r, pulled)
           up(x) == [x EXCEPT !.ver = @ + Shift(dev, x.rec, pulled)]
           moved == Moved(dev, pulled)
           M == MergedRecords(dev, pulled)
           Version(q) == Highest(Chain(moved, q)).ver + 1
           Row(q) == LocalRow(q, Version(q), "put", Merged(dev, q, pulled), FALSE)
           new == Rebased(dev, pulled, ids)
           R == Remote(dev, r, pulled)
<1>1. Pending(S) = C
  BY DEF Chain
<1>2. /\ C = { x \in W : x.rec = r } /\ IsFiniteSet(C)
      /\ \A x \in C : x \in StoreRow /\ x.ver \in Nat /\ x.rec = r
  BY ChainRows
<1>3. k \in Nat
  BY ShiftAbove
<1>4. \A x \in C : /\ up(x).ver = x.ver + k /\ up(x).edits = x.edits /\ up(x).rec = r
                   /\ up(x).synced = x.synced
  <2>. SUFFICES ASSUME NEW x \in C
                PROVE  /\ up(x).ver = x.ver + k /\ up(x).edits = x.edits /\ up(x).rec = r
                       /\ up(x).synced = x.synced
    OBVIOUS
  <2>1. x \in StoreRow /\ x.rec = r
    BY <1>2
  <2>2. up(x) = [x EXCEPT !.ver = @ + k]
    BY <2>1
  <2> HIDE DEF up, k
  <2>. QED
    BY <2>1, <2>2 DEF StoreRow
<1>5. /\ moved.rows = Synced(dev.rows) \cup { up(x) : x \in W }
      /\ new.rows = moved.rows \cup { Row(q) : q \in M }
  <2>1. moved.rows = Synced(dev.rows) \cup { up(x) : x \in W }
    BY DEF Moved
  <2>2. new.rows = moved.rows \cup { Row(q) : q \in M }
    BY DEF Rebased
  <2>. QED
    BY <2>1, <2>2
<1>6. \A q : Row(q).rec = q /\ ~Row(q).synced /\ Row(q).ver = Version(q) /\ Row(q).edits = Merged(dev, q, pulled)
  BY DEF LocalRow
<1>7. \A x \in W : up(x).rec = x.rec /\ up(x).synced = x.synced /\ ~x.synced
  <2>. SUFFICES ASSUME NEW x \in W PROVE up(x).rec = x.rec /\ up(x).synced = x.synced /\ ~x.synced
    OBVIOUS
  <2>1. x \in StoreRow /\ ~x.synced
    BY PendingRows DEF DevFits
  <2>. QED
    BY <2>1 DEF StoreRow
<1>8. r \in M <=> Merges(dev, r, pulled)
  BY DEF MergedRecords
<1>9. IsFiniteSet(G) /\ \A g \in G : g.ver \in Nat
  BY FS_Subset DEF PulledFits, Of, StoreRow
<1>10. \A x : x \in R <=> x \in G /\ C # {} /\ x.ver >= Start(dev, r)
  BY DEF Remote
<1>21. k = IF R = {} THEN 0 ELSE Highest(R).ver + 1 - Start(dev, r)
  BY DEF Shift
<1> HIDE DEF up, moved, M, Row, Version, new, W, C, R, k
<1>11. \A p : p \in Chain(moved, r) <=> \E x \in C : p = up(x)
  <2>1. \A p : p \in Chain(moved, r) <=> p \in moved.rows /\ ~p.synced /\ p.rec = r
    BY DEF Chain, Pending, Of
  <2>2. \A x \in Synced(dev.rows) : x.synced
    BY DEF Synced
  <2>. QED
    BY <1>2, <1>5, <1>7, <2>1, <2>2
<1>12. \A p : p \in Pending(T) <=> (\E x \in C : p = up(x)) \/ (r \in M /\ p = Row(r))
  <2>1. \A p : p \in Pending(T) <=> p \in new.rows /\ ~p.synced /\ p.rec = r
    BY DEF Pending, Of, new
  <2>2. \A x \in Synced(dev.rows) : x.synced
    BY DEF Synced
  <2>. QED
    BY <1>2, <1>5, <1>6, <1>7, <2>1, <2>2
<1>13. CASE R = {}
  <2>1. k = 0
    BY <1>13, <1>21
  <2>2. r \notin M
    BY <1>8, <1>13 DEF Merges, R
  <2>3. \A x \in C : up(x) = x
    <3>. SUFFICES ASSUME NEW x \in C PROVE up(x) = x
      OBVIOUS
    <3>1. x \in StoreRow /\ x.rec = r
      BY <1>2
    <3>2. up(x) = [x EXCEPT !.ver = @ + 0]
      BY <2>1, <3>1 DEF up, k
    <3>. QED
      BY <3>1, <3>2 DEF StoreRow
  <2>4. Pending(T) = Pending(S)
    BY <1>1, <1>12, <2>2, <2>3
  <2>5. ASSUME NEW g \in G, NEW x \in C PROVE g.ver < x.ver
    <3>1. Start(dev, r) \in Nat /\ Start(dev, r) <= x.ver
      BY StartOfChain DEF C
    <3>2. ~(g.ver >= Start(dev, r))
      BY <1>10, <1>13
    <3>. QED
      BY <1>2, <1>9, <3>1, <3>2
  <2>. QED
    BY <1>1, <2>4, <2>5 DEF RebasedTo
<1>14. CASE R # {}
  <2> DEFINE l == Highest(C)
             top == Highest(R)
             vers == { x.ver : x \in C }
  <2>1. C # {}
    BY <1>10, <1>14
  <2>2. l \in C /\ \A x \in C : x.ver <= l.ver
    BY <1>2, <2>1, HighestRow
  <2>3. IsFiniteSet(R) /\ \A x \in R : x.ver \in Nat
    <3>1. R \in SUBSET G
      BY <1>10
    <3>. QED
      BY <1>9, <3>1, FS_Subset
  <2>4. top \in R /\ \A x \in R : x.ver <= top.ver
    BY <1>14, <2>3, HighestRow
  <2>5. \E w \in C : w.ver = Start(dev, r) /\ \A x \in C : w.ver <= x.ver
    <3>1. vers \in SUBSET Nat /\ vers # {}
      BY <1>2, <2>1
    <3>2. \E n \in vers : \A m \in vers : n <= m
      BY <3>1, LeastOfNumbers
    <3>3. \E n \in vers : \A x \in C : n <= x.ver
      BY <3>2
    <3>4. Start(dev, r) \in vers /\ \A x \in C : Start(dev, r) <= x.ver
      BY <3>3 DEF Start, C
    <3>. QED
      BY <3>4
  <2>6. PICK w \in C : w.ver = Start(dev, r) /\ \A x \in C : w.ver <= x.ver
    BY <2>5
  <2>7. k = top.ver + 1 - w.ver
    BY <1>14, <1>21, <2>6
  <2>8. Merged(dev, r, pulled) =
          Merge((CHOOSE x \in Bases(dev, r, pulled) : TRUE).edits, l.edits, top.edits)
    BY DEF Merged, C, R
  <2> HIDE DEF l, top
  <2>9. top \in G /\ w.ver <= top.ver
    BY <1>10, <2>3, <2>4, <2>6
  <2>10. \A g \in G : g.ver <= top.ver
    <3>. SUFFICES ASSUME NEW g \in G PROVE g.ver <= top.ver
      OBVIOUS
    <3>1. CASE g \in R
      BY <2>4, <3>1
    <3>2. CASE g \notin R
      <4>1. ~(g.ver >= w.ver)
        BY <1>10, <2>1, <2>6, <3>2
      <4>. QED
        BY <1>2, <1>9, <2>9, <4>1
    <3>. QED
      BY <3>1, <3>2
  <2>11. Between(S, G, w, l, top)
    BY <1>1, <2>2, <2>6, <2>9, <2>10 DEF Between
  <2>12. \A x : x \in Bases(dev, r, pulled) <=> x \in S \cup G /\ x.ver = w.ver - 1
    BY <2>6 DEF Bases
  <2>13. Bases(dev, r, pulled) # {} => IsMergeOf(Merged(dev, r, pulled), S, G, w, l, top)
    <3> DEFINE b == CHOOSE x \in Bases(dev, r, pulled) : TRUE
    <3>. SUFFICES ASSUME Bases(dev, r, pulled) # {}
                  PROVE  IsMergeOf(Merged(dev, r, pulled), S, G, w, l, top)
      OBVIOUS
    <3>1. b \in Bases(dev, r, pulled)
      OBVIOUS
    <3> HIDE DEF b
    <3>2. b \in S \cup G /\ b.ver = w.ver - 1
      BY <2>12, <3>1
    <3>3. Merged(dev, r, pulled) = Merge(b.edits, l.edits, top.edits)
      BY <2>8 DEF b
    <3>. QED
      BY <3>2, <3>3 DEF IsMergeOf
  <2>14. Version(r) = l.ver + k + 1
    <3> DEFINE c == Highest(Chain(moved, r))
    <3>1. \A p \in Chain(moved, r) : p.ver \in Nat
      BY <1>2, <1>3, <1>4, <1>11
    <3>2. IsFiniteSet(Chain(moved, r))
      <4> DEFINE f == [x \in C |-> up(x)]
      <4>1. f = [x \in C |-> f[x]] /\ \A x \in C : f[x] = up(x)
        OBVIOUS
      <4> HIDE DEF f
      <4>2. IsFiniteSet({ f[x] : x \in C })
        BY <1>2, <4>1, FiniteImage
      <4>3. Chain(moved, r) = { f[x] : x \in C }
        BY <1>11, <4>1
      <4>. QED
        BY <4>2, <4>3
    <3>3. up(l) \in Chain(moved, r)
      BY <1>11, <2>2
    <3>4. c \in Chain(moved, r) /\ \A p \in Chain(moved, r) : p.ver <= c.ver
      BY <3>1, <3>2, <3>3, HighestRow
    <3>5. Version(r) = c.ver + 1
      BY DEF Version
    <3> HIDE DEF c
    <3>6. l.ver + k <= c.ver
      BY <1>4, <2>2, <3>3, <3>4
    <3>7. PICK x \in C : c.ver = x.ver + k
      BY <1>4, <1>11, <3>4
    <3>8. x.ver <= l.ver /\ x.ver \in Nat /\ l.ver \in Nat
      BY <1>2, <2>2
    <3>. QED
      BY <1>3, <3>5, <3>6, <3>7, <3>8
  <2>15. \A x \in C : IsMovedUp(up(x), x, w, top)
    BY <1>4, <2>7 DEF IsMovedUp
  <2>16. \A x \in Pending(S) : \E p \in Pending(T) : IsMovedUp(p, x, w, top)
    BY <1>1, <1>12, <2>15
  <2>17. \A p \in Pending(T) :
           \/ \E x \in Pending(S) : IsMovedUp(p, x, w, top)
           \/ p.ver = l.ver + (top.ver + 1 - w.ver) + 1 /\ IsMergeOf(p.edits, S, G, w, l, top)
    <3>. SUFFICES ASSUME NEW p \in Pending(T)
                  PROVE  \/ \E x \in Pending(S) : IsMovedUp(p, x, w, top)
                         \/ /\ p.ver = l.ver + (top.ver + 1 - w.ver) + 1
                            /\ IsMergeOf(p.edits, S, G, w, l, top)
      OBVIOUS
    <3>1. CASE \E x \in C : p = up(x)
      BY <1>1, <2>15, <3>1
    <3>2. CASE r \in M /\ p = Row(r)
      <4>1. Bases(dev, r, pulled) # {}
        BY <1>8, <3>2 DEF Merges
      <4>2. p.edits = Merged(dev, r, pulled) /\ p.ver = Version(r)
        BY <1>6, <3>2
      <4>. QED
        BY <2>7, <2>13, <2>14, <4>1, <4>2
    <3>. QED
      BY <1>12, <3>1, <3>2
  <2>18. ASSUME NEW b \in S \cup G, b.ver = w.ver - 1, NEW p \in Pending(T), IsTop(p, Pending(T))
         PROVE  IsMergeOf(p.edits, S, G, w, l, top)
    <3>1. Bases(dev, r, pulled) # {}
      BY <2>12, <2>18
    <3>2. IsMergeOf(Merged(dev, r, pulled), S, G, w, l, top)
      BY <2>13, <3>1
    <3>3. CASE r \in M
      <4>1. Row(r) \in Pending(T) /\ Row(r).ver = l.ver + k + 1 /\ Row(r).edits = Merged(dev, r, pulled)
        BY <1>6, <1>12, <2>14, <3>3
      <4>2. l.ver + k + 1 <= p.ver
        BY <2>18, <4>1 DEF IsTop
      <4>3. \A x \in C : p # up(x)
        <5>. SUFFICES ASSUME NEW x \in C, p = up(x) PROVE FALSE
          OBVIOUS
        <5>1. p.ver = x.ver + k /\ x.ver <= l.ver /\ x.ver \in Nat /\ l.ver \in Nat
          BY <1>2, <1>4, <2>2
        <5>. QED
          BY <1>3, <4>2, <5>1
      <4>4. p = Row(r)
        BY <1>12, <2>18, <4>3
      <4>. QED
        BY <3>2, <4>1, <4>4
    <3>4. CASE r \notin M
      <4>1. PICK x \in C : p = up(x)
        BY <1>12, <2>18, <3>4
      <4>2. l.ver + k <= p.ver
        <5>1. up(l) \in Pending(T) /\ up(l).ver = l.ver + k
          BY <1>4, <1>12, <2>2
        <5>. QED
          BY <2>18, <5>1 DEF IsTop
      <4>3. p.ver = x.ver + k /\ p.edits = x.edits /\ x.ver <= l.ver /\ x.ver \in Nat /\ l.ver \in Nat
        BY <1>2, <1>4, <2>2, <4>1
      <4>4. x.ver = l.ver
        BY <1>3, <4>2, <4>3
      <4>5. x = l
        <5>1. x \in dev.rows /\ l \in dev.rows /\ x.rec = l.rec
          BY <1>2, <2>2 DEF W, Pending
        <5>. QED
          BY <4>4, <5>1 DEF DevFits, RowsFit
      <4>6. Merged(dev, r, pulled) = l.edits
        <5>1. \A y \in Bases(dev, r, pulled) \cup C \cup R : y.kind # "purged"
          <6>1. \A y \in C : y \in S
            BY <1>1 DEF Pending
          <6>2. \A y \in Bases(dev, r, pulled) \cup C \cup R : y \in S \/ y \in G
            BY <1>10, <2>12, <6>1
          <6>. QED
            BY <6>2 DEF Puts
        <5>2. l.kind = "put"
          <6>1. l \in S
            BY <1>1, <2>2 DEF Pending
          <6>. QED
            BY <6>1 DEF Puts
        <5>3. ~Merges(dev, r, pulled)
          BY <1>8, <3>4
        <5>. QED
          BY <1>14, <3>1, <5>1, <5>2, <5>3 DEF Merges, C, R, l
      <4>. QED
        BY <3>2, <4>3, <4>5, <4>6
    <3>. QED
      BY <3>3, <3>4
  <2>19. MovedOver(S, T, G, w, l, top)
    BY <2>16, <2>17, <2>18 DEF MovedOver
  <2>. QED
    BY <2>11, <2>19 DEF RebasedTo
<1>. QED
  BY <1>13, <1>14

(* The same of an applied page, where it purges nothing of the record.     *)
LEMMA AppliedWaiting ==
  ASSUME NEW dev, DevFits(dev), IsDev(dev), NEW page, page \subseteq ServerRow, IsFiniteSet(page),
         \A x, y \in page : x.rec = y.rec /\ x.ver = y.ver => x = y,
         NEW ids,
         ids \in Bijection(MergedBy(dev, page), dev.id..(dev.id + Cardinality(MergedBy(dev, page)) - 1)),
         NEW new, new = ApplyRows(dev, page, ids), NEW pulled, pulled = PulledRows(page),
         NEW r \in Record, Puts(Of(pulled, r))
  PROVE  /\ \A q \in Pending(Of(dev.rows, r)) : \E p \in Pending(Of(new.rows, r)) : p.kind = q.kind
         /\ Puts(Of(dev.rows, r)) => RebasedTo(Of(dev.rows, r), Of(new.rows, r), Of(pulled, r))
<1> DEFINE R == { row.rec : row \in page }
           drop == DropDeletesOfPurged(dev, pulled)
           rebased == Rebased(drop, pulled, ids)
           U == Upsert(rebased.rows, pulled)
           old == { x \in Synced(BelowPurge(U)) : \E row \in page : row.rec = x.rec }
<1>1. PulledFits(pulled)
  BY PulledPage DEF PulledRows
<1>2. Keeps(dev, drop, R) /\ drop.id = dev.id /\ DevFits(drop)
  <2>1. Keeps(dev, drop, R)
    BY DropFits
  <2>2. drop.id = dev.id
    BY DEF DropDeletesOfPurged
  <2> HIDE DEF drop
  <2>. QED
    BY <2>1, <2>2 DEF Keeps
<1>3. MergedBy(dev, page) = MergedRecords(drop, pulled)
  BY DEF MergedBy, PulledRows
<1>4. Keeps(drop, rebased, R) /\ AbovePulled(rebased, pulled)
  <2> HIDE DEF drop, R
  <2>. QED
    BY <1>1, <1>2, <1>3, RebasedFits
<1>5. new.rows = U \ old
  <2>1. IsDev(rebased)
    BY <1>4 DEF Keeps
  <2>2. Written(dev, page, ids) = [rebased EXCEPT !.rows = U]
    BY DEF Written, PulledRows
  <2> HIDE DEF rebased
  <2>3. Written(dev, page, ids) = [rows |-> U, queue |-> rebased.queue, id |-> rebased.id]
    BY <2>1, <2>2, DevParts
  <2>4. Written(dev, page, ids).rows = U /\ IsDev(Written(dev, page, ids))
    BY <2>3 DEF IsDev
  <2> DEFINE w == Written(dev, page, ids)
             rest == U \ old
  <2>5. new = [w EXCEPT !.rows = rest]
    BY <2>4 DEF ApplyRows
  <2> HIDE DEF w, rest
  <2>6. [w EXCEPT !.rows = rest] = [rows |-> rest, queue |-> w.queue, id |-> w.id]
    BY <2>4, DevParts DEF w
  <2>. QED
    BY <2>5, <2>6 DEF rest
<1>6. Of(drop.rows, r) = Of(dev.rows, r)
  <2>1. /\ Synced(drop.rows) = Synced(dev.rows) /\ Pending(drop.rows) \subseteq Pending(dev.rows)
        /\ \A q \in Pending(dev.rows) : q \notin Pending(drop.rows) =>
             \E y \in pulled : y.rec = q.rec /\ y.kind = "purged"
    <3>1. PulledFits(pulled)
      BY <1>1
    <3>. QED
      BY <3>1, DroppedRows, SMTT(60)
  <2> HIDE DEF drop
  <2>2. \A q \in Pending(dev.rows) : q.rec = r => q \in Pending(drop.rows)
    BY <2>1 DEF Puts, Of
  <2>. QED
    BY <2>1, <2>2 DEF Of, Synced, Pending
<1>7. \A q \in Pending(drop.rows) : \E p \in Pending(rebased.rows) : p.rec = q.rec /\ p.kind = q.kind
  <2> HIDE DEF drop
  <2>. QED
    BY <1>1, <1>2, RebasedRows
<1> HIDE DEF rebased, drop, R
<1>8. \A y \in pulled : y.synced /\ y.ver \in Nat
  BY <1>1 DEF PulledFits, StoreRow
<1>9. \A x \in rebased.rows : x.ver \in Nat
  BY <1>4 DEF Keeps, DevFits, RowsFit, StoreRow
<1>10. U = { x \in rebased.rows : \A y \in pulled : y.rec # x.rec \/ y.ver # x.ver } \cup pulled
  BY DEF Upsert
<1>11. \A x \in old : x.synced
  BY DEF Synced
<1> HIDE DEF U, old
<1>12. Pending(new.rows) = Pending(rebased.rows)
  <2>1. \A x \in Pending(rebased.rows) : \A y \in pulled : y.rec # x.rec \/ y.ver # x.ver
    <3>1. \A x \in Pending(rebased.rows) : x.ver \in Nat
      BY <1>9 DEF Pending
    <3>. QED
      BY <1>4, <1>8, <3>1 DEF AbovePulled
  <2>. QED
    BY <1>5, <1>8, <1>10, <1>11, <2>1 DEF Pending
<1>13. Pending(Of(new.rows, r)) = Pending(Of(rebased.rows, r))
  BY <1>12 DEF Pending, Of
<1>14. \A q \in Pending(Of(dev.rows, r)) : \E p \in Pending(Of(new.rows, r)) : p.kind = q.kind
  <2>. SUFFICES ASSUME NEW q \in Pending(Of(dev.rows, r))
                PROVE  \E p \in Pending(Of(new.rows, r)) : p.kind = q.kind
    OBVIOUS
  <2>1. q \in Pending(drop.rows) /\ q.rec = r
    BY <1>6 DEF Pending, Of
  <2>2. PICK p \in Pending(rebased.rows) : p.rec = q.rec /\ p.kind = q.kind
    BY <1>7, <2>1
  <2>. QED
    BY <1>12, <2>1, <2>2 DEF Pending, Of
<1>15. ASSUME Puts(Of(dev.rows, r)) PROVE RebasedTo(Of(dev.rows, r), Of(new.rows, r), Of(pulled, r))
  BY <1>1, <1>2, <1>6, <1>13, <1>15, RebasedChain DEF rebased
<1>. QED
  BY <1>14, <1>15

LEMMA ApplyPageEdits ==
  ASSUME SyncInv, AgreeInv, EditsInv, NEW d \in Device, ApplyPage(d)
  PROVE  EditsInv'
<1> DEFINE rd == round[d]
           page == rd.page
           next == CASE rd.more -> [at |-> "ask", again |-> rd.again]
                     [] ~rd.more /\ rd.again -> [at |-> "repush"]
                     [] OTHER -> Idle
           merged == MergedBy(Device0(d), page)
           R == { row.rec : row \in page }
           pulled == PulledRows(page)
<1>1. Go(d, next) /\ UNCHANGED serverVars /\ rd.at = "page"
  BY DEF ApplyPage
<1>2. PICK ids \in Bijection(merged, nextId..(nextId + Cardinality(merged) - 1)) :
        Keep(d, ApplyRows(Device0(d), page, ids))
  BY DEF ApplyPage
<1>3. next.at # "sent"
  BY DEF Idle
<1>4. /\ page \subseteq ServerRow /\ IsFiniteSet(page)
      /\ \A x, y \in page : x.rec = y.rec /\ x.ver = y.ver => x = y
  BY <1>1 DEF SyncInv, RoundFits, PageFits
<1>5. /\ DevFits(Device0(d)) /\ IsDev(Device0(d)) /\ Device0(d).id = nextId
      /\ Device0(d).rows = store[d] /\ Device0(d).queue = outbox[d] /\ nextId \in Nat
  BY DeviceFacts
<1> DEFINE new == ApplyRows(Device0(d), page, ids)
<1> HIDE DEF next, rd
<1>6. Keeps(Device0(d), new, R)
  BY <1>2, <1>4, <1>5, ApplyFits
<1>7. Applied(store[d], new.rows, pulled)
  <2>1. Applied(Device0(d).rows, new.rows, pulled)
    BY <1>2, <1>4, <1>5, AppliedRows
  <2> HIDE DEF new, pulled
  <2>. QED
    BY <1>5, <2>1
<1>8. ASSUME NEW r \in Record, Puts(Of(pulled, r))
      PROVE  /\ \A q \in Pending(Of(store[d], r)) : \E p \in Pending(Of(new.rows, r)) : p.kind = q.kind
             /\ Puts(Of(store[d], r)) => RebasedTo(Of(store[d], r), Of(new.rows, r), Of(pulled, r))
  <2> DEFINE dev == Device0(d)
  <2>1. DevFits(dev) /\ IsDev(dev) /\ dev.rows = store[d]
    BY <1>5
  <2>2. ids \in Bijection(MergedBy(dev, page), dev.id..(dev.id + Cardinality(MergedBy(dev, page)) - 1))
    BY <1>2, <1>5
  <2>3. new = ApplyRows(dev, page, ids)
    OBVIOUS
  <2> HIDE DEF new, dev, page
  <2>4. pulled = PulledRows(page)
    OBVIOUS
  <2> HIDE DEF pulled
  <2>5. /\ \A q \in Pending(Of(dev.rows, r)) : \E p \in Pending(Of(new.rows, r)) : p.kind = q.kind
        /\ Puts(Of(dev.rows, r)) => RebasedTo(Of(dev.rows, r), Of(new.rows, r), Of(pulled, r))
    BY <1>4, <1>8, <2>1, <2>2, <2>3, <2>4, AppliedWaiting
  <2>. QED
    BY <2>1, <2>5
<1>9. Keep(d, new)
  BY <1>2
<1>10. \A r : \A g \in Of(pulled, r) : g.synced /\ \E x \in Of(page, r) : g = AsSynced(x)
  BY DEF Of, PulledRows, AsSynced, LocalRow
<1>11. \A f \in new.queue : nextId <= f.id \/ \E e \in outbox[d] : e.id = f.id /\ e.rec = f.rec
  <2>1. \A f \in new.queue : f.id \in Nat
    BY <1>6 DEF Keeps, DevFits, QueueFits, Entry
  <2>2. \A f \in new.queue : f.id < nextId => \E e \in outbox[d] : e.id = f.id /\ e.rec = f.rec
    BY <1>5, <1>6 DEF Keeps, Follows
  <2>. QED
    BY <1>5, <2>1, <2>2
<1>12. DevFits(new)
  BY <1>6 DEF Keeps
<1> HIDE DEF new, pulled, page
<1>13. ASSUME NEW r \in Record \ belated
       PROVE  EditsStandOf(Of(log, r), Of(new.rows, r), Of(new.queue, r), next, r)
  <2> DEFINE L == Of(log, r)
             S == Of(store[d], r)
             Q == Of(outbox[d], r)
             T == Of(new.rows, r)
             P == Of(new.queue, r)
             G == Of(pulled, r)
             n == cursor[d]
  <2>1. AgreesOf(L, S, Q, n, rd, r) /\ EditsStandOf(L, S, Q, rd, r)
    BY DEF AgreeInv, Agrees, EditsInv, EditsStand, rd
  <2>2. /\ \A x \in L : x.ver \in Nat /\ x.id \in Nat /\ x.id < nextId
        /\ \A x, y \in L : x.ver = y.ver => x = y
    BY RecordFacts
  <2>3. OrderedOf(S, Q, r)
    BY DeviceFacts, DevOrdered
  <2>4. OrderedOf(T, P, r)
    BY <1>12, DevOrdered DEF DevFits
  <2>5. IsFiniteSet(S)
    BY DeviceFacts, FS_Subset DEF RowsFit, Of
  <2>6. AppliedTo(S, T, G)
    BY <1>7, AppliedOfRecord
  <2>7. Stored(L, Q) = {}
    BY <1>1, <2>1 DEF AgreesOf, Unanswered, Stored
  <2>8. Stored(L, P) = {}
    <3>1. \A f \in P : nextId <= f.id \/ \E e \in Q : e.id = f.id
      BY <1>11 DEF Of
    <3>2. \A f \in P : f.id \in Nat
      BY <2>4 DEF OrderedOf
    <3> HIDE DEF L, P, Q
    <3>3. \A f \in P, x \in L : nextId <= f.id => x.id # f.id
      BY <1>5, <2>2, <3>2
    <3>. QED
      BY <2>7, <3>1, <3>3 DEF Stored
  <2>9. Puts(L) => Copied(L, G)
    <3>. SUFFICES ASSUME Puts(L), NEW g \in G PROVE \E y \in L : g = AsSynced(y)
      BY DEF Copied
    <3>1. PICK x \in Of(page, r) : g = AsSynced(x)
      BY <1>10
    <3>2. x \in L
      BY <1>1, <2>1 DEF AgreesOf, PageAgrees, Puts, page
    <3>. QED
      BY <3>1, <3>2
  <2>10. \A g \in G : g.synced
    BY <1>10
  <2>11. HasOnly(L, S, n)
    BY <2>1 DEF AgreesOf
  <2>12. /\ Puts(G) => \A q \in Pending(S) : \E p \in Pending(T) : p.kind = q.kind
         /\ Puts(S) /\ Puts(G) => RebasedTo(S, T, G)
    BY <1>8
  <2> HIDE DEF L, S, Q, T, P, G, n
  <2>13. EditsStandOf(L, T, P, next, r)
    BY <1>3, <2>1, <2>2, <2>3, <2>4, <2>5, <2>6, <2>7, <2>8, <2>9, <2>10, <2>11, <2>12, AppliedEdits
  <2>. QED
    BY <2>13 DEF L, T, P
<1>14. /\ store'[d] = new.rows /\ outbox'[d] = new.queue
       /\ \A g \in Device \ {d} : store'[g] = store[g] /\ outbox'[g] = outbox[g]
  <2>1. store = [g \in Device |-> store[g]] /\ outbox = [g \in Device |-> outbox[g]]
    BY DEF SyncInv, Shapes
  <2>2. store' = [store EXCEPT ![d] = new.rows] /\ outbox' = [outbox EXCEPT ![d] = new.queue]
    BY <1>9 DEF Keep
  <2>. QED
    BY <2>1, <2>2, Zenon
<1>15. round'[d] = next /\ \A g \in Device \ {d} : round'[g] = round[g]
  BY <1>1, GoFacts
<1>16. log' = log /\ belated' = belated
  BY <1>1 DEF serverVars
<1>17. \A r \in Record \ belated : EditsStand(d, r)'
  BY <1>13, <1>14, <1>15, <1>16 DEF EditsStand
<1>. QED
  BY <1>3, <1>14, <1>15, <1>16, <1>17, StepEdits
-------------------------------------------------------------------------------
(***************************************************************************)
(* The theorem on edits.                                                   *)
(***************************************************************************)
LEMMA InitEdits == Init => EditsInv
<1>. SUFFICES ASSUME Init PROVE EditsInv
  OBVIOUS
<1>1. /\ log = {}
      /\ \A d \in Device : store[d] = {} /\ outbox[d] = {} /\ round[d] = Idle
  BY DEF Init
<1>2. \A r : Of(log, r) = {} /\ \A d \in Device : Of(store[d], r) = {} /\ Of(outbox[d], r) = {}
  BY <1>1 DEF Of
<1>3. Idle.at = "idle"
  BY DEF Idle
<1>4. OwnSent
  BY <1>1, <1>3 DEF OwnSent
<1>5. ASSUME NEW r PROVE EditsStandOf({}, {}, {}, Idle, r)
  <2>1. Synced({}) = {} /\ Pending({}) = {} /\ Stored({}, {}) = {}
    BY DEF Synced, Pending, Stored
  <2>2. StoreHasEdits({}, {}, {})
    BY <2>1 DEF StoreHasEdits, Builds, HeadHasWaiting, HeadHasStored, HeadHasSynced, StoredAsWaiting,
                FirstIsOwn
  <2>. QED
    BY <1>3, <2>1, <2>2 DEF EditsStandOf, WaitingKinds
<1>6. HeadHasAll({})
  BY DEF HeadHasAll
<1>7. \A r \in Record : HeadHasAll(Of(log, r)) /\ \A d \in Device : EditsStand(d, r)
  BY <1>1, <1>2, <1>5, <1>6 DEF EditsStand
<1>. QED
  BY <1>4, <1>7 DEF EditsInv

LEMMA NextEdits ==
  ASSUME SyncInv, AgreeInv, EditsInv, [Next]_vars
  PROVE  EditsInv'
<1>1. ASSUME NEW d \in Device, NEW r \in Record,
             Create(d, r) \/ Update(d, r) \/ Delete(d, r) \/ Purge(d, r)
      PROVE  EditsInv'
  BY <1>1, CreateEdits, UpdateEdits, PurgeStepEdits
<1>2. ASSUME NEW d \in Device, RetryParked(d) PROVE EditsInv'
  BY <1>2, RetryEdits
<1>3. ASSUME NEW d \in Device, RoundNext(d) PROVE EditsInv'
  BY <1>3, SendEdits, HandlePushEdits, TakeResultEdits, QuietStepEdits, ApplyPageEdits DEF RoundNext
<1>4. ASSUME NEW d \in Device, Break(d) \/ GiveUp(d) PROVE EditsInv'
  BY <1>4, QuietStepEdits
<1>5. ASSUME NEW b \in late, ArriveLate(b) PROVE EditsInv'
  BY <1>5, ArriveLateEdits
<1>6. ASSUME UNCHANGED vars PROVE EditsInv'
  <2>1. log' = log /\ store' = store /\ outbox' = outbox /\ round' = round /\ belated' = belated
    BY <1>6 DEF vars, serverVars, deviceVars
  <2>. QED
    BY <2>1 DEF EditsInv, OwnSent, EditsStand
<1>. QED
  BY <1>1, <1>2, <1>3, <1>4, <1>5, <1>6 DEF Next, UserNext

(* While nobody deletes or purges a record, the server's head has every    *)
(* edit that any version of it has: two devices that write at the same     *)
(* time both keep what they wrote, because the second push is refused as   *)
(* stale (push.ts) and the pull merges what waits with what it brings on   *)
(* the version both build on (rebasePendingVersions, outbox-schema.ts),    *)
(* however rounds break off, answers get lost or users write in between.   *)
(* Set apart: records a push given up on was appended to after all.        *)
THEOREM EditsKept == Spec => []NoEditLost
<1>1. Init => SyncInv /\ AgreeInv /\ EditsInv
  BY InitInv, InitAgrees, InitEdits
<1>2. SyncInv /\ AgreeInv /\ EditsInv /\ [Next]_vars => SyncInv' /\ AgreeInv' /\ EditsInv'
  BY NextKeepsInv, NextAgrees, NextEdits
<1>3. SyncInv /\ AgreeInv /\ EditsInv => NoEditLost
  BY EditsStandIsEnough DEF SyncInv
<1>. QED
  BY <1>1, <1>2, <1>3, PTL DEF Spec
===============================================================================
