--------------------------- MODULE RecordSync_proofs ---------------------------
(***************************************************************************)
(* The versions of RecordSync stay in order on every device and on the     *)
(* server, no change is appended twice, and when nothing waits devices and *)
(* server agree, for every set of records and devices, every page limit    *)
(* and every bound on what users write and on what goes wrong.             *)
(***************************************************************************)
EXTENDS RecordSync, FiniteSetTheorems, TLAPS

(***************************************************************************)
(* Sets of numbers, and the ends of a set of rows or of changes.           *)
(***************************************************************************)
(* A finite set of natural numbers but the empty one has a greatest        *)
(* element: a smallest set without one would have one element less.        *)
LEMMA GreatestNumber ==
  ASSUME NEW T \in SUBSET Nat, T # {}, IsFiniteSet(T)
  PROVE  \E n \in T : \A m \in T : m <= n
<1> DEFINE Bad == { S \in SUBSET T : S # {} /\ \A n \in S : \E m \in S : ~(m <= n) }
           Sizes == { Cardinality(S) : S \in Bad }
           R == OpToRel(<, Nat)
<1>1. \A S \in Bad : IsFiniteSet(S) /\ Cardinality(S) \in Nat
  BY FS_Subset, FS_CardinalityType
<1>2. SUFFICES ASSUME T \in Bad PROVE FALSE
  OBVIOUS
<1>3. Sizes \in SUBSET Nat /\ Sizes # {}
  BY <1>1, <1>2
<1>4. IsWellFoundedOn(R, Nat)
  BY NatLessThanWellFounded
<1>5. \A m, n \in Nat : m < n => <<m, n>> \in R
  BY DEF OpToRel
<1>6. PICK k \in Sizes : \A m \in Sizes : <<m, k>> \notin R
  <2> HIDE DEF R, Sizes
  <2>. QED
    BY <1>3, <1>4, WFMin
<1>7. PICK S \in Bad : Cardinality(S) = k
  BY <1>6
<1>8. PICK x \in S : x \in Nat
  OBVIOUS
<1> DEFINE U == S \ {x}
<1>9. IsFiniteSet(U) /\ Cardinality(U) = Cardinality(S) - 1 /\ Cardinality(U) \in Nat
  BY <1>1, <1>8, FS_RemoveElement, FS_CardinalityType
<1>10. U \notin Bad
  <2>1. SUFFICES ASSUME U \in Bad PROVE FALSE
    OBVIOUS
  <2>2. Cardinality(U) \in Sizes
    BY <2>1
  <2>3. <<Cardinality(U), k>> \notin R
    BY <1>6, <2>2
  <2>4. Cardinality(U) < k
    <3> HIDE DEF R
    <3>. QED
      BY <1>1, <1>7, <1>9
  <2>5. k \in Nat
    BY <1>3
  <2> HIDE DEF R, U
  <2>. QED
    BY <1>5, <1>9, <2>3, <2>4, <2>5, Zenon
<1>11. CASE U = {}
  <2>1. S = {x}
    BY <1>8, <1>11
  <2>. QED
    BY <1>7, <1>8, <2>1
<1>12. CASE U # {}
  <2>1. PICK n \in U : \A m \in U : m <= n
    BY <1>10, <1>12
  <2>2. n \in Nat /\ n \in S
    BY <2>1
  <2>3. CASE x <= n
    BY <2>1, <2>2, <2>3
  <2>4. CASE ~(x <= n)
    <3>1. \A m \in S : m <= x
      BY <1>8, <2>1, <2>2, <2>4
    <3>. QED
      BY <1>8, <3>1
  <2>. QED
    BY <2>3, <2>4
<1>. QED
  BY <1>11, <1>12

LEMMA LeastOfNumbers ==
  ASSUME NEW T \in SUBSET Nat, T # {}
  PROVE  \E n \in T : \A m \in T : n <= m
<1> DEFINE R == OpToRel(<, Nat)
<1>1. IsWellFoundedOn(R, Nat)
  BY NatLessThanWellFounded
<1>2. \A m, n \in Nat : m < n => <<m, n>> \in R
  BY DEF OpToRel
<1>3. PICK n \in T : \A m \in T : <<m, n>> \notin R
  <2> HIDE DEF R
  <2>. QED
    BY <1>1, WFMin
<1>4. \A m \in T : ~(m < n)
  <2>. TAKE m \in T
  <2>1. m \in Nat /\ n \in Nat
    OBVIOUS
  <2>. QED
    BY <1>2, <1>3, <2>1, Zenon
<1>. QED
  BY <1>4

LEMMA WiderRange ==
  ASSUME NEW m \in Nat, NEW n \in Nat, m <= n
  PROVE  1..(m - 1) \subseteq 1..(n - 1)
<1>. SUFFICES ASSUME NEW i \in 1..(m - 1) PROVE i \in 1..(n - 1)
  OBVIOUS
<1>. QED
  OBVIOUS

(* What a function makes of a finite set is finite.                        *)
LEMMA FiniteImage ==
  ASSUME NEW S, IsFiniteSet(S), NEW f, f = [x \in S |-> f[x]]
  PROVE  IsFiniteSet({ f[x] : x \in S })
<1> DEFINE T == { f[x] : x \in S }
<1>1. f \in Surjection(S, T)
  BY DEF Surjection
<1>. QED
  BY <1>1, FS_Surjection

LEMMA FiniteUnion ==
  ASSUME NEW S, IsFiniteSet(S), NEW T, IsFiniteSet(T), NEW U, U = S \cup T
  PROVE  IsFiniteSet(U)
BY FS_Union

(* The highest row of a finite set of rows.                                *)
LEMMA HighestRow ==
  ASSUME NEW rows, rows # {}, IsFiniteSet(rows), \A x \in rows : x.ver \in Nat
  PROVE  Highest(rows) \in rows /\ \A y \in rows : y.ver <= Highest(rows).ver
<1> DEFINE f == [x \in rows |-> x.ver]
           T == { f[x] : x \in rows }
<1>1. IsFiniteSet(T)
  <2>1. f = [x \in rows |-> f[x]]
    OBVIOUS
  <2> HIDE DEF f
  <2>. QED
    BY <2>1, FiniteImage
<1>2. T \in SUBSET Nat /\ T # {}
  OBVIOUS
<1>3. PICK n \in T : \A m \in T : m <= n
  BY <1>1, <1>2, GreatestNumber
<1>4. PICK x \in rows : n = f[x]
  BY <1>3
<1>5. \A y \in rows : y.ver <= x.ver
  <2>. TAKE y \in rows
  <2>1. f[y] \in T
    OBVIOUS
  <2>. QED
    BY <1>3, <1>4, <2>1
<1>. QED
  BY <1>5, Zenon DEF Highest

LEMMA LastChange ==
  ASSUME NEW S, S # {}, IsFiniteSet(S), \A c \in S : c.id \in Nat
  PROVE  Last(S) \in S /\ \A e \in S : e.id <= Last(S).id
<1> DEFINE f == [c \in S |-> c.id]
           T == { f[c] : c \in S }
<1>1. IsFiniteSet(T)
  <2>1. f = [c \in S |-> f[c]]
    OBVIOUS
  <2> HIDE DEF f
  <2>. QED
    BY <2>1, FiniteImage
<1>2. T \in SUBSET Nat /\ T # {}
  OBVIOUS
<1>3. PICK n \in T : \A m \in T : m <= n
  BY <1>1, <1>2, GreatestNumber
<1>4. PICK c \in S : n = f[c]
  BY <1>3
<1>5. \A e \in S : e.id <= c.id
  <2>. TAKE e \in S
  <2>1. f[e] \in T
    OBVIOUS
  <2>. QED
    BY <1>3, <1>4, <2>1
<1>. QED
  BY <1>5, Zenon DEF Last

LEMMA FirstChange ==
  ASSUME NEW S, S # {}, \A c \in S : c.id \in Nat
  PROVE  First(S) \in S /\ \A e \in S : First(S).id <= e.id
<1> DEFINE T == { c.id : c \in S }
<1>1. T \in SUBSET Nat /\ T # {}
  OBVIOUS
<1>2. PICK n \in T : \A m \in T : n <= m
  BY <1>1, LeastOfNumbers
<1>3. PICK c \in S : n = c.id
  BY <1>2
<1>4. c \in S /\ \A e \in S : c.id <= e.id
  BY <1>2, <1>3
<1>. QED
  BY <1>4, Zenon DEF First
-------------------------------------------------------------------------------
(***************************************************************************)
(* The inductive invariant: a device's own data.                           *)
(***************************************************************************)
(* A device's rows are numbered by record, what waits above what is        *)
(* synced; the outbox names what waits, in write order.                    *)
RowsFit(rows) ==
  /\ rows \subseteq StoreRow /\ IsFiniteSet(rows)
  /\ \A x, y \in rows : x.rec = y.rec /\ x.ver = y.ver => x = y
  /\ \A x, y \in rows : x.rec = y.rec /\ ~x.synced /\ y.synced => y.ver < x.ver

(* A purge is the first of what waits, and a delete comes on top of a put. *)
KindsFit(waiting) ==
  \A x, y \in waiting : x.rec = y.rec /\ x.ver < y.ver =>
    /\ y.kind # "purged"
    /\ y.kind = "deleted" => \E p \in waiting :
         p.rec = y.rec /\ x.ver <= p.ver /\ p.ver < y.ver /\ p.kind = "put"

(* The row an entry stands for.                                            *)
IsRowOf(x, e) == x.rec = e.rec /\ x.ver = e.ver

QueueFits(waiting, queue) ==
  /\ queue \subseteq Entry /\ IsFiniteSet(queue)
  /\ \A e, f \in queue :
       /\ e.id = f.id => e = f
       /\ e.rec = f.rec /\ e.id < f.id => e.ver < f.ver
  /\ \A e \in queue : \E x \in waiting : IsRowOf(x, e)
  /\ \A x \in waiting : \E e \in queue : IsRowOf(x, e)

DevFits(dev) ==
  /\ RowsFit(dev.rows) /\ KindsFit(Pending(dev.rows)) /\ QueueFits(Pending(dev.rows), dev.queue)
  /\ dev.id \in Nat \ {0} /\ \A e \in dev.queue : e.id < dev.id

(* What waits after a transaction is new, or waited before and moved up    *)
(* at most.                                                                *)
Follows(dev, new) ==
  /\ dev.id <= new.id
  /\ \A e \in new.queue : e.id < dev.id =>
       \E f \in dev.queue :
         /\ f.id = e.id /\ f.rec = e.rec /\ f.ver <= e.ver
         /\ \A x \in Pending(new.rows) : IsRowOf(x, e) =>
              \E y \in Pending(dev.rows) : IsRowOf(y, f) /\ y.kind = x.kind

Known(d) == \A x \in store[d] : x.rec \in created

DeviceInv ==
  /\ \A d \in Device : DevFits(Device0(d)) /\ Known(d)
  /\ \A d, g \in Device : \A e \in outbox[d], f \in outbox[g] : e.id = f.id => d = g

(***************************************************************************)
(* The server's rows.                                                      *)
(***************************************************************************)
LogInv ==
  /\ log \subseteq ServerRow /\ IsFiniteSet(log) /\ lastSeq \in Nat
  /\ \A x, y \in log :
       /\ x.seq = y.seq => x = y
       /\ x.rec = y.rec /\ x.ver = y.ver => x = y
       /\ x.rec = y.rec /\ x.id = y.id => x = y
       /\ x.rec = y.rec /\ x.ver < y.ver => x.seq < y.seq
  /\ \A x \in log :
       /\ x.seq <= lastSeq /\ x.id < nextId /\ x.rec \in created
       /\ x.ver = 1 \/ x.kind = "purged" \/ \E y \in log : y.rec = x.rec /\ y.ver = x.ver - 1
  /\ BelowPurge(log) = {}

(***************************************************************************)
(* What was sent, by whomever: a batch as it left a device.                *)
(***************************************************************************)
Batches == late \cup { round[d].batch : d \in { g \in Device : round[g].at = "sent" } }

BatchFits(b) ==
  /\ b \subseteq PushChange /\ IsFiniteSet(b)
  /\ \A c \in b : c.id < nextId /\ c.rec \in created
  /\ \A c, e \in b :
       /\ c.id = e.id => c = e
       /\ c.rec = e.rec /\ c.id < e.id =>
            /\ c.base < e.base /\ e.kind # "purged"
            /\ e.kind = "deleted" => \E p \in b :
                 p.rec = e.rec /\ c.id <= p.id /\ p.id < e.id /\ p.kind = "put"

(* A change that still waits: its version may have moved up since, and     *)
(* what waits before it was sent with it.                                  *)
StillWaits(b, d) ==
  \A c \in b : \A e \in outbox[d] : c.id = e.id =>
    /\ c.rec = e.rec /\ c.base < e.ver
    /\ \A x \in Pending(store[d]) : IsRowOf(x, e) => x.kind = c.kind
    /\ \A f \in outbox[d] : f.rec = e.rec /\ f.id < e.id => \E g \in b : g.id = f.id

BatchesInv ==
  /\ \A b \in Batches : BatchFits(b) /\ \A d \in Device : StillWaits(b, d)
  /\ \A b, h \in Batches : \A c \in b, e \in h : c.id = e.id => c.rec = e.rec

(* What the server has of what waits: not above it, and all that waits     *)
(* before it.                                                              *)
StoredOf(d) ==
  \A x \in log : \A e \in outbox[d] : x.id = e.id =>
    /\ x.rec = e.rec /\ x.ver <= e.ver
    /\ \A y \in Pending(store[d]) : IsRowOf(y, e) /\ y.kind = "put" => x.kind = "put"
    /\ \A f \in outbox[d] : f.rec = e.rec /\ f.id < e.id => \E y \in log : y.rec = f.rec /\ y.id = f.id

(***************************************************************************)
(* The steps of a round.                                                   *)
(***************************************************************************)
(* The answers that end a change's wait.                                   *)
Done(c, result) == result.status = "applied" \/ (result.status = "not_found" /\ c.kind = "purged")

(* Answers are taken in order; one that ends a change's wait comes after   *)
(* those of what waits before it.                                          *)
AnswersFit(d) ==
  LET b == round[d].batch
      result == round[d].results
  IN  /\ b \subseteq PushChange /\ IsFiniteSet(b) /\ b # {}
      /\ \A c, e \in b : c.id = e.id => c = e
      /\ \A c \in b : c.id < nextId
      /\ \A c \in b : \A e \in outbox[d] : c.id = e.id =>
           /\ result[c.id].status = "applied" =>
                /\ result[c.id].row \in ServerRow /\ result[c.id].row.rec = e.rec
                /\ result[c.id].row.ver <= e.ver
           /\ Done(c, result[c.id]) =>
                \A f \in outbox[d] : f.rec = e.rec /\ f.id < e.id =>
                  \E g \in b : g.id = f.id /\ Done(g, result[g.id])

PageFits(d) ==
  LET page == round[d].page
  IN  /\ page \subseteq ServerRow /\ IsFiniteSet(page)
      /\ \A x, y \in page : x.rec = y.rec /\ x.ver = y.ver => x = y
      /\ \A x \in page : x.seq <= lastSeq /\ x.rec \in created

RoundFits(d) ==
  /\ round[d].at \in {"idle", "sent", "answered", "ask", "page", "repush"}
  /\ round[d].at = "sent" => round[d].batch # {}
  /\ round[d].at = "answered" => AnswersFit(d)
  /\ round[d].at = "page" => PageFits(d)

Shapes ==
  /\ store = [d \in Device |-> store[d]] /\ outbox = [d \in Device |-> outbox[d]]
  /\ round = [d \in Device |-> round[d]]
  /\ cursor \in [Device -> 0..lastSeq] /\ nextId \in Nat \ {0}
  /\ spent \in [refused : 0..MaxRefusals, broken : 0..MaxBreaks, late : 0..MaxLate]
  /\ created \subseteq Record /\ accepted \subseteq 1..(nextId - 1) /\ belated \subseteq Record

(* What was accepted is there, or a purge has come on top of it.           *)
ThereOrPurged(c) == IsStored(log, c) \/ \E p \in log : p.rec = c.rec /\ p.kind = "purged"

AcceptedInv ==
  /\ \A b \in Batches : \A c \in b : c.id \in accepted => ThereOrPurged(c)
  /\ \A d \in Device : \A e \in outbox[d] : e.id \in accepted => ThereOrPurged(e)

SyncInv ==
  /\ Shapes /\ DeviceInv /\ LogInv /\ BatchesInv /\ AcceptedInv
  /\ \A d \in Device : StoredOf(d) /\ RoundFits(d)
-------------------------------------------------------------------------------
(***************************************************************************)
(* What the store's transactions keep in order.                            *)
(***************************************************************************)
LEMMA PendingRows ==
  ASSUME NEW rows, RowsFit(rows)
  PROVE  /\ \A x \in Pending(rows) : x \in rows /\ x \in StoreRow /\ x.ver \in Nat /\ ~x.synced
         /\ IsFiniteSet(Pending(rows))
<1>1. Pending(rows) \in SUBSET rows
  BY DEF Pending
<1>2. IsFiniteSet(Pending(rows))
  BY <1>1, FS_Subset DEF RowsFit
<1>. QED
  BY <1>2 DEF Pending, RowsFit, StoreRow

(* Versions written on top of the records `M`: one each, under new change  *)
(* ids, above every version its record has.                                *)
Tops(dev, r, row) ==
  /\ row \in StoreRow /\ row.rec = r /\ row.synced = FALSE
  /\ \A x \in Of(dev.rows, r) : x.ver < row.ver
  /\ \A x \in Pending(dev.rows) : x.rec = r =>
       /\ row.kind # "purged"
       /\ row.kind = "deleted" => \E p \in Pending(dev.rows) :
            p.rec = r /\ x.ver <= p.ver /\ p.kind = "put"

Names(dev, new, row, entry) ==
  /\ entry \in Entry /\ entry.rec = row.rec /\ entry.ver = row.ver
  /\ dev.id <= entry.id /\ entry.id < new.id

LEMMA AppendFits ==
  ASSUME NEW dev, NEW new, DevFits(dev), NEW M \in SUBSET Record, IsFiniteSet(M),
         NEW row, NEW entry, row = [r \in M |-> row[r]], entry = [r \in M |-> entry[r]],
         \A r \in M : Tops(dev, r, row[r]) /\ Names(dev, new, row[r], entry[r]),
         \A r, q \in M : entry[r].id = entry[q].id => r = q,
         new.id \in Nat, dev.id <= new.id,
         new.rows = dev.rows \cup { row[r] : r \in M },
         new.queue = dev.queue \cup { entry[r] : r \in M }
  PROVE  DevFits(new) /\ Follows(dev, new)
<1> DEFINE W == Pending(dev.rows)
<1>0. \A r \in M :
        /\ row[r] \in StoreRow /\ row[r].rec = r /\ row[r].synced = FALSE
        /\ entry[r] \in Entry /\ entry[r].rec = r /\ entry[r].ver = row[r].ver
        /\ dev.id <= entry[r].id /\ entry[r].id < new.id
  BY DEF Tops, Names
<1>1. Pending(new.rows) = W \cup { row[r] : r \in M }
  BY <1>0 DEF Pending
<1>2. \A x \in dev.rows : x \in StoreRow /\ x.ver \in Nat \ {0}
  BY DEF DevFits, RowsFit, StoreRow
<1>3. \A e \in dev.queue : e \in Entry /\ e.id \in Nat /\ e.id < dev.id /\ e.ver \in Nat
  BY DEF DevFits, QueueFits, Entry
<1>4. \A r \in M : row[r].ver \in Nat \ {0} /\ entry[r].id \in Nat
  BY <1>0 DEF StoreRow, Entry
<1>5. dev.id \in Nat
  BY DEF DevFits
<1>6. \A x \in dev.rows, r \in M : x.rec = r => x.ver < row[r].ver
  BY DEF Of, Tops
<1>7. \A x \in W : x \in dev.rows /\ x.synced = FALSE
  BY <1>2 DEF Pending, StoreRow
<1>8. RowsFit(new.rows)
  <2>1. new.rows \subseteq StoreRow
    BY <1>0, <1>2
  <2>2. IsFiniteSet(new.rows)
    <3>1. IsFiniteSet({ row[r] : r \in M })
      BY FiniteImage
    <3>2. IsFiniteSet(dev.rows)
      BY DEF DevFits, RowsFit
    <3>. QED
      BY <3>1, <3>2, FiniteUnion
  <2>3. \A x, y \in new.rows : x.rec = y.rec /\ x.ver = y.ver => x = y
    <3>1. \A x, y \in dev.rows : x.rec = y.rec /\ x.ver = y.ver => x = y
      BY DEF DevFits, RowsFit
    <3>. QED
      BY <1>0, <1>2, <1>4, <1>6, <3>1
  <2>4. \A x, y \in new.rows : x.rec = y.rec /\ ~x.synced /\ y.synced => y.ver < x.ver
    <3>1. \A x, y \in dev.rows : x.rec = y.rec /\ ~x.synced /\ y.synced => y.ver < x.ver
      BY DEF DevFits, RowsFit
    <3>. QED
      BY <1>0, <1>6, <3>1
  <2>. QED
    BY <2>1, <2>2, <2>3, <2>4 DEF RowsFit
<1>9. KindsFit(Pending(new.rows))
  <2>1. SUFFICES ASSUME NEW x \in Pending(new.rows), NEW y \in Pending(new.rows),
                        x.rec = y.rec, x.ver < y.ver
                 PROVE  /\ y.kind # "purged"
                        /\ y.kind = "deleted" => \E p \in Pending(new.rows) :
                             p.rec = y.rec /\ x.ver <= p.ver /\ p.ver < y.ver /\ p.kind = "put"
    BY DEF KindsFit
  <2>2. CASE x \in W /\ y \in W
    <3>1. KindsFit(W)
      BY DEF DevFits
    <3> HIDE DEF W
    <3>. QED
      BY <1>1, <2>1, <2>2, <3>1 DEF KindsFit
  <2>3. CASE x \in { row[r] : r \in M }
    <3>1. PICK r \in M : x = row[r]
      BY <2>3
    <3>2. y \notin W
      BY <1>0, <1>2, <1>4, <1>6, <1>7, <2>1, <3>1
    <3>3. y = row[r]
      BY <1>0, <1>1, <2>1, <3>1, <3>2
    <3>. QED
      BY <1>4, <2>1, <3>1, <3>3
  <2>4. CASE x \in W /\ y \in { row[r] : r \in M }
    <3>1. PICK r \in M : y = row[r]
      BY <2>4
    <3>2. x.rec = r
      BY <1>0, <2>1, <3>1
    <3>3. y.kind # "purged"
      BY <2>4, <3>1, <3>2 DEF Tops
    <3>4. ASSUME y.kind = "deleted"
          PROVE  \E p \in Pending(new.rows) :
                   p.rec = y.rec /\ x.ver <= p.ver /\ p.ver < y.ver /\ p.kind = "put"
      <4>1. PICK p \in W : p.rec = r /\ x.ver <= p.ver /\ p.kind = "put"
        BY <2>4, <3>1, <3>2, <3>4 DEF Tops
      <4>. QED
        BY <1>0, <1>1, <1>6, <1>7, <3>1, <4>1
    <3>. QED
      BY <3>3, <3>4
  <2>. QED
    BY <1>1, <2>2, <2>3, <2>4
<1>10. QueueFits(Pending(new.rows), new.queue)
  <2>1. new.queue \subseteq Entry
    BY <1>0, <1>3
  <2>2. IsFiniteSet(new.queue)
    <3>1. IsFiniteSet({ entry[r] : r \in M })
      BY FiniteImage
    <3>2. IsFiniteSet(dev.queue)
      BY DEF DevFits, QueueFits
    <3>. QED
      BY <3>1, <3>2, FiniteUnion
  <2>3. ASSUME NEW e \in new.queue, NEW f \in new.queue
        PROVE  (e.id = f.id => e = f) /\ (e.rec = f.rec /\ e.id < f.id => e.ver < f.ver)
    <3>1. CASE e \in dev.queue /\ f \in dev.queue
      BY <3>1 DEF DevFits, QueueFits
    <3>2. CASE e \in dev.queue /\ f \in { entry[r] : r \in M }
      <4>1. PICK r \in M : f = entry[r]
        BY <3>2
      <4>2. e.id < f.id
        BY <1>0, <1>3, <1>4, <1>5, <3>2, <4>1
      <4>3. PICK x \in W : IsRowOf(x, e)
        BY <3>2 DEF DevFits, QueueFits
      <4>4. ASSUME e.rec = f.rec PROVE e.ver < f.ver
        BY <1>0, <1>6, <1>7, <4>1, <4>3, <4>4 DEF IsRowOf
      <4>. QED
        BY <1>3, <1>4, <3>2, <4>1, <4>2, <4>4
    <3>3. CASE e \in { entry[r] : r \in M } /\ f \in dev.queue
      <4>1. f.id < e.id
        BY <1>0, <1>3, <1>4, <1>5, <3>3
      <4>. QED
        BY <1>3, <1>4, <3>3, <4>1
    <3>4. CASE e \in { entry[r] : r \in M } /\ f \in { entry[r] : r \in M }
      <4>1. PICK r \in M, q \in M : e = entry[r] /\ f = entry[q]
        BY <3>4
      <4>2. e.id = f.id => e = f
        BY <4>1
      <4>3. e.rec = f.rec => r = q
        BY <1>0, <4>1
      <4>. QED
        BY <1>4, <4>1, <4>2, <4>3
    <3>. QED
      BY <3>1, <3>2, <3>3, <3>4
  <2>4. \A e \in new.queue : \E x \in Pending(new.rows) : IsRowOf(x, e)
    <3>1. \A e \in dev.queue : \E x \in W : IsRowOf(x, e)
      BY DEF DevFits, QueueFits
    <3>2. \A r \in M : IsRowOf(row[r], entry[r])
      BY <1>0 DEF IsRowOf
    <3>3. \A e \in new.queue : e \in dev.queue \/ \E r \in M : e = entry[r]
      OBVIOUS
    <3>4. W \subseteq Pending(new.rows) /\ \A r \in M : row[r] \in Pending(new.rows)
      BY <1>1
    <3> TAKE e \in new.queue
    <3>5. CASE e \in dev.queue
      BY <3>1, <3>4, <3>5
    <3>6. ASSUME NEW r \in M, e = entry[r] PROVE \E x \in Pending(new.rows) : IsRowOf(x, e)
      BY <3>2, <3>4, <3>6
    <3>. QED
      BY <3>3, <3>5, <3>6
  <2>5. \A x \in Pending(new.rows) : \E e \in new.queue : IsRowOf(x, e)
    <3>1. \A x \in W : \E e \in dev.queue : IsRowOf(x, e)
      BY DEF DevFits, QueueFits
    <3>2. \A r \in M : IsRowOf(row[r], entry[r])
      BY <1>0 DEF IsRowOf
    <3>3. \A x \in Pending(new.rows) : x \in W \/ \E r \in M : x = row[r]
      BY <1>1
    <3>4. dev.queue \subseteq new.queue /\ \A r \in M : entry[r] \in new.queue
      OBVIOUS
    <3> HIDE DEF W
    <3>. QED
      BY <3>1, <3>2, <3>3, <3>4
  <2>. QED
    BY <2>1, <2>2, <2>3, <2>4, <2>5 DEF QueueFits
<1>11. \A e \in new.queue : e.id < new.id
  BY <1>0, <1>3, <1>4, <1>5
<1>12. ASSUME NEW e \in new.queue, e.id < dev.id
       PROVE  e \in dev.queue /\ \A x \in Pending(new.rows) : IsRowOf(x, e) => x \in W
  <2>1. e \in dev.queue
    BY <1>0, <1>4, <1>5, <1>12
  <2>2. PICK y \in W : IsRowOf(y, e)
    BY <2>1 DEF DevFits, QueueFits
  <2>3. \A r \in M : ~IsRowOf(row[r], e)
    BY <1>0, <1>4, <1>6, <1>7, <2>2 DEF IsRowOf
  <2>. QED
    BY <1>1, <2>1, <2>3
<1>13. Follows(dev, new)
  <2>1. ASSUME NEW e \in new.queue, e.id < dev.id
        PROVE  /\ e \in dev.queue /\ e.ver <= e.ver
               /\ \A x \in Pending(new.rows) : IsRowOf(x, e) => x \in Pending(dev.rows)
    BY <1>3, <1>12, <2>1
  <2>. QED
    BY <2>1, Zenon DEF Follows
<1>. QED
  BY <1>5, <1>8, <1>9, <1>10, <1>11, <1>13 DEF DevFits

(* Versions that wait no more: of each record the oldest ones, with their  *)
(* entries.                                                                *)
LEMMA FewerFits ==
  ASSUME NEW dev, NEW new, DevFits(dev), RowsFit(new.rows), new.id = dev.id,
         Pending(new.rows) \subseteq Pending(dev.rows), new.queue \subseteq dev.queue,
         \A e \in dev.queue, x \in Pending(dev.rows) :
           IsRowOf(x, e) => (e \in new.queue <=> x \in Pending(new.rows)),
         \A x \in Pending(new.rows), y \in Pending(dev.rows) :
           y.rec = x.rec /\ x.ver < y.ver => y \in Pending(new.rows)
  PROVE  DevFits(new) /\ Follows(dev, new)
<1> DEFINE W == Pending(dev.rows)
           V == Pending(new.rows)
<1>1. KindsFit(W) /\ QueueFits(W, dev.queue) /\ RowsFit(dev.rows) /\ dev.id \in Nat \ {0}
      /\ \A e \in dev.queue : e.id < dev.id
  BY DEF DevFits
<1>2. \A x \in W : x.ver \in Nat
  BY <1>1, PendingRows
<1>3. \A e \in dev.queue : e.id \in Nat /\ e.ver \in Nat
  BY <1>1 DEF QueueFits, Entry
<1>4. \A x, y \in W : x.rec = y.rec /\ x.ver = y.ver => x = y
  BY <1>1 DEF RowsFit, Pending
<1>5. V \subseteq W
  OBVIOUS
<1>6. \A x \in V, y \in W : y.rec = x.rec /\ x.ver < y.ver => y \in V
  OBVIOUS
<1>7. \A e \in dev.queue, x \in W : IsRowOf(x, e) => (e \in new.queue <=> x \in V)
  OBVIOUS
<1> HIDE DEF W, V
<1>8. KindsFit(V)
  <2>1. SUFFICES ASSUME NEW x \in V, NEW y \in V, x.rec = y.rec, x.ver < y.ver
                 PROVE  /\ y.kind # "purged"
                        /\ y.kind = "deleted" => \E p \in V :
                             p.rec = y.rec /\ x.ver <= p.ver /\ p.ver < y.ver /\ p.kind = "put"
    BY DEF KindsFit
  <2>2. y.kind # "purged"
    BY <1>1, <1>5, <2>1 DEF KindsFit
  <2>3. ASSUME y.kind = "deleted"
        PROVE  \E p \in V : p.rec = y.rec /\ x.ver <= p.ver /\ p.ver < y.ver /\ p.kind = "put"
    <3>1. PICK p \in W : p.rec = y.rec /\ x.ver <= p.ver /\ p.ver < y.ver /\ p.kind = "put"
      BY <1>1, <1>5, <2>1, <2>3 DEF KindsFit
    <3>2. x \in W
      BY <1>5
    <3>3. CASE x.ver = p.ver
      <4>1. x = p
        BY <1>4, <2>1, <3>1, <3>2, <3>3
      <4>. QED
        BY <3>1, <4>1
    <3>4. CASE x.ver # p.ver
      <4>1. x.ver < p.ver
        BY <1>2, <3>1, <3>2, <3>4
      <4>2. p \in V
        BY <1>6, <2>1, <3>1, <4>1
      <4>. QED
        BY <3>1, <4>2
    <3>. QED
      BY <3>3, <3>4
  <2>. QED
    BY <2>2, <2>3
<1>9. QueueFits(V, new.queue)
  <2>1. new.queue \subseteq Entry /\ IsFiniteSet(new.queue)
    BY <1>1, FS_Subset DEF QueueFits
  <2>2. \A e, f \in new.queue :
          /\ e.id = f.id => e = f
          /\ e.rec = f.rec /\ e.id < f.id => e.ver < f.ver
    BY <1>1 DEF QueueFits
  <2>3. \A e \in new.queue : \E x \in V : IsRowOf(x, e)
    BY <1>1, <1>7 DEF QueueFits
  <2>4. \A x \in V : \E e \in new.queue : IsRowOf(x, e)
    BY <1>1, <1>5, <1>7 DEF QueueFits
  <2>. QED
    BY <2>1, <2>2, <2>3, <2>4 DEF QueueFits
<1>10. DevFits(new)
  BY <1>1, <1>8, <1>9 DEF DevFits, V
<1>11. ASSUME NEW e \in new.queue
       PROVE  /\ e \in dev.queue /\ e.ver <= e.ver
              /\ \A x \in Pending(new.rows) : IsRowOf(x, e) => x \in Pending(dev.rows)
  BY <1>3
<1>12. Follows(dev, new)
  <2>1. dev.id <= new.id
    BY <1>1
  <2>. QED
    BY <1>11, <2>1, Zenon DEF Follows
<1>. QED
  BY <1>10, <1>12

(* The same versions wait, with their entries parked or no longer parked,  *)
(* or those of a record higher up all by as much.                          *)
MovedUp(dev, new, s, g, h) ==
  /\ s \in [Record -> Nat] /\ g = [e \in dev.queue |-> g[e]] /\ h = [x \in Pending(dev.rows) |-> h[x]]
  /\ \A e \in dev.queue :
       g[e] \in Entry /\ g[e].id = e.id /\ g[e].rec = e.rec /\ g[e].ver = e.ver + s[e.rec]
  /\ \A x \in Pending(dev.rows) :
       h[x].rec = x.rec /\ h[x].ver = x.ver + s[x.rec] /\ h[x].kind = x.kind
  /\ new.id = dev.id
  /\ new.queue = { g[e] : e \in dev.queue }
  /\ Pending(new.rows) = { h[x] : x \in Pending(dev.rows) }

LEMMA ShiftFits ==
  ASSUME NEW dev, NEW new, DevFits(dev), RowsFit(new.rows), NEW s, NEW g, NEW h,
         MovedUp(dev, new, s, g, h)
  PROVE  DevFits(new) /\ Follows(dev, new)
<1> DEFINE W == Pending(dev.rows)
           V == Pending(new.rows)
<1>1. KindsFit(W) /\ QueueFits(W, dev.queue) /\ RowsFit(dev.rows) /\ dev.id \in Nat \ {0}
      /\ \A e \in dev.queue : e.id < dev.id
  BY DEF DevFits
<1>2. \A x \in W : x.ver \in Nat /\ x.rec \in Record /\ s[x.rec] \in Nat
  BY <1>1, PendingRows DEF StoreRow, MovedUp
<1>3. \A e \in dev.queue : e.id \in Nat /\ e.ver \in Nat /\ e.rec \in Record /\ s[e.rec] \in Nat
  BY <1>1 DEF QueueFits, Entry, MovedUp
<1>4. V = { h[x] : x \in W } /\ new.queue = { g[e] : e \in dev.queue } /\ new.id = dev.id
  BY DEF MovedUp
<1>5. \A x \in W : h[x].rec = x.rec /\ h[x].ver = x.ver + s[x.rec] /\ h[x].kind = x.kind
  BY DEF MovedUp
<1>5a. \A e \in dev.queue :
        g[e] \in Entry /\ g[e].id = e.id /\ g[e].rec = e.rec /\ g[e].ver = e.ver + s[e.rec]
  BY DEF MovedUp
<1> HIDE DEF W, V
<1>6. KindsFit(V)
  <2>1. SUFFICES ASSUME NEW a \in W, NEW b \in W, h[a].rec = h[b].rec, h[a].ver < h[b].ver
                 PROVE  /\ h[b].kind # "purged"
                        /\ h[b].kind = "deleted" => \E p \in V :
                             p.rec = h[b].rec /\ h[a].ver <= p.ver /\ p.ver < h[b].ver /\ p.kind = "put"
    BY <1>4 DEF KindsFit
  <2>2. a.rec = b.rec /\ a.ver < b.ver
    BY <1>2, <1>5, <2>1
  <2>3. b.kind # "purged"
    BY <1>1, <2>2 DEF KindsFit
  <2>4. ASSUME b.kind = "deleted"
        PROVE  \E p \in V :
                 p.rec = h[b].rec /\ h[a].ver <= p.ver /\ p.ver < h[b].ver /\ p.kind = "put"
    <3>1. PICK p \in W : p.rec = b.rec /\ a.ver <= p.ver /\ p.ver < b.ver /\ p.kind = "put"
      BY <1>1, <2>2, <2>4 DEF KindsFit
    <3>2. h[p] \in V
      BY <1>4
    <3>3. h[p].rec = h[b].rec /\ h[a].ver <= h[p].ver /\ h[p].ver < h[b].ver /\ h[p].kind = "put"
      BY <1>2, <1>5, <2>2, <3>1
    <3>. QED
      BY <3>2, <3>3
  <2>. QED
    BY <1>5, <2>3, <2>4
<1>7. QueueFits(V, new.queue)
  <2>1. new.queue \subseteq Entry
    BY <1>4, <1>5a
  <2>2. IsFiniteSet(new.queue)
    <3>1. IsFiniteSet({ g[e] : e \in dev.queue })
      BY <1>1, FiniteImage DEF QueueFits, MovedUp
    <3>. QED
      BY <1>4, <3>1
  <2>3. ASSUME NEW e \in new.queue, NEW f \in new.queue
        PROVE  (e.id = f.id => e = f) /\ (e.rec = f.rec /\ e.id < f.id => e.ver < f.ver)
    <3>1. PICK a \in dev.queue, b \in dev.queue : e = g[a] /\ f = g[b]
      BY <1>4
    <3>2. (a.id = b.id => a = b) /\ (a.rec = b.rec /\ a.id < b.id => a.ver < b.ver)
      BY <1>1 DEF QueueFits
    <3>3. /\ e.id = a.id /\ e.rec = a.rec /\ e.ver = a.ver + s[a.rec]
          /\ f.id = b.id /\ f.rec = b.rec /\ f.ver = b.ver + s[b.rec]
      BY <1>5a, <3>1
    <3>. QED
      BY <1>3, <3>1, <3>2, <3>3
  <2>4. \A e \in dev.queue, x \in W : IsRowOf(x, e) => IsRowOf(h[x], g[e])
    BY <1>5, <1>5a DEF IsRowOf
  <2>5. ASSUME NEW e \in new.queue PROVE \E x \in V : IsRowOf(x, e)
    <3>1. PICK a \in dev.queue : e = g[a]
      BY <1>4
    <3>2. PICK x \in W : IsRowOf(x, a)
      BY <1>1 DEF QueueFits
    <3>3. h[x] \in V
      BY <1>4
    <3>. QED
      BY <2>4, <3>1, <3>2, <3>3
  <2>6. ASSUME NEW y \in V PROVE \E e \in new.queue : IsRowOf(y, e)
    <3>1. PICK x \in W : y = h[x]
      BY <1>4
    <3>2. PICK a \in dev.queue : IsRowOf(x, a)
      BY <1>1 DEF QueueFits
    <3>3. g[a] \in new.queue
      BY <1>4
    <3>. QED
      BY <2>4, <3>1, <3>2, <3>3
  <2>. QED
    BY <2>1, <2>2, <2>3, <2>5, <2>6 DEF QueueFits
<1>8. \A e \in new.queue : e.id < new.id
  BY <1>1, <1>4, <1>5a
<1>9. DevFits(new)
  BY <1>1, <1>4, <1>6, <1>7, <1>8 DEF DevFits, V
<1>10. ASSUME NEW a \in dev.queue
       PROVE  /\ a.id = g[a].id /\ a.rec = g[a].rec /\ a.ver <= g[a].ver
              /\ \A x \in V : IsRowOf(x, g[a]) => \E y \in W : IsRowOf(y, a) /\ y.kind = x.kind
  <2>1. a.id = g[a].id /\ a.rec = g[a].rec /\ a.ver <= g[a].ver
    BY <1>3, <1>5a
  <2>2. ASSUME NEW x \in V, IsRowOf(x, g[a]) PROVE \E y \in W : IsRowOf(y, a) /\ y.kind = x.kind
    <3>1. PICK y \in W : x = h[y]
      BY <1>4
    <3>2. h[y].rec = g[a].rec /\ h[y].ver = g[a].ver
      BY <2>2, <3>1 DEF IsRowOf
    <3>3. y.rec = a.rec /\ y.ver + s[y.rec] = a.ver + s[a.rec] /\ y.kind = x.kind
      BY <1>5, <1>5a, <3>1, <3>2
    <3>4. y.ver = a.ver
      BY <1>2, <1>3, <3>3
    <3>. QED
      BY <3>3, <3>4 DEF IsRowOf
  <2>. QED
    BY <2>1, <2>2
<1>11. Follows(dev, new)
  <2>1. dev.id <= new.id
    BY <1>1, <1>4
  <2>2. \A e \in new.queue : \E f \in dev.queue :
          /\ f.id = e.id /\ f.rec = e.rec /\ f.ver <= e.ver
          /\ \A x \in V : IsRowOf(x, e) => \E y \in W : IsRowOf(y, f) /\ y.kind = x.kind
    BY <1>4, <1>10
  <2>. QED
    BY <2>1, <2>2 DEF Follows, V, W
<1>. QED
  BY <1>9, <1>11

LEMMA FollowsTransitive ==
  ASSUME NEW a, NEW b, NEW c, DevFits(a), DevFits(b), DevFits(c), Follows(a, b), Follows(b, c)
  PROVE  Follows(a, c)
<1>1. a.id \in Nat /\ b.id \in Nat /\ c.id \in Nat /\ a.id <= b.id /\ b.id <= c.id
  BY DEF DevFits, Follows
<1>2. ASSUME NEW e \in c.queue, e.id < a.id
      PROVE  \E f \in a.queue :
               /\ f.id = e.id /\ f.rec = e.rec /\ f.ver <= e.ver
               /\ \A x \in Pending(c.rows) : IsRowOf(x, e) =>
                    \E y \in Pending(a.rows) : IsRowOf(y, f) /\ y.kind = x.kind
  <2>1. e.id \in Nat /\ e.ver \in Nat
    BY DEF DevFits, QueueFits, Entry
  <2>2. e.id < b.id
    BY <1>1, <1>2, <2>1
  <2>3. PICK g \in b.queue :
          /\ g.id = e.id /\ g.rec = e.rec /\ g.ver <= e.ver
          /\ \A x \in Pending(c.rows) : IsRowOf(x, e) =>
               \E y \in Pending(b.rows) : IsRowOf(y, g) /\ y.kind = x.kind
    BY <2>2 DEF Follows
  <2>4. PICK f \in a.queue :
          /\ f.id = g.id /\ f.rec = g.rec /\ f.ver <= g.ver
          /\ \A x \in Pending(b.rows) : IsRowOf(x, g) =>
               \E y \in Pending(a.rows) : IsRowOf(y, f) /\ y.kind = x.kind
    BY <1>2, <2>3 DEF Follows
  <2>5. f.ver \in Nat /\ g.ver \in Nat
    BY DEF DevFits, QueueFits, Entry
  <2>6. f.ver <= e.ver
    BY <2>1, <2>3, <2>4, <2>5
  <2>7. \A x \in Pending(c.rows) : IsRowOf(x, e) =>
          \E y \in Pending(a.rows) : IsRowOf(y, f) /\ y.kind = x.kind
    BY <2>3, <2>4
  <2>. QED
    BY <2>3, <2>4, <2>6, <2>7
<1>3. a.id <= c.id
  BY <1>1
<1>. QED
  BY <1>2, <1>3 DEF Follows
-------------------------------------------------------------------------------
(***************************************************************************)
(* The store's transactions, one by one.                                   *)
(***************************************************************************)
IsDev(dev) == dev = [rows |-> dev.rows, queue |-> dev.queue, id |-> dev.id]

(* What a transaction may make of a device's data, with rows of no other   *)
(* records than the ones it had and those of `R`.                          *)
Keeps(dev, new, R) ==
  /\ IsDev(new) /\ DevFits(new) /\ Follows(dev, new)
  /\ \A x \in new.rows : x.rec \in R \/ \E y \in dev.rows : y.rec = x.rec

LEMMA DevParts ==
  ASSUME NEW dev, IsDev(dev), NEW rows, NEW queue
  PROVE  /\ [dev EXCEPT !.rows = rows] = [rows |-> rows, queue |-> dev.queue, id |-> dev.id]
         /\ [dev EXCEPT !.queue = queue] = [rows |-> dev.rows, queue |-> queue, id |-> dev.id]
<1>1. PICK a, b, c : dev = [rows |-> a, queue |-> b, id |-> c]
  BY Zenon DEF IsDev
<1>2. dev.rows = a /\ dev.queue = b /\ dev.id = c
  BY <1>1
<1>3. [dev EXCEPT !.rows = rows] = [rows |-> rows, queue |-> b, id |-> c]
  BY <1>1
<1>4. [dev EXCEPT !.queue = queue] = [rows |-> a, queue |-> queue, id |-> c]
  BY <1>1
<1>. QED
  BY <1>2, <1>3, <1>4, Zenon

LEMMA KeepsItself ==
  ASSUME NEW dev, DevFits(dev), IsDev(dev), NEW R
  PROVE  Keeps(dev, dev, R)
<1>1. dev.id <= dev.id
  BY DEF DevFits
<1>2. \A e \in dev.queue : e.ver <= e.ver
  BY DEF DevFits, QueueFits, Entry
<1>. QED
  BY <1>1, <1>2, Zenon DEF Keeps, Follows

LEMMA KeepsTransitive ==
  ASSUME NEW a, NEW b, NEW c, NEW R, DevFits(a), Keeps(a, b, R), Keeps(b, c, R)
  PROVE  Keeps(a, c, R)
<1>1. DevFits(b) /\ DevFits(c) /\ Follows(a, b) /\ Follows(b, c)
  BY DEF Keeps
<1>2. Follows(a, c)
  BY <1>1, FollowsTransitive
<1>. QED
  BY <1>2 DEF Keeps

LEMMA InsertFits ==
  ASSUME NEW dev, DevFits(dev), NEW r \in Record, NEW ver \in Nat \ {0}, NEW kind \in Kind,
         NEW edits \in SUBSET Nat,
         \A x \in Of(dev.rows, r) : x.ver < ver,
         \A x \in Pending(dev.rows) : x.rec = r =>
           /\ kind # "purged"
           /\ kind = "deleted" => \E p \in Pending(dev.rows) :
                p.rec = r /\ x.ver <= p.ver /\ p.kind = "put"
  PROVE  Keeps(dev, InsertPending(dev, r, ver, kind, edits), {r})
<1> DEFINE new == InsertPending(dev, r, ver, kind, edits)
           x0 == LocalRow(r, ver, kind, edits, FALSE)
           e0 == [id |-> dev.id, rec |-> r, ver |-> ver, parked |-> FALSE]
           row == [q \in {r} |-> x0]
           entry == [q \in {r} |-> e0]
<1>1. new = [rows |-> dev.rows \cup {x0}, queue |-> dev.queue \cup {e0}, id |-> dev.id + 1]
  BY DEF InsertPending
<1>2. x0 \in StoreRow /\ x0.rec = r /\ x0.ver = ver /\ x0.kind = kind /\ x0.synced = FALSE
  BY DEF LocalRow, StoreRow
<1>3. dev.id \in Nat \ {0}
  BY DEF DevFits
<1>4. e0 \in Entry /\ e0.rec = r /\ e0.ver = ver /\ e0.id = dev.id
  BY <1>3 DEF Entry
<1>5. new.rows = dev.rows \cup {x0} /\ new.queue = dev.queue \cup {e0} /\ new.id = dev.id + 1
      /\ IsDev(new)
  BY <1>1 DEF IsDev
<1> HIDE DEF new, x0, e0
<1>6. DevFits(new) /\ Follows(dev, new)
  <2>1. IsFiniteSet({r}) /\ {r} \in SUBSET Record
    BY FS_Singleton
  <2>2. row = [q \in {r} |-> row[q]] /\ entry = [q \in {r} |-> entry[q]]
    OBVIOUS
  <2>3. Tops(dev, r, x0) /\ Names(dev, new, x0, e0)
    BY <1>2, <1>3, <1>4, <1>5 DEF Tops, Names
  <2>7. \A q \in {r} : Tops(dev, q, row[q]) /\ Names(dev, new, row[q], entry[q])
    BY <2>3
  <2>4. \A q, p \in {r} : entry[q].id = entry[p].id => q = p
    OBVIOUS
  <2>5. new.id \in Nat /\ dev.id <= new.id
    BY <1>3, <1>5
  <2>6. new.rows = dev.rows \cup { row[q] : q \in {r} }
        /\ new.queue = dev.queue \cup { entry[q] : q \in {r} }
    BY <1>5
  <2> HIDE DEF row, entry
  <2>. QED
    BY <2>1, <2>2, <2>4, <2>5, <2>6, <2>7, AppendFits
<1>7. \A x \in new.rows : x.rec \in {r} \/ \E y \in dev.rows : y.rec = x.rec
  BY <1>2, <1>5
<1>. QED
  BY <1>5, <1>6, <1>7 DEF Keeps, new

(* The records of `G` have nothing that waits any more.                    *)
LEMMA WithoutFits ==
  ASSUME NEW dev, NEW new, DevFits(dev), IsDev(new), new.id = dev.id, NEW G, NEW R,
         new.rows \subseteq dev.rows,
         Pending(new.rows) = { x \in Pending(dev.rows) : x.rec \notin G },
         new.queue = { e \in dev.queue : e.rec \notin G }
  PROVE  Keeps(dev, new, R)
<1>1. RowsFit(new.rows)
  <2>1. new.rows \in SUBSET dev.rows
    OBVIOUS
  <2>2. IsFiniteSet(new.rows)
    BY <2>1, FS_Subset DEF DevFits, RowsFit
  <2>. QED
    BY <2>1, <2>2 DEF DevFits, RowsFit
<1>2. Pending(new.rows) \subseteq Pending(dev.rows) /\ new.queue \subseteq dev.queue
  OBVIOUS
<1>3. \A e \in dev.queue, x \in Pending(dev.rows) :
        IsRowOf(x, e) => (e \in new.queue <=> x \in Pending(new.rows))
  BY DEF IsRowOf
<1>4. \A x \in Pending(new.rows), y \in Pending(dev.rows) :
        y.rec = x.rec /\ x.ver < y.ver => y \in Pending(new.rows)
  OBVIOUS
<1>5. DevFits(new) /\ Follows(dev, new)
  BY <1>1, <1>2, <1>3, <1>4, FewerFits
<1>. QED
  BY <1>5 DEF Keeps

LEMMA PurgeFits ==
  ASSUME NEW dev, DevFits(dev), IsDev(dev), NEW r \in Record, Of(dev.rows, r) # {}
  PROVE  Keeps(dev, PurgeRecord(dev, r), {r})
<1> DEFINE mine == Of(dev.rows, r)
           below == IF Synced(mine) # {} THEN Highest(Synced(mine)) ELSE Highest(mine)
           mid == [rows |-> dev.rows \ mine, queue |-> dev.queue \ Of(dev.queue, r), id |-> dev.id]
<1>1. \A x \in mine : x \in dev.rows /\ x \in StoreRow /\ x.ver \in Nat
  BY DEF Of, DevFits, RowsFit, StoreRow
<1>2. below \in mine
  <2>1. IsFiniteSet(mine)
    BY FS_Subset DEF Of, DevFits, RowsFit
  <2>2. Synced(mine) \subseteq mine
    BY DEF Synced
  <2>3. IsFiniteSet(Synced(mine))
    BY <2>1, <2>2, FS_Subset
  <2>4. CASE Synced(mine) # {}
    <3>1. Highest(Synced(mine)) \in Synced(mine)
      BY <1>1, <2>2, <2>3, <2>4, HighestRow
    <3>. QED
      BY <2>2, <2>4, <3>1
  <2>5. CASE Synced(mine) = {}
    <3>1. Highest(mine) \in mine
      BY <1>1, <2>1, HighestRow
    <3>. QED
      BY <2>5, <3>1
  <2>. QED
    BY <2>4, <2>5
<1>3. mid.rows = dev.rows \ mine /\ mid.queue = dev.queue \ Of(dev.queue, r) /\ mid.id = dev.id
  OBVIOUS
<1>4. Keeps(dev, mid, {r})
  <2>1. IsDev(mid) /\ mid.id = dev.id /\ mid.rows \subseteq dev.rows
    BY DEF IsDev
  <2>2. Pending(mid.rows) = { x \in Pending(dev.rows) : x.rec \notin {r} }
    BY <1>3 DEF Pending, Of
  <2>3. mid.queue = { e \in dev.queue : e.rec \notin {r} }
    BY <1>3 DEF Of
  <2> HIDE DEF mid
  <2>. QED
    BY <2>1, <2>2, <2>3, WithoutFits
<1>5. Of(mid.rows, r) = {} /\ \A x \in Pending(mid.rows) : x.rec # r
  BY <1>3 DEF Of, Pending
<1>6. below.ver + 1 \in Nat \ {0}
  BY <1>1, <1>2
<1>7. PurgeRecord(dev, r) = InsertPending(mid, r, below.ver + 1, "purged", {})
  BY DEF PurgeRecord
<1> HIDE DEF mid, below, mine
<1>8. Keeps(mid, InsertPending(mid, r, below.ver + 1, "purged", {}), {r})
  <2>1. DevFits(mid)
    BY <1>4 DEF Keeps
  <2>2. {} \in SUBSET Nat /\ "purged" \in Kind
    BY DEF Kind
  <2>. QED
    BY <1>5, <1>6, <2>1, <2>2, InsertFits
<1>. QED
  BY <1>4, <1>7, <1>8, KeepsTransitive

(* The oldest of what waits of a record becomes `z`, the server's copy or  *)
(* its own one counted as synced.                                          *)
LEMMA AckRows ==
  ASSUME NEW dev, NEW new, DevFits(dev), IsDev(new), new.id = dev.id, NEW e \in dev.queue,
         NEW x0 \in Pending(dev.rows), IsRowOf(x0, e),
         \A f \in dev.queue : f.rec = e.rec => e.id <= f.id,
         NEW K \in SUBSET dev.rows, Pending(K) = Pending(dev.rows) \ {x0},
         NEW z \in StoreRow, z.synced, z.rec = e.rec, z.ver <= e.ver,
         \A y \in K : y.rec # z.rec \/ y.ver # z.ver,
         new.rows = K \cup {z}, new.queue = dev.queue \ {e}, NEW R
  PROVE  Keeps(dev, new, R)
<1> DEFINE W == Pending(dev.rows)
<1>1. QueueFits(W, dev.queue) /\ RowsFit(dev.rows)
  BY DEF DevFits
<1>2. \A f \in dev.queue : f.id \in Nat /\ f.ver \in Nat
  BY <1>1 DEF QueueFits, Entry
<1>3. \A x \in W : x \in dev.rows /\ x \in StoreRow /\ x.ver \in Nat /\ ~x.synced
  BY <1>1, PendingRows
<1>4. Pending(new.rows) = W \ {x0}
  BY DEF Pending
<1>5. \A f \in dev.queue : f # e /\ f.rec = e.rec => e.ver < f.ver
  <2>. SUFFICES ASSUME NEW f \in dev.queue, f # e, f.rec = e.rec PROVE e.ver < f.ver
    OBVIOUS
  <2>1. e.id # f.id /\ (e.id < f.id => e.ver < f.ver)
    BY <1>1 DEF QueueFits
  <2>. QED
    BY <1>2, <2>1
<1>6. ASSUME NEW f \in dev.queue, NEW x \in W, IsRowOf(x, f)
      PROVE  f = e <=> x = x0
  <2>1. f = e => x = x0
    BY <1>1, <1>3, <1>6 DEF IsRowOf, RowsFit
  <2>2. x = x0 => f.rec = e.rec /\ f.ver = e.ver
    BY <1>6 DEF IsRowOf
  <2>3. x = x0 => f = e
    BY <1>2, <1>5, <2>2
  <2>. QED
    BY <2>1, <2>3
<1>7. \A x \in W : x # x0 /\ x.rec = e.rec => e.ver < x.ver
  <2>. SUFFICES ASSUME NEW x \in W, x # x0, x.rec = e.rec PROVE e.ver < x.ver
    OBVIOUS
  <2>1. PICK f \in dev.queue : IsRowOf(x, f)
    BY <1>1 DEF QueueFits
  <2>2. f # e
    BY <1>6, <2>1
  <2>. QED
    BY <1>5, <2>1, <2>2 DEF IsRowOf
<1>8. RowsFit(new.rows)
  <2>1. new.rows \subseteq StoreRow
    BY <1>1 DEF RowsFit
  <2>2. IsFiniteSet(new.rows)
    <3>1. IsFiniteSet(K)
      BY <1>1, FS_Subset DEF RowsFit
    <3>2. IsFiniteSet({z})
      BY FS_Singleton
    <3>. QED
      BY <3>1, <3>2, FiniteUnion
  <2>3. \A x, y \in new.rows : x.rec = y.rec /\ x.ver = y.ver => x = y
    BY <1>1 DEF RowsFit
  <2>4. \A x, y \in new.rows : x.rec = y.rec /\ ~x.synced /\ y.synced => y.ver < x.ver
    <3>. SUFFICES ASSUME NEW x \in new.rows, NEW y \in new.rows, x.rec = y.rec, ~x.synced, y.synced
                  PROVE  y.ver < x.ver
      OBVIOUS
    <3>1. x \in K /\ x \in Pending(K)
      BY DEF Pending
    <3>2. x \in W /\ x # x0
      BY <3>1
    <3>3. CASE y = z
      <4>1. e.ver < x.ver
        BY <1>7, <3>2, <3>3
      <4>. QED
        BY <1>2, <1>3, <3>2, <3>3, <4>1 DEF StoreRow
    <3>4. CASE y # z
      <4>1. y \in dev.rows /\ x \in dev.rows
        BY <3>1, <3>4
      <4>. QED
        BY <1>1, <4>1 DEF RowsFit
    <3>. QED
      BY <3>3, <3>4
  <2>. QED
    BY <2>1, <2>2, <2>3, <2>4 DEF RowsFit
<1>9. \A f \in dev.queue, x \in W : IsRowOf(x, f) => (f \in new.queue <=> x \in Pending(new.rows))
  BY <1>4, <1>6
<1>10. \A x \in Pending(new.rows), y \in W : y.rec = x.rec /\ x.ver < y.ver => y \in Pending(new.rows)
  <2>. SUFFICES ASSUME NEW x \in W \ {x0}, x.rec = x0.rec, x.ver < x0.ver PROVE FALSE
    BY <1>4
  <2>1. x0.rec = e.rec /\ x0.ver = e.ver
    BY DEF IsRowOf
  <2>2. e.ver < x.ver
    BY <1>7, <2>1
  <2>. QED
    BY <1>2, <1>3, <2>1, <2>2
<1>11. DevFits(new) /\ Follows(dev, new)
  BY <1>4, <1>8, <1>9, <1>10, FewerFits
<1>12. \A x \in new.rows : \E y \in dev.rows : y.rec = x.rec
  BY <1>3 DEF IsRowOf
<1>. QED
  BY <1>11, <1>12 DEF Keeps

LEMMA AckFits ==
  ASSUME NEW dev, DevFits(dev), IsDev(dev), NEW e \in dev.queue,
         \A f \in dev.queue : f.rec = e.rec => e.id <= f.id,
         NEW serverRows,
         \/ serverRows = {}
         \/ \E row \in ServerRow : serverRows = {row} /\ row.rec = e.rec /\ row.ver <= e.ver,
         NEW R
  PROVE  /\ Keeps(dev, AckPending(dev, e.id, serverRows), R)
         /\ AckPending(dev, e.id, serverRows).queue = dev.queue \ {e}
<1> DEFINE new == AckPending(dev, e.id, serverRows)
<1>1. RowsFit(dev.rows) /\ QueueFits(Pending(dev.rows), dev.queue) /\ dev.rows \subseteq StoreRow
  BY DEF DevFits, RowsFit
<1>2. { f \in dev.queue : f.id = e.id } = {e}
  BY <1>1 DEF QueueFits
<1>3. PICK x0 \in Pending(dev.rows) : IsRowOf(x0, e)
  BY <1>1 DEF QueueFits
<1>4. x0 \in dev.rows /\ x0 \in StoreRow /\ ~x0.synced /\ x0.rec = e.rec /\ x0.ver = e.ver /\ x0.ver \in Nat
  BY <1>1, <1>3, PendingRows DEF IsRowOf
<1>5. { x \in dev.rows : \E f \in {e} : x.rec = f.rec /\ x.ver = f.ver } = {x0}
  BY <1>1, <1>4 DEF RowsFit
<1>6. new = [rows  |-> IF serverRows = {}
                       THEN (dev.rows \ {x0}) \cup { AsSynced(x) : x \in {x0} }
                       ELSE Upsert(dev.rows \ {x0}, { AsSynced(row) : row \in serverRows }),
             queue |-> dev.queue \ {e}, id |-> dev.id]
  <2>1. {e} # {}
    OBVIOUS
  <2>. QED
    BY <1>2, <1>5, <2>1, ZenonT(60) DEF AckPending
<1>7. new.queue = dev.queue \ {e} /\ new.id = dev.id /\ IsDev(new)
  BY <1>6 DEF IsDev
<1>8. CASE serverRows = {}
  <2>1. new.rows = (dev.rows \ {x0}) \cup {AsSynced(x0)}
    BY <1>6, <1>8
  <2>2. AsSynced(x0) \in StoreRow /\ AsSynced(x0).synced /\ AsSynced(x0).rec = e.rec
        /\ AsSynced(x0).ver = e.ver
    BY <1>4 DEF AsSynced, LocalRow, StoreRow
  <2>3. Pending(dev.rows \ {x0}) = Pending(dev.rows) \ {x0}
    BY DEF Pending
  <2>4. \A y \in dev.rows \ {x0} : y.rec # e.rec \/ y.ver # e.ver
    BY <1>1, <1>4 DEF RowsFit
  <2> HIDE DEF new
  <2>5. Keeps(dev, new, R)
    <3> DEFINE z == AsSynced(x0)
               K == dev.rows \ {x0}
    <3>1. z \in StoreRow /\ z.synced /\ z.rec = e.rec /\ z.ver = e.ver /\ z.ver <= e.ver
      BY <1>4, <2>2
    <3>2. K \in SUBSET dev.rows /\ Pending(K) = Pending(dev.rows) \ {x0}
          /\ (\A y \in K : y.rec # z.rec \/ y.ver # z.ver) /\ new.rows = K \cup {z}
      BY <2>1, <2>2, <2>3, <2>4
    <3> HIDE DEF z, K
    <3>. QED
      BY <1>3, <1>7, <3>1, <3>2, AckRows
  <2>. QED
    BY <1>7, <2>5 DEF new
<1>9. CASE serverRows # {}
  <2>1. PICK row \in ServerRow : serverRows = {row} /\ row.rec = e.rec /\ row.ver <= e.ver
    BY <1>9
  <2> DEFINE z == AsSynced(row)
             K == { x \in dev.rows \ {x0} : x.rec # z.rec \/ x.ver # z.ver }
  <2>2. new.rows = Upsert(dev.rows \ {x0}, {z})
    BY <1>6, <2>1
  <2>3. z \in StoreRow /\ z.synced /\ z.rec = e.rec /\ z.ver = row.ver /\ z.ver \in Nat
    BY <2>1 DEF AsSynced, LocalRow, StoreRow, ServerRow
  <2>4. new.rows = K \cup {z}
    BY <2>2 DEF Upsert
  <2>5. \A x \in Pending(dev.rows) : x # x0 /\ x.rec = e.rec => z.ver < x.ver
    <3>. SUFFICES ASSUME NEW x \in Pending(dev.rows), x # x0, x.rec = e.rec PROVE z.ver < x.ver
      OBVIOUS
    <3>1. PICK f \in dev.queue : IsRowOf(x, f)
      BY <1>1 DEF QueueFits
    <3>2. x \in dev.rows /\ x.ver \in Nat
      BY <1>1, PendingRows
    <3>3. f.rec = e.rec /\ f # e
      BY <1>1, <1>4, <3>1, <3>2 DEF IsRowOf, RowsFit
    <3>4. e.id \in Nat /\ f.id \in Nat /\ e.ver \in Nat /\ f.ver \in Nat /\ e.id # f.id
      BY <1>1, <3>3 DEF QueueFits, Entry
    <3>5. e.id < f.id
      BY <3>3, <3>4
    <3>6. e.ver < f.ver
      BY <1>1, <3>3, <3>5 DEF QueueFits
    <3>. QED
      BY <2>1, <2>3, <3>1, <3>2, <3>4, <3>6 DEF IsRowOf
  <2>6. Pending(K) = Pending(dev.rows) \ {x0}
    <3>1. \A x \in Pending(dev.rows) : x \in dev.rows /\ x.ver \in Nat
      BY <1>1, PendingRows
    <3>2. \A x \in Pending(dev.rows) : x # x0 => x.rec # z.rec \/ x.ver # z.ver
      BY <2>3, <2>5, <3>1
    <3>. QED
      BY <3>2 DEF Pending
  <2>7. K \in SUBSET dev.rows /\ \A y \in K : y.rec # z.rec \/ y.ver # z.ver
    OBVIOUS
  <2>8. z.ver <= e.ver
    BY <2>1, <2>3
  <2> HIDE DEF new, z, K
  <2>9. Keeps(dev, new, R)
    BY <1>3, <1>7, <2>3, <2>4, <2>6, <2>7, <2>8, AckRows
  <2>. QED
    BY <1>7, <2>9 DEF new
<1>. QED
  BY <1>8, <1>9

LEMMA AckNothing ==
  ASSUME NEW dev, NEW id, \A e \in dev.queue : e.id # id, NEW serverRows
  PROVE  AckPending(dev, id, serverRows) = dev
BY DEF AckPending

(* Entries are parked, or no longer parked.                                *)
LEMMA ParkedFits ==
  ASSUME NEW dev, NEW new, DevFits(dev), IsDev(new), NEW g, g = [e \in dev.queue |-> g[e]],
         \A e \in dev.queue :
           g[e] \in Entry /\ g[e].id = e.id /\ g[e].rec = e.rec /\ g[e].ver = e.ver,
         new.rows = dev.rows, new.id = dev.id, new.queue = { g[e] : e \in dev.queue }, NEW R
  PROVE  Keeps(dev, new, R)
<1> DEFINE s == [r \in Record |-> 0]
           h == [x \in Pending(dev.rows) |-> x]
<1>1. MovedUp(dev, new, s, g, h)
  <2>1. s \in [Record -> Nat] /\ h = [x \in Pending(dev.rows) |-> h[x]]
    OBVIOUS
  <2>2. \A e \in dev.queue : g[e].ver = e.ver + s[e.rec]
    <3>1. \A e \in dev.queue : e.ver \in Nat /\ e.rec \in Record
      BY DEF DevFits, QueueFits, Entry
    <3>2. \A r \in Record : s[r] = 0
      OBVIOUS
    <3>3. \A e \in dev.queue : e.ver + s[e.rec] = e.ver
      BY <3>1, <3>2
    <3>. QED
      BY <3>3, Zenon
  <2>3. \A x \in Pending(dev.rows) :
          h[x].rec = x.rec /\ h[x].ver = x.ver + s[x.rec] /\ h[x].kind = x.kind
    BY PendingRows DEF DevFits, StoreRow
  <2>4. Pending(new.rows) = { h[x] : x \in Pending(dev.rows) }
    OBVIOUS
  <2> HIDE DEF s, h
  <2>. QED
    BY <2>1, <2>2, <2>3, <2>4 DEF MovedUp
<1> HIDE DEF s, h
<1>2. RowsFit(new.rows)
  BY DEF DevFits
<1>3. DevFits(new) /\ Follows(dev, new)
  BY <1>1, <1>2, ShiftFits
<1>. QED
  BY <1>3 DEF Keeps

LEMMA ParkFits ==
  ASSUME NEW dev, DevFits(dev), IsDev(dev), NEW id, NEW R
  PROVE  /\ Keeps(dev, Park(dev, id), R)
         /\ { e.id : e \in Park(dev, id).queue } = { e.id : e \in dev.queue }
<1> DEFINE new == Park(dev, id)
           g == [e \in dev.queue |-> IF e.id = id THEN [e EXCEPT !.parked = TRUE] ELSE e]
<1>1. new = [rows |-> dev.rows, queue |-> { g[e] : e \in dev.queue }, id |-> dev.id]
  <2>1. { IF e.id = id THEN [e EXCEPT !.parked = TRUE] ELSE e : e \in dev.queue } = { g[e] : e \in dev.queue }
    OBVIOUS
  <2>2. new = [dev EXCEPT !.queue = { g[e] : e \in dev.queue }]
    BY <2>1 DEF Park
  <2> HIDE DEF new, g
  <2>. QED
    BY <2>2, DevParts
<1>2. new.rows = dev.rows /\ new.queue = { g[e] : e \in dev.queue } /\ new.id = dev.id /\ IsDev(new)
  BY <1>1 DEF IsDev
<1>3. \A e \in dev.queue : g[e] \in Entry /\ g[e].id = e.id /\ g[e].rec = e.rec /\ g[e].ver = e.ver
  <2>1. \A e \in dev.queue : e \in Entry
    BY DEF DevFits, QueueFits
  <2>2. \A e \in Entry : LET f == [e EXCEPT !.parked = TRUE]
                        IN  f \in Entry /\ f.id = e.id /\ f.rec = e.rec /\ f.ver = e.ver
    BY DEF Entry
  <2>3. \A e \in dev.queue : g[e] = e \/ g[e] = [e EXCEPT !.parked = TRUE]
    OBVIOUS
  <2> HIDE DEF g
  <2>. QED
    BY <2>1, <2>2, <2>3
<1>4. g = [e \in dev.queue |-> g[e]]
  OBVIOUS
<1> HIDE DEF new, g
<1>5. Keeps(dev, new, R)
  BY <1>2, <1>3, <1>4, ParkedFits
<1>6. { e.id : e \in new.queue } = { e.id : e \in dev.queue }
  BY <1>2, <1>3
<1>. QED
  BY <1>5, <1>6 DEF new
-------------------------------------------------------------------------------
(***************************************************************************)
(* A page of the server's rows, applied.                                   *)
(***************************************************************************)
PulledFits(pulled) ==
  /\ pulled \subseteq StoreRow /\ IsFiniteSet(pulled)
  /\ \A y \in pulled : y.synced
  /\ \A x, y \in pulled : x.rec = y.rec /\ x.ver = y.ver => x = y

(* What waits is above every version of the page.                          *)
AbovePulled(dev, pulled) ==
  \A x \in Pending(dev.rows), y \in pulled : y.rec = x.rec => y.ver < x.ver

LEMMA DropFits ==
  ASSUME NEW dev, DevFits(dev), IsDev(dev), NEW pulled, NEW R
  PROVE  Keeps(dev, DropDeletesOfPurged(dev, pulled), R)
<1> DEFINE Gone(r) ==
             /\ Of(pulled, r) # {} /\ HeadOf(pulled, r).kind = "purged"
             /\ Of(dev.rows, r) # {} /\ ~HeadOf(dev.rows, r).synced /\ HeadOf(dev.rows, r).kind # "put"
             /\ \A x \in Synced(Of(dev.rows, r)) : x.ver <= HeadOf(pulled, r).ver
           G == { r \in Record : Gone(r) }
           new == DropDeletesOfPurged(dev, pulled)
<1>1. new = [rows  |-> { x \in dev.rows : x.synced \/ ~Gone(x.rec) },
             queue |-> { e \in dev.queue : ~Gone(e.rec) }, id |-> dev.id]
  BY DEF DropDeletesOfPurged
<1> HIDE DEF Gone
<1>2. \A x \in dev.rows : x.rec \in Record
  BY DEF DevFits, RowsFit, StoreRow
<1>3. \A e \in dev.queue : e.rec \in Record
  BY DEF DevFits, QueueFits, Entry
<1>4. /\ IsDev(new) /\ new.id = dev.id /\ new.rows = { x \in dev.rows : x.synced \/ ~Gone(x.rec) }
      /\ new.queue = { e \in dev.queue : ~Gone(e.rec) }
  BY <1>1 DEF IsDev
<1> HIDE DEF new
<1>5. new.rows \subseteq dev.rows /\ Pending(new.rows) = { x \in Pending(dev.rows) : x.rec \notin G }
  BY <1>2, <1>4 DEF Pending
<1>6. new.queue = { e \in dev.queue : e.rec \notin G }
  BY <1>3, <1>4
<1> HIDE DEF G
<1>7. Keeps(dev, new, R)
  BY <1>4, <1>5, <1>6, WithoutFits
<1>. QED
  BY <1>7 DEF new

LEMMA ChainRows ==
  ASSUME NEW dev, DevFits(dev), NEW r
  PROVE  /\ Chain(dev, r) = { x \in Pending(dev.rows) : x.rec = r }
         /\ IsFiniteSet(Chain(dev, r))
         /\ \A x \in Chain(dev, r) : x \in StoreRow /\ x.ver \in Nat
<1>1. Chain(dev, r) = { x \in Pending(dev.rows) : x.rec = r }
  BY DEF Chain, Pending, Of
<1>2. IsFiniteSet(Pending(dev.rows)) /\ \A x \in Pending(dev.rows) : x \in StoreRow /\ x.ver \in Nat
  BY PendingRows DEF DevFits
<1>3. IsFiniteSet(Chain(dev, r))
  BY <1>1, <1>2, FS_Subset
<1>. QED
  BY <1>1, <1>2, <1>3

LEMMA StartOfChain ==
  ASSUME NEW dev, DevFits(dev), NEW r, Chain(dev, r) # {}
  PROVE  /\ Start(dev, r) \in Nat
         /\ \A x \in Chain(dev, r) : Start(dev, r) <= x.ver
<1> DEFINE T == { x.ver : x \in Chain(dev, r) }
<1>1. T \in SUBSET Nat /\ T # {}
  BY ChainRows
<1>2. PICK n \in T : \A m \in T : n <= m
  BY <1>1, LeastOfNumbers
<1>3. \A x \in Chain(dev, r) : n <= x.ver
  BY <1>2
<1>. QED
  BY <1>1, <1>2, <1>3 DEF Start

(* A chain moves above all that was pulled of its record.                  *)
LEMMA ShiftAbove ==
  ASSUME NEW dev, DevFits(dev), NEW pulled, PulledFits(pulled), NEW r
  PROVE  /\ Shift(dev, r, pulled) \in Nat
         /\ \A x \in Chain(dev, r), y \in Of(pulled, r) : y.ver < x.ver + Shift(dev, r, pulled)
<1> DEFINE Q == Remote(dev, r, pulled)
<1>1. \A y \in Of(pulled, r) : y.ver \in Nat
  BY DEF PulledFits, Of, StoreRow
<1>2. Q = { y \in Of(pulled, r) : Chain(dev, r) # {} /\ y.ver >= Start(dev, r) }
  BY DEF Remote
<1>3. CASE Chain(dev, r) = {}
  <2>1. Q = {}
    BY <1>2, <1>3
  <2>. QED
    BY <1>3, <2>1 DEF Shift
<1>4. CASE Chain(dev, r) # {} /\ Q = {}
  <2>1. Shift(dev, r, pulled) = 0
    BY <1>4 DEF Shift
  <2>2. Start(dev, r) \in Nat /\ \A x \in Chain(dev, r) : x.ver \in Nat /\ Start(dev, r) <= x.ver
    BY <1>4, StartOfChain, ChainRows
  <2>3. \A y \in Of(pulled, r) : y.ver < Start(dev, r)
    BY <1>1, <1>2, <1>4, <2>2
  <2>4. \A x \in Chain(dev, r), y \in Of(pulled, r) : y.ver < x.ver + 0
    BY <1>1, <2>2, <2>3
  <2>. QED
    BY <2>1, <2>4
<1>5. CASE Chain(dev, r) # {} /\ Q # {}
  <2>1. Start(dev, r) \in Nat /\ \A x \in Chain(dev, r) : x.ver \in Nat /\ Start(dev, r) <= x.ver
    BY <1>5, StartOfChain, ChainRows
  <2>2. IsFiniteSet(Q)
    <3>1. Q \in SUBSET pulled
      BY <1>2 DEF Of
    <3>. QED
      BY <3>1, FS_Subset DEF PulledFits
  <2>3. Highest(Q) \in Q /\ \A y \in Q : y.ver <= Highest(Q).ver
    <3>1. \A y \in Q : y.ver \in Nat
      BY <1>1, <1>2
    <3>. QED
      BY <1>5, <2>2, <3>1, HighestRow
  <2>4. Shift(dev, r, pulled) = Highest(Q).ver + 1 - Start(dev, r)
    BY <1>5 DEF Shift
  <2> DEFINE top == Highest(Q).ver
             start == Start(dev, r)
  <2>5. top \in Nat /\ start \in Nat /\ start <= top
    BY <1>1, <1>2, <2>1, <2>3
  <2>6. \A y \in Of(pulled, r) : y.ver <= top
    <3>. SUFFICES ASSUME NEW y \in Of(pulled, r) PROVE y.ver <= top
      OBVIOUS
    <3>1. y \in Q \/ y.ver < start
      BY <1>1, <1>2, <1>5, <2>1
    <3>. QED
      BY <1>1, <2>3, <2>5, <3>1
  <2> HIDE DEF top, start
  <2>7. \A x \in Chain(dev, r), y \in Of(pulled, r) : y.ver < x.ver + (top + 1 - start)
    BY <1>1, <2>1, <2>5, <2>6 DEF start
  <2>8. top + 1 - start \in Nat
    BY <2>5
  <2>. QED
    BY <2>4, <2>7, <2>8 DEF top, start
<1>. QED
  BY <1>3, <1>4, <1>5

LEMMA MovedFits ==
  ASSUME NEW dev, DevFits(dev), NEW pulled, PulledFits(pulled), NEW R
  PROVE  /\ Keeps(dev, Moved(dev, pulled), R)
         /\ AbovePulled(Moved(dev, pulled), pulled)
         /\ \A r : Chain(dev, r) # {} => Chain(Moved(dev, pulled), r) # {}
<1> DEFINE new == Moved(dev, pulled)
           W == Pending(dev.rows)
           s == [r \in Record |-> Shift(dev, r, pulled)]
           g == [e \in dev.queue |-> [e EXCEPT !.ver = @ + Shift(dev, e.rec, pulled)]]
           h == [x \in W |-> [x EXCEPT !.ver = @ + Shift(dev, x.rec, pulled)]]
<1>1. new.rows = Synced(dev.rows) \cup { h[x] : x \in W }
      /\ new.queue = { g[e] : e \in dev.queue } /\ new.id = dev.id /\ IsDev(new)
  <2>1. { [x EXCEPT !.ver = @ + Shift(dev, x.rec, pulled)] : x \in W } = { h[x] : x \in W }
    OBVIOUS
  <2>2. { [e EXCEPT !.ver = @ + Shift(dev, e.rec, pulled)] : e \in dev.queue } = { g[e] : e \in dev.queue }
    OBVIOUS
  <2> HIDE DEF h, g
  <2>3. new = [rows |-> Synced(dev.rows) \cup { h[x] : x \in W }, queue |-> { g[e] : e \in dev.queue },
               id |-> dev.id]
    BY <2>1, <2>2 DEF Moved
  <2>. QED
    BY <2>3 DEF IsDev
<1>2. \A r : Shift(dev, r, pulled) \in Nat
  BY ShiftAbove
<1>3. \A x \in W : x \in dev.rows /\ x \in StoreRow /\ x.ver \in Nat /\ x.rec \in Record /\ x.synced = FALSE
  BY PendingRows DEF DevFits, StoreRow
<1>4. \A e \in dev.queue : e \in Entry /\ e.ver \in Nat /\ e.rec \in Record
  BY DEF DevFits, QueueFits, Entry
<1>5. \A x \in W : /\ h[x] \in StoreRow /\ h[x].rec = x.rec /\ h[x].kind = x.kind
                   /\ h[x].synced = FALSE /\ h[x].ver = x.ver + Shift(dev, x.rec, pulled)
  <2>. SUFFICES ASSUME NEW x \in W
                PROVE  /\ h[x] \in StoreRow /\ h[x].rec = x.rec /\ h[x].kind = x.kind
                       /\ h[x].synced = FALSE /\ h[x].ver = x.ver + Shift(dev, x.rec, pulled)
    BY Zenon
  <2>1. h[x] = [x EXCEPT !.ver = @ + Shift(dev, x.rec, pulled)]
    OBVIOUS
  <2>2. x \in StoreRow /\ x.synced = FALSE /\ Shift(dev, x.rec, pulled) \in Nat
    BY <1>2, <1>3
  <2> HIDE DEF h
  <2>. QED
    BY <2>1, <2>2 DEF StoreRow
<1>6. \A e \in dev.queue : /\ g[e] \in Entry /\ g[e].id = e.id /\ g[e].rec = e.rec
                           /\ g[e].ver = e.ver + Shift(dev, e.rec, pulled)
  <2>. SUFFICES ASSUME NEW e \in dev.queue
                PROVE  /\ g[e] \in Entry /\ g[e].id = e.id /\ g[e].rec = e.rec
                       /\ g[e].ver = e.ver + Shift(dev, e.rec, pulled)
    BY Zenon
  <2>1. g[e] = [e EXCEPT !.ver = @ + Shift(dev, e.rec, pulled)]
    OBVIOUS
  <2>2. e \in Entry /\ Shift(dev, e.rec, pulled) \in Nat
    BY <1>2, <1>4
  <2> HIDE DEF g
  <2>. QED
    BY <2>1, <2>2 DEF Entry
<1>7. g = [e \in dev.queue |-> g[e]] /\ h = [x \in W |-> h[x]]
  OBVIOUS
<1>8. s \in [Record -> Nat] /\ \A r \in Record : s[r] = Shift(dev, r, pulled)
  BY <1>2
<1> HIDE DEF new, s, g, h
<1>9. \A x \in Synced(dev.rows) : x \in dev.rows /\ x.synced /\ x \in StoreRow /\ x.ver \in Nat
  BY DEF Synced, DevFits, RowsFit, StoreRow
<1>10. Pending(new.rows) = { h[x] : x \in W }
  BY <1>1, <1>5, <1>9 DEF Pending
<1>11. RowsFit(new.rows)
  <2>1. new.rows \subseteq StoreRow
    BY <1>1, <1>5, <1>9
  <2>2. IsFiniteSet(new.rows)
    <3>1. IsFiniteSet(Synced(dev.rows))
      BY FS_Subset DEF Synced, DevFits, RowsFit
    <3>2. IsFiniteSet(W)
      BY PendingRows DEF DevFits
    <3> HIDE DEF W
    <3>3. IsFiniteSet({ h[x] : x \in W })
      BY <1>7, <3>2, FiniteImage
    <3>. QED
      BY <1>1, <3>1, <3>3, FiniteUnion
  <2>3. ASSUME NEW x \in W, NEW y \in Synced(dev.rows), h[x].rec = y.rec PROVE y.ver < h[x].ver
    <3>1. y.ver < x.ver
      BY <1>3, <1>5, <1>9, <2>3 DEF DevFits, RowsFit
    <3>. QED
      BY <1>2, <1>3, <1>5, <1>9, <3>1
  <2>4. ASSUME NEW x \in W, NEW y \in W, h[x].rec = h[y].rec, h[x].ver = h[y].ver PROVE x = y
    <3>1. x.rec = y.rec /\ x.ver + Shift(dev, x.rec, pulled) = y.ver + Shift(dev, x.rec, pulled)
      BY <1>5, <2>4
    <3>2. x.ver = y.ver
      BY <1>2, <1>3, <3>1
    <3>. QED
      BY <1>3, <3>1, <3>2 DEF DevFits, RowsFit
  <2>5. \A x, y \in new.rows : x.rec = y.rec /\ x.ver = y.ver => x = y
    <3>1. \A x, y \in Synced(dev.rows) : x.rec = y.rec /\ x.ver = y.ver => x = y
      BY <1>9 DEF DevFits, RowsFit
    <3>2. \A x \in W : h[x].ver \in Nat
      BY <1>2, <1>3, <1>5
    <3>. QED
      BY <1>1, <1>9, <2>3, <2>4, <3>1, <3>2
  <2>6. \A x, y \in new.rows : x.rec = y.rec /\ ~x.synced /\ y.synced => y.ver < x.ver
    BY <1>1, <1>5, <1>9, <2>3
  <2>. QED
    BY <2>1, <2>2, <2>5, <2>6 DEF RowsFit
<1>12. MovedUp(dev, new, s, g, h)
  BY <1>1, <1>3, <1>4, <1>5, <1>6, <1>7, <1>8, <1>10 DEF MovedUp
<1>13. DevFits(new) /\ Follows(dev, new)
  BY <1>11, <1>12, ShiftFits
<1>14. \A x \in new.rows : \E y \in dev.rows : y.rec = x.rec
  BY <1>1, <1>3, <1>5, <1>9
<1>15. AbovePulled(new, pulled)
  <2>1. SUFFICES ASSUME NEW x \in W, NEW y \in pulled, y.rec = h[x].rec PROVE y.ver < h[x].ver
    BY <1>10 DEF AbovePulled
  <2>2. x \in Chain(dev, x.rec) /\ y \in Of(pulled, x.rec)
    BY <1>5, <2>1, ChainRows DEF Of
  <2>. QED
    BY <1>5, <2>2, ShiftAbove
<1>16. \A r : Chain(dev, r) # {} => Chain(new, r) # {}
  <2>1. \A r : Chain(new, r) = { x \in Pending(new.rows) : x.rec = r }
    BY <1>13, ChainRows
  <2>2. \A r : \A x \in Chain(dev, r) : x \in W /\ x.rec = r
    BY ChainRows
  <2>. SUFFICES ASSUME NEW r, NEW x \in Chain(dev, r) PROVE h[x] \in Chain(new, r)
    OBVIOUS
  <2>3. x \in W /\ x.rec = r
    BY <2>2
  <2>4. h[x] \in Pending(new.rows) /\ h[x].rec = r
    BY <1>5, <1>10, <2>3
  <2>. QED
    BY <2>1, <2>4
<1>. QED
  BY <1>1, <1>13, <1>14, <1>15, <1>16 DEF Keeps, new

LEMMA MergedFacts ==
  ASSUME NEW dev, DevFits(dev), NEW pulled, PulledFits(pulled)
  PROVE  /\ MergedRecords(dev, pulled) \in SUBSET Record
         /\ IsFiniteSet(MergedRecords(dev, pulled))
         /\ \A r \in MergedRecords(dev, pulled) :
              Chain(dev, r) # {} /\ Merged(dev, r, pulled) \in SUBSET Nat
<1> DEFINE M == MergedRecords(dev, pulled)
<1>1. \A r \in M : Remote(dev, r, pulled) # {}
  BY DEF MergedRecords, Merges
<1>2. \A r \in M : Chain(dev, r) # {}
  BY <1>1 DEF Remote
<1>3. IsFiniteSet(M)
  <2> DEFINE f == [x \in dev.rows |-> x.rec]
  <2>1. f = [x \in dev.rows |-> f[x]]
    OBVIOUS
  <2>2. M \in SUBSET { f[x] : x \in dev.rows }
    <3>1. \A r \in M : \E x \in dev.rows : x.rec = r
      BY <1>2 DEF Chain, Pending, Of
    <3> HIDE DEF M
    <3>. QED
      BY <3>1
  <2> HIDE DEF f, M
  <2>3. IsFiniteSet({ f[x] : x \in dev.rows })
    BY <2>1, FiniteImage DEF DevFits, RowsFit
  <2>. QED
    BY <2>2, <2>3, FS_Subset
<1>4. ASSUME NEW r \in M PROVE Merged(dev, r, pulled) \in SUBSET Nat
  <2>1. Highest(Chain(dev, r)) \in StoreRow
    <3>1. Highest(Chain(dev, r)) \in Chain(dev, r)
      BY <1>2, ChainRows, HighestRow
    <3>. QED
      BY <3>1, ChainRows
  <2>2. Highest(Remote(dev, r, pulled)) \in StoreRow
    <3>1. Remote(dev, r, pulled) \in SUBSET pulled
      BY DEF Remote, Of
    <3>2. IsFiniteSet(Remote(dev, r, pulled))
      BY <3>1, FS_Subset DEF PulledFits
    <3>3. \A x \in Remote(dev, r, pulled) : x \in StoreRow /\ x.ver \in Nat
      BY <3>1 DEF PulledFits, StoreRow
    <3>4. Highest(Remote(dev, r, pulled)) \in Remote(dev, r, pulled)
      BY <1>1, <3>2, <3>3, HighestRow
    <3>. QED
      BY <3>3, <3>4
  <2>. QED
    BY <2>1, <2>2 DEF Merged, Merge, StoreRow
<1>5. M \in SUBSET Record
  BY DEF MergedRecords
<1>. QED
  BY <1>2, <1>3, <1>4, <1>5

LEMMA RebasedFits ==
  ASSUME NEW dev, DevFits(dev), NEW pulled, PulledFits(pulled), NEW ids,
         ids \in Bijection(MergedRecords(dev, pulled),
                           dev.id..(dev.id + Cardinality(MergedRecords(dev, pulled)) - 1)),
         NEW R
  PROVE  Keeps(dev, Rebased(dev, pulled, ids), R) /\ AbovePulled(Rebased(dev, pulled, ids), pulled)
<1> DEFINE new == Rebased(dev, pulled, ids)
           moved == Moved(dev, pulled)
           M == MergedRecords(dev, pulled)
           n == Cardinality(M)
           Version(r) == Highest(Chain(moved, r)).ver + 1
           Row(r) == LocalRow(r, Version(r), "put", Merged(dev, r, pulled), FALSE)
           Ent(r) == [id |-> ids[r], rec |-> r, ver |-> Version(r), parked |-> FALSE]
           row == [r \in M |-> Row(r)]
           entry == [r \in M |-> Ent(r)]
<1>1. /\ Keeps(dev, moved, R) /\ AbovePulled(moved, pulled)
      /\ \A r : Chain(dev, r) # {} => Chain(moved, r) # {}
  BY MovedFits
<1>2. M \in SUBSET Record /\ IsFiniteSet(M)
      /\ \A r \in M : Chain(dev, r) # {} /\ Merged(dev, r, pulled) \in SUBSET Nat
  BY MergedFacts
<1>3. n \in Nat /\ dev.id \in Nat \ {0} /\ DevFits(moved) /\ moved.id = dev.id
  BY <1>1, <1>2, FS_CardinalityType DEF DevFits, Keeps, Moved
<1>4. \A r \in M : dev.id <= ids[r] /\ ids[r] < dev.id + n /\ ids[r] \in Nat \ {0}
  <2>1. \A r \in M : ids[r] \in dev.id..(dev.id + n - 1)
    BY DEF Bijection, Injection
  <2>. QED
    BY <1>3, <2>1
<1>5. \A r, q \in M : ids[r] = ids[q] => r = q
  BY DEF Bijection, Injection, IsInjective
<1>6. new = [rows |-> moved.rows \cup { Row(r) : r \in M },
             queue |-> moved.queue \cup { Ent(r) : r \in M }, id |-> dev.id + n]
  BY DEF Rebased
<1>7. { Row(r) : r \in M } = { row[r] : r \in M } /\ { Ent(r) : r \in M } = { entry[r] : r \in M }
  OBVIOUS
<1>8. row = [r \in M |-> row[r]] /\ entry = [r \in M |-> entry[r]]
  OBVIOUS
<1>9. \A r \in M : row[r] = Row(r) /\ entry[r] = Ent(r)
  OBVIOUS
<1> HIDE DEF new, moved, M, n, row, entry
<1>10. \A x \in moved.rows : x \in StoreRow /\ x.ver \in Nat
  BY <1>3 DEF DevFits, RowsFit, StoreRow
<1>11. ASSUME NEW r \in M
       PROVE  /\ Version(r) \in Nat \ {0}
              /\ \A x \in Of(moved.rows, r) : x.ver < Version(r)
              /\ \A y \in pulled : y.rec = r => y.ver < Version(r)
  <2> DEFINE top == Highest(Chain(moved, r))
  <2>1. Chain(moved, r) # {}
    BY <1>1, <1>2
  <2>2. top \in Chain(moved, r) /\ \A x \in Chain(moved, r) : x.ver <= top.ver
    BY <1>3, <2>1, ChainRows, HighestRow
  <2>3. top \in Pending(moved.rows) /\ top.rec = r /\ top.ver \in Nat
    BY <1>3, <2>2, ChainRows
  <2> HIDE DEF top
  <2>4. top \in moved.rows /\ ~top.synced
    BY <2>3 DEF Pending
  <2>5. \A x \in Of(moved.rows, r) : x.ver <= top.ver
    <3>. SUFFICES ASSUME NEW x \in moved.rows, x.rec = r PROVE x.ver <= top.ver
      BY DEF Of
    <3>1. CASE x.synced
      <4>1. x.ver < top.ver
        BY <1>3, <2>3, <2>4, <3>1 DEF DevFits, RowsFit
      <4>. QED
        BY <1>10, <2>3, <4>1
    <3>2. CASE ~x.synced
      <4>1. x \in Chain(moved, r)
        BY <3>2 DEF Chain, Pending, Of
      <4>. QED
        BY <2>2, <4>1
    <3>. QED
      BY <3>1, <3>2
  <2>6. \A y \in pulled : y.rec = r => y.ver < top.ver /\ y.ver \in Nat
    BY <1>1, <2>3 DEF AbovePulled, PulledFits, StoreRow
  <2>7. \A x \in Of(moved.rows, r) : x.ver \in Nat
    BY <1>10 DEF Of
  <2>8. Version(r) = top.ver + 1
    BY DEF top
  <2> HIDE DEF Version
  <2>. QED
    BY <2>3, <2>5, <2>6, <2>7, <2>8
<1>12. ASSUME NEW r \in M
       PROVE  /\ Tops(moved, r, row[r]) /\ row[r].rec = r /\ entry[r].id = ids[r]
              /\ entry[r] \in Entry /\ entry[r].rec = r /\ entry[r].ver = row[r].ver
              /\ \A y \in pulled : y.rec = r => y.ver < row[r].ver
  <2>1. r \in Record /\ Merged(dev, r, pulled) \in SUBSET Nat /\ Version(r) \in Nat \ {0}
        /\ ids[r] \in Nat \ {0}
    BY <1>2, <1>4, <1>11
  <2> DEFINE v == Version(r)
  <2>2. row[r] = LocalRow(r, v, "put", Merged(dev, r, pulled), FALSE)
        /\ entry[r] = [id |-> ids[r], rec |-> r, ver |-> v, parked |-> FALSE]
    BY <1>9
  <2>3. v \in Nat \ {0} /\ (\A x \in Of(moved.rows, r) : x.ver < v)
        /\ \A y \in pulled : y.rec = r => y.ver < v
    BY <1>11
  <2> HIDE DEF v
  <2>4. /\ row[r] \in StoreRow /\ row[r].rec = r /\ row[r].synced = FALSE /\ row[r].kind = "put"
        /\ row[r].ver = v
    BY <2>1, <2>2, <2>3 DEF LocalRow, StoreRow, Kind
  <2>5. entry[r] \in Entry /\ entry[r].rec = r /\ entry[r].ver = v /\ entry[r].id = ids[r]
    BY <2>1, <2>2, <2>3 DEF Entry
  <2>6. Tops(moved, r, row[r])
    BY <2>3, <2>4 DEF Tops
  <2>. QED
    BY <2>3, <2>4, <2>5, <2>6
<1> HIDE DEF Version, Row, Ent
<1>13. /\ new.rows = moved.rows \cup { row[r] : r \in M }
       /\ new.queue = moved.queue \cup { entry[r] : r \in M }
       /\ new.id = dev.id + n /\ IsDev(new)
  BY <1>6, <1>7 DEF IsDev
<1>14. DevFits(new) /\ Follows(moved, new)
  <2>1. \A r \in M : Tops(moved, r, row[r]) /\ Names(moved, new, row[r], entry[r])
    BY <1>3, <1>4, <1>12, <1>13 DEF Names
  <2>2. \A r, q \in M : entry[r].id = entry[q].id => r = q
    <3>1. \A r \in M : entry[r].id = ids[r]
      BY <1>12
    <3>. QED
      BY <1>5, <3>1, Zenon
  <2>3. new.id \in Nat /\ moved.id <= new.id
    BY <1>3, <1>13
  <2>. QED
    <3>1. M \in SUBSET Record /\ IsFiniteSet(M) /\ DevFits(moved)
      BY <1>2, <1>3
    <3>2. new.rows = moved.rows \cup { row[r] : r \in M }
          /\ new.queue = moved.queue \cup { entry[r] : r \in M }
      BY <1>13
    <3>. QED
      BY <1>8, <2>1, <2>2, <2>3, <3>1, <3>2, AppendFits, ZenonT(60)
<1>15. \A x \in new.rows : x.rec \in R \/ \E y \in dev.rows : y.rec = x.rec
  <2>1. \A x \in moved.rows : x.rec \in R \/ \E y \in dev.rows : y.rec = x.rec
    BY <1>1 DEF Keeps
  <2>2. \A r \in M : \E y \in dev.rows : y.rec = r
    BY <1>2 DEF Chain, Pending, Of
  <2>3. \A r \in M : row[r].rec = r
    BY <1>12
  <2>. QED
    BY <1>13, <2>1, <2>2, <2>3
<1>16. Follows(dev, new)
  <2>1. Follows(dev, moved)
    BY <1>1 DEF Keeps
  <2>. QED
    BY <1>3, <1>14, <2>1, FollowsTransitive
<1>17. AbovePulled(new, pulled)
  <2>. SUFFICES ASSUME NEW x \in Pending(new.rows), NEW y \in pulled, y.rec = x.rec PROVE y.ver < x.ver
    BY DEF AbovePulled
  <2>1. CASE x \in moved.rows
    <3>1. x \in Pending(moved.rows)
      BY <2>1 DEF Pending
    <3>. QED
      BY <1>1, <3>1 DEF AbovePulled
  <2>2. CASE x \notin moved.rows
    <3>1. PICK r \in M : x = row[r]
      BY <1>13, <2>2 DEF Pending
    <3>. QED
      BY <1>12, <3>1
  <2>. QED
    BY <2>1, <2>2
<1>. QED
  BY <1>13, <1>14, <1>15, <1>16, <1>17 DEF Keeps, new

LEMMA PulledPage ==
  ASSUME NEW page, page \subseteq ServerRow, IsFiniteSet(page),
         \A x, y \in page : x.rec = y.rec /\ x.ver = y.ver => x = y
  PROVE  PulledFits({ AsSynced(row) : row \in page })
<1> DEFINE f == [row \in page |-> AsSynced(row)]
           pulled == { AsSynced(row) : row \in page }
<1>1. \A row \in page : /\ AsSynced(row) \in StoreRow /\ AsSynced(row).synced
                        /\ AsSynced(row).rec = row.rec /\ AsSynced(row).ver = row.ver
  BY DEF AsSynced, LocalRow, StoreRow, ServerRow
<1>2. IsFiniteSet(pulled)
  <2>1. pulled = { f[row] : row \in page } /\ f = [row \in page |-> f[row]]
    OBVIOUS
  <2> HIDE DEF f
  <2>. QED
    BY <2>1, FiniteImage
<1>3. \A x, y \in pulled : x.rec = y.rec /\ x.ver = y.ver => x = y
  BY <1>1
<1>. QED
  BY <1>1, <1>2, <1>3 DEF PulledFits

LEMMA ApplyFits ==
  ASSUME NEW dev, DevFits(dev), IsDev(dev), NEW page, page \subseteq ServerRow, IsFiniteSet(page),
         \A x, y \in page : x.rec = y.rec /\ x.ver = y.ver => x = y,
         NEW ids,
         ids \in Bijection(MergedBy(dev, page), dev.id..(dev.id + Cardinality(MergedBy(dev, page)) - 1))
  PROVE  Keeps(dev, ApplyRows(dev, page, ids), { row.rec : row \in page })
<1> DEFINE pulled == { AsSynced(row) : row \in page }
           R == { row.rec : row \in page }
           drop == DropDeletesOfPurged(dev, pulled)
           rebased == Rebased(drop, pulled, ids)
           new == ApplyRows(dev, page, ids)
           U == Upsert(rebased.rows, pulled)
           old == { x \in Synced(BelowPurge(U)) : \E row \in page : row.rec = x.rec }
<1>1. PulledFits(pulled)
  BY PulledPage
<1>2. Keeps(dev, drop, R) /\ drop.id = dev.id
  BY DropFits DEF DropDeletesOfPurged
<1>3. MergedBy(dev, page) = MergedRecords(drop, pulled)
  BY DEF MergedBy
<1>4. Keeps(drop, rebased, R) /\ AbovePulled(rebased, pulled)
  <2>1. DevFits(drop)
    BY <1>2 DEF Keeps
  <2> HIDE DEF drop, pulled, R
  <2>. QED
    BY <1>1, <1>2, <1>3, <2>1, RebasedFits
<1>5. new = [rebased EXCEPT !.rows = U \ old]
  <2>1. IsDev(rebased)
    BY <1>4 DEF Keeps
  <2>2. Written(dev, page, ids) = [rebased EXCEPT !.rows = U]
    BY DEF Written
  <2> HIDE DEF rebased
  <2>3. Written(dev, page, ids) = [rows |-> U, queue |-> rebased.queue, id |-> rebased.id]
    BY <2>1, <2>2, DevParts
  <2>4. Written(dev, page, ids).rows = U /\ IsDev(Written(dev, page, ids))
    BY <2>3 DEF IsDev
  <2>5. new = [Written(dev, page, ids) EXCEPT !.rows = U \ old]
    BY <2>4 DEF ApplyRows
  <2>6. [Written(dev, page, ids) EXCEPT !.rows = U \ old]
          = [rows |-> U \ old, queue |-> rebased.queue, id |-> rebased.id]
    <3>1. Written(dev, page, ids).queue = rebased.queue /\ Written(dev, page, ids).id = rebased.id
      BY <2>3
    <3> DEFINE w == Written(dev, page, ids)
               rest == U \ old
    <3> HIDE DEF w, rest
    <3>2. [w EXCEPT !.rows = rest] = [rows |-> rest, queue |-> w.queue, id |-> w.id]
      BY <2>4, DevParts DEF w
    <3>. QED
      BY <3>1, <3>2 DEF w, rest
  <2>7. [rebased EXCEPT !.rows = U \ old] = [rows |-> U \ old, queue |-> rebased.queue, id |-> rebased.id]
    BY <2>1, DevParts
  <2>. QED
    BY <2>5, <2>6, <2>7
<1> HIDE DEF new, rebased, drop, pulled, R
<1>6. new.rows = U \ old /\ new.queue = rebased.queue /\ new.id = rebased.id /\ IsDev(new)
  <2>1. new = [rows |-> U \ old, queue |-> rebased.queue, id |-> rebased.id]
    BY <1>4, <1>5, DevParts DEF Keeps
  <2>. QED
    BY <2>1 DEF IsDev
<1>7. DevFits(rebased) /\ RowsFit(rebased.rows)
  BY <1>4 DEF Keeps, DevFits
<1>8. \A x \in rebased.rows : x \in StoreRow /\ x.ver \in Nat
  BY <1>7 DEF RowsFit, StoreRow
<1>9. \A y \in pulled : y \in StoreRow /\ y.ver \in Nat /\ y.synced
  BY <1>1 DEF PulledFits, StoreRow
<1>10. U = { x \in rebased.rows : \A y \in pulled : y.rec # x.rec \/ y.ver # x.ver } \cup pulled
  BY DEF Upsert
<1>11. Pending(U) = Pending(rebased.rows)
  <2>1. \A x \in Pending(rebased.rows) : \A y \in pulled : y.rec # x.rec \/ y.ver # x.ver
    <3>1. \A x \in Pending(rebased.rows) : x.ver \in Nat
      BY <1>8 DEF Pending
    <3>. QED
      BY <1>4, <1>9, <3>1 DEF AbovePulled
  <2>. QED
    BY <1>9, <1>10, <2>1 DEF Pending
<1>12. old \subseteq U /\ \A x \in old : x.synced
  BY DEF BelowPurge, Synced
<1> HIDE DEF U, old
<1>13. Pending(new.rows) = Pending(rebased.rows)
  BY <1>6, <1>11, <1>12 DEF Pending
<1>14. RowsFit(new.rows)
  <2>1. new.rows \subseteq StoreRow
    BY <1>6, <1>8, <1>9, <1>10
  <2>2. IsFiniteSet(new.rows)
    <3>1. IsFiniteSet(rebased.rows \cup pulled)
      BY <1>1, <1>7, FS_Union DEF PulledFits, RowsFit
    <3>2. new.rows \in SUBSET (rebased.rows \cup pulled)
      BY <1>6, <1>10
    <3>. QED
      BY <3>1, <3>2, FS_Subset
  <2>3. \A x, y \in new.rows : x.rec = y.rec /\ x.ver = y.ver => x = y
    <3>1. \A x, y \in rebased.rows : x.rec = y.rec /\ x.ver = y.ver => x = y
      BY <1>7 DEF RowsFit
    <3>2. \A x, y \in pulled : x.rec = y.rec /\ x.ver = y.ver => x = y
      BY <1>1 DEF PulledFits
    <3>3. \A x, y \in U : x.rec = y.rec /\ x.ver = y.ver => x = y
      BY <1>10, <3>1, <3>2
    <3>. QED
      BY <1>6, <3>3
  <2>4. \A x, y \in new.rows : x.rec = y.rec /\ ~x.synced /\ y.synced => y.ver < x.ver
    <3>. SUFFICES ASSUME NEW x \in new.rows, NEW y \in new.rows, x.rec = y.rec, ~x.synced, y.synced
                  PROVE  y.ver < x.ver
      OBVIOUS
    <3>1. x \in Pending(rebased.rows)
      BY <1>13 DEF Pending
    <3>2. CASE y \in pulled
      BY <1>4, <3>1, <3>2 DEF AbovePulled
    <3>3. CASE y \notin pulled
      <4>1. y \in rebased.rows /\ x \in rebased.rows
        BY <1>6, <1>10, <3>1, <3>3 DEF Pending
      <4>. QED
        BY <1>7, <4>1 DEF RowsFit
    <3>. QED
      BY <3>2, <3>3
  <2>. QED
    BY <2>1, <2>2, <2>3, <2>4 DEF RowsFit
<1>15. Keeps(rebased, new, R)
  <2>1. DevFits(new) /\ Follows(rebased, new)
    <3>1. \A e \in rebased.queue, x \in Pending(rebased.rows) :
            IsRowOf(x, e) => (e \in new.queue <=> x \in Pending(new.rows))
      BY <1>6, <1>13
    <3>2. \A x \in Pending(new.rows), y \in Pending(rebased.rows) :
            y.rec = x.rec /\ x.ver < y.ver => y \in Pending(new.rows)
      BY <1>13
    <3>3. Pending(new.rows) \subseteq Pending(rebased.rows) /\ new.queue \subseteq rebased.queue
      BY <1>6, <1>13
    <3>. QED
      BY <1>6, <1>7, <1>14, <3>1, <3>2, <3>3, FewerFits
  <2>2. \A x \in pulled : x.rec \in R
    BY DEF pulled, R, AsSynced, LocalRow
  <2>3. \A x \in new.rows : x.rec \in R \/ \E y \in rebased.rows : y.rec = x.rec
    BY <1>6, <1>10, <2>2
  <2>. QED
    BY <1>6, <2>1, <2>3 DEF Keeps
<1>16. Keeps(drop, new, R)
  <2>1. DevFits(drop)
    BY <1>2 DEF Keeps
  <2>. QED
    BY <1>4, <1>15, <2>1, KeepsTransitive
<1>17. Keeps(dev, new, R)
  BY <1>2, <1>16, KeepsTransitive
<1>. QED
  BY <1>17 DEF new, R
-------------------------------------------------------------------------------
(***************************************************************************)
(* What a step of a device leaves in order beside its own data.            *)
(***************************************************************************)
LEMMA OldEntry ==
  ASSUME NEW g \in Device, Follows(Device0(g), Device0(g)'), NEW e \in outbox'[g], e.id < nextId
  PROVE  \E f \in outbox[g] :
           /\ f.id = e.id /\ f.rec = e.rec /\ f.ver <= e.ver
           /\ \A x \in Pending(store'[g]) : IsRowOf(x, e) =>
                \E y \in Pending(store[g]) : IsRowOf(y, f) /\ y.kind = x.kind
<1> DEFINE a == [rows |-> store[g], queue |-> outbox[g], id |-> nextId]
           b == [rows |-> store'[g], queue |-> outbox'[g], id |-> nextId']
<1>1. Follows(a, b)
  BY DEF Device0
<1>2. a.rows = store[g] /\ a.queue = outbox[g] /\ a.id = nextId
      /\ b.rows = store'[g] /\ b.queue = outbox'[g]
  OBVIOUS
<1> HIDE DEF a, b
<1>3. \E f \in a.queue :
        /\ f.id = e.id /\ f.rec = e.rec /\ f.ver <= e.ver
        /\ \A x \in Pending(b.rows) : IsRowOf(x, e) =>
             \E y \in Pending(a.rows) : IsRowOf(y, f) /\ y.kind = x.kind
  BY <1>1, <1>2 DEF Follows
<1>. QED
  BY <1>2, <1>3

LEMMA EntryTypes ==
  ASSUME NEW g \in Device, DevFits(Device0(g)), NEW e \in outbox[g]
  PROVE  e \in Entry /\ e.id \in Nat \ {0} /\ e.ver \in Nat /\ e.id < nextId
BY DEF DevFits, QueueFits, Entry, Device0

LEMMA WaitsKept ==
  ASSUME NEW g \in Device, DevFits(Device0(g)), DevFits(Device0(g))', nextId \in Nat,
         Follows(Device0(g), Device0(g)'), NEW b, BatchFits(b), StillWaits(b, g)
  PROVE  StillWaits(b, g)'
<1>. SUFFICES ASSUME NEW c \in b, NEW e \in outbox'[g], c.id = e.id
              PROVE  /\ c.rec = e.rec /\ c.base < e.ver
                     /\ \A x \in Pending(store'[g]) : IsRowOf(x, e) => x.kind = c.kind
                     /\ \A f \in outbox'[g] : f.rec = e.rec /\ f.id < e.id => \E h \in b : h.id = f.id
  BY DEF StillWaits, Pending, IsRowOf
<1>1. c.id < nextId /\ c.base \in Nat
  BY DEF BatchFits, PushChange
<1>2. PICK f \in outbox[g] :
        /\ f.id = e.id /\ f.rec = e.rec /\ f.ver <= e.ver
        /\ \A x \in Pending(store'[g]) : IsRowOf(x, e) =>
             \E y \in Pending(store[g]) : IsRowOf(y, f) /\ y.kind = x.kind
  BY <1>1, OldEntry
<1>3. \A h \in outbox[g] : h.id \in Nat /\ h.ver \in Nat
  BY EntryTypes
<1>4. \A h \in outbox'[g] : h.id \in Nat /\ h.ver \in Nat
  BY DEF DevFits, QueueFits, Entry, Device0
<1>5. /\ c.rec = f.rec /\ c.base < f.ver
      /\ \A x \in Pending(store[g]) : IsRowOf(x, f) => x.kind = c.kind
      /\ \A h \in outbox[g] : h.rec = f.rec /\ h.id < f.id => \E k \in b : k.id = h.id
  BY <1>2 DEF StillWaits
<1>6. c.rec = e.rec /\ c.base < e.ver
  BY <1>1, <1>2, <1>3, <1>4, <1>5
<1>7. \A x \in Pending(store'[g]) : IsRowOf(x, e) => x.kind = c.kind
  BY <1>2, <1>5
<1>8. ASSUME NEW h \in outbox'[g], h.rec = e.rec, h.id < e.id PROVE \E k \in b : k.id = h.id
  <2>1. h.id < nextId
    BY <1>1, <1>3, <1>4, <1>8
  <2>2. PICK h0 \in outbox[g] : h0.id = h.id /\ h0.rec = h.rec
    BY <2>1, OldEntry
  <2>. QED
    BY <1>2, <1>5, <1>8, <2>2
<1>. QED
  BY <1>6, <1>7, <1>8

LEMMA StoredKept ==
  ASSUME NEW g \in Device, DevFits(Device0(g)), DevFits(Device0(g))', nextId \in Nat,
         Follows(Device0(g), Device0(g)'), LogInv, log' = log, StoredOf(g)
  PROVE  StoredOf(g)'
<1>. SUFFICES ASSUME NEW x \in log, NEW e \in outbox'[g], x.id = e.id
              PROVE  /\ x.rec = e.rec /\ x.ver <= e.ver
                     /\ \A y \in Pending(store'[g]) : IsRowOf(y, e) /\ y.kind = "put" => x.kind = "put"
                     /\ \A f \in outbox'[g] : f.rec = e.rec /\ f.id < e.id =>
                          \E y \in log : y.rec = f.rec /\ y.id = f.id
  BY DEF StoredOf, Pending, IsRowOf
<1>1. x.id < nextId /\ x.ver \in Nat
  BY DEF LogInv, ServerRow
<1>2. PICK f \in outbox[g] :
        /\ f.id = e.id /\ f.rec = e.rec /\ f.ver <= e.ver
        /\ \A z \in Pending(store'[g]) : IsRowOf(z, e) =>
             \E y \in Pending(store[g]) : IsRowOf(y, f) /\ y.kind = z.kind
  BY <1>1, OldEntry
<1>3. \A h \in outbox[g] : h.id \in Nat /\ h.ver \in Nat
  BY EntryTypes
<1>4. \A h \in outbox'[g] : h.id \in Nat /\ h.ver \in Nat
  BY DEF DevFits, QueueFits, Entry, Device0
<1>5. /\ x.rec = f.rec /\ x.ver <= f.ver
      /\ \A y \in Pending(store[g]) : IsRowOf(y, f) /\ y.kind = "put" => x.kind = "put"
      /\ \A h \in outbox[g] : h.rec = f.rec /\ h.id < f.id => \E y \in log : y.rec = h.rec /\ y.id = h.id
  BY <1>2 DEF StoredOf
<1>6. x.rec = e.rec /\ x.ver <= e.ver
  BY <1>1, <1>2, <1>3, <1>4, <1>5
<1>7. \A y \in Pending(store'[g]) : IsRowOf(y, e) /\ y.kind = "put" => x.kind = "put"
  BY <1>2, <1>5
<1>8. ASSUME NEW h \in outbox'[g], h.rec = e.rec, h.id < e.id
      PROVE  \E y \in log : y.rec = h.rec /\ y.id = h.id
  <2>1. h.id < nextId
    BY <1>1, <1>3, <1>4, <1>8
  <2>2. PICK h0 \in outbox[g] : h0.id = h.id /\ h0.rec = h.rec
    BY <2>1, OldEntry
  <2>. QED
    BY <1>2, <1>5, <1>8, <2>2
<1>. QED
  BY <1>6, <1>7, <1>8

LEMMA AnswersKept ==
  ASSUME NEW g \in Device, DevFits(Device0(g)), DevFits(Device0(g))', nextId \in Nat,
         Follows(Device0(g), Device0(g)'), AnswersFit(g),
         round'[g].results = round[g].results, round'[g].batch # {},
         round'[g].batch \subseteq round[g].batch,
         \A c \in round[g].batch \ round'[g].batch :
           Done(c, round[g].results[c.id]) => \A e \in outbox'[g] : e.id # c.id
  PROVE  AnswersFit(g)'
<1> DEFINE b == round[g].batch
           rest == round'[g].batch
           result == round[g].results
<1>1. /\ b \subseteq PushChange /\ IsFiniteSet(b) /\ b # {}
      /\ \A c, e \in b : c.id = e.id => c = e
      /\ \A c \in b : c.id < nextId
  BY DEF AnswersFit
<1>2. nextId' \in Nat /\ nextId <= nextId' /\ \A c \in b : c.id \in Nat
  BY <1>1 DEF Follows, Device0, DevFits, PushChange
<1>3. \A c \in b : \A e \in outbox[g] : c.id = e.id =>
        /\ result[c.id].status = "applied" =>
             /\ result[c.id].row \in ServerRow /\ result[c.id].row.rec = e.rec
             /\ result[c.id].row.ver <= e.ver
        /\ Done(c, result[c.id]) =>
             \A f \in outbox[g] : f.rec = e.rec /\ f.id < e.id =>
               \E h \in b : h.id = f.id /\ Done(h, result[h.id])
  BY DEF AnswersFit
<1>3a. /\ rest # {} /\ rest \subseteq b /\ round'[g].results = result
      /\ \A c \in b \ rest : Done(c, result[c.id]) => \A e \in outbox'[g] : e.id # c.id
  OBVIOUS
<1> HIDE DEF b, rest, result
<1>4. \A h \in outbox[g] : h.id \in Nat /\ h.ver \in Nat
  BY EntryTypes
<1>5. \A h \in outbox'[g] : h.id \in Nat /\ h.ver \in Nat
  BY DEF DevFits, QueueFits, Entry, Device0
<1>6. ASSUME NEW c \in rest, NEW e \in outbox'[g], c.id = e.id
      PROVE  /\ result[c.id].status = "applied" =>
                  /\ result[c.id].row \in ServerRow /\ result[c.id].row.rec = e.rec
                  /\ result[c.id].row.ver <= e.ver
             /\ Done(c, result[c.id]) =>
                  \A f \in outbox'[g] : f.rec = e.rec /\ f.id < e.id =>
                    \E h \in rest : h.id = f.id /\ Done(h, result[h.id])
  <2>1. PICK f \in outbox[g] : f.id = e.id /\ f.rec = e.rec /\ f.ver <= e.ver
    BY <1>1, <1>6, <1>3a, OldEntry
  <2>2. result[c.id].status = "applied" =>
          /\ result[c.id].row \in ServerRow /\ result[c.id].row.rec = e.rec
          /\ result[c.id].row.ver <= e.ver
    <3>1. \A row \in ServerRow : row.ver \in Nat
      BY DEF ServerRow
    <3>. QED
      BY <1>3, <1>4, <1>5, <1>6, <1>3a, <2>1, <3>1
  <2>3. ASSUME Done(c, result[c.id]), NEW h \in outbox'[g], h.rec = e.rec, h.id < e.id
        PROVE  \E k \in rest : k.id = h.id /\ Done(k, result[k.id])
    <3>1. h.id < nextId
      BY <1>1, <1>2, <1>5, <1>6, <1>3a, <2>3
    <3>2. PICK h0 \in outbox[g] : h0.id = h.id /\ h0.rec = h.rec
      BY <3>1, OldEntry
    <3>3. PICK k \in b : k.id = h.id /\ Done(k, result[k.id])
      BY <1>3, <1>6, <1>3a, <2>1, <2>3, <3>2
    <3>. QED
      BY <1>3a, <3>3
  <2>. QED
    BY <2>2, <2>3
<1>7. /\ rest \subseteq PushChange /\ IsFiniteSet(rest)
      /\ \A c, e \in rest : c.id = e.id => c = e
      /\ \A c \in rest : c.id < nextId'
  BY <1>1, <1>2, <1>3a, FS_Subset
<1>8. round'[g].batch = rest
  BY DEF rest
<1>. QED
  BY <1>6, <1>7, <1>8, <1>3a DEF AnswersFit, Done

(* A step that gives device `d` other data leaves all else as it was.      *)
DeviceStep(d, new) ==
  /\ Keeps(Device0(d), new, created')
  /\ store' = [store EXCEPT ![d] = new.rows]
  /\ outbox' = [outbox EXCEPT ![d] = new.queue]
  /\ nextId' = new.id
  /\ created \subseteq created' /\ created' \subseteq Record
  /\ UNCHANGED serverVars

LEMMA DeviceStepFollows ==
  ASSUME SyncInv, NEW d \in Device, NEW new, DeviceStep(d, new)
  PROVE  /\ \A g \in Device : DevFits(Device0(g)) /\ DevFits(Device0(g))' /\ Follows(Device0(g), Device0(g)')
         /\ \A g \in Device : Known(g)'
         /\ nextId \in Nat \ {0} /\ nextId' \in Nat \ {0} /\ nextId <= nextId'
         /\ \A g \in Device \ {d} : outbox'[g] = outbox[g]
<1>1. IsDev(new) /\ DevFits(new) /\ Follows(Device0(d), new)
      /\ \A x \in new.rows : x.rec \in created' \/ \E y \in store[d] : y.rec = x.rec
  BY DEF DeviceStep, Keeps, Device0
<1>2. store = [g \in Device |-> store[g]] /\ outbox = [g \in Device |-> outbox[g]]
  BY DEF SyncInv, Shapes
<1>3. store'[d] = new.rows /\ outbox'[d] = new.queue /\ nextId' = new.id
      /\ \A g \in Device \ {d} : store'[g] = store[g] /\ outbox'[g] = outbox[g]
  BY <1>2, Zenon DEF DeviceStep
<1>4. Device0(d)' = new
  BY <1>1, <1>3, Zenon DEF Device0, IsDev
<1>5. nextId \in Nat \ {0} /\ nextId' \in Nat \ {0} /\ nextId <= nextId'
  BY <1>1, <1>3 DEF SyncInv, Shapes, DevFits, Follows, Device0
<1>6. \A g \in Device : DevFits(Device0(g)) /\ Known(g)
  BY DEF SyncInv, DeviceInv
<1>7. ASSUME NEW g \in Device \ {d}
      PROVE  DevFits(Device0(g))' /\ Follows(Device0(g), Device0(g)') /\ Known(g)'
  <2>1. /\ Device0(g)'.rows = store[g] /\ Device0(g)'.queue = outbox[g] /\ Device0(g)'.id = nextId'
        /\ Device0(g).rows = store[g] /\ Device0(g).queue = outbox[g] /\ Device0(g).id = nextId
    BY <1>3 DEF Device0
  <2>2. \A e \in outbox[g] : e.id \in Nat /\ e.ver \in Nat /\ e.id < nextId /\ e.ver <= e.ver
    BY <1>6, EntryTypes
  <2>3. DevFits(Device0(g))'
    <3>1. DevFits(Device0(g)')
      <4>1. \A e \in outbox[g] : e.id < nextId'
        BY <1>5, <2>2
      <4>2. RowsFit(store[g]) /\ KindsFit(Pending(store[g])) /\ QueueFits(Pending(store[g]), outbox[g])
        BY <1>6, <2>1 DEF DevFits
      <4>. QED
        BY <1>5, <2>1, <4>1, <4>2 DEF DevFits
    <3>. QED
      BY <3>1
  <2>4. Follows(Device0(g), Device0(g)')
    BY <1>5, <2>1, <2>2, Zenon DEF Follows
  <2>5. Known(g)'
    BY <1>3, <1>6 DEF Known, DeviceStep
  <2>. QED
    BY <2>3, <2>4, <2>5
<1>8. DevFits(Device0(d))' /\ Follows(Device0(d), Device0(d)')
  BY <1>1, <1>4
<1>9. Known(d)'
  BY <1>1, <1>3, <1>6 DEF Known, DeviceStep
<1>. QED
  BY <1>3, <1>5, <1>6, <1>7, <1>8, <1>9

LEMMA DeviceStepKeeps ==
  ASSUME SyncInv, NEW d \in Device, NEW new, DeviceStep(d, new), Batches' \subseteq Batches
  PROVE  DeviceInv' /\ LogInv' /\ BatchesInv' /\ AcceptedInv' /\ \A g \in Device : StoredOf(g)'
<1>1. /\ \A g \in Device : DevFits(Device0(g)) /\ DevFits(Device0(g))' /\ Follows(Device0(g), Device0(g)')
      /\ \A g \in Device : Known(g)'
      /\ nextId \in Nat \ {0} /\ nextId' \in Nat \ {0} /\ nextId <= nextId'
      /\ \A g \in Device \ {d} : outbox'[g] = outbox[g]
  BY DeviceStepFollows
<1>2. log' = log /\ lastSeq' = lastSeq /\ accepted' = accepted /\ created \subseteq created'
  BY DEF DeviceStep, serverVars
<1>3. LogInv /\ BatchesInv /\ DeviceInv /\ AcceptedInv /\ \A g \in Device : StoredOf(g)
  BY DEF SyncInv
<1>4. \A g \in Device : \A e \in outbox[g] : e.id \in Nat /\ e.id < nextId
  BY <1>1, EntryTypes
<1>5. \A g \in Device : \A e \in outbox'[g] : e.id \in Nat
  <2>. TAKE g \in Device
  <2>1. DevFits(Device0(g))'
    BY <1>1
  <2>. QED
    BY <2>1 DEF DevFits, QueueFits, Entry, Device0
<1>6. DeviceInv'
  <2>1. ASSUME NEW g \in Device, NEW h \in Device, NEW e \in outbox'[g], NEW f \in outbox'[h], e.id = f.id
        PROVE  g = h
    <3>1. CASE e.id < nextId
      <4>1. PICK e0 \in outbox[g] : e0.id = e.id
        BY <1>1, <3>1, OldEntry
      <4>2. PICK f0 \in outbox[h] : f0.id = f.id
        BY <1>1, <2>1, <3>1, OldEntry
      <4>. QED
        BY <1>3, <2>1, <4>1, <4>2 DEF DeviceInv
    <3>2. CASE ~(e.id < nextId)
      BY <1>1, <1>4, <2>1, <3>2
    <3>. QED
      BY <3>1, <3>2
  <2>2. \A g \in Device : DevFits(Device0(g))' /\ Known(g)'
    BY <1>1
  <2>. QED
    BY <2>1, <2>2 DEF DeviceInv
<1>7. LogInv'
  <2>1. \A x \in log : x.id < nextId'
    BY <1>1, <1>3 DEF LogInv, ServerRow
  <2>2. \A x \in log : x.rec \in created'
    BY <1>2, <1>3 DEF LogInv
  <2>. QED
    BY <1>2, <1>3, <2>1, <2>2 DEF LogInv, BelowPurge
<1>8. \A b \in Batches' : BatchFits(b)' /\ \A g \in Device : StillWaits(b, g)'
  <2>. SUFFICES ASSUME NEW b \in Batches' PROVE BatchFits(b)' /\ \A g \in Device : StillWaits(b, g)'
    OBVIOUS
  <2>1. BatchFits(b) /\ \A g \in Device : StillWaits(b, g)
    BY <1>3 DEF BatchesInv
  <2>2. BatchFits(b)'
    <3>1. \A c \in b : c.id < nextId'
      BY <1>1, <2>1 DEF BatchFits, PushChange
    <3>. QED
      BY <1>2, <2>1, <3>1 DEF BatchFits
  <2>3. \A g \in Device : StillWaits(b, g)'
    BY <1>1, <2>1, WaitsKept
  <2>. QED
    BY <2>2, <2>3
<1>9. BatchesInv'
  <2>1. \A b, h \in Batches' : \A c \in b, e \in h : c.id = e.id => c.rec = e.rec
    BY <1>3 DEF BatchesInv
  <2>. QED
    BY <1>8, <2>1 DEF BatchesInv
<1>10. \A g \in Device : StoredOf(g)'
  BY <1>1, <1>2, <1>3, StoredKept
<1>11. AcceptedInv'
  <2>1. \A b \in Batches' : \A c \in b : c.id \in accepted' => ThereOrPurged(c)'
    BY <1>2, <1>3 DEF AcceptedInv, ThereOrPurged, IsStored
  <2>2. ASSUME NEW g \in Device, NEW e \in outbox'[g], e.id \in accepted' PROVE ThereOrPurged(e)'
    <3>1. e.id < nextId
      <4>1. accepted \subseteq 1..(nextId - 1)
        BY DEF SyncInv, Shapes
      <4>2. nextId \in Nat /\ e.id \in accepted
        BY <1>1, <1>2, <2>2
      <4>3. e.id \in 1..(nextId - 1)
        BY <4>1, <4>2, Zenon
      <4>. QED
        BY <4>2, <4>3
    <3>2. PICK f \in outbox[g] : f.id = e.id /\ f.rec = e.rec
      BY <1>1, <3>1, OldEntry
    <3>3. ThereOrPurged(f)
      BY <1>2, <1>3, <2>2, <3>2 DEF AcceptedInv
    <3>. QED
      BY <1>2, <3>2, <3>3 DEF ThereOrPurged, IsStored
  <2>. QED
    BY <2>1, <2>2 DEF AcceptedInv
<1>. QED
  BY <1>6, <1>7, <1>9, <1>10, <1>11
-------------------------------------------------------------------------------
(***************************************************************************)
(* What users do.                                                          *)
(***************************************************************************)
LEMMA KeepsMore ==
  ASSUME NEW dev, NEW new, NEW R, NEW S, R \subseteq S, Keeps(dev, new, R)
  PROVE  Keeps(dev, new, S)
BY DEF Keeps

LEMMA BatchesFrame ==
  ASSUME late' \subseteq late, UNCHANGED round
  PROVE  Batches' \subseteq Batches
BY DEF Batches

(* A device's step leaves the rounds of the others as they were.           *)
LEMMA RoundKept ==
  ASSUME SyncInv, NEW d \in Device, NEW new, DeviceStep(d, new),
         NEW g \in Device, round'[g] = round[g]
  PROVE  RoundFits(g)'
<1>1. /\ DevFits(Device0(g)) /\ DevFits(Device0(g))' /\ Follows(Device0(g), Device0(g)')
      /\ nextId \in Nat
  BY DeviceStepFollows
<1>2. RoundFits(g)
  BY DEF SyncInv
<1>3. round[g].at = "answered" => AnswersFit(g)'
  <2>. SUFFICES ASSUME round[g].at = "answered" PROVE AnswersFit(g)'
    OBVIOUS
  <2>1. AnswersFit(g) /\ round[g].batch # {}
    BY <1>2 DEF RoundFits, AnswersFit
  <2>. QED
    BY <1>1, <2>1, AnswersKept
<1>4. round[g].at = "page" => PageFits(g)'
  BY <1>2 DEF RoundFits, PageFits, DeviceStep, serverVars
<1>. QED
  BY <1>2, <1>3, <1>4 DEF RoundFits

(* A step of a device that sends nothing.                                  *)
LEMMA DeviceStepKeepsInv ==
  ASSUME SyncInv, NEW d \in Device, NEW new, DeviceStep(d, new), Batches' \subseteq Batches,
         \A g \in Device \ {d} : round'[g] = round[g], round' = [g \in Device |-> round'[g]],
         RoundFits(d)', cursor' \in [Device -> 0..lastSeq],
         spent' \in [refused : 0..MaxRefusals, broken : 0..MaxBreaks, late : 0..MaxLate]
  PROVE  SyncInv'
<1>1. DeviceInv' /\ LogInv' /\ BatchesInv' /\ AcceptedInv' /\ \A g \in Device : StoredOf(g)'
  BY DeviceStepKeeps
<1>2. \A g \in Device : RoundFits(g)'
  BY RoundKept
<1>3. Shapes'
  <2>1. store = [g \in Device |-> store[g]] /\ outbox = [g \in Device |-> outbox[g]]
        /\ accepted \subseteq 1..(nextId - 1)
    BY DEF SyncInv, Shapes
  <2>2. store' = [g \in Device |-> store'[g]] /\ outbox' = [g \in Device |-> outbox'[g]]
    BY <2>1 DEF DeviceStep
  <2>3. /\ lastSeq' = lastSeq /\ accepted' = accepted /\ created' \subseteq Record
        /\ belated' = belated /\ belated \subseteq Record
    BY DEF DeviceStep, serverVars, SyncInv, Shapes
  <2>4. nextId \in Nat /\ nextId' \in Nat \ {0} /\ nextId <= nextId'
    BY DeviceStepFollows
  <2>5. 1..(nextId - 1) \subseteq 1..(nextId' - 1)
    BY <2>4, WiderRange
  <2>. QED
    BY <2>1, <2>2, <2>3, <2>4, <2>5 DEF Shapes
<1>. QED
  BY <1>1, <1>2, <1>3 DEF SyncInv

(* A transaction of a device beside its round.                             *)
LEMMA WriteKeepsInv ==
  ASSUME SyncInv, NEW d \in Device, NEW new, DeviceStep(d, new),
         UNCHANGED <<cursor, round, late, spent>>
  PROVE  SyncInv'
<1>1. Batches' \subseteq Batches
  BY BatchesFrame
<1>2. \A g \in Device : RoundFits(g)'
  BY RoundKept
<1>3. /\ round = [g \in Device |-> round[g]] /\ cursor \in [Device -> 0..lastSeq]
      /\ spent \in [refused : 0..MaxRefusals, broken : 0..MaxBreaks, late : 0..MaxLate]
  BY DEF SyncInv, Shapes
<1>. QED
  BY <1>1, <1>2, <1>3, DeviceStepKeepsInv

LEMMA DeviceFacts ==
  ASSUME SyncInv, NEW d \in Device
  PROVE  /\ DevFits(Device0(d)) /\ IsDev(Device0(d)) /\ Known(d)
         /\ Device0(d).rows = store[d] /\ Device0(d).queue = outbox[d] /\ Device0(d).id = nextId
         /\ RowsFit(store[d]) /\ QueueFits(Pending(store[d]), outbox[d]) /\ KindsFit(Pending(store[d]))
         /\ nextId \in Nat \ {0} /\ created \subseteq Record
<1>1. DevFits(Device0(d)) /\ Known(d) /\ nextId \in Nat \ {0} /\ created \subseteq Record
  BY DEF SyncInv, DeviceInv, Shapes
<1>2. Device0(d).rows = store[d] /\ Device0(d).queue = outbox[d] /\ Device0(d).id = nextId /\ IsDev(Device0(d))
  BY DEF Device0, IsDev
<1>. QED
  BY <1>1, <1>2 DEF DevFits

LEMMA UserWriteKeepsInv ==
  ASSUME SyncInv, NEW d \in Device, NEW new, UserWrite(d, new), NEW R \in SUBSET created',
         Keeps(Device0(d), new, R), created \subseteq created', created' \subseteq Record
  PROVE  SyncInv'
<1>1. DeviceStep(d, new)
  <2>1. Keeps(Device0(d), new, created')
    BY KeepsMore
  <2>. QED
    BY <2>1 DEF DeviceStep, UserWrite, Keep
<1>. QED
  BY <1>1, WriteKeepsInv DEF UserWrite

LEMMA HeadRow ==
  ASSUME SyncInv, NEW d \in Device, NEW r, Present(d, r)
  PROVE  /\ HeadOf(store[d], r) \in store[d] /\ HeadOf(store[d], r) \in StoreRow
         /\ HeadOf(store[d], r).rec = r /\ r \in created /\ r \in Record
         /\ \A x \in Of(store[d], r) : x.ver <= HeadOf(store[d], r).ver
<1>1. RowsFit(store[d]) /\ Known(d) /\ created \subseteq Record
  BY DeviceFacts
<1>2. Of(store[d], r) \in SUBSET store[d] /\ \A x \in Of(store[d], r) : x.rec = r
  BY DEF Of
<1>3. IsFiniteSet(Of(store[d], r)) /\ \A x \in Of(store[d], r) : x.ver \in Nat /\ x \in StoreRow
  BY <1>1, <1>2, FS_Subset DEF RowsFit, StoreRow
<1>4. HeadOf(store[d], r) \in Of(store[d], r)
      /\ \A x \in Of(store[d], r) : x.ver <= HeadOf(store[d], r).ver
  BY <1>3, HighestRow DEF HeadOf, Present
<1>. QED
  BY <1>1, <1>2, <1>3, <1>4 DEF Known

LEMMA CreateKeepsInv ==
  ASSUME SyncInv, NEW d \in Device, NEW r \in Record, Create(d, r)
  PROVE  SyncInv'
<1> DEFINE new == InsertPending(Device0(d), r, 1, "put", {nextId})
<1>1. DevFits(Device0(d)) /\ Known(d) /\ Device0(d).rows = store[d] /\ nextId \in Nat
      /\ created \subseteq Record
  BY DeviceFacts
<1>2. \A x \in store[d] : x.rec # r
  BY <1>1 DEF Create, Known
<1>3. Keeps(Device0(d), new, {r})
  <2>1. Of(store[d], r) = {} /\ \A x \in Pending(store[d]) : x.rec # r
    BY <1>2 DEF Of, Pending
  <2>2. {nextId} \in SUBSET Nat /\ "put" \in Kind /\ 1 \in Nat \ {0}
    BY <1>1 DEF Kind
  <2>. QED
    BY <1>1, <2>1, <2>2, InsertFits
<1>4. UserWrite(d, new) /\ created' = created \cup {r}
  BY DEF Create
<1> HIDE DEF new
<1>5. {r} \in SUBSET created' /\ created \subseteq created' /\ created' \subseteq Record
  BY <1>1, <1>4
<1>. QED
  BY <1>3, <1>4, <1>5, UserWriteKeepsInv

(* A version on top of a record's newest.                                  *)
LEMMA OnHeadFits ==
  ASSUME SyncInv, NEW d \in Device, NEW r, Present(d, r), NEW kind \in {"put", "deleted"},
         kind = "deleted" => HeadOf(store[d], r).kind = "put", NEW edits \in SUBSET Nat
  PROVE  Keeps(Device0(d), InsertPending(Device0(d), r, HeadOf(store[d], r).ver + 1, kind, edits), {r})
<1> DEFINE head == HeadOf(store[d], r)
<1>1. DevFits(Device0(d)) /\ Device0(d).rows = store[d] /\ RowsFit(store[d])
  BY DeviceFacts
<1>2. /\ head \in store[d] /\ head \in StoreRow /\ head.rec = r /\ r \in Record
      /\ \A x \in Of(store[d], r) : x.ver <= head.ver
  BY HeadRow
<1> HIDE DEF head
<1>3. head.ver \in Nat /\ head.ver + 1 \in Nat \ {0} /\ kind \in Kind
  BY <1>2 DEF StoreRow, Kind
<1>4. \A x \in Of(store[d], r) : x.ver < head.ver + 1
  <2>1. \A x \in Of(store[d], r) : x.ver \in Nat
    BY <1>1 DEF Of, RowsFit, StoreRow
  <2>. QED
    BY <1>2, <1>3, <2>1
<1>5. ASSUME NEW x \in Pending(store[d]), x.rec = r, kind = "deleted"
      PROVE  \E p \in Pending(store[d]) : p.rec = r /\ x.ver <= p.ver /\ p.kind = "put"
  <2>1. x.ver <= head.ver /\ x \in store[d] /\ ~x.synced
    BY <1>2, <1>5 DEF Of, Pending
  <2>2. ~head.synced
    <3>1. head.synced => head.ver < x.ver
      BY <1>1, <1>2, <1>5, <2>1 DEF RowsFit
    <3>2. x.ver \in Nat
      BY <1>1, <2>1 DEF RowsFit, StoreRow
    <3>. QED
      BY <1>3, <2>1, <3>1, <3>2
  <2>3. head \in Pending(store[d]) /\ head.kind = "put"
    BY <1>2, <1>5, <2>2 DEF Pending, head
  <2>. QED
    BY <1>2, <2>1, <2>3
<1>6. kind # "purged"
  OBVIOUS
<1>7. Keeps(Device0(d), InsertPending(Device0(d), r, head.ver + 1, kind, edits), {r})
  BY <1>1, <1>2, <1>3, <1>4, <1>5, <1>6, InsertFits
<1>. QED
  BY <1>7 DEF head

LEMMA UpdateKeepsInv ==
  ASSUME SyncInv, NEW d \in Device, NEW r \in Record, Update(d, r)
  PROVE  SyncInv'
<1> DEFINE head == HeadOf(store[d], r)
           edits == head.edits \cup {nextId}
           new == InsertPending(Device0(d), r, head.ver + 1, "put", edits)
<1>1. Present(d, r) /\ UserWrite(d, new) /\ created' = created
  BY DEF Update
<1>2. head \in StoreRow /\ r \in created
  BY <1>1, HeadRow
<1>3. nextId \in Nat /\ created \subseteq Record
  BY DeviceFacts
<1>4. edits \in SUBSET Nat
  BY <1>2, <1>3 DEF StoreRow
<1>5. Keeps(Device0(d), new, {r})
  BY <1>1, <1>4, OnHeadFits
<1>6. {r} \in SUBSET created' /\ created \subseteq created' /\ created' \subseteq Record
  BY <1>1, <1>2, <1>3
<1> HIDE DEF new
<1>. QED
  BY <1>1, <1>5, <1>6, UserWriteKeepsInv

LEMMA DeleteKeepsInv ==
  ASSUME SyncInv, NEW d \in Device, NEW r \in Record, Delete(d, r)
  PROVE  SyncInv'
<1> DEFINE head == HeadOf(store[d], r)
           new == InsertPending(Device0(d), r, head.ver + 1, "deleted", head.edits)
<1>1. Present(d, r) /\ head.kind = "put" /\ UserWrite(d, new) /\ created' = created
  BY DEF Delete
<1>2. head \in StoreRow /\ r \in created
  BY <1>1, HeadRow
<1>3. nextId \in Nat /\ created \subseteq Record
  BY DeviceFacts
<1>4. head.edits \in SUBSET Nat
  BY <1>2 DEF StoreRow
<1>5. Keeps(Device0(d), new, {r})
  BY <1>1, <1>4, OnHeadFits
<1>6. {r} \in SUBSET created' /\ created \subseteq created' /\ created' \subseteq Record
  BY <1>1, <1>2, <1>3
<1> HIDE DEF new
<1>. QED
  BY <1>1, <1>5, <1>6, UserWriteKeepsInv

LEMMA PurgeKeepsInv ==
  ASSUME SyncInv, NEW d \in Device, NEW r \in Record, Purge(d, r)
  PROVE  SyncInv'
<1> DEFINE new == PurgeRecord(Device0(d), r)
<1>1. Present(d, r) /\ UserWrite(d, new) /\ created' = created
  BY DEF Purge
<1>2. r \in created /\ created \subseteq Record /\ DevFits(Device0(d)) /\ IsDev(Device0(d))
      /\ Device0(d).rows = store[d]
  BY <1>1, HeadRow, DeviceFacts
<1>3. Of(Device0(d).rows, r) # {}
  BY <1>1, <1>2 DEF Present
<1>4. Keeps(Device0(d), new, {r})
  BY <1>2, <1>3, PurgeFits
<1>5. {r} \in SUBSET created' /\ created \subseteq created' /\ created' \subseteq Record
  BY <1>1, <1>2
<1> HIDE DEF new
<1>. QED
  BY <1>1, <1>4, <1>5, UserWriteKeepsInv

LEMMA RetryParkedKeepsInv ==
  ASSUME SyncInv, NEW d \in Device, RetryParked(d)
  PROVE  SyncInv'
<1> DEFINE dev == Device0(d)
           g == [e \in outbox[d] |-> [e EXCEPT !.parked = FALSE]]
           new == [rows |-> store[d], queue |-> { g[e] : e \in outbox[d] }, id |-> nextId]
<1>1. /\ DevFits(dev) /\ dev.rows = store[d] /\ dev.queue = outbox[d] /\ dev.id = nextId
      /\ created \subseteq Record
  BY DeviceFacts
<1>2. new.rows = store[d] /\ new.queue = { g[e] : e \in outbox[d] } /\ new.id = nextId /\ IsDev(new)
  BY DEF IsDev
<1>3. \A e \in outbox[d] : e \in Entry
  BY <1>1, EntryTypes
<1>4. \A e \in outbox[d] : g[e] \in Entry /\ g[e].id = e.id /\ g[e].rec = e.rec /\ g[e].ver = e.ver
  BY <1>3 DEF Entry
<1>5. g = [e \in outbox[d] |-> g[e]]
  OBVIOUS
<1>6. outbox' = [outbox EXCEPT ![d] = new.queue]
  BY DEF RetryParked
<1> HIDE DEF dev, g, new
<1>7. Keeps(dev, new, created')
  BY <1>1, <1>2, <1>4, <1>5, ParkedFits
<1>8. store' = [store EXCEPT ![d] = new.rows]
  <2>1. store = [h \in Device |-> store[h]] /\ store' = store
    BY DEF SyncInv, Shapes, RetryParked
  <2>. QED
    BY <1>2, <2>1
<1>9. DeviceStep(d, new)
  BY <1>1, <1>2, <1>6, <1>7, <1>8 DEF DeviceStep, RetryParked, dev
<1>. QED
  BY <1>9, WriteKeepsInv DEF RetryParked
-------------------------------------------------------------------------------
(***************************************************************************)
(* A sync round.                                                           *)
(***************************************************************************)
LEMMA GoFacts ==
  ASSUME SyncInv, NEW d \in Device, NEW next, Go(d, next)
  PROVE  /\ round'[d] = next /\ round' = [g \in Device |-> round'[g]]
         /\ \A g \in Device \ {d} : round'[g] = round[g]
<1>1. round = [g \in Device |-> round[g]]
  BY DEF SyncInv, Shapes
<1>2. round' = [round EXCEPT ![d] = next]
  BY DEF Go
<1>3. round'[d] = next /\ \A g \in Device \ {d} : round'[g] = round[g]
  BY <1>1, <1>2, Zenon
<1>4. round' = [g \in Device |-> round'[g]]
  BY <1>1, <1>2
<1>. QED
  BY <1>3, <1>4

(* No step of a round but `sent` adds a batch.                             *)
LEMMA BatchesGo ==
  ASSUME SyncInv, NEW d \in Device, NEW next, Go(d, next), NEW X, late' \subseteq late \cup X,
         next.at = "sent" => next.batch \in X
  PROVE  Batches' \subseteq Batches \cup X
<1>1. round'[d] = next /\ \A g \in Device \ {d} : round'[g] = round[g]
  BY GoFacts
<1>. SUFFICES ASSUME NEW b \in Batches' PROVE b \in Batches \cup X
  OBVIOUS
<1>2. CASE b \in late'
  BY <1>2 DEF Batches
<1>3. CASE b \notin late'
  <2>1. PICK g \in Device : round'[g].at = "sent" /\ b = round'[g].batch
    BY <1>3 DEF Batches
  <2>2. CASE g = d
    BY <1>1, <2>1, <2>2
  <2>3. CASE g # d
    BY <1>1, <2>1, <2>3 DEF Batches
  <2>. QED
    BY <2>2, <2>3
<1>. QED
  BY <1>2, <1>3

(* A step that leaves the device's data alone.                             *)
LEMMA NoDeviceStep ==
  ASSUME SyncInv, NEW d \in Device, UNCHANGED <<serverVars, deviceVars, nextId, created>>
  PROVE  DeviceStep(d, Device0(d))
<1>1. /\ DevFits(Device0(d)) /\ IsDev(Device0(d)) /\ Device0(d).rows = store[d]
      /\ Device0(d).queue = outbox[d] /\ Device0(d).id = nextId /\ created \subseteq Record
  BY DeviceFacts
<1>2. Keeps(Device0(d), Device0(d), created')
  BY <1>1, KeepsItself
<1>3. store = [g \in Device |-> store[g]] /\ outbox = [g \in Device |-> outbox[g]]
  BY DEF SyncInv, Shapes
<1>4. store' = [store EXCEPT ![d] = store[d]] /\ outbox' = [outbox EXCEPT ![d] = outbox[d]]
  BY <1>3 DEF deviceVars
<1>. QED
  BY <1>1, <1>2, <1>4 DEF DeviceStep

LEMMA BreakKeepsInv ==
  ASSUME SyncInv, NEW d \in Device, Break(d)
  PROVE  SyncInv'
<1>1. DeviceStep(d, Device0(d))
  BY NoDeviceStep DEF Break
<1>2. Go(d, Idle) /\ late' = late /\ cursor' = cursor
  BY DEF Break
<1>3. round'[d] = Idle /\ round' = [g \in Device |-> round'[g]]
      /\ \A g \in Device \ {d} : round'[g] = round[g]
  BY <1>2, GoFacts
<1>4. Batches' \subseteq Batches
  BY <1>2, BatchesGo DEF Idle
<1>5. RoundFits(d)'
  BY <1>3 DEF RoundFits, Idle
<1>6. cursor' \in [Device -> 0..lastSeq]
  BY <1>2 DEF SyncInv, Shapes
<1>7. spent' \in [refused : 0..MaxRefusals, broken : 0..MaxBreaks, late : 0..MaxLate]
  <2>1. spent \in [refused : 0..MaxRefusals, broken : 0..MaxBreaks, late : 0..MaxLate]
        /\ spent.broken < MaxBreaks /\ spent' = [spent EXCEPT !.broken = @ + 1]
        /\ MaxBreaks \in Nat
    BY RecordSyncAssumption DEF SyncInv, Shapes, Break
  <2>. QED
    BY <2>1
<1>. QED
  BY <1>1, <1>3, <1>4, <1>5, <1>6, <1>7, DeviceStepKeepsInv

LEMMA GiveUpKeepsInv ==
  ASSUME SyncInv, NEW d \in Device, GiveUp(d)
  PROVE  SyncInv'
<1>1. DeviceStep(d, Device0(d))
  BY NoDeviceStep DEF GiveUp
<1>2. Go(d, Idle) /\ late' = late \cup {round[d].batch} /\ cursor' = cursor /\ round[d].at = "sent"
  BY DEF GiveUp
<1>3. round'[d] = Idle /\ round' = [g \in Device |-> round'[g]]
      /\ \A g \in Device \ {d} : round'[g] = round[g]
  BY <1>2, GoFacts
<1>4. Batches' \subseteq Batches
  <2> DEFINE X == {round[d].batch}
  <2>1. X \subseteq Batches
    BY <1>2 DEF Batches
  <2>2. late' \subseteq late \cup X /\ Idle.at # "sent"
    BY <1>2 DEF Idle
  <2> HIDE DEF X
  <2>3. Batches' \subseteq Batches \cup X
    BY <1>2, <2>2, BatchesGo
  <2>. QED
    BY <2>1, <2>3
<1>5. RoundFits(d)'
  BY <1>3 DEF RoundFits, Idle
<1>6. cursor' \in [Device -> 0..lastSeq]
  BY <1>2 DEF SyncInv, Shapes
<1>7. spent' \in [refused : 0..MaxRefusals, broken : 0..MaxBreaks, late : 0..MaxLate]
  <2>1. spent \in [refused : 0..MaxRefusals, broken : 0..MaxBreaks, late : 0..MaxLate]
        /\ spent.late < MaxLate /\ spent' = [spent EXCEPT !.late = @ + 1]
        /\ MaxLate \in Nat
    BY RecordSyncAssumption DEF SyncInv, Shapes, GiveUp
  <2>. QED
    BY <2>1
<1>. QED
  BY <1>1, <1>3, <1>4, <1>5, <1>6, <1>7, DeviceStepKeepsInv

LEMMA ReadPageKeepsInv ==
  ASSUME SyncInv, NEW d \in Device, ReadPage(d)
  PROVE  SyncInv'
<1> DEFINE past == { x \in log : x.seq > cursor[d] }
           page == { x \in past : Cardinality({ y \in past : y.seq <= x.seq }) <= PageLimit }
           next == [at |-> "page", page |-> page, more |-> page # past, again |-> round[d].again]
<1>1. DeviceStep(d, Device0(d))
  BY NoDeviceStep DEF ReadPage
<1>2. Go(d, next) /\ late' = late /\ cursor' = cursor /\ spent' = spent /\ UNCHANGED serverVars
      /\ created' = created
  BY DEF ReadPage
<1>3. next.at = "page" /\ next.page \in SUBSET log
  OBVIOUS
<1> HIDE DEF next
<1>4. round'[d] = next /\ round' = [g \in Device |-> round'[g]]
      /\ \A g \in Device \ {d} : round'[g] = round[g]
  BY <1>2, GoFacts
<1>5. Batches' \subseteq Batches
  BY <1>2, <1>3, BatchesGo
<1>6. PageFits(d)'
  <2>1. LogInv /\ log' = log /\ lastSeq' = lastSeq
    BY <1>2 DEF SyncInv, serverVars
  <2>2. IsFiniteSet(next.page) /\ next.page \subseteq ServerRow
    BY <1>3, <2>1, FS_Subset DEF LogInv
  <2>3. \A x, y \in next.page : x.rec = y.rec /\ x.ver = y.ver => x = y
    BY <1>3, <2>1 DEF LogInv
  <2>4. \A x \in next.page : x.seq <= lastSeq /\ x.rec \in created
    BY <1>3, <2>1 DEF LogInv
  <2>. QED
    BY <1>2, <1>4, <2>1, <2>2, <2>3, <2>4 DEF PageFits
<1>7. RoundFits(d)'
  BY <1>3, <1>4, <1>6 DEF RoundFits
<1>8. cursor' \in [Device -> 0..lastSeq]
      /\ spent' \in [refused : 0..MaxRefusals, broken : 0..MaxBreaks, late : 0..MaxLate]
  BY <1>2 DEF SyncInv, Shapes
<1>. QED
  BY <1>1, <1>4, <1>5, <1>7, <1>8, DeviceStepKeepsInv
LEMMA ApplyPageKeepsInv ==
  ASSUME SyncInv, NEW d \in Device, ApplyPage(d)
  PROVE  SyncInv'
<1> DEFINE r == round[d]
           seqs == {cursor[d]} \cup { x.seq : x \in r.page }
           next == CASE r.more -> [at |-> "ask", again |-> r.again]
                     [] ~r.more /\ r.again -> [at |-> "repush"]
                     [] OTHER -> Idle
           merged == MergedBy(Device0(d), r.page)
<1>1. /\ Go(d, next) /\ late' = late /\ spent' = spent /\ UNCHANGED serverVars
      /\ created' = created /\ r.at = "page" /\ cursor' = [cursor EXCEPT ![d] = Newest(seqs)]
  BY DEF ApplyPage
<1>2. PICK ids \in Bijection(merged, nextId..(nextId + Cardinality(merged) - 1)) :
        Keep(d, ApplyRows(Device0(d), r.page, ids))
  BY DEF ApplyPage
<1>3. next.at \in {"ask", "repush", "idle"}
  BY DEF Idle
<1>4. /\ r.page \subseteq ServerRow /\ IsFiniteSet(r.page)
      /\ \A x, y \in r.page : x.rec = y.rec /\ x.ver = y.ver => x = y
      /\ \A x \in r.page : x.seq <= lastSeq /\ x.rec \in created
  BY <1>1 DEF SyncInv, RoundFits, PageFits
<1>5. /\ DevFits(Device0(d)) /\ IsDev(Device0(d)) /\ Device0(d).id = nextId
      /\ created \subseteq Record
  BY DeviceFacts
<1> DEFINE new == ApplyRows(Device0(d), r.page, ids)
<1> HIDE DEF next, r
<1>6. Keeps(Device0(d), new, { row.rec : row \in r.page })
  BY <1>2, <1>4, <1>5, ApplyFits
<1>7. { row.rec : row \in r.page } \subseteq created'
  BY <1>1, <1>4
<1> HIDE DEF new
<1>8. Keeps(Device0(d), new, created')
  BY <1>6, <1>7, KeepsMore
<1>9. DeviceStep(d, new)
  BY <1>1, <1>2, <1>5, <1>8 DEF DeviceStep, Keep, new
<1>10. round'[d] = next /\ round' = [g \in Device |-> round'[g]]
       /\ \A g \in Device \ {d} : round'[g] = round[g]
  BY <1>1, GoFacts
<1>11. Batches' \subseteq Batches
  <2>1. next.at # "sent"
    BY <1>3
  <2>. QED
    BY <1>1, <2>1, BatchesGo
<1>12. RoundFits(d)'
  BY <1>3, <1>10 DEF RoundFits
<1>13. cursor' \in [Device -> 0..lastSeq]
  <2>1. lastSeq \in Nat /\ cursor \in [Device -> 0..lastSeq]
    BY DEF SyncInv, LogInv, Shapes
  <2>2. \A n \in seqs : n \in 0..lastSeq
    BY <1>4, <2>1 DEF ServerRow
  <2>3. IsFiniteSet(seqs)
    <3> DEFINE f == [x \in r.page |-> x.seq]
               S == { f[x] : x \in r.page }
               C == {cursor[d]}
    <3>1. f = [x \in r.page |-> f[x]]
      OBVIOUS
    <3>2. seqs = C \cup S
      OBVIOUS
    <3>3. IsFiniteSet(C)
      BY FS_Singleton
    <3> HIDE DEF f, C, seqs
    <3>4. IsFiniteSet(S)
      BY <1>4, <3>1, FiniteImage
    <3>. QED
      BY <3>2, <3>3, <3>4, FiniteUnion
  <2>4. cursor[d] \in seqs
    OBVIOUS
  <2> HIDE DEF seqs
  <2>5. seqs \in SUBSET Nat /\ seqs # {}
    BY <2>1, <2>2, <2>4
  <2>6. \E n \in seqs : \A m \in seqs : m <= n
    BY <2>3, <2>5, GreatestNumber
  <2>7. Newest(seqs) \in seqs
    BY <2>6, Zenon DEF Newest
  <2>. QED
    BY <1>1, <2>1, <2>2, <2>7
<1>14. spent' \in [refused : 0..MaxRefusals, broken : 0..MaxBreaks, late : 0..MaxLate]
       /\ lastSeq' = lastSeq
  BY <1>1 DEF SyncInv, Shapes, serverVars
<1>. QED
  BY <1>9, <1>10, <1>11, <1>12, <1>13, <1>14, DeviceStepKeepsInv

(* What waits of a record is not older than the first change of a batch    *)
(* that has all that waits before it.                                      *)
LEMMA NoneBefore ==
  ASSUME NEW Q, NEW b, NEW c \in b, NEW e \in Q, e.id = c.id, \A f \in Q : f.id \in Nat,
         \A g \in b : g.id \in Nat, \A g \in b : c.id <= g.id,
         \A f \in Q : f.rec = e.rec /\ f.id < e.id => \E g \in b : g.id = f.id
  PROVE  \A f \in Q : f.rec = e.rec => e.id <= f.id
OBVIOUS

(* What an answer makes of a device's data: the change no longer waits if  *)
(* the answer ends its wait.                                               *)
LEMMA TakenFits ==
  ASSUME SyncInv, NEW d \in Device, round[d].at = "answered",
         NEW c, c = First(round[d].batch), NEW result, result = round[d].results[c.id],
         NEW new,
         \/ result.status = "applied" /\ new = AckPending(Device0(d), c.id, {result.row})
         \/ result.status # "applied" /\ Done(c, result) /\ new = AckPending(Device0(d), c.id, {})
         \/ ~Done(c, result) /\ new \in {Device0(d), Park(Device0(d), c.id)}
  PROVE  /\ Keeps(Device0(d), new, created) /\ c \in round[d].batch
         /\ Done(c, result) => \A e \in new.queue : e.id # c.id
<1> DEFINE b == round[d].batch
<1>1. AnswersFit(d)
  BY DEF SyncInv, RoundFits
<1>2. /\ DevFits(Device0(d)) /\ IsDev(Device0(d)) /\ Device0(d).rows = store[d]
      /\ Device0(d).queue = outbox[d] /\ Device0(d).id = nextId
  BY DeviceFacts
<1>3. \A e \in outbox[d] : e.id \in Nat
  BY <1>2, EntryTypes
<1>4. b \subseteq PushChange /\ b # {} /\ \A e \in b : e.id \in Nat
  BY <1>1 DEF AnswersFit, PushChange
<1>5. c \in b /\ \A e \in b : c.id <= e.id
  BY <1>4, FirstChange
<1>6. \A e \in outbox[d] : c.id = e.id =>
        /\ result.status = "applied" =>
             /\ result.row \in ServerRow /\ result.row.rec = e.rec /\ result.row.ver <= e.ver
        /\ Done(c, result) =>
             \A f \in outbox[d] : f.rec = e.rec /\ f.id < e.id => \E g \in b : g.id = f.id
  BY <1>1, <1>5 DEF AnswersFit
<1>7. result.status = "applied" => Done(c, result)
  BY DEF Done
<1> HIDE DEF b
<1>8. ASSUME Done(c, result), NEW e \in outbox[d], e.id = c.id
      PROVE  \A f \in outbox[d] : f.rec = e.rec => e.id <= f.id
  <2>1. \A f \in outbox[d] : f.rec = e.rec /\ f.id < e.id => \E g \in b : g.id = f.id
    BY <1>6, <1>8
  <2>. QED
    BY <1>3, <1>4, <1>5, <1>8, <2>1, NoneBefore, ZenonT(60)
<1>9. CASE ~Done(c, result)
  <2>1. new = Device0(d) \/ new = Park(Device0(d), c.id)
    BY <1>7, <1>9
  <2>2. Keeps(Device0(d), Device0(d), created)
    BY <1>2, KeepsItself, Zenon
  <2>3. Keeps(Device0(d), Park(Device0(d), c.id), created)
    BY <1>2, ParkFits, Zenon
  <2>4. Keeps(Device0(d), new, created)
    BY <2>1, <2>2, <2>3
  <2>. QED
    BY <1>5, <1>9, <2>4 DEF b
<1>10. CASE Done(c, result)
  <2>1. PICK serverRows :
          /\ new = AckPending(Device0(d), c.id, serverRows)
          /\ \/ serverRows = {} /\ result.status # "applied"
             \/ serverRows = {result.row} /\ result.status = "applied"
    BY <1>7, <1>10
  <2>2. CASE \A e \in outbox[d] : e.id # c.id
    <3>1. new = Device0(d)
      BY <1>2, <2>1, <2>2, AckNothing
    <3>2. Keeps(Device0(d), new, created)
      BY <1>2, <3>1, KeepsItself
    <3>. QED
      BY <1>2, <1>5, <2>2, <3>1, <3>2 DEF b
  <2>3. CASE \E e \in outbox[d] : e.id = c.id
    <3>1. PICK e \in outbox[d] : e.id = c.id
      BY <2>3
    <3>2. \A f \in Device0(d).queue : f.rec = e.rec => e.id <= f.id
      BY <1>2, <1>8, <1>10, <3>1
    <3>3. \/ serverRows = {}
          \/ \E row \in ServerRow : serverRows = {row} /\ row.rec = e.rec /\ row.ver <= e.ver
      BY <1>6, <2>1, <3>1
    <3>4. /\ Keeps(Device0(d), AckPending(Device0(d), e.id, serverRows), created)
          /\ AckPending(Device0(d), e.id, serverRows).queue = Device0(d).queue \ {e}
      BY <1>2, <3>2, <3>3, AckFits
    <3>5. \A f \in outbox[d] : f.id = e.id => f = e
      BY <1>2 DEF DevFits, QueueFits
    <3>. QED
      BY <1>2, <1>5, <2>1, <3>1, <3>4, <3>5 DEF b
  <2>. QED
    BY <2>2, <2>3
<1>. QED
  BY <1>9, <1>10

LEMMA TakeResultKeepsInv ==
  ASSUME SyncInv, NEW d \in Device, TakeResult(d)
  PROVE  SyncInv'
<1> DEFINE r == round[d]
           c == First(round[d].batch)
           result == r.results[c.id]
           done == \/ result.status = "applied"
                   \/ result.status = "not_found" /\ c.kind = "purged"
           new == CASE result.status = "applied" -> AckPending(Device0(d), c.id, {result.row})
                    [] done /\ result.status # "applied" -> AckPending(Device0(d), c.id, {})
                    [] result.status = "stale" -> Device0(d)
                    [] OTHER -> Park(Device0(d), c.id)
           again == r.again \/ ~done
           after == AfterPush(r.repush, again)
           on == [at |-> "answered", batch |-> r.batch \ {c}, results |-> r.results,
                  again |-> again, repush |-> r.repush]
           next == IF r.batch = {c} THEN after ELSE on
<1>1. /\ Keep(d, new) /\ Go(d, next) /\ UNCHANGED <<serverVars, cursor, late, spent, created>>
      /\ r.at = "answered"
  BY DEF TakeResult, TakeResultOf
<1>2. \/ result.status = "applied" /\ new = AckPending(Device0(d), c.id, {result.row})
      \/ result.status # "applied" /\ Done(c, result) /\ new = AckPending(Device0(d), c.id, {})
      \/ ~Done(c, result) /\ new \in {Device0(d), Park(Device0(d), c.id)}
  BY DEF Done
<1>3. after.at \in {"idle", "ask"}
  BY DEF AfterPush, Idle
<1>4. on.at = "answered" /\ on.batch = r.batch \ {c} /\ on.results = r.results
  OBVIOUS
<1>5. next = after \/ (r.batch # {c} /\ next = on)
  OBVIOUS
<1> HIDE DEF new, next, after, on, again, done, result, c
<1>6. /\ Keeps(Device0(d), new, created) /\ c \in r.batch
      /\ Done(c, result) => \A e \in new.queue : e.id # c.id
  BY <1>1, <1>2, TakenFits DEF c, result
<1>7. created \subseteq Record
  BY DeviceFacts
<1>8. DeviceStep(d, new)
  BY <1>1, <1>6, <1>7 DEF DeviceStep, Keep
<1>9. round'[d] = next /\ round' = [g \in Device |-> round'[g]]
      /\ \A g \in Device \ {d} : round'[g] = round[g]
  BY <1>1, GoFacts
<1>10. Batches' \subseteq Batches
  <2>1. next.at # "sent" /\ late' \subseteq late
    BY <1>1, <1>3, <1>4, <1>5
  <2>. QED
    BY <1>1, <2>1, BatchesGo
<1>11. next = on /\ r.batch # {c} => AnswersFit(d)'
  <2>. SUFFICES ASSUME next = on, r.batch # {c} PROVE AnswersFit(d)'
    OBVIOUS
  <2>1. /\ DevFits(Device0(d)) /\ DevFits(Device0(d))' /\ Follows(Device0(d), Device0(d)')
        /\ nextId \in Nat
    BY <1>8, DeviceStepFollows
  <2>2. AnswersFit(d)
    BY <1>1 DEF SyncInv, RoundFits
  <2>3. /\ round'[d].results = round[d].results /\ round'[d].batch = round[d].batch \ {c}
        /\ round'[d].batch # {} /\ round'[d].batch \subseteq round[d].batch
    BY <1>4, <1>6, <1>9
  <2>4. outbox'[d] = new.queue
    <3>1. outbox = [g \in Device |-> outbox[g]] /\ outbox' = [outbox EXCEPT ![d] = new.queue]
      BY <1>8 DEF SyncInv, Shapes, DeviceStep
    <3>. QED
      BY <3>1, Zenon
  <2>5. \A k \in round[d].batch \ round'[d].batch :
          Done(k, round[d].results[k.id]) => \A e \in outbox'[d] : e.id # k.id
    BY <1>6, <2>3, <2>4 DEF result
  <2>. QED
    BY <2>1, <2>2, <2>3, <2>5, AnswersKept
<1>12. RoundFits(d)'
  BY <1>3, <1>4, <1>5, <1>9, <1>11 DEF RoundFits
<1>13. cursor' \in [Device -> 0..lastSeq]
       /\ spent' \in [refused : 0..MaxRefusals, broken : 0..MaxBreaks, late : 0..MaxLate]
  BY <1>1 DEF SyncInv, Shapes
<1>. QED
  BY <1>8, <1>9, <1>10, <1>12, <1>13, DeviceStepKeepsInv

(* A change as it is sent: its row waits, and there is one.                *)
LEMMA ToPushFacts ==
  ASSUME SyncInv, NEW d \in Device, NEW e \in outbox[d]
  PROVE  \E x \in Pending(store[d]) :
           /\ IsRowOf(x, e) /\ x \in StoreRow /\ x.rec \in created
           /\ \A y \in Pending(store[d]) : IsRowOf(y, e) => y = x
           /\ ToPushChange(d, e)
                = [id |-> e.id, rec |-> e.rec, kind |-> x.kind, base |-> x.ver - 1, edits |-> x.edits]
<1>1. RowsFit(store[d]) /\ QueueFits(Pending(store[d]), outbox[d]) /\ Known(d)
  BY DeviceFacts
<1>2. PICK x \in Pending(store[d]) : IsRowOf(x, e)
  BY <1>1 DEF QueueFits
<1>3. x \in store[d] /\ x \in StoreRow
  BY <1>1, PendingRows
<1>4. \A y \in store[d] : IsRowOf(y, e) => y = x
  BY <1>1, <1>2, <1>3 DEF RowsFit, IsRowOf
<1>5. (CHOOSE y \in store[d] : y.rec = e.rec /\ y.ver = e.ver) = x
  BY <1>2, <1>3, <1>4 DEF IsRowOf
<1>6. ToPushChange(d, e)
        = [id |-> e.id, rec |-> e.rec, kind |-> x.kind, base |-> x.ver - 1, edits |-> x.edits]
  BY <1>5 DEF ToPushChange
<1>7. \A y \in Pending(store[d]) : y \in store[d]
  BY DEF Pending
<1>. QED
  BY <1>1, <1>2, <1>3, <1>4, <1>6, <1>7 DEF Known

(* The entries a device sends, as it does: all of a record or none.        *)
Sent(d) == { e \in outbox[d] : \A f \in Of(outbox[d], e.rec) : ~f.parked }

LEMMA SentChanges ==
  ASSUME SyncInv, NEW d \in Device
  PROVE  /\ Sendable(d) = { ToPushChange(d, e) : e \in Sent(d) }
         /\ Sent(d) \in SUBSET outbox[d] /\ IsFiniteSet(Sendable(d))
         /\ \A e \in Sent(d), f \in outbox[d] : f.rec = e.rec => f \in Sent(d)
         /\ \A c \in Sendable(d) : \E e \in Sent(d), x \in Pending(store[d]) :
              /\ c \in PushChange /\ c.id = e.id /\ c.rec = e.rec /\ c.kind = x.kind
              /\ c.base = e.ver - 1 /\ IsRowOf(x, e) /\ x \in StoreRow /\ e.rec \in created
              /\ \A y \in Pending(store[d]) : IsRowOf(y, e) => y = x
         /\ \A e \in Sent(d) : \E c \in Sendable(d) : c.id = e.id
<1> DEFINE f == [e \in Sent(d) |-> ToPushChange(d, e)]
<1>1. Sendable(d) = { ToPushChange(d, e) : e \in Sent(d) }
  BY DEF Sendable, Sent
<1>2. Sent(d) \in SUBSET outbox[d]
  BY DEF Sent
<1>3. IsFiniteSet(Sendable(d))
  <2>1. Sendable(d) = { f[e] : e \in Sent(d) } /\ f = [e \in Sent(d) |-> f[e]]
    BY <1>1
  <2>2. IsFiniteSet(Sent(d))
    BY <1>2, DeviceFacts, FS_Subset DEF QueueFits
  <2> HIDE DEF f
  <2>. QED
    BY <2>1, <2>2, FiniteImage
<1>4. \A e \in Sent(d), g \in outbox[d] : g.rec = e.rec => g \in Sent(d)
  BY DEF Sent, Of
<1>5. ASSUME NEW e \in Sent(d)
      PROVE  \E x \in Pending(store[d]) :
               /\ ToPushChange(d, e) \in PushChange /\ ToPushChange(d, e).id = e.id
               /\ ToPushChange(d, e).rec = e.rec /\ ToPushChange(d, e).kind = x.kind
               /\ ToPushChange(d, e).base = e.ver - 1 /\ IsRowOf(x, e) /\ x \in StoreRow
               /\ e.rec \in created
               /\ \A y \in Pending(store[d]) : IsRowOf(y, e) => y = x
  <2>1. PICK x \in Pending(store[d]) :
           /\ IsRowOf(x, e) /\ x \in StoreRow /\ x.rec \in created
           /\ \A y \in Pending(store[d]) : IsRowOf(y, e) => y = x
           /\ ToPushChange(d, e)
                = [id |-> e.id, rec |-> e.rec, kind |-> x.kind, base |-> x.ver - 1, edits |-> x.edits]
    BY <1>2, ToPushFacts
  <2>2. e \in Entry
    BY <1>2, DeviceFacts, EntryTypes
  <2>3. x.ver = e.ver /\ x.rec = e.rec /\ x.ver - 1 \in Nat
    BY <2>1 DEF IsRowOf, StoreRow
  <2>4. ToPushChange(d, e) \in PushChange
    BY <2>1, <2>2, <2>3 DEF PushChange, Entry, StoreRow
  <2>. QED
    BY <2>1, <2>3, <2>4
<1>6. \A c \in Sendable(d) : \E e \in Sent(d) : c = ToPushChange(d, e)
  BY <1>1
<1>7. \A e \in Sent(d) : \E c \in Sendable(d) : c = ToPushChange(d, e)
  BY <1>1
<1>8. \A c \in Sendable(d) : \E e \in Sent(d), x \in Pending(store[d]) :
              /\ c \in PushChange /\ c.id = e.id /\ c.rec = e.rec /\ c.kind = x.kind
              /\ c.base = e.ver - 1 /\ IsRowOf(x, e) /\ x \in StoreRow /\ e.rec \in created
              /\ \A y \in Pending(store[d]) : IsRowOf(y, e) => y = x
  BY <1>5, <1>6
<1>9. \A e \in Sent(d) : \E c \in Sendable(d) : c.id = e.id
  BY <1>5, <1>7
<1>. QED
  BY <1>1, <1>2, <1>3, <1>4, <1>8, <1>9

LEMMA SendableFits ==
  ASSUME SyncInv, NEW d \in Device
  PROVE  /\ BatchFits(Sendable(d)) /\ \A g \in Device : StillWaits(Sendable(d), g)
         /\ \A c \in Sendable(d) : \E e \in outbox[d] : c.id = e.id /\ c.rec = e.rec
<1> DEFINE b == Sendable(d)
           W == Pending(store[d])
<1>1. /\ Sent(d) \in SUBSET outbox[d] /\ IsFiniteSet(b)
      /\ \A e \in Sent(d), f \in outbox[d] : f.rec = e.rec => f \in Sent(d)
      /\ \A c \in b : \E e \in Sent(d), x \in W :
              /\ c \in PushChange /\ c.id = e.id /\ c.rec = e.rec /\ c.kind = x.kind
              /\ c.base = e.ver - 1 /\ IsRowOf(x, e) /\ x \in StoreRow /\ e.rec \in created
              /\ \A y \in W : IsRowOf(y, e) => y = x
      /\ \A e \in Sent(d) : \E c \in b : c.id = e.id
      /\ b = { ToPushChange(d, e) : e \in Sent(d) }
  BY SentChanges
<1>2. KindsFit(W) /\ QueueFits(W, outbox[d])
  BY DeviceFacts
<1>3. \A e \in outbox[d] : e.id \in Nat /\ e.ver \in Nat \ {0} /\ e.id < nextId
  <2>1. \A e \in outbox[d] : e \in Entry /\ e.id \in Nat /\ e.id < nextId
    BY DeviceFacts, EntryTypes
  <2>. QED
    BY <2>1 DEF Entry
<1>4. \A e, f \in outbox[d] : (e.id = f.id => e = f) /\ (e.rec = f.rec /\ e.id < f.id => e.ver < f.ver)
  BY <1>2 DEF QueueFits
<1>5. \A x \in W : \E e \in outbox[d] : IsRowOf(x, e)
  BY <1>2 DEF QueueFits
<1>6. \A x, y \in W : x.rec = y.rec /\ x.ver < y.ver =>
        /\ y.kind # "purged"
        /\ y.kind = "deleted" => \E p \in W :
             p.rec = y.rec /\ x.ver <= p.ver /\ p.ver < y.ver /\ p.kind = "put"
  BY <1>2 DEF KindsFit
<1>7. \A x \in W : x.ver \in Nat
  BY DeviceFacts, PendingRows
<1>80. \A e \in Sent(d) : e \in outbox[d] /\ \A f \in outbox[d] : f.rec = e.rec => f \in Sent(d)
  BY <1>1
<1>81. \A g \in Device : \A e \in outbox[d], f \in outbox[g] : e.id = f.id => d = g
  BY DEF SyncInv, DeviceInv
<1> HIDE DEF b, W
<1>8. \A c, k \in b : c.id = k.id => c = k
  <2>. SUFFICES ASSUME NEW c \in b, NEW k \in b, c.id = k.id PROVE c = k
    OBVIOUS
  <2>1. PICK e \in Sent(d) : c = ToPushChange(d, e)
    BY <1>1
  <2>2. PICK f \in Sent(d) : k = ToPushChange(d, f)
    BY <1>1
  <2>3. c.id = e.id /\ k.id = f.id
    BY <2>1, <2>2 DEF ToPushChange
  <2>. QED
    BY <1>1, <1>4, <2>1, <2>2, <2>3
<1>9. ASSUME NEW c \in b, NEW k \in b, c.rec = k.rec, c.id < k.id
      PROVE  /\ c.base < k.base /\ k.kind # "purged"
             /\ k.kind = "deleted" => \E p \in b :
                  p.rec = k.rec /\ c.id <= p.id /\ p.id < k.id /\ p.kind = "put"
  <2>1. PICK e \in Sent(d), x \in W :
              /\ c \in PushChange /\ c.id = e.id /\ c.rec = e.rec /\ c.kind = x.kind
              /\ c.base = e.ver - 1 /\ IsRowOf(x, e)
    BY <1>1
  <2>2. PICK f \in Sent(d), y \in W :
              /\ k \in PushChange /\ k.id = f.id /\ k.rec = f.rec /\ k.kind = y.kind
              /\ k.base = f.ver - 1 /\ IsRowOf(y, f)
    BY <1>1
  <2>3. e \in outbox[d] /\ f \in outbox[d] /\ e.ver < f.ver
    BY <1>1, <1>4, <1>9, <2>1, <2>2
  <2>4. c.base < k.base
    BY <1>3, <2>1, <2>2, <2>3
  <2>5. x.rec = y.rec /\ x.ver < y.ver /\ x.ver = e.ver /\ y.ver = f.ver /\ y.rec = k.rec
    BY <1>9, <2>1, <2>2, <2>3 DEF IsRowOf
  <2>6. k.kind # "purged"
    BY <1>6, <2>2, <2>5
  <2>7. ASSUME k.kind = "deleted"
        PROVE  \E p \in b : p.rec = k.rec /\ c.id <= p.id /\ p.id < k.id /\ p.kind = "put"
    <3>0. y.kind = "deleted" /\ x.rec = y.rec /\ x.ver < y.ver
      BY <2>2, <2>5, <2>7
    <3>1. PICK z \in W : z.rec = y.rec /\ x.ver <= z.ver /\ z.ver < y.ver /\ z.kind = "put"
      BY <1>6, <3>0, Zenon
    <3>2. PICK h \in outbox[d] : IsRowOf(z, h)
      BY <1>5
    <3>3. h.rec = k.rec /\ h.ver = z.ver /\ h \in Sent(d)
      <4>1. h.rec = f.rec /\ h.ver = z.ver
        BY <2>2, <2>5, <3>1, <3>2 DEF IsRowOf
      <4>. QED
        BY <1>80, <2>2, <4>1
    <3>4. h.id \in Nat /\ e.id \in Nat /\ f.id \in Nat /\ h.ver \in Nat /\ e.ver \in Nat /\ f.ver \in Nat
      BY <1>3, <2>3
    <3>5. e.ver <= h.ver /\ h.ver < f.ver /\ h.rec = e.rec /\ h.rec = f.rec
      BY <1>9, <2>1, <2>2, <2>5, <3>1, <3>3
    <3>6. e.id <= h.id
      <4>1. h.id < e.id => h.ver < e.ver
        BY <1>4, <2>3, <3>5
      <4>. QED
        BY <3>4, <3>5, <4>1
    <3>7. h.id < f.id
      BY <1>4, <2>3, <3>4, <3>5
    <3>8. PICK p \in b : p = ToPushChange(d, h)
      BY <1>1, <3>3
    <3>9. p.id = h.id /\ p.rec = h.rec
      BY <3>8 DEF ToPushChange
    <3>10. p.kind = "put"
      <4>1. PICK h0 \in Sent(d), z0 \in W :
              /\ p.id = h0.id /\ p.kind = z0.kind /\ IsRowOf(z0, h0)
              /\ \A q \in W : IsRowOf(q, h0) => q = z0
        BY <1>1
      <4>2. h0 = h
        <5>1. h0 \in outbox[d] /\ h0.id = h.id
          BY <1>80, <3>9, <4>1
        <5>. QED
          BY <1>4, <5>1
      <4>. QED
        BY <3>1, <3>2, <4>1, <4>2
    <3>. QED
      BY <2>1, <2>2, <3>3, <3>6, <3>7, <3>9, <3>10
  <2>. QED
    BY <2>4, <2>6, <2>7
<1>10. \A c \in b : c \in PushChange /\ c.id < nextId /\ c.rec \in created
  <2>. TAKE c \in b
  <2>1. PICK e \in Sent(d), x \in W : c \in PushChange /\ c.id = e.id /\ c.rec = e.rec /\ e.rec \in created
    BY <1>1
  <2>. QED
    BY <1>1, <1>3, <2>1
<1>11. BatchFits(b)
  BY <1>1, <1>8, <1>9, <1>10 DEF BatchFits
<1>12. ASSUME NEW g \in Device, NEW c \in b, NEW e \in outbox[g], c.id = e.id
       PROVE  /\ c.rec = e.rec /\ c.base < e.ver
              /\ \A x \in Pending(store[g]) : IsRowOf(x, e) => x.kind = c.kind
              /\ \A f \in outbox[g] : f.rec = e.rec /\ f.id < e.id => \E h \in b : h.id = f.id
  <2>1. PICK e0 \in Sent(d), x \in W :
              /\ c.id = e0.id /\ c.rec = e0.rec /\ c.kind = x.kind /\ c.base = e0.ver - 1
              /\ \A y \in W : IsRowOf(y, e0) => y = x
    BY <1>1
  <2>2. g = d
    <3>1. e0 \in outbox[d] /\ e0.id = e.id
      BY <1>80, <1>12, <2>1
    <3>. QED
      BY <1>81, <3>1
  <2>3. e0 = e
    <3>1. e0 \in outbox[d] /\ e \in outbox[d] /\ e0.id = e.id
      BY <1>80, <1>12, <2>1, <2>2
    <3>. QED
      BY <1>4, <3>1
  <2>4. c.base < e.ver
    BY <1>1, <1>3, <2>1, <2>3
  <2>5. \A f \in outbox[g] : f.rec = e.rec /\ f.id < e.id => \E h \in b : h.id = f.id
    BY <1>1, <2>1, <2>2, <2>3
  <2>. QED
    BY <2>1, <2>2, <2>3, <2>4, <2>5 DEF W
<1>13. \A g \in Device : StillWaits(b, g)
  BY <1>12 DEF StillWaits
<1>14. \A c \in b : \E e \in outbox[d] : c.id = e.id /\ c.rec = e.rec
  BY <1>1
<1>. QED
  BY <1>11, <1>13, <1>14 DEF b

LEMMA SendKeepsInv ==
  ASSUME SyncInv, NEW d \in Device, Send(d)
  PROVE  SyncInv'
<1> DEFINE b == Sendable(d)
           repush == round[d].at = "repush"
           sent == [at |-> "sent", batch |-> b, repush |-> repush]
           after == AfterPush(repush, FALSE)
           next == IF b = {} THEN after ELSE sent
<1>1. /\ Go(d, next) /\ UNCHANGED <<serverVars, deviceVars, cursor, late, nextId, spent, created>>
  BY DEF Send
<1>2. sent.at = "sent" /\ sent.batch = b /\ after.at \in {"idle", "ask"}
      /\ (next = after \/ (next = sent /\ b # {}))
  BY DEF AfterPush, Idle
<1> HIDE DEF next, sent, after, repush, b
<1>3. round'[d] = next /\ round' = [g \in Device |-> round'[g]]
      /\ \A g \in Device \ {d} : round'[g] = round[g]
  BY <1>1, GoFacts
<1>4. DeviceStep(d, Device0(d))
  BY <1>1, NoDeviceStep
<1>5. RoundFits(d)'
  BY <1>2, <1>3 DEF RoundFits
<1>6. \A g \in Device : RoundFits(g)'
  BY <1>3, <1>4, <1>5, RoundKept
<1>7. /\ log' = log /\ lastSeq' = lastSeq /\ accepted' = accepted /\ store' = store /\ outbox' = outbox
      /\ cursor' = cursor /\ nextId' = nextId /\ spent' = spent /\ created' = created /\ belated' = belated
  BY <1>1 DEF serverVars, deviceVars
<1>8. Shapes'
  BY <1>3, <1>7 DEF SyncInv, Shapes
<1>9. DeviceInv'
  BY <1>7 DEF SyncInv, DeviceInv, Device0, Known
<1>10. LogInv'
  BY <1>7 DEF SyncInv, LogInv, BelowPurge
<1>11. \A g \in Device : StoredOf(g)'
  BY <1>7 DEF SyncInv, StoredOf
<1> DEFINE X == {b}
<1>12. \A h \in Batches' : h = b \/ h \in Batches
  <2>1. next.at = "sent" => next.batch \in X
    BY <1>2
  <2>2. late' \subseteq late \cup X
    BY <1>1
  <2> HIDE DEF X
  <2>3. Batches' \subseteq Batches \cup X
    BY <1>1, <2>1, <2>2, BatchesGo
  <2>. QED
    BY <2>3 DEF X
<1>13. /\ BatchFits(b) /\ \A g \in Device : StillWaits(b, g)
       /\ \A c \in b : \E e \in outbox[d] : c.id = e.id /\ c.rec = e.rec
  BY SendableFits DEF b
<1>14. BatchesInv /\ AcceptedInv
  BY DEF SyncInv
<1>15. \A h \in Batches' : BatchFits(h) /\ \A g \in Device : StillWaits(h, g)
  BY <1>12, <1>13, <1>14 DEF BatchesInv
<1>16. \A h \in Batches : \A c \in b, k \in h : c.id = k.id => c.rec = k.rec
  <2>. SUFFICES ASSUME NEW h \in Batches, NEW c \in b, NEW k \in h, c.id = k.id PROVE c.rec = k.rec
    OBVIOUS
  <2>1. PICK e \in outbox[d] : c.id = e.id /\ c.rec = e.rec
    BY <1>13
  <2>2. StillWaits(h, d)
    BY <1>14 DEF BatchesInv
  <2>. QED
    BY <2>1, <2>2 DEF StillWaits
<1>17. \A c, k \in b : c.id = k.id => c.rec = k.rec
  BY <1>13 DEF BatchFits
<1>18. \A h, i \in Batches' : \A c \in h, k \in i : c.id = k.id => c.rec = k.rec
  <2>. SUFFICES ASSUME NEW h \in Batches', NEW i \in Batches', NEW c \in h, NEW k \in i, c.id = k.id
                PROVE  c.rec = k.rec
    OBVIOUS
  <2>1. CASE h = b /\ i = b
    BY <1>17, <2>1
  <2>2. CASE h = b /\ i \in Batches
    BY <1>16, <2>2
  <2>3. CASE h \in Batches /\ i = b
    BY <1>16, <2>3
  <2>4. CASE h \in Batches /\ i \in Batches
    BY <1>14, <2>4 DEF BatchesInv
  <2>. QED
    BY <1>12, <2>1, <2>2, <2>3, <2>4
<1>19. BatchesInv'
  <2>1. \A h \in Batches' : BatchFits(h)' /\ \A g \in Device : StillWaits(h, g)'
    BY <1>7, <1>15 DEF BatchFits, StillWaits
  <2>. QED
    BY <1>18, <2>1 DEF BatchesInv
<1>20. AcceptedInv'
  <2>1. ASSUME NEW h \in Batches', NEW c \in h, c.id \in accepted PROVE ThereOrPurged(c)
    <3>1. CASE h \in Batches
      BY <1>14, <2>1, <3>1 DEF AcceptedInv
    <3>2. CASE h = b
      <4>1. PICK e \in outbox[d] : c.id = e.id /\ c.rec = e.rec
        BY <1>13, <2>1, <3>2
      <4>2. ThereOrPurged(e)
        BY <1>14, <2>1, <4>1 DEF AcceptedInv
      <4>. QED
        BY <4>1, <4>2 DEF ThereOrPurged, IsStored
    <3>. QED
      BY <1>12, <3>1, <3>2
  <2>2. \A g \in Device : \A e \in outbox[g] : e.id \in accepted => ThereOrPurged(e)
    BY <1>14 DEF AcceptedInv
  <2>3. \A h \in Batches' : \A c \in h : c.id \in accepted' => ThereOrPurged(c)'
    BY <1>7, <2>1 DEF ThereOrPurged, IsStored
  <2>4. \A g \in Device : \A e \in outbox'[g] : e.id \in accepted' => ThereOrPurged(e)'
    BY <1>7, <2>2 DEF ThereOrPurged, IsStored
  <2>. QED
    BY <2>3, <2>4 DEF AcceptedInv
<1>. QED
  BY <1>6, <1>8, <1>9, <1>10, <1>11, <1>19, <1>20 DEF SyncInv
-------------------------------------------------------------------------------
(***************************************************************************)
(* A push on the server: which of a batch's changes become rows.           *)
(***************************************************************************)
LEMMA HeadOnServer ==
  ASSUME LogInv, NEW r
  PROVE  /\ ServerHead(log, r).ver \in Nat /\ ServerHead(log, r).kind \in Kind
         /\ ServerHead(log, r).edits \in SUBSET Nat
         /\ \A x \in log : x.rec = r => x.ver <= ServerHead(log, r).ver
         /\ ServerHead(log, r).ver # 0 =>
              ServerHead(log, r) \in log /\ ServerHead(log, r).rec = r
         /\ ServerHead(log, r).kind = "purged" =>
              \A x \in log : x.rec = r => x = ServerHead(log, r)
<1> DEFINE head == ServerHead(log, r)
<1>1. /\ \A x \in log : x \in ServerRow
      /\ \A x, y \in log : x.rec = y.rec /\ x.ver = y.ver => x = y
      /\ BelowPurge(log) = {}
  BY DEF LogInv
<1>2. CASE Of(log, r) = {}
  <2>1. head = [ver |-> 0, kind |-> "put", edits |-> {}]
    BY <1>2 DEF ServerHead
  <2>2. head.ver = 0 /\ head.kind = "put" /\ head.edits = {}
    BY <2>1
  <2>3. \A x \in log : x.rec # r
    BY <1>2 DEF Of
  <2> HIDE DEF head
  <2>4. head.ver \in Nat /\ head.kind \in Kind /\ head.edits \in SUBSET Nat
    BY <2>2 DEF Kind
  <2>. QED
    BY <2>2, <2>3, <2>4 DEF head
<1>3. CASE Of(log, r) # {}
  <2>1. head = Highest(Of(log, r))
    BY <1>3 DEF ServerHead, HeadOf
  <2>2. Of(log, r) \in SUBSET log /\ \A x \in Of(log, r) : x.rec = r
    BY DEF Of
  <2>3. IsFiniteSet(Of(log, r)) /\ \A x \in Of(log, r) : x.ver \in Nat
    BY <1>1, <2>2, FS_Subset DEF LogInv, ServerRow
  <2>4. head \in Of(log, r) /\ \A x \in Of(log, r) : x.ver <= head.ver
    BY <1>3, <2>1, <2>3, HighestRow
  <2> HIDE DEF head
  <2>5. head \in log /\ head.rec = r /\ head \in ServerRow
    BY <1>1, <2>2, <2>4
  <2>6. \A x \in log : x.rec = r => x.ver <= head.ver
    BY <2>4 DEF Of
  <2>7. ASSUME head.kind = "purged", NEW x \in log, x.rec = r PROVE x = head
    <3>1. x.ver \in Nat /\ head.ver \in Nat
      BY <1>1, <2>5 DEF ServerRow
    <3>2. ~(x.ver < head.ver)
      BY <1>1, <2>5, <2>7 DEF BelowPurge
    <3>3. x.ver = head.ver
      BY <2>6, <2>7, <3>1, <3>2
    <3>. QED
      BY <1>1, <2>5, <2>7, <3>3
  <2>8. head.ver \in Nat /\ head.kind \in Kind /\ head.edits \in SUBSET Nat
    BY <2>5 DEF ServerRow
  <2>. QED
    BY <2>5, <2>6, <2>7, <2>8 DEF head
<1>. QED
  BY <1>2, <1>3

(* The place of a change among a chain's: the one before it is the last of *)
(* those before it.                                                        *)
LEMMA Rank ==
  ASSUME NEW F, IsFiniteSet(F), \A c \in F : c.id \in Nat, \A c, e \in F : c.id = e.id => c = e,
         NEW c \in F
  PROVE  /\ Cardinality({ e \in F : e.id < c.id }) \in Nat
         /\ Cardinality({ e \in F : e.id <= c.id }) = Cardinality({ e \in F : e.id < c.id }) + 1
         /\ \/ Cardinality({ e \in F : e.id < c.id }) = 0
            \/ \E p \in F : /\ p.id < c.id
                            /\ \A e \in F : e.id < c.id => e.id <= p.id
                            /\ { e \in F : e.id < c.id } = { e \in F : e.id <= p.id }
<1> DEFINE S == { e \in F : e.id < c.id }
           T == { e \in F : e.id <= c.id }
<1>1. S \in SUBSET F /\ c \notin S /\ T = S \cup {c}
  OBVIOUS
<1>2. IsFiniteSet(S) /\ \A e \in S : e.id \in Nat /\ e \in F /\ e.id < c.id
  BY FS_Subset
<1>5. \A e \in F : e.id < c.id => e \in S
  OBVIOUS
<1> HIDE DEF S, T
<1>3. Cardinality(S) \in Nat /\ Cardinality(T) = Cardinality(S) + 1
  BY <1>1, <1>2, FS_AddElement, FS_CardinalityType
<1>4. Cardinality(S) = 0 \/ \E p \in F : /\ p.id < c.id
                                         /\ \A e \in F : e.id < c.id => e.id <= p.id
                                         /\ S = { e \in F : e.id <= p.id }
  <2>1. CASE S = {}
    BY <2>1, FS_EmptySet
  <2>2. CASE S # {}
    <3>1. PICK p \in S : \A e \in S : e.id <= p.id
      BY <1>2, <2>2, LastChange
    <3>2. p \in F /\ p.id < c.id /\ p.id \in Nat
      BY <1>2, <3>1
    <3>3. \A e \in F : e.id < c.id <=> e.id <= p.id
      BY <1>5, <3>1, <3>2
    <3>4. S = { e \in F : e.id <= p.id }
      BY <3>3 DEF S
    <3>. QED
      BY <3>2, <3>3, <3>4
  <2>. QED
    BY <2>1, <2>2
<1>. QED
  BY <1>3, <1>4 DEF S, T

(* The changes a push appends, the rows they become and what is there then *)
(* before history below a purge goes.                                      *)
NewOf(b, refused) ==
  { c \in b : ~IsStored(log, c) /\ ChainFailure(Fresh(b, c.rec), c.rec, refused) = "none" }

RowFor(b, refused, c) ==
  NextVersion(Fresh(b, c.rec), c, lastSeq + Cardinality(UpToChange(b, NewOf(b, refused), c)))

AllOf(b, refused) == log \cup { RowFor(b, refused, c) : c \in NewOf(b, refused) }

LEMMA FreshFacts ==
  ASSUME NEW b, BatchFits(b), NEW r
  PROVE  /\ Fresh(b, r) = { c \in b : c.rec = r /\ ~IsStored(log, c) } /\ IsFiniteSet(Fresh(b, r))
         /\ \A c \in Fresh(b, r) : c \in b /\ c \in PushChange /\ c.id \in Nat /\ c.base \in Nat
         /\ \A c, e \in Fresh(b, r) : c.id = e.id => c = e
<1>1. Fresh(b, r) = { c \in b : c.rec = r /\ ~IsStored(log, c) }
  BY DEF Fresh, Of
<1>2. Fresh(b, r) \in SUBSET b
  BY <1>1
<1>3. IsFiniteSet(Fresh(b, r))
  BY <1>2, FS_Subset DEF BatchFits
<1>. QED
  BY <1>1, <1>2, <1>3 DEF BatchFits, PushChange

(* An accepted chain builds on the head without a gap.                     *)
LEMMA ChainFits ==
  ASSUME LogInv, NEW b, BatchFits(b), NEW refused, NEW r,
         ChainFailure(Fresh(b, r), r, refused) = "none", NEW c \in Fresh(b, r)
  PROVE  c.base = ServerHead(log, r).ver + Cardinality({ e \in Fresh(b, r) : e.id < c.id })
<1> DEFINE F == Fresh(b, r)
           v == ServerHead(log, r).ver
           n == Cardinality({ e \in F : e.id < c.id })
           failing == { e \in F : Failure(F, e, v) # "none" }
<1>1. /\ IsFiniteSet(F) /\ \A e \in F : e.id \in Nat
      /\ \A e, f \in F : e.id = f.id => e = f
  BY FreshFacts
<1>2. failing = {}
  <2>. SUFFICES ASSUME failing # {} PROVE FALSE
    OBVIOUS
  <2>1. First(failing) \in failing
    <3>1. \A e \in failing : e.id \in Nat
      BY <1>1
    <3> HIDE DEF failing
    <3>. QED
      BY <3>1, FirstChange
  <2>2. Failure(F, First(failing), v) # "none"
    BY <2>1
  <2>3. ChainFailure(F, r, refused) = Failure(F, First(failing), v)
    BY DEF ChainFailure
  <2>. QED
    BY <2>2, <2>3
<1>3. Failure(F, c, v) = "none"
  BY <1>2
<1>4. n \in Nat /\ v \in Nat
  <2> HIDE DEF F
  <2>. QED
    BY <1>1, Rank, HeadOnServer DEF F
<1>5. CASE v + n = 0
  BY <1>3, <1>5 DEF Failure
<1>6. CASE v + n # 0
  BY <1>3, <1>6 DEF Failure
<1>. QED
  BY <1>5, <1>6

LEMMA NewFacts ==
  ASSUME LogInv, NEW b, BatchFits(b), NEW refused
  PROVE  /\ NewOf(b, refused) \in SUBSET b /\ IsFiniteSet(NewOf(b, refused))
         /\ \A c \in NewOf(b, refused) :
              /\ c \in PushChange /\ c.id \in Nat \ {0} /\ c.base \in Nat /\ ~IsStored(log, c)
              /\ c \in Fresh(b, c.rec) /\ ChainFailure(Fresh(b, c.rec), c.rec, refused) = "none"
         /\ \A c \in NewOf(b, refused), e \in b :
              e.rec = c.rec /\ ~IsStored(log, e) => e \in NewOf(b, refused)
         /\ \A c \in NewOf(b, refused) : \A e \in Fresh(b, c.rec) : e \in NewOf(b, refused) /\ e.rec = c.rec
<1> DEFINE N == NewOf(b, refused)
<1>1. N = { c \in b : ~IsStored(log, c) /\ ChainFailure(Fresh(b, c.rec), c.rec, refused) = "none" }
  BY DEF NewOf
<1>2. N \in SUBSET b
  BY <1>1
<1>3. IsFiniteSet(N)
  BY <1>2, FS_Subset DEF BatchFits
<1>4. \A c \in N : /\ c \in b /\ ~IsStored(log, c)
                   /\ ChainFailure(Fresh(b, c.rec), c.rec, refused) = "none"
  BY <1>1
<1>5. \A c \in b : c \in PushChange /\ c.id \in Nat \ {0} /\ c.base \in Nat
  BY DEF BatchFits, PushChange
<1>6. \A r : Fresh(b, r) = { c \in b : c.rec = r /\ ~IsStored(log, c) }
  BY FreshFacts
<1>7. \A c \in N, e \in b : e.rec = c.rec /\ ~IsStored(log, e) => e \in N
  BY <1>1
<1> HIDE DEF N
<1>8. \A c \in N : c \in Fresh(b, c.rec)
  BY <1>4, <1>6
<1>9. \A c \in N : \A e \in Fresh(b, c.rec) : e \in b /\ e.rec = c.rec /\ ~IsStored(log, e)
  BY <1>6
<1>10. \A c \in N : \A e \in Fresh(b, c.rec) : e \in N /\ e.rec = c.rec
  BY <1>7, <1>9
<1>. QED
  BY <1>2, <1>3, <1>4, <1>5, <1>7, <1>8, <1>10 DEF N

(* What is appended is numbered from the head on, in the order of the      *)
(* changes.                                                                *)
LEMMA NewBases ==
  ASSUME LogInv, NEW b, BatchFits(b), NEW refused, NEW c \in NewOf(b, refused)
  PROVE  /\ ServerHead(log, c.rec).ver <= c.base
         /\ \/ c.base = ServerHead(log, c.rec).ver
            \/ \E p \in NewOf(b, refused) :
                 /\ p.rec = c.rec /\ p.id < c.id /\ p.base + 1 = c.base
                 /\ \A e \in NewOf(b, refused) : e.rec = c.rec /\ e.id < c.id => e.id <= p.id
         /\ ServerHead(log, c.rec).ver
              + Cardinality({ e \in Fresh(b, c.rec) : e.id <= c.id }) = c.base + 1
<1> DEFINE F == Fresh(b, c.rec)
           v == ServerHead(log, c.rec).ver
           below == Cardinality({ e \in F : e.id < c.id })
<1>1. /\ c \in F /\ ChainFailure(F, c.rec, refused) = "none"
      /\ \A e \in F : e \in NewOf(b, refused) /\ e.rec = c.rec
  BY NewFacts
<1>2. /\ IsFiniteSet(F) /\ \A e \in F : e.id \in Nat /\ e.base \in Nat
      /\ \A e, f \in F : e.id = f.id => e = f
  BY FreshFacts
<1>3. \A e \in F : e.base = v + Cardinality({ f \in F : f.id < e.id })
  BY <1>1, ChainFits
<1>4. v \in Nat
  BY HeadOnServer
<1>5. \A e \in NewOf(b, refused) : e.rec = c.rec => e \in F
  <2>1. \A e \in NewOf(b, refused) : e \in b /\ ~IsStored(log, e)
    BY NewFacts
  <2>. QED
    BY <2>1, FreshFacts
<1> HIDE DEF F, v
<1>6. /\ below \in Nat /\ Cardinality({ e \in F : e.id <= c.id }) = below + 1
      /\ \/ below = 0
         \/ \E p \in F : /\ p.id < c.id
                         /\ \A e \in F : e.id < c.id => e.id <= p.id
                         /\ { e \in F : e.id < c.id } = { e \in F : e.id <= p.id }
  BY <1>1, <1>2, Rank
<1>7. c.base = v + below
  BY <1>1, <1>3
<1>8. ASSUME NEW p \in F, { e \in F : e.id < c.id } = { e \in F : e.id <= p.id }
      PROVE  p.base + 1 = c.base
  <2> DEFINE below2 == Cardinality({ e \in F : e.id < p.id })
  <2>1. below2 \in Nat /\ Cardinality({ e \in F : e.id <= p.id }) = below2 + 1
    BY <1>2, Rank
  <2>2. below = below2 + 1
    BY <1>8, <2>1
  <2>3. p.base = v + below2
    BY <1>3
  <2> HIDE DEF below, below2
  <2>. QED
    BY <1>4, <1>7, <2>1, <2>2, <2>3
<1> HIDE DEF below
<1>9. \/ c.base = v
      \/ \E p \in NewOf(b, refused) :
           /\ p.rec = c.rec /\ p.id < c.id /\ p.base + 1 = c.base
           /\ \A e \in NewOf(b, refused) : e.rec = c.rec /\ e.id < c.id => e.id <= p.id
  <2>1. CASE below = 0
    BY <1>4, <1>7, <2>1
  <2>2. CASE below # 0
    <3>1. PICK p \in F : /\ p.id < c.id
                         /\ \A e \in F : e.id < c.id => e.id <= p.id
                         /\ { e \in F : e.id < c.id } = { e \in F : e.id <= p.id }
      BY <1>6, <2>2
    <3>2. p.base + 1 = c.base
      BY <1>8, <3>1
    <3>3. p \in NewOf(b, refused) /\ p.rec = c.rec
      BY <1>1
    <3>. QED
      BY <1>5, <3>1, <3>2, <3>3
  <2>. QED
    BY <2>1, <2>2
<1>10. v <= c.base /\ v + Cardinality({ e \in F : e.id <= c.id }) = c.base + 1
  BY <1>4, <1>6, <1>7
<1>. QED
  BY <1>9, <1>10 DEF F, v

(* Between two changes that are appended, the batch has none that is       *)
(* stored already.                                                         *)
LEMMA NoGap ==
  ASSUME LogInv, NEW b, BatchFits(b), NEW refused, NEW p \in NewOf(b, refused),
         NEW c \in NewOf(b, refused), NEW q \in b, p.rec = q.rec, q.rec = c.rec,
         p.id < q.id, q.id < c.id
  PROVE  q \in NewOf(b, refused)
<1> DEFINE N == NewOf(b, refused)
           above == { e \in N : e.rec = q.rec /\ q.id < e.id }
           m == First(above)
<1>. SUFFICES ASSUME q \notin N PROVE FALSE
  OBVIOUS
<1>1. \A e \in b : e.id \in Nat /\ e.base \in Nat
  BY DEF BatchFits, PushChange
<1>2. \A e, f \in b : (e.id = f.id => e = f) /\ (e.rec = f.rec /\ e.id < f.id => e.base < f.base)
  BY DEF BatchFits
<1>3. N \in SUBSET b
  BY NewFacts
<1>4. above # {} /\ \A e \in above : e \in N /\ e.id \in Nat /\ e.rec = q.rec /\ q.id < e.id
  BY <1>1, <1>3
<1>5. \A e \in N : e.rec = q.rec /\ q.id < e.id => e \in above
  OBVIOUS
<1> HIDE DEF above, N, m
<1>6. m \in above /\ \A e \in above : m.id <= e.id
  BY <1>4, FirstChange DEF m
<1>7. m \in N /\ m.rec = q.rec /\ q.id < m.id
  BY <1>4, <1>6
<1>8. /\ ServerHead(log, m.rec).ver <= m.base
      /\ \/ m.base = ServerHead(log, m.rec).ver
         \/ \E l \in N : /\ l.rec = m.rec /\ l.id < m.id /\ l.base + 1 = m.base
                         /\ \A e \in N : e.rec = m.rec /\ e.id < m.id => e.id <= l.id
  BY <1>7, NewBases DEF N
<1>9. p \in N /\ ServerHead(log, p.rec).ver <= p.base
  BY NewBases DEF N
<1>10. p.base < q.base /\ q.base < m.base /\ p.id < m.id
  <2>1. p \in b /\ m \in b
    BY <1>3, <1>7, <1>9
  <2>2. p.id < m.id
    BY <1>1, <1>7, <2>1
  <2>. QED
    BY <1>2, <1>7, <2>1, <2>2
<1>11. ServerHead(log, m.rec).ver \in Nat /\ p.rec = m.rec
  BY <1>7, HeadOnServer
<1>12. \A e \in {p, q, m} : e.id \in Nat /\ e.base \in Nat
  BY <1>1, <1>3, <1>7, <1>9
<1>13. PICK l \in N : /\ l.rec = m.rec /\ l.id < m.id /\ l.base + 1 = m.base
                      /\ p.id <= l.id
  <2>1. m.base # ServerHead(log, m.rec).ver
    BY <1>9, <1>10, <1>11, <1>12
  <2>. QED
    BY <1>8, <1>9, <1>10, <1>11, <2>1
<1>14. l \in b /\ l.id \in Nat /\ l.base \in Nat
  BY <1>1, <1>3
<1>15. ~(q.id < l.id)
  <2>1. q.id < l.id => m.id <= l.id
    BY <1>5, <1>6, <1>7, <1>13
  <2>. QED
    BY <1>12, <1>13, <1>14, <2>1
<1>16. l.id # q.id
  BY <1>2, <1>14
<1>17. l.base < q.base
  BY <1>2, <1>7, <1>12, <1>13, <1>14, <1>15, <1>16
<1>. QED
  BY <1>10, <1>12, <1>13, <1>14, <1>17

(* The kinds of what is appended: a purge is the first of its record, and  *)
(* comes from a change that is one or on top of one.                       *)
LEMMA KindsOfNew ==
  ASSUME LogInv, NEW b, BatchFits(b), NEW refused, NEW c \in NewOf(b, refused)
  PROVE  /\ RowFor(b, refused, c).kind \in Kind /\ RowFor(b, refused, c).edits \in SUBSET Nat
         /\ c.kind = "put" => RowFor(b, refused, c).kind = "put"
         /\ RowFor(b, refused, c).kind = "purged" =>
              /\ \A e \in NewOf(b, refused) : e.rec = c.rec => c.id <= e.id
              /\ \/ c.kind = "purged" /\ \A e \in b : e.rec = c.rec => c.id <= e.id
                 \/ c.kind = "deleted" /\ ServerHead(log, c.rec).kind = "purged"
<1> DEFINE N == NewOf(b, refused)
           F == Fresh(b, c.rec)
           head == ServerHead(log, c.rec)
           written == { e \in F : e.id <= c.id /\ e.kind # "deleted" }
           origin == IF written = {} THEN head ELSE Last(written)
           row == RowFor(b, refused, c)
<1>1. /\ row.kind = IF origin.kind = "purged" THEN "purged" ELSE c.kind
      /\ row.edits = IF row.kind = "purged" THEN {} ELSE origin.edits
  BY DEF RowFor, NextVersion
<1>2. c \in b /\ c \in F /\ c \in PushChange
  BY NewFacts
<1>3. IsFiniteSet(F) /\ \A e \in F : e \in b /\ e \in PushChange /\ e.id \in Nat
  BY FreshFacts
<1>4. \A e \in N : e \in b /\ (e.rec = c.rec => e \in F)
  <2>1. \A e \in N : e \in b /\ ~IsStored(log, e)
    BY NewFacts
  <2>. QED
    BY <2>1, FreshFacts
<1>5. \A e \in F : e \in N /\ e.rec = c.rec
  BY NewFacts
<1>6. \A e \in F : e.kind \in Kind /\ e.edits \in SUBSET Nat
  BY <1>3 DEF PushChange
<1>7. head.kind \in Kind /\ head.edits \in SUBSET Nat
  BY HeadOnServer
<1>8. \A e, f \in b :
        /\ e.id \in Nat
        /\ e.id = f.id => e = f
        /\ e.rec = f.rec /\ e.id < f.id =>
             /\ f.kind # "purged"
             /\ f.kind = "deleted" => \E p \in b :
                  p.rec = f.rec /\ e.id <= p.id /\ p.id < f.id /\ p.kind = "put"
  BY DEF BatchFits, PushChange
<1>9. \A e \in written : e \in F /\ e.id <= c.id /\ e.kind # "deleted" /\ e.id \in Nat
  BY <1>3
<1>10. \A e \in F : e.id <= c.id /\ e.kind # "deleted" => e \in written
  OBVIOUS
<1>11. IsFiniteSet(written)
  <2>1. written \in SUBSET F
    OBVIOUS
  <2> HIDE DEF written, F
  <2>. QED
    BY <1>3, <2>1, FS_Subset
<1> HIDE DEF written, F, N, head
<1>12. written # {} => Last(written) \in written /\ \A e \in written : e.id <= Last(written).id
  BY <1>9, <1>11, LastChange
<1>13. origin.kind \in Kind /\ origin.edits \in SUBSET Nat
  BY <1>6, <1>7, <1>9, <1>12
<1> HIDE DEF row
<1>14. row.kind \in Kind /\ row.edits \in SUBSET Nat
  <2> HIDE DEF origin
  <2>. QED
    BY <1>1, <1>2, <1>6, <1>13 DEF Kind
<1>15. c.kind = "put" => origin = c
  <2>. SUFFICES ASSUME c.kind = "put" PROVE origin = c
    OBVIOUS
  <2>1. c \in written
    BY <1>2, <1>3, <1>10
  <2>2. Last(written) \in F /\ c.id <= Last(written).id /\ Last(written).id <= c.id
    BY <1>9, <1>12, <2>1
  <2>3. Last(written) = c
    BY <1>2, <1>3, <1>8, <2>2
  <2>. QED
    BY <2>1, <2>3
<1>16. c.kind = "put" => row.kind = "put"
  BY <1>1, <1>15
(* Nothing but deletes lies between a purge, or an earlier change, and a   *)
(* delete that is appended on top of it, which cannot be.                  *)
<1>17. ASSUME NEW e \in N, e.rec = c.rec, e.id < c.id, c.kind = "deleted"
       PROVE  \E q \in written : q.kind = "put" /\ e.id <= q.id /\ q.id < c.id
  <2>1. PICK q \in b : q.rec = c.rec /\ e.id <= q.id /\ q.id < c.id /\ q.kind = "put"
    BY <1>2, <1>4, <1>8, <1>17
  <2>2. e \in b /\ e.id \in Nat /\ q.id \in Nat /\ c.id \in Nat
    BY <1>2, <1>4, <1>8
  <2>3. q \in N
    <3>1. CASE e.id = q.id
      BY <1>8, <1>17, <2>2, <3>1
    <3>2. CASE e.id # q.id
      <4>1. e.id < q.id
        BY <2>1, <2>2, <3>2
      <4>. QED
        BY <1>17, <2>1, <4>1, NoGap DEF N
    <3>. QED
      BY <3>1, <3>2
  <2>4. q \in written
    BY <1>4, <1>10, <2>1, <2>2, <2>3
  <2>. QED
    BY <2>1, <2>4
<1>18. ASSUME row.kind = "purged"
       PROVE  /\ \A e \in N : e.rec = c.rec => c.id <= e.id
              /\ \/ c.kind = "purged" /\ \A e \in b : e.rec = c.rec => c.id <= e.id
                 \/ c.kind = "deleted" /\ head.kind = "purged"
  <2>1. c.kind # "put"
    BY <1>16, <1>18
  <2>2. CASE c.kind = "purged"
    <3>1. \A e \in b : e.rec = c.rec => c.id <= e.id
      <4>1. \A e \in b : e.rec = c.rec => ~(e.id < c.id)
        BY <1>2, <1>8, <2>2
      <4>2. c.id \in Nat /\ \A e \in b : e.id \in Nat
        BY <1>2, <1>8
      <4>. QED
        BY <4>1, <4>2
    <3>. QED
      BY <1>4, <2>2, <3>1
  <2>3. CASE c.kind = "deleted"
    <3>1. origin.kind = "purged"
      BY <1>1, <1>18, <2>3
    <3>2. written = {}
      <4>. SUFFICES ASSUME written # {} PROVE FALSE
        OBVIOUS
      <4>1. PICK p \in written : p.kind = "purged" /\ \A e \in written : e.id <= p.id
        BY <1>12, <3>1
      <4>2. p \in F /\ p.id <= c.id /\ p \in N /\ p.rec = c.rec /\ p # c
        BY <1>5, <1>9, <2>3, <4>1
      <4>3. p.id \in Nat /\ c.id \in Nat /\ p.id # c.id
        BY <1>2, <1>3, <1>8, <4>2
      <4>4. PICK q \in written : q.kind = "put" /\ p.id <= q.id /\ q.id < c.id
        BY <1>17, <2>3, <4>2, <4>3
      <4>5. q.id <= p.id /\ q.id \in Nat
        BY <1>9, <4>1
      <4>6. q = p
        BY <1>3, <1>8, <1>9, <4>2, <4>3, <4>4, <4>5
      <4>. QED
        BY <4>1, <4>4, <4>6
    <3>3. head.kind = "purged"
      BY <3>1, <3>2
    <3>4. \A e \in N : e.rec = c.rec => ~(e.id < c.id)
      BY <1>17, <2>3, <3>2
    <3>5. c.id \in Nat /\ \A e \in N : e.id \in Nat
      BY <1>2, <1>4, <1>8
    <3>. QED
      BY <2>3, <3>3, <3>4, <3>5
  <2>4. c.kind \in {"put", "deleted", "purged"}
    BY <1>2, <1>6 DEF Kind
  <2>. QED
    BY <2>1, <2>2, <2>3, <2>4
<1>. QED
  BY <1>14, <1>16, <1>18 DEF N, row, head

(* The chains' order gives each new row a sequence number of its own, in   *)
(* the order of a chain's changes.                                         *)
LEMMA SeqsOfNew ==
  ASSUME LogInv, NEW b, BatchFits(b), NEW refused
  PROVE  /\ \A c \in NewOf(b, refused) :
              Cardinality(UpToChange(b, NewOf(b, refused), c)) \in 1..Cardinality(NewOf(b, refused))
         /\ Cardinality(NewOf(b, refused)) \in Nat
         /\ \A c, e \in NewOf(b, refused) :
              /\ c # e => Cardinality(UpToChange(b, NewOf(b, refused), c))
                            # Cardinality(UpToChange(b, NewOf(b, refused), e))
              /\ c.rec = e.rec /\ c.id < e.id =>
                   Cardinality(UpToChange(b, NewOf(b, refused), c))
                     < Cardinality(UpToChange(b, NewOf(b, refused), e))
<1> DEFINE N == NewOf(b, refused)
           turn == [c \in N |-> First(Of(b, c.rec)).id]
           upTo == [c \in N |-> UpToChange(b, N, c)]
<1>1. N \in SUBSET b /\ IsFiniteSet(N)
  BY NewFacts
<1>2. \A c, e \in b : c.id \in Nat /\ (c.id = e.id => c = e)
  BY DEF BatchFits, PushChange
<1>3. ASSUME NEW c \in N
      PROVE  turn[c] \in Nat /\ \E e \in b : e.rec = c.rec /\ e.id = turn[c]
  <2> DEFINE S == Of(b, c.rec)
  <2>1. c \in S /\ \A e \in S : e \in b /\ e.rec = c.rec /\ e.id \in Nat
    BY <1>1, <1>2 DEF Of
  <2>2. turn[c] = First(S).id
    OBVIOUS
  <2> HIDE DEF S, turn
  <2>3. First(S) \in S
    BY <2>1, FirstChange
  <2>. QED
    BY <2>1, <2>2, <2>3
<1>4. \A c, e \in N : c.rec = e.rec => turn[c] = turn[e]
  OBVIOUS
<1>5. \A c \in N : upTo[c] = { e \in N : turn[e] < turn[c] \/ (e.rec = c.rec /\ e.id <= c.id) }
  BY DEF UpToChange
<1>6. \A c \in N : upTo[c] = UpToChange(b, N, c)
  OBVIOUS
<1> HIDE DEF N, turn, upTo
<1>7. \A c, e \in N : turn[c] = turn[e] => c.rec = e.rec
  BY <1>2, <1>3
<1>8. \A c \in N : c.id \in Nat /\ turn[c] \in Nat
  BY <1>1, <1>2, <1>3
<1>9. ASSUME NEW c \in N
      PROVE  /\ IsFiniteSet(upTo[c]) /\ Cardinality(upTo[c]) \in Nat /\ c \in upTo[c]
             /\ Cardinality(upTo[c]) \in 1..Cardinality(N) /\ Cardinality(N) \in Nat
  <2>1. upTo[c] \in SUBSET N /\ c \in upTo[c]
    BY <1>5, <1>8
  <2>2. IsFiniteSet(upTo[c]) /\ Cardinality(upTo[c]) <= Cardinality(N)
    BY <1>1, <2>1, FS_Subset
  <2>3. Cardinality(upTo[c]) \in Nat /\ Cardinality(N) \in Nat /\ Cardinality(upTo[c]) # 0
    BY <1>1, <2>1, <2>2, FS_CardinalityType, FS_EmptySet
  <2>. QED
    BY <2>1, <2>2, <2>3
<1>10. ASSUME NEW c \in N, NEW e \in N, turn[c] < turn[e] \/ (c.rec = e.rec /\ c.id < e.id)
       PROVE  Cardinality(upTo[c]) < Cardinality(upTo[e])
  <2>1. \A f \in upTo[c] : f \in upTo[e]
    <3>. SUFFICES ASSUME NEW f \in upTo[c] PROVE f \in upTo[e]
      OBVIOUS
    <3>1. f \in N /\ (turn[f] < turn[c] \/ (f.rec = c.rec /\ f.id <= c.id))
      BY <1>5
    <3>2. f.id \in Nat /\ turn[f] \in Nat /\ c.id \in Nat /\ turn[c] \in Nat /\ e.id \in Nat /\ turn[e] \in Nat
      BY <1>8, <3>1
    <3>3. (f.rec = c.rec => turn[f] = turn[c]) /\ (c.rec = e.rec => turn[c] = turn[e])
      BY <1>4, <3>1
    <3>4. turn[f] < turn[e] \/ (f.rec = e.rec /\ f.id <= e.id)
      BY <1>10, <3>1, <3>2, <3>3
    <3>. QED
      BY <1>5, <3>1, <3>4
  <2>2. e \notin upTo[c]
    <3>1. c.id \in Nat /\ turn[c] \in Nat /\ e.id \in Nat /\ turn[e] \in Nat
      BY <1>8
    <3>2. c.rec = e.rec => turn[c] = turn[e]
      BY <1>4
    <3>3. ~(turn[e] < turn[c] \/ (e.rec = c.rec /\ e.id <= c.id))
      BY <1>10, <3>1, <3>2
    <3>. QED
      BY <1>5, <3>3
  <2>3. /\ IsFiniteSet(upTo[e]) /\ Cardinality(upTo[c]) \in Nat /\ Cardinality(upTo[e]) \in Nat
        /\ e \in upTo[e]
    BY <1>9
  <2>4. /\ Cardinality(upTo[c]) <= Cardinality(upTo[e])
        /\ Cardinality(upTo[e]) = Cardinality(upTo[c]) => upTo[e] = upTo[c]
    <3>1. upTo[c] \in SUBSET upTo[e]
      BY <2>1
    <3>. QED
      BY <2>3, <3>1, FS_Subset
  <2>. QED
    BY <2>2, <2>3, <2>4
<1>11. \A c, e \in N : c # e => Cardinality(upTo[c]) # Cardinality(upTo[e])
  <2>. SUFFICES ASSUME NEW c \in N, NEW e \in N, c # e PROVE Cardinality(upTo[c]) # Cardinality(upTo[e])
    OBVIOUS
  <2>1. c.id # e.id
    BY <1>1, <1>2
  <2>2. \/ turn[c] < turn[e] \/ (c.rec = e.rec /\ c.id < e.id)
        \/ turn[e] < turn[c] \/ (e.rec = c.rec /\ e.id < c.id)
    BY <1>7, <1>8, <2>1
  <2>3. Cardinality(upTo[c]) < Cardinality(upTo[e]) \/ Cardinality(upTo[e]) < Cardinality(upTo[c])
    BY <1>10, <2>2
  <2>4. Cardinality(upTo[c]) \in Nat /\ Cardinality(upTo[e]) \in Nat
    BY <1>9
  <2>. QED
    BY <2>3, <2>4
<1>12. Cardinality(N) \in Nat
  BY <1>1, FS_CardinalityType
<1>. QED
  BY <1>6, <1>9, <1>10, <1>11, <1>12 DEF N

LEMMA NewRow ==
  ASSUME LogInv, NEW b, BatchFits(b), NEW refused, NEW c \in NewOf(b, refused)
  PROVE  /\ RowFor(b, refused, c) \in ServerRow
         /\ RowFor(b, refused, c).rec = c.rec /\ RowFor(b, refused, c).id = c.id
         /\ RowFor(b, refused, c).ver = c.base + 1
         /\ RowFor(b, refused, c).seq = lastSeq + Cardinality(UpToChange(b, NewOf(b, refused), c))
         /\ c.rec \in created /\ c.id < nextId /\ c.id \in Nat /\ c.base \in Nat
<1> DEFINE seq == lastSeq + Cardinality(UpToChange(b, NewOf(b, refused), c))
           ver == ServerHead(log, c.rec).ver
                    + Cardinality({ e \in Fresh(b, c.rec) : e.id <= c.id })
           row == RowFor(b, refused, c)
<1>1. \E k, s : row = [seq |-> seq, rec |-> c.rec, kind |-> k, id |-> c.id, ver |-> ver, edits |-> s]
  BY DEF RowFor, NextVersion
<1>2. ver = c.base + 1
  BY NewBases
<1>3. row.kind \in Kind /\ row.edits \in SUBSET Nat
  BY KindsOfNew
<1>4. seq \in Nat \ {0}
  <2>1. Cardinality(UpToChange(b, NewOf(b, refused), c)) \in 1..Cardinality(NewOf(b, refused))
        /\ Cardinality(NewOf(b, refused)) \in Nat
    BY SeqsOfNew
  <2>2. lastSeq \in Nat
    BY DEF LogInv
  <2>. QED
    BY <2>1, <2>2
<1>5. c \in b /\ c.id \in Nat \ {0} /\ c.base \in Nat /\ c.rec \in Record
  <2>1. c \in b /\ c \in PushChange
    BY NewFacts
  <2>. QED
    BY <2>1 DEF PushChange
<1>6. c.rec \in created /\ c.id < nextId
  BY <1>5 DEF BatchFits
<1> HIDE DEF seq, ver, row
<1>7. PICK k, s : row = [seq |-> seq, rec |-> c.rec, kind |-> k, id |-> c.id, ver |-> ver, edits |-> s]
  BY <1>1
<1>8. row.seq = seq /\ row.rec = c.rec /\ row.id = c.id /\ row.ver = ver /\ row.kind = k /\ row.edits = s
  BY <1>7
<1>9. row \in ServerRow
  <2>1. ver \in Nat \ {0}
    BY <1>2, <1>5
  <2>2. k \in Kind /\ s \in SUBSET Nat
    BY <1>3, <1>8
  <2>. QED
    BY <1>4, <1>5, <1>7, <2>1, <2>2 DEF ServerRow
<1>. QED
  BY <1>2, <1>5, <1>6, <1>8, <1>9 DEF seq, row

(* New rows come after the ones that are there, and in the order of their  *)
(* changes.                                                                *)
LEMMA NewRowsAfter ==
  ASSUME LogInv, NEW b, BatchFits(b), NEW refused
  PROVE  /\ \A x \in log, c \in NewOf(b, refused) :
              /\ x.seq < RowFor(b, refused, c).seq
              /\ x.rec = c.rec => x.ver < RowFor(b, refused, c).ver /\ x.id # c.id
         /\ \A c, e \in NewOf(b, refused) :
              /\ c # e => RowFor(b, refused, c).seq # RowFor(b, refused, e).seq
              /\ c.rec = e.rec /\ c.id < e.id =>
                   /\ RowFor(b, refused, c).ver < RowFor(b, refused, e).ver
                   /\ RowFor(b, refused, c).seq < RowFor(b, refused, e).seq
              /\ c.rec = e.rec /\ c.id = e.id => c = e
<1> DEFINE N == NewOf(b, refused)
           row == [c \in N |-> RowFor(b, refused, c)]
           place == [c \in N |-> Cardinality(UpToChange(b, N, c))]
<1>1. N \in SUBSET b
  BY NewFacts
<1>2. \A c \in N : /\ row[c].ver = c.base + 1 /\ row[c].seq = lastSeq + place[c]
                   /\ c.base \in Nat /\ c.id \in Nat
  BY NewRow
<1>3. \A c \in N : place[c] \in 1..Cardinality(N)
  BY SeqsOfNew
<1>4. Cardinality(N) \in Nat /\ lastSeq \in Nat
  BY SeqsOfNew DEF LogInv
<1>5. \A c, e \in N : /\ c # e => place[c] # place[e]
                      /\ c.rec = e.rec /\ c.id < e.id => place[c] < place[e]
  BY SeqsOfNew
<1>6. \A c \in N : row[c] = RowFor(b, refused, c)
  OBVIOUS
<1>7. \A x \in log : x.ver \in Nat /\ x.seq \in Nat /\ x.seq <= lastSeq
  BY DEF LogInv, ServerRow
<1>8. \A c \in N : ~IsStored(log, c)
  BY NewFacts
<1> HIDE DEF N, row, place
<1>9. \A c \in N : place[c] \in Nat /\ place[c] > 0
  BY <1>3, <1>4
<1>10. ASSUME NEW x \in log, NEW c \in N
       PROVE  x.seq < row[c].seq /\ (x.rec = c.rec => x.ver < row[c].ver /\ x.id # c.id)
  <2>1. x.seq < row[c].seq
    BY <1>2, <1>4, <1>7, <1>9
  <2>2. ASSUME x.rec = c.rec PROVE x.ver < row[c].ver
    <3>1. ServerHead(log, c.rec).ver <= c.base
      BY NewBases DEF N
    <3>2. ServerHead(log, c.rec).ver \in Nat /\ x.ver <= ServerHead(log, c.rec).ver
      BY <2>2, HeadOnServer
    <3>. QED
      BY <1>2, <1>7, <3>1, <3>2
  <2>3. x.rec = c.rec => x.id # c.id
    BY <1>8 DEF IsStored
  <2>. QED
    BY <2>1, <2>2, <2>3
<1>11. ASSUME NEW c \in N, NEW e \in N
       PROVE  /\ c # e => row[c].seq # row[e].seq
              /\ c.rec = e.rec /\ c.id < e.id => row[c].ver < row[e].ver /\ row[c].seq < row[e].seq
              /\ c.rec = e.rec /\ c.id = e.id => c = e
  <2>1. c \in b /\ e \in b
    BY <1>1
  <2>2. c.id = e.id => c = e
    BY <2>1 DEF BatchFits
  <2>3. c.rec = e.rec /\ c.id < e.id => c.base < e.base
    BY <2>1 DEF BatchFits
  <2>4. c # e => row[c].seq # row[e].seq
    <3>1. c # e => place[c] # place[e]
      BY <1>5
    <3>2. row[c].seq = lastSeq + place[c] /\ row[e].seq = lastSeq + place[e]
      BY <1>2
    <3>. QED
      BY <1>4, <1>9, <3>1, <3>2
  <2>5. c.rec = e.rec /\ c.id < e.id => row[c].ver < row[e].ver
    BY <1>2, <2>3
  <2>6. c.rec = e.rec /\ c.id < e.id => row[c].seq < row[e].seq
    <3>1. c.rec = e.rec /\ c.id < e.id => place[c] < place[e]
      BY <1>5
    <3>2. row[c].seq = lastSeq + place[c] /\ row[e].seq = lastSeq + place[e]
      BY <1>2
    <3>. QED
      BY <1>4, <1>9, <3>1, <3>2
  <2>. QED
    BY <2>2, <2>4, <2>5, <2>6
<1>. QED
  BY <1>6, <1>10, <1>11 DEF N

(* The versions of all that is there, before history goes.                 *)
LEMMA AllRows ==
  ASSUME LogInv, NEW b, BatchFits(b), NEW refused
  PROVE  /\ AllOf(b, refused) \subseteq ServerRow /\ IsFiniteSet(AllOf(b, refused))
         /\ log \subseteq AllOf(b, refused)
         /\ \A c \in NewOf(b, refused) : RowFor(b, refused, c) \in AllOf(b, refused)
         /\ \A x \in AllOf(b, refused) : x \in log \/ \E c \in NewOf(b, refused) : x = RowFor(b, refused, c)
         /\ \A x, y \in AllOf(b, refused) :
              /\ x.seq = y.seq => x = y
              /\ x.rec = y.rec /\ x.ver = y.ver => x = y
              /\ x.rec = y.rec /\ x.id = y.id => x = y
              /\ x.rec = y.rec /\ x.ver < y.ver => x.seq < y.seq
<1> DEFINE N == NewOf(b, refused)
           row == [c \in N |-> RowFor(b, refused, c)]
           all == AllOf(b, refused)
<1>1. all = log \cup { row[c] : c \in N } /\ row = [c \in N |-> row[c]]
  BY DEF AllOf
<1>2. \A c \in N : row[c] = RowFor(b, refused, c)
  OBVIOUS
<1>3. \A c \in N : /\ row[c] \in ServerRow /\ row[c].rec = c.rec /\ row[c].id = c.id /\ c.id \in Nat
                   /\ row[c].ver \in Nat /\ row[c].seq \in Nat
  <2>1. \A x \in ServerRow : x.ver \in Nat /\ x.seq \in Nat
    BY DEF ServerRow
  <2>. QED
    BY <2>1, NewRow
<1>4. \A x \in log, c \in N : /\ x.seq < row[c].seq
                              /\ x.rec = c.rec => x.ver < row[c].ver /\ x.id # c.id
  BY NewRowsAfter
<1>5. \A c, e \in N : /\ c # e => row[c].seq # row[e].seq
                      /\ c.rec = e.rec /\ c.id < e.id => row[c].ver < row[e].ver /\ row[c].seq < row[e].seq
                      /\ c.rec = e.rec /\ c.id = e.id => c = e
  BY NewRowsAfter
<1>6. IsFiniteSet(N)
  BY NewFacts
<1> HIDE DEF N, row, all
<1>7. IsFiniteSet(all)
  <2> DEFINE S == { row[c] : c \in N }
  <2>1. IsFiniteSet(S)
    BY <1>1, <1>6, FiniteImage
  <2>2. all = log \cup S /\ IsFiniteSet(log)
    BY <1>1 DEF LogInv
  <2> HIDE DEF S
  <2>. QED
    BY <2>1, <2>2, FiniteUnion
<1>8. \A x \in log : x \in ServerRow /\ x.ver \in Nat /\ x.seq \in Nat
  BY DEF LogInv, ServerRow
<1>9. \A x, y \in log : /\ x.seq = y.seq => x = y
                        /\ x.rec = y.rec /\ x.ver = y.ver => x = y
                        /\ x.rec = y.rec /\ x.id = y.id => x = y
                        /\ x.rec = y.rec /\ x.ver < y.ver => x.seq < y.seq
  BY DEF LogInv
<1>10. ASSUME NEW x \in all, NEW y \in all
       PROVE  /\ x.seq = y.seq => x = y
              /\ x.rec = y.rec /\ x.ver = y.ver => x = y
              /\ x.rec = y.rec /\ x.id = y.id => x = y
              /\ x.rec = y.rec /\ x.ver < y.ver => x.seq < y.seq
  <2>1. (x \in log \/ \E c \in N : x = row[c]) /\ (y \in log \/ \E c \in N : y = row[c])
    BY <1>1
  <2>2. CASE x \in log /\ y \in log
    BY <1>9, <2>2
  <2>3. CASE x \in log /\ \E c \in N : y = row[c]
    <3>1. PICK c \in N : y = row[c]
      BY <2>3
    <3>2. x.seq < y.seq /\ (x.rec = y.rec => x.ver < y.ver /\ x.id # y.id)
      BY <1>3, <1>4, <2>3, <3>1
    <3>3. x.seq \in Nat /\ y.seq \in Nat /\ x.ver \in Nat /\ y.ver \in Nat
      BY <1>3, <1>8, <2>3, <3>1
    <3>. QED
      BY <3>2, <3>3
  <2>4. CASE y \in log /\ \E c \in N : x = row[c]
    <3>1. PICK c \in N : x = row[c]
      BY <2>4
    <3>2. y.seq < x.seq /\ (y.rec = x.rec => y.ver < x.ver /\ y.id # x.id)
      BY <1>3, <1>4, <2>4, <3>1
    <3>3. x.seq \in Nat /\ y.seq \in Nat /\ x.ver \in Nat /\ y.ver \in Nat
      BY <1>3, <1>8, <2>4, <3>1
    <3>. QED
      BY <3>2, <3>3
  <2>5. CASE (\E c \in N : x = row[c]) /\ (\E c \in N : y = row[c])
    <3>1. PICK c \in N, e \in N : x = row[c] /\ y = row[e]
      BY <2>5
    <3>2. /\ x.rec = c.rec /\ x.id = c.id /\ y.rec = e.rec /\ y.id = e.id
          /\ c.id \in Nat /\ e.id \in Nat /\ x.ver \in Nat /\ y.ver \in Nat /\ x.seq \in Nat /\ y.seq \in Nat
      BY <1>3, <3>1
    <3>3. /\ c # e => x.seq # y.seq
          /\ c.rec = e.rec /\ c.id < e.id => x.ver < y.ver /\ x.seq < y.seq
          /\ c.rec = e.rec /\ e.id < c.id => y.ver < x.ver /\ y.seq < x.seq
          /\ c.rec = e.rec /\ c.id = e.id => c = e
      BY <1>5, <3>1
    <3>. QED
      BY <3>1, <3>2, <3>3
  <2>. QED
    BY <2>1, <2>2, <2>3, <2>4, <2>5
<1>11. /\ all \subseteq ServerRow /\ log \subseteq all /\ \A c \in N : row[c] \in all
       /\ \A x \in all : x \in log \/ \E c \in N : x = row[c]
  BY <1>1, <1>3, <1>8
<1>12. \A x \in all : x \in log \/ \E c \in N : x = RowFor(b, refused, c)
  BY <1>2, <1>11
<1>. QED
  BY <1>2, <1>7, <1>10, <1>11, <1>12 DEF N, all
-------------------------------------------------------------------------------
(***************************************************************************)
(* The server's step, whether a round or a request given up on takes it.   *)
(***************************************************************************)
ServerStep(b, refused) ==
  /\ log' = AllOf(b, refused) \ BelowPurge(AllOf(b, refused))
  /\ lastSeq' = lastSeq + Cardinality(NewOf(b, refused))
  /\ accepted' = accepted \cup { c.id : c \in { e \in b : IsStored(log, e) \/ e \in NewOf(b, refused) } }
  /\ UNCHANGED <<deviceVars, nextId, created>>

(* The rows above the purges stay in order, and so does what they build on.*)
LEMMA ServerLog ==
  ASSUME LogInv, NEW b, BatchFits(b), NEW refused, ServerStep(b, refused)
  PROVE  LogInv' /\ lastSeq \in Nat /\ lastSeq' \in Nat /\ lastSeq <= lastSeq'
<1> DEFINE all == AllOf(b, refused)
           N == NewOf(b, refused)
           n == Cardinality(N)
<1>1. /\ all \subseteq ServerRow /\ IsFiniteSet(all) /\ log \subseteq all
      /\ \A c \in N : RowFor(b, refused, c) \in all
      /\ \A x \in all : x \in log \/ \E c \in N : x = RowFor(b, refused, c)
      /\ \A x, y \in all :
           /\ x.seq = y.seq => x = y
           /\ x.rec = y.rec /\ x.ver = y.ver => x = y
           /\ x.rec = y.rec /\ x.id = y.id => x = y
           /\ x.rec = y.rec /\ x.ver < y.ver => x.seq < y.seq
  BY AllRows
<1>2. log' = all \ BelowPurge(all) /\ lastSeq' = lastSeq + n /\ nextId' = nextId /\ created' = created
  BY DEF ServerStep
<1>3. n \in Nat /\ lastSeq \in Nat
  BY SeqsOfNew DEF LogInv
<1>4. \A x \in all : x.seq \in Nat /\ x.ver \in Nat
  BY <1>1 DEF ServerRow
<1>5. \A c \in N : /\ RowFor(b, refused, c).seq <= lastSeq + n /\ RowFor(b, refused, c).id < nextId
                   /\ RowFor(b, refused, c).rec \in created
  <2>. TAKE c \in N
  <2>1. /\ RowFor(b, refused, c).seq = lastSeq + Cardinality(UpToChange(b, N, c))
        /\ RowFor(b, refused, c).rec = c.rec /\ RowFor(b, refused, c).id = c.id
        /\ c.rec \in created /\ c.id < nextId
    BY NewRow
  <2>2. Cardinality(UpToChange(b, N, c)) \in 1..n
    BY SeqsOfNew
  <2> HIDE DEF N, n
  <2>. QED
    BY <1>3, <2>1, <2>2
<1>6. \A c \in N : \/ RowFor(b, refused, c).ver = 1
                   \/ \E y \in all : y.rec = c.rec /\ y.ver = RowFor(b, refused, c).ver - 1
  <2>. TAKE c \in N
  <2>1. /\ RowFor(b, refused, c).ver = c.base + 1 /\ c.base \in Nat
    BY NewRow
  <2>2. /\ ServerHead(log, c.rec).ver \in Nat
        /\ ServerHead(log, c.rec).ver # 0 =>
             ServerHead(log, c.rec) \in log /\ ServerHead(log, c.rec).rec = c.rec
    BY HeadOnServer
  <2>3. CASE c.base = ServerHead(log, c.rec).ver
    BY <1>1, <2>1, <2>2, <2>3
  <2>4. CASE c.base # ServerHead(log, c.rec).ver
    <3>1. PICK p \in N : p.rec = c.rec /\ p.base + 1 = c.base
      BY <2>4, NewBases
    <3>2. RowFor(b, refused, p) \in all /\ RowFor(b, refused, p).rec = c.rec
          /\ RowFor(b, refused, p).ver = c.base
      BY <1>1, <3>1, NewRow
    <3>. QED
      BY <2>1, <3>2
  <2>. QED
    BY <2>3, <2>4
<1>7. \A c \in N : RowFor(b, refused, c).rec = c.rec
  BY NewRow
<1>8. ASSUME NEW x \in all
      PROVE  /\ x.seq <= lastSeq + n /\ x.id < nextId /\ x.rec \in created
             /\ x.ver = 1 \/ x.kind = "purged" \/ \E y \in all : y.rec = x.rec /\ y.ver = x.ver - 1
  <2>1. CASE x \in log
    <3>1. /\ x.seq <= lastSeq /\ x.id < nextId /\ x.rec \in created
          /\ x.ver = 1 \/ x.kind = "purged" \/ \E y \in log : y.rec = x.rec /\ y.ver = x.ver - 1
      BY <2>1 DEF LogInv
    <3>2. x.seq <= lastSeq + n
      BY <1>3, <1>4, <3>1
    <3>. QED
      BY <1>1, <3>1, <3>2
  <2>2. CASE \E c \in N : x = RowFor(b, refused, c)
    BY <1>5, <1>6, <1>7, <2>2
  <2>. QED
    BY <1>1, <2>1, <2>2
<1> HIDE DEF all, N, n
<1>9. \A x \in log' : x \in all /\ ~\E p \in all : p.kind = "purged" /\ p.rec = x.rec /\ x.ver < p.ver
  BY <1>2 DEF BelowPurge
<1>10. \A x \in all : x \in log' \/ \E p \in all : p.kind = "purged" /\ p.rec = x.rec /\ x.ver < p.ver
  BY <1>2 DEF BelowPurge
<1>11. ASSUME NEW x \in log', x.ver # 1, x.kind # "purged"
       PROVE  \E y \in log' : y.rec = x.rec /\ y.ver = x.ver - 1
  <2>1. PICK y \in all : y.rec = x.rec /\ y.ver = x.ver - 1
    BY <1>8, <1>9, <1>11
  <2>2. y \in log'
    <3>1. SUFFICES ASSUME NEW p \in all, p.kind = "purged", p.rec = y.rec, y.ver < p.ver PROVE FALSE
      BY <1>10
    <3>2. x \in all /\ ~(x.ver < p.ver)
      BY <1>9, <2>1, <3>1
    <3>3. x.ver = p.ver
      BY <1>4, <2>1, <3>1, <3>2
    <3>4. x = p
      BY <1>1, <2>1, <3>1, <3>2, <3>3
    <3>. QED
      BY <1>11, <3>1, <3>4
  <2>. QED
    BY <2>1, <2>2
<1>12. BelowPurge(log') = {}
  BY <1>9 DEF BelowPurge
<1>13. log' \subseteq ServerRow /\ IsFiniteSet(log')
  <2>1. log' \in SUBSET all
    BY <1>9
  <2>. QED
    BY <1>1, <2>1, FS_Subset
<1>14. lastSeq' \in Nat /\ lastSeq <= lastSeq'
  BY <1>2, <1>3
<1>15. \A x, y \in log' :
           /\ x.seq = y.seq => x = y
           /\ x.rec = y.rec /\ x.ver = y.ver => x = y
           /\ x.rec = y.rec /\ x.id = y.id => x = y
           /\ x.rec = y.rec /\ x.ver < y.ver => x.seq < y.seq
  BY <1>1, <1>9
<1>16. \A x \in log' :
         /\ x.seq <= lastSeq' /\ x.id < nextId' /\ x.rec \in created'
         /\ x.ver = 1 \/ x.kind = "purged" \/ \E y \in log' : y.rec = x.rec /\ y.ver = x.ver - 1
  BY <1>2, <1>8, <1>9, <1>11
<1>17. BelowPurge(log)' = {}
  BY <1>12 DEF BelowPurge
<1>18. LogInv'
  BY <1>13, <1>14, <1>15, <1>16, <1>17 DEF LogInv
<1>. QED
  BY <1>3, <1>14, <1>18

(* What goes has gone below a purge, the highest of which stays.           *)
LEMMA RowSurvives ==
  ASSUME LogInv, NEW b, BatchFits(b), NEW refused, ServerStep(b, refused), NEW x \in AllOf(b, refused)
  PROVE  x \in log' \/ \E p \in log' : p.rec = x.rec /\ p.kind = "purged"
<1> DEFINE all == AllOf(b, refused)
           P == { p \in all : p.kind = "purged" /\ p.rec = x.rec }
<1>1. all \subseteq ServerRow /\ IsFiniteSet(all)
  BY AllRows
<1>2. log' = all \ { y \in all : \E p \in all : p.kind = "purged" /\ p.rec = y.rec /\ y.ver < p.ver }
  BY DEF ServerStep, BelowPurge
<1>3. CASE P = {}
  BY <1>2, <1>3
<1>4. CASE P # {}
  <2>1. P \in SUBSET all
    OBVIOUS
  <2>2. \A p \in P : p \in all /\ p.kind = "purged" /\ p.rec = x.rec /\ p.ver \in Nat
    BY <1>1 DEF ServerRow
  <2>3. \A p \in all : p.kind = "purged" /\ p.rec = x.rec => p \in P
    OBVIOUS
  <2> HIDE DEF P, all
  <2>4. IsFiniteSet(P)
    BY <1>1, <2>1, FS_Subset
  <2>5. PICK h \in P : \A p \in P : p.ver <= h.ver
    BY <1>4, <2>2, <2>4, HighestRow
  <2>6. ~\E p \in all : p.kind = "purged" /\ p.rec = h.rec /\ h.ver < p.ver
    <3>. SUFFICES ASSUME NEW p \in all, p.kind = "purged", p.rec = h.rec, h.ver < p.ver PROVE FALSE
      OBVIOUS
    <3>1. p \in P
      BY <2>2, <2>3
    <3>. QED
      BY <2>2, <2>5, <3>1
  <2>7. h \in log'
    BY <1>2, <2>2, <2>6
  <2>. QED
    BY <2>2, <2>7
<1>. QED
  BY <1>3, <1>4

LEMMA BatchFacts ==
  ASSUME SyncInv, NEW b \in Batches
  PROVE  /\ LogInv /\ BatchFits(b) /\ \A d \in Device : StillWaits(b, d) /\ StoredOf(d)
         /\ \A c \in b : c.id \in accepted => ThereOrPurged(c)
         /\ \A h \in Batches : \A c \in b, e \in h : c.id = e.id => c.rec = e.rec
BY DEF SyncInv, BatchesInv, AcceptedInv

(* A change of the batch, stored before or now, has its row.               *)
LEMMA RowOfChange ==
  ASSUME LogInv, NEW b, BatchFits(b), NEW refused, NEW g \in b,
         IsStored(log, g) \/ g \in NewOf(b, refused)
  PROVE  \E y \in AllOf(b, refused) :
           /\ y.rec = g.rec /\ y.id = g.id
           /\ \/ y \in log
              \/ g \in NewOf(b, refused) /\ y = RowFor(b, refused, g)
<1>1. /\ log \subseteq AllOf(b, refused)
      /\ \A c \in NewOf(b, refused) : RowFor(b, refused, c) \in AllOf(b, refused)
  BY AllRows
<1>2. CASE IsStored(log, g)
  BY <1>1, <1>2 DEF IsStored
<1>3. CASE g \in NewOf(b, refused)
  <2>1. RowFor(b, refused, g).rec = g.rec /\ RowFor(b, refused, g).id = g.id
    BY <1>3, NewRow
  <2>. QED
    BY <1>1, <1>3, <2>1
<1>. QED
  BY <1>2, <1>3

(* What the server has of what waits before a change it has: no purge that *)
(* was appended has taken it away, or the change itself would be gone.     *)
LEMMA NothingLostBelow ==
  ASSUME SyncInv, NEW b \in Batches, NEW refused, ServerStep(b, refused), NEW d \in Device,
         NEW x \in log', NEW e \in outbox[d], x.id = e.id, x.rec = e.rec,
         NEW f \in outbox[d], f.rec = e.rec, f.id < e.id,
         NEW y \in AllOf(b, refused), y.rec = f.rec, y.id = f.id
  PROVE  y \in log'
<1> DEFINE N == NewOf(b, refused)
           all == AllOf(b, refused)
           row == [c \in N |-> RowFor(b, refused, c)]
           r == e.rec
           head == ServerHead(log, r)
<1>1. LogInv /\ BatchFits(b) /\ StillWaits(b, d) /\ StoredOf(d)
  BY BatchFacts
<1>2. log' = all \ { z \in all : \E p \in all : p.kind = "purged" /\ p.rec = z.rec /\ z.ver < p.ver }
  BY DEF ServerStep, BelowPurge
<1>3. \A z \in all : z \in log \/ \E c \in N : z = row[c]
  BY <1>1, AllRows
<1>4. \A c \in N : /\ row[c].rec = c.rec /\ row[c].id = c.id /\ row[c].ver = c.base + 1
                   /\ c.base \in Nat /\ c.id \in Nat /\ c \in b /\ ~IsStored(log, c)
  BY <1>1, NewRow, NewFacts
<1>5. \A c \in N : row[c].kind = "purged" =>
        /\ \A k \in N : k.rec = c.rec => c.id <= k.id
        /\ \/ c.kind = "purged" /\ \A k \in b : k.rec = c.rec => c.id <= k.id
           \/ c.kind = "deleted" /\ ServerHead(log, c.rec).kind = "purged"
  BY <1>1, KindsOfNew
<1>6. \A c \in N : /\ ServerHead(log, c.rec).ver <= c.base
                   /\ \/ c.base = ServerHead(log, c.rec).ver
                      \/ \E p \in N : p.rec = c.rec /\ p.id < c.id
  BY <1>1, NewBases
<1>7. /\ head.ver \in Nat /\ \A z \in log : z.rec = r => z.ver <= head.ver
      /\ head.kind = "purged" => \A z \in log : z.rec = r => z = head
  BY <1>1, HeadOnServer
<1>8. \A z \in all : z.ver \in Nat
  BY <1>1, AllRows DEF ServerRow
<1>9. \A h \in outbox[d] : h.id \in Nat
  BY DeviceFacts, EntryTypes
<1>10. \A h, k \in b :
         /\ h.id \in Nat
         /\ h.id = k.id => h = k
         /\ h.rec = k.rec /\ h.id < k.id /\ k.kind = "deleted" => \E p \in b :
              p.rec = k.rec /\ h.id <= p.id /\ p.id < k.id /\ p.kind = "put"
  BY <1>1 DEF BatchFits, PushChange
<1>11. \A p, c \in N : \A q \in b :
         p.rec = q.rec /\ q.rec = c.rec /\ p.id < q.id /\ q.id < c.id => q \in N
  BY <1>1, NoGap
<1>0. y \in all
  OBVIOUS
<1> HIDE DEF N, all, row, head
<1>. SUFFICES ASSUME NEW p \in all, p.kind = "purged", p.rec = y.rec, y.ver < p.ver PROVE FALSE
  BY <1>0, <1>2
<1>12. p.rec = r /\ y.rec = r /\ x.rec = r
  OBVIOUS
<1>13. x \in all /\ p.ver <= x.ver
  <2>1. x \in all /\ ~(x.ver < p.ver)
    BY <1>2, <1>12
  <2>. QED
    BY <1>8, <2>1
<1>14. p \notin log
  <2>. SUFFICES ASSUME p \in log PROVE FALSE
    OBVIOUS
  <2>1. CASE y \in log
    <3>1. BelowPurge(log) = {}
      BY <1>1 DEF LogInv
    <3>. QED
      BY <2>1, <3>1 DEF BelowPurge
  <2>2. CASE \E c \in N : y = row[c]
    <3>1. PICK c \in N : y = row[c]
      BY <2>2
    <3>2. p.ver <= head.ver /\ head.ver <= c.base /\ y.ver = c.base + 1 /\ c.base \in Nat
      BY <1>4, <1>6, <1>7, <1>12, <3>1 DEF head
    <3>. QED
      BY <1>0, <1>7, <1>8, <3>2
  <2>. QED
    BY <1>0, <1>3, <2>1, <2>2
<1>15. PICK k \in N : p = row[k]
  BY <1>3, <1>14
<1>16. k.rec = r /\ k.base = head.ver /\ p.ver = head.ver + 1
       /\ \A c \in N : c.rec = r => k.id <= c.id
  <2>1. k.rec = r
    BY <1>4, <1>12, <1>15
  <2>2. \A c \in N : c.rec = r => k.id <= c.id
    BY <1>5, <1>15, <2>1
  <2>3. k.base = head.ver
    <3>1. \A c \in N : c.rec = r => ~(c.id < k.id)
      BY <1>4, <2>2
    <3>. QED
      BY <1>6, <2>1, <3>1 DEF head
  <2>. QED
    BY <1>4, <1>15, <2>1, <2>2, <2>3
<1>17. y \in log
  <2>. SUFFICES ASSUME NEW c \in N, y = row[c] PROVE FALSE
    BY <1>0, <1>3
  <2>1. head.ver <= c.base /\ y.ver = c.base + 1 /\ c.base \in Nat
    BY <1>4, <1>6, <1>12 DEF head
  <2>. QED
    BY <1>7, <1>16, <2>1
<1>18. PICK c \in N : x = row[c]
  <2>1. x \notin log
    <3>1. x \in log => x.ver <= head.ver
      BY <1>7, <1>12
    <3>. QED
      BY <1>7, <1>8, <1>13, <1>16, <3>1
  <2>. QED
    BY <1>3, <1>13, <2>1
<1>19. c \in b /\ c.rec = r /\ c.id = e.id /\ k.id <= c.id
  BY <1>4, <1>12, <1>16, <1>18
<1>20. PICK g \in b : g.id = f.id
  BY <1>1, <1>19 DEF StillWaits
<1>21. g.rec = r /\ g.id < c.id
  BY <1>1, <1>19, <1>20 DEF StillWaits
<1>22. IsStored(log, g) /\ g \notin N /\ g # k
  <2>1. IsStored(log, g)
    BY <1>12, <1>17, <1>20, <1>21 DEF IsStored
  <2>. QED
    BY <1>4, <2>1
<1>23. ~(k.id < g.id)
  BY <1>11, <1>16, <1>19, <1>21, <1>22
<1>24. g.id < k.id
  <2>1. g.id # k.id /\ g.id \in Nat /\ k.id \in Nat
    BY <1>4, <1>10, <1>22
  <2>. QED
    BY <1>23, <2>1
<1>25. k.kind = "deleted" /\ head.kind = "purged"
  <2>1. k.kind = "purged" => k.id <= g.id
    BY <1>5, <1>15, <1>16, <1>21, <1>24
  <2>2. g.id \in Nat /\ k.id \in Nat
    BY <1>4, <1>10
  <2>3. \/ k.kind = "purged" /\ \A q \in b : q.rec = k.rec => k.id <= q.id
        \/ k.kind = "deleted" /\ ServerHead(log, k.rec).kind = "purged"
    BY <1>5, <1>15
  <2>4. ~(k.kind = "purged" /\ \A q \in b : q.rec = k.rec => k.id <= q.id)
    BY <1>16, <1>21, <1>24, <2>2
  <2>. QED
    BY <1>16, <2>3, <2>4 DEF head
<1>26. y = head /\ y.kind = "purged"
  BY <1>7, <1>12, <1>17, <1>25
(* What waits before the change was no put, and a put lies between them.   *)
<1>27. g.kind # "put"
  <2>1. PICK z \in Pending(store[d]) : IsRowOf(z, f)
    BY DeviceFacts DEF QueueFits
  <2>2. z.kind = "put" => y.kind = "put"
    BY <1>1, <1>17, <2>1 DEF StoredOf
  <2>3. z.kind = g.kind
    BY <1>1, <1>20, <2>1 DEF StillWaits
  <2>. QED
    BY <1>26, <2>2, <2>3
<1>28. PICK q \in b : q.rec = r /\ g.id <= q.id /\ q.id < k.id /\ q.kind = "put"
  BY <1>4, <1>10, <1>16, <1>21, <1>24, <1>25
<1>29. q \notin N
  <2>1. q \in N => k.id <= q.id
    BY <1>16, <1>28
  <2>. QED
    BY <1>4, <1>10, <1>28, <2>1
<1>30. IsStored(log, q)
  <2>1. k \in N /\ q.rec = k.rec
    BY <1>16, <1>28
  <2>2. ~IsStored(log, q) => q \in N
    BY <1>1, <2>1, NewFacts DEF N
  <2>. QED
    BY <1>29, <2>2
<1>31. PICK w \in log : w.rec = r /\ w.id = q.id
  BY <1>28, <1>30 DEF IsStored
<1>32. w = y
  BY <1>7, <1>25, <1>26, <1>31
<1>33. q = g
  BY <1>10, <1>20, <1>31, <1>32
<1>. QED
  BY <1>27, <1>28, <1>33

LEMMA ServerStored ==
  ASSUME SyncInv, NEW b \in Batches, NEW refused, ServerStep(b, refused), NEW d \in Device
  PROVE  StoredOf(d)'
<1> DEFINE N == NewOf(b, refused)
           all == AllOf(b, refused)
<1>1. LogInv /\ BatchFits(b) /\ StillWaits(b, d) /\ StoredOf(d)
  BY BatchFacts
<1>2. store' = store /\ outbox' = outbox /\ log' \subseteq all
  BY DEF ServerStep, deviceVars
<1>3. \A z \in all : z \in log \/ \E c \in N : z = RowFor(b, refused, c)
  BY <1>1, AllRows
<1>4. /\ \A c \in N, g \in b : g.rec = c.rec /\ ~IsStored(log, g) => g \in N
      /\ N \subseteq b
  BY <1>1, NewFacts
<1> HIDE DEF N, all
<1>5. ASSUME NEW x \in log', NEW e \in outbox[d], x.id = e.id
      PROVE  /\ x.rec = e.rec /\ x.ver <= e.ver
             /\ \A y \in Pending(store[d]) : IsRowOf(y, e) /\ y.kind = "put" => x.kind = "put"
             /\ \A f \in outbox[d] : f.rec = e.rec /\ f.id < e.id =>
                  \E y \in all : y.rec = f.rec /\ y.id = f.id
  <2>1. CASE x \in log
    <3>1. log \subseteq all
      BY <1>1, AllRows DEF all
    <3>. QED
      BY <1>1, <1>5, <2>1, <3>1 DEF StoredOf
  <2>2. CASE \E c \in N : x = RowFor(b, refused, c)
    <3>1. PICK c \in N : x = RowFor(b, refused, c)
      BY <2>2
    <3>2. x.rec = c.rec /\ x.id = c.id /\ x.ver = c.base + 1 /\ c.base \in Nat
      BY <1>1, <3>1, NewRow DEF N
    <3>3. c.kind = "put" => x.kind = "put"
      BY <1>1, <3>1, KindsOfNew DEF N
    <3>4. /\ c.rec = e.rec /\ c.base < e.ver
          /\ \A y \in Pending(store[d]) : IsRowOf(y, e) => y.kind = c.kind
          /\ \A f \in outbox[d] : f.rec = e.rec /\ f.id < e.id => \E g \in b : g.id = f.id
      BY <1>1, <1>4, <1>5, <3>2 DEF StillWaits
    <3>5. e.ver \in Nat
      BY DeviceFacts, EntryTypes
    <3>6. ASSUME NEW f \in outbox[d], f.rec = e.rec, f.id < e.id
          PROVE  \E y \in all : y.rec = f.rec /\ y.id = f.id
      <4>1. PICK g \in b : g.id = f.id
        BY <3>4, <3>6
      <4>2. g.rec = f.rec
        BY <1>1, <4>1 DEF StillWaits
      <4>3. IsStored(log, g) \/ g \in N
        BY <1>4, <3>4, <3>6, <4>2
      <4>. QED
        BY <1>1, <4>1, <4>2, <4>3, RowOfChange DEF N, all
    <3>. QED
      BY <3>2, <3>3, <3>4, <3>5, <3>6
  <2>. QED
    BY <1>2, <1>3, <2>1, <2>2
<1>6. ASSUME NEW x \in log', NEW e \in outbox[d], x.id = e.id,
             NEW f \in outbox[d], f.rec = e.rec, f.id < e.id
      PROVE  \E y \in log' : y.rec = f.rec /\ y.id = f.id
  <2>1. x.rec = e.rec
    BY <1>5, <1>6
  <2>2. PICK y \in all : y.rec = f.rec /\ y.id = f.id
    BY <1>5, <1>6
  <2>3. y \in log'
    BY <1>6, <2>1, <2>2, NothingLostBelow DEF all
  <2>. QED
    BY <2>2, <2>3
<1>7. \A x \in log' : \A e \in outbox[d] : x.id = e.id =>
        /\ x.rec = e.rec /\ x.ver <= e.ver
        /\ \A y \in Pending(store[d]) : IsRowOf(y, e) /\ y.kind = "put" => x.kind = "put"
        /\ \A f \in outbox[d] : f.rec = e.rec /\ f.id < e.id => \E y \in log' : y.rec = f.rec /\ y.id = f.id
  BY <1>5, <1>6
<1>. QED
  BY <1>2, <1>7 DEF StoredOf

(* What the server answers to a change.                                    *)
AnswerTo(b, refused, c) ==
  IF c \in NewOf(b, refused) \/ IsStored(log, c)
  THEN [status |-> "applied", row |-> CHOOSE x \in AllOf(b, refused) : x.rec = c.rec /\ x.id = c.id]
  ELSE [status |-> ChainFailure(Fresh(b, c.rec), c.rec, refused),
        head |-> ServerHead(log, c.rec).ver]

LEMMA PushFacts ==
  ASSUME NEW b, \A c, e \in b : c.id = e.id => c = e, NEW refused, NEW outcome,
         outcome = PushChanges(b, refused)
  PROVE  /\ outcome.log = AllOf(b, refused) \ BelowPurge(AllOf(b, refused))
         /\ outcome.seq = lastSeq + Cardinality(NewOf(b, refused))
         /\ DOMAIN outcome.results = { c.id : c \in b }
         /\ \A c \in b : outcome.results[c.id] = AnswerTo(b, refused, c)
<1> DEFINE failure == [r \in { c.rec : c \in b } |-> ChainFailure(Fresh(b, r), r, refused)]
           new == { c \in b : ~IsStored(log, c) /\ failure[c.rec] = "none" }
           Seq(c) == lastSeq + Cardinality(UpToChange(b, new, c))
           all == log \cup { NextVersion(Fresh(b, c.rec), c, Seq(c)) : c \in new }
           Answer(c) ==
             IF c \in new \/ IsStored(log, c)
             THEN [status |-> "applied", row |-> CHOOSE x \in all : x.rec = c.rec /\ x.id = c.id]
             ELSE [status |-> failure[c.rec], head |-> ServerHead(log, c.rec).ver]
           results == [id \in { c.id : c \in b } |-> Answer(CHOOSE c \in b : c.id = id)]
<1>1. outcome = [log |-> all \ BelowPurge(all), seq |-> lastSeq + Cardinality(new), results |-> results]
  BY DEF PushChanges
<1>2. \A c \in b : failure[c.rec] = ChainFailure(Fresh(b, c.rec), c.rec, refused)
  OBVIOUS
<1> HIDE DEF failure
<1>3. new = NewOf(b, refused)
  BY <1>2 DEF NewOf
<1> HIDE DEF new
<1>4. all = AllOf(b, refused)
  BY <1>3 DEF AllOf, RowFor
<1> HIDE DEF all
<1>5. ASSUME NEW c \in b PROVE results[c.id] = AnswerTo(b, refused, c)
  <2>1. (CHOOSE e \in b : e.id = c.id) = c
    OBVIOUS
  <2>2. results[c.id] = Answer(c)
    <3>1. results[c.id] = Answer(CHOOSE e \in b : e.id = c.id)
      OBVIOUS
    <3>. QED
      BY <2>1, <3>1, Zenon
  <2>3. Answer(c) = AnswerTo(b, refused, c)
    BY <1>2, <1>3, <1>4 DEF AnswerTo
  <2>. QED
    BY <2>2, <2>3
<1>6. DOMAIN results = { c.id : c \in b }
  OBVIOUS
<1> HIDE DEF results
<1>7. outcome.log = all \ BelowPurge(all) /\ outcome.seq = lastSeq + Cardinality(new)
      /\ outcome.results = results
  BY <1>1
<1>. QED
  BY <1>3, <1>4, <1>5, <1>6, <1>7

LEMMA AnsweredFacts ==
  ASSUME LogInv, NEW b, BatchFits(b), NEW refused, NEW c \in b
  PROVE  /\ IsStored(log, c) \/ c \in NewOf(b, refused) =>
              /\ AnswerTo(b, refused, c).status = "applied"
              /\ AnswerTo(b, refused, c).row \in AllOf(b, refused)
              /\ AnswerTo(b, refused, c).row.rec = c.rec /\ AnswerTo(b, refused, c).row.id = c.id
         /\ AnswerTo(b, refused, c).status = "applied" => IsStored(log, c) \/ c \in NewOf(b, refused)
<1> DEFINE failed == ChainFailure(Fresh(b, c.rec), c.rec, refused)
<1>1. failed # "applied"
  BY DEF ChainFailure, Failure
<1>2. ASSUME IsStored(log, c) \/ c \in NewOf(b, refused)
      PROVE  /\ AnswerTo(b, refused, c).status = "applied"
             /\ AnswerTo(b, refused, c).row \in AllOf(b, refused)
             /\ AnswerTo(b, refused, c).row.rec = c.rec /\ AnswerTo(b, refused, c).row.id = c.id
  <2> DEFINE row == CHOOSE x \in AllOf(b, refused) : x.rec = c.rec /\ x.id = c.id
  <2>1. \E x \in AllOf(b, refused) : x.rec = c.rec /\ x.id = c.id
    BY <1>2, RowOfChange
  <2>2. row \in AllOf(b, refused) /\ row.rec = c.rec /\ row.id = c.id
    BY <2>1
  <2>3. AnswerTo(b, refused, c) = [status |-> "applied", row |-> row]
    BY <1>2 DEF AnswerTo
  <2> HIDE DEF row
  <2>. QED
    BY <2>2, <2>3
<1>3. ASSUME ~(IsStored(log, c) \/ c \in NewOf(b, refused)) PROVE AnswerTo(b, refused, c).status # "applied"
  <2>1. AnswerTo(b, refused, c) = [status |-> failed, head |-> ServerHead(log, c.rec).ver]
    BY <1>3 DEF AnswerTo
  <2>. QED
    BY <1>1, <2>1
<1>. QED
  BY <1>2, <1>3

(* The answers a round takes home.                                         *)
LEMMA AnswersRight ==
  ASSUME SyncInv, NEW b \in Batches, b # {}, NEW refused, ServerStep(b, refused), NEW d \in Device,
         round'[d].batch = b, \A c \in b : round'[d].results[c.id] = AnswerTo(b, refused, c)
  PROVE  AnswersFit(d)'
<1> DEFINE N == NewOf(b, refused)
           all == AllOf(b, refused)
           result == round'[d].results
<1>1. LogInv /\ BatchFits(b) /\ StillWaits(b, d) /\ StoredOf(d)
  BY BatchFacts
<1>2. outbox' = outbox /\ nextId' = nextId
  BY DEF ServerStep, deviceVars
<1>3. /\ \A c \in N, g \in b : g.rec = c.rec /\ ~IsStored(log, g) => g \in N
      /\ N \subseteq b
  BY <1>1, NewFacts
<1>4. \A c \in b :
        /\ IsStored(log, c) \/ c \in N =>
             /\ result[c.id].status = "applied" /\ result[c.id].row \in all
             /\ result[c.id].row.rec = c.rec /\ result[c.id].row.id = c.id
        /\ result[c.id].status = "applied" => IsStored(log, c) \/ c \in N
  BY <1>1, AnsweredFacts
<1>5. /\ all \subseteq ServerRow
      /\ \A x, y \in all : x.rec = y.rec /\ x.id = y.id => x = y
  BY <1>1, AllRows
<1>6. \A c \in b : c.id \in Nat /\ c.base \in Nat /\ c \in PushChange
  BY <1>1 DEF BatchFits, PushChange
<1> HIDE DEF N, all, result
<1>7. ASSUME NEW c \in b, NEW e \in outbox[d], c.id = e.id, result[c.id].status = "applied"
      PROVE  /\ result[c.id].row \in ServerRow /\ result[c.id].row.rec = e.rec
             /\ result[c.id].row.ver <= e.ver
  <2>1. c.rec = e.rec /\ c.base < e.ver
    BY <1>1, <1>7 DEF StillWaits
  <2>2. /\ IsStored(log, c) \/ c \in N
        /\ result[c.id].row \in all /\ result[c.id].row.rec = c.rec /\ result[c.id].row.id = c.id
    BY <1>4, <1>7
  <2>3. PICK y \in all : /\ y.rec = c.rec /\ y.id = c.id
                         /\ y \in log \/ (c \in N /\ y = RowFor(b, refused, c))
    BY <1>1, <2>2, RowOfChange DEF N, all
  <2>4. result[c.id].row = y
    BY <1>5, <2>2, <2>3
  <2>5. y.ver <= e.ver
    <3>1. CASE y \in log
      BY <1>1, <1>7, <2>3, <3>1 DEF StoredOf
    <3>2. CASE c \in N /\ y = RowFor(b, refused, c)
      <4>1. y.ver = c.base + 1
        BY <1>1, <3>2, NewRow DEF N
      <4>2. e.ver \in Nat
        BY DeviceFacts, EntryTypes
      <4>. QED
        BY <1>6, <2>1, <4>1, <4>2
    <3>. QED
      BY <2>3, <3>1, <3>2
  <2>. QED
    BY <1>5, <2>1, <2>2, <2>4, <2>5
<1>8. ASSUME NEW c \in b, NEW e \in outbox[d], c.id = e.id, Done(c, result[c.id]),
             NEW f \in outbox[d], f.rec = e.rec, f.id < e.id
      PROVE  \E g \in b : g.id = f.id /\ Done(g, result[g.id])
  <2>1. PICK g \in b : g.id = f.id
    BY <1>1, <1>8 DEF StillWaits
  <2>2. c.rec = e.rec /\ g.rec = f.rec
    BY <1>1, <1>8, <2>1 DEF StillWaits
  <2>3. c.kind # "purged"
    BY <1>1, <1>8, <2>1, <2>2 DEF BatchFits
  <2>4. IsStored(log, c) \/ c \in N
    BY <1>4, <1>8, <2>3 DEF Done
  <2>5. IsStored(log, g) \/ g \in N
    <3>1. CASE IsStored(log, c)
      <4>1. PICK x \in log : x.rec = c.rec /\ x.id = c.id
        BY <3>1 DEF IsStored
      <4>2. \E y \in log : y.rec = f.rec /\ y.id = f.id
        BY <1>1, <1>8, <4>1 DEF StoredOf
      <4>. QED
        BY <2>1, <2>2, <4>2 DEF IsStored
    <3>2. CASE c \in N
      BY <1>3, <1>8, <2>2, <3>2
    <3>. QED
      BY <2>4, <3>1, <3>2
  <2>. QED
    BY <1>4, <2>1, <2>5 DEF Done
<1>9. /\ b \subseteq PushChange /\ IsFiniteSet(b) /\ b # {}
      /\ \A c, e \in b : c.id = e.id => c = e
      /\ \A c \in b : c.id < nextId
  BY <1>1 DEF BatchFits
<1>10. round'[d].results = result /\ round'[d].batch = b
  BY DEF result
<1>. QED
  BY <1>2, <1>7, <1>8, <1>9, <1>10 DEF AnswersFit, Done

(* What was accepted has its row, or a purge on top of it.                 *)
LEMMA AcceptedStays ==
  ASSUME SyncInv, NEW b \in Batches, NEW refused, ServerStep(b, refused), NEW c,
         \/ ThereOrPurged(c)
         \/ \E k \in b : k.id = c.id /\ k.rec = c.rec /\ (IsStored(log, k) \/ k \in NewOf(b, refused))
  PROVE  ThereOrPurged(c)'
<1>1. LogInv /\ BatchFits(b)
  BY BatchFacts
<1>2. log \subseteq AllOf(b, refused)
  BY <1>1, AllRows
<1>3. PICK x \in AllOf(b, refused) : x.rec = c.rec /\ (x.id = c.id \/ x.kind = "purged")
  BY <1>1, <1>2, RowOfChange DEF ThereOrPurged, IsStored
<1>4. x \in log' \/ \E p \in log' : p.rec = c.rec /\ p.kind = "purged"
  BY <1>1, <1>3, RowSurvives
<1>. QED
  BY <1>3, <1>4 DEF ThereOrPurged, IsStored

LEMMA ServerAccepted ==
  ASSUME SyncInv, NEW b \in Batches, NEW refused, ServerStep(b, refused), Batches' \subseteq Batches
  PROVE  AcceptedInv' /\ accepted' \subseteq 1..(nextId' - 1)
<1> DEFINE done == { c \in b : IsStored(log, c) \/ c \in NewOf(b, refused) }
<1>1. /\ BatchFits(b) /\ \A d \in Device : StillWaits(b, d)
      /\ \A h \in Batches : \A c \in b, e \in h : c.id = e.id => c.rec = e.rec
  BY BatchFacts
<1>2. accepted' = accepted \cup { c.id : c \in done } /\ outbox' = outbox /\ nextId' = nextId
  BY DEF ServerStep, deviceVars
<1>3. \A c \in done : c \in b /\ (IsStored(log, c) \/ c \in NewOf(b, refused))
  OBVIOUS
<1>4. AcceptedInv
  BY DEF SyncInv
<1> HIDE DEF done
<1>5. ASSUME NEW h \in Batches', NEW c \in h, c.id \in accepted' PROVE ThereOrPurged(c)'
  <2>1. CASE c.id \in accepted
    <3>1. ThereOrPurged(c)
      BY <1>4, <1>5, <2>1 DEF AcceptedInv
    <3>. QED
      BY <3>1, AcceptedStays
  <2>2. CASE c.id \notin accepted
    <3>1. PICK k \in done : k.id = c.id
      BY <1>2, <1>5, <2>2
    <3>2. k.rec = c.rec
      BY <1>1, <1>3, <1>5, <3>1
    <3>. QED
      BY <1>3, <3>1, <3>2, AcceptedStays
  <2>. QED
    BY <2>1, <2>2
<1>6. ASSUME NEW d \in Device, NEW e \in outbox'[d], e.id \in accepted' PROVE ThereOrPurged(e)'
  <2>1. CASE e.id \in accepted
    <3>1. ThereOrPurged(e)
      BY <1>2, <1>4, <1>6, <2>1 DEF AcceptedInv
    <3>. QED
      BY <3>1, AcceptedStays
  <2>2. CASE e.id \notin accepted
    <3>1. PICK k \in done : k.id = e.id
      BY <1>2, <1>6, <2>2
    <3>2. k.rec = e.rec
      BY <1>1, <1>2, <1>3, <1>6, <3>1 DEF StillWaits
    <3>. QED
      BY <1>3, <3>1, <3>2, AcceptedStays
  <2>. QED
    BY <2>1, <2>2
<1>7. accepted' \subseteq 1..(nextId' - 1)
  <2>1. accepted \subseteq 1..(nextId - 1) /\ nextId \in Nat
    BY DEF SyncInv, Shapes
  <2>2. \A c \in done : c.id \in 1..(nextId - 1)
    <3>1. \A c \in done : c.id \in Nat \ {0} /\ c.id < nextId
      BY <1>1, <1>3 DEF BatchFits, PushChange
    <3>. QED
      BY <2>1, <3>1
  <2>. QED
    BY <1>2, <2>1, <2>2
<1>8. AcceptedInv'
  BY <1>5, <1>6 DEF AcceptedInv
<1>. QED
  BY <1>7, <1>8

LEMMA AnswersOfPush ==
  ASSUME SyncInv, NEW b \in Batches, NEW refused, NEW outcome, outcome = PushChanges(b, refused)
  PROVE  \A c \in b : outcome.results[c.id] = AnswerTo(b, refused, c)
<1>1. \A c, e \in b : c.id = e.id => c = e
  BY BatchFacts DEF BatchFits
<1>. QED
  BY <1>1, PushFacts

LEMMA ServeIsStep ==
  ASSUME SyncInv, NEW b \in Batches, NEW refused, NEW outcome, outcome = PushChanges(b, refused),
         refused \in Refusable(b), Serve(b, refused, outcome), UNCHANGED <<deviceVars, nextId, created>>
  PROVE  /\ ServerStep(b, refused)
         /\ \A c \in b : outcome.results[c.id] = AnswerTo(b, refused, c)
         /\ spent' \in [refused : 0..MaxRefusals, broken : 0..MaxBreaks, late : 0..MaxLate]
<1>1. LogInv /\ BatchFits(b)
  BY BatchFacts
<1>2. \A c, e \in b : c.id = e.id => c = e
  BY <1>1 DEF BatchFits
<1>3. /\ outcome.log = AllOf(b, refused) \ BelowPurge(AllOf(b, refused))
      /\ outcome.seq = lastSeq + Cardinality(NewOf(b, refused))
      /\ DOMAIN outcome.results = { c.id : c \in b }
      /\ \A c \in b : outcome.results[c.id] = AnswerTo(b, refused, c)
  <2>1. outcome.log = AllOf(b, refused) \ BelowPurge(AllOf(b, refused))
    BY <1>2, PushFacts
  <2>2. outcome.seq = lastSeq + Cardinality(NewOf(b, refused))
    BY <1>2, PushFacts
  <2>3. DOMAIN outcome.results = { c.id : c \in b }
    BY <1>2, PushFacts
  <2>4. \A c \in b : outcome.results[c.id] = AnswerTo(b, refused, c)
    BY AnswersOfPush
  <2>. QED
    BY <2>1, <2>2, <2>3, <2>4
<1>4. /\ log' = outcome.log /\ lastSeq' = outcome.seq
      /\ accepted' = accepted \cup { id \in DOMAIN outcome.results : outcome.results[id].status = "applied" }
      /\ refused \subseteq { c.rec : c \in { c \in b : c.kind = "put" } }
      /\ spent.refused + Cardinality(refused) <= MaxRefusals
      /\ spent' = [spent EXCEPT !.refused = @ + Cardinality(refused)]
  BY DEF Serve, Refusable
<1> DEFINE done == { c \in b : IsStored(log, c) \/ c \in NewOf(b, refused) }
<1>5. \A c \in b : outcome.results[c.id].status = "applied" <=> c \in done
  BY <1>1, <1>3, AnsweredFacts
<1>6. { id \in DOMAIN outcome.results : outcome.results[id].status = "applied" } = { c.id : c \in done }
  <2>1. \A c \in done : c \in b
    OBVIOUS
  <2> HIDE DEF done
  <2>2. \A id \in DOMAIN outcome.results : outcome.results[id].status = "applied" => \E c \in done : c.id = id
    BY <1>3, <1>5
  <2>3. \A c \in done : c.id \in DOMAIN outcome.results /\ outcome.results[c.id].status = "applied"
    BY <1>3, <1>5, <2>1
  <2>. QED
    BY <2>2, <2>3
<1>7. ServerStep(b, refused)
  BY <1>3, <1>4, <1>6 DEF ServerStep
<1>8. Cardinality(refused) \in Nat
  <2> DEFINE f == [c \in b |-> c.rec]
             R == { f[c] : c \in b }
  <2>1. f = [c \in b |-> f[c]] /\ IsFiniteSet(b)
    BY <1>1 DEF BatchFits
  <2>2. refused \in SUBSET R
    BY <1>4
  <2> HIDE DEF f
  <2>3. IsFiniteSet(R)
    BY <2>1, FiniteImage
  <2> HIDE DEF R
  <2>. QED
    BY <2>2, <2>3, FS_Subset, FS_CardinalityType
<1>9. spent' \in [refused : 0..MaxRefusals, broken : 0..MaxBreaks, late : 0..MaxLate]
  <2>1. spent \in [refused : 0..MaxRefusals, broken : 0..MaxBreaks, late : 0..MaxLate]
        /\ MaxRefusals \in Nat
    BY RecordSyncAssumption DEF SyncInv, Shapes
  <2>. QED
    BY <1>4, <1>8, <2>1
<1>. QED
  BY <1>3, <1>7, <1>9

LEMMA ServerStepKeepsInv ==
  ASSUME SyncInv, NEW b \in Batches, NEW refused, ServerStep(b, refused), Batches' \subseteq Batches,
         cursor' = cursor, round' = [g \in Device |-> round'[g]],
         \A g \in Device : round'[g] = round[g] \/ RoundFits(g)', belated' \subseteq Record,
         spent' \in [refused : 0..MaxRefusals, broken : 0..MaxBreaks, late : 0..MaxLate]
  PROVE  SyncInv'
<1>1. LogInv /\ BatchFits(b)
  BY BatchFacts
<1>2. LogInv' /\ lastSeq \in Nat /\ lastSeq' \in Nat /\ lastSeq <= lastSeq'
  BY <1>1, ServerLog
<1>3. \A g \in Device : StoredOf(g)'
  BY ServerStored
<1>4. AcceptedInv' /\ accepted' \subseteq 1..(nextId' - 1)
  BY ServerAccepted
<1>5. store' = store /\ outbox' = outbox /\ nextId' = nextId /\ created' = created
  BY DEF ServerStep, deviceVars
<1>6. DeviceInv'
  BY <1>5 DEF SyncInv, DeviceInv, Device0, Known
<1>7. BatchesInv'
  <2>1. BatchesInv
    BY DEF SyncInv
  <2>2. \A h \in Batches' : BatchFits(h)' /\ \A g \in Device : StillWaits(h, g)'
    BY <1>5, <2>1 DEF BatchesInv, BatchFits, StillWaits
  <2>. QED
    BY <2>1, <2>2 DEF BatchesInv
<1>8. Shapes'
  <2>1. /\ store = [d \in Device |-> store[d]] /\ outbox = [d \in Device |-> outbox[d]]
        /\ cursor \in [Device -> 0..lastSeq] /\ nextId \in Nat \ {0} /\ created \subseteq Record
    BY DEF SyncInv, Shapes
  <2>2. 0..lastSeq \subseteq 0..lastSeq'
    BY <1>2
  <2>3. cursor \in [Device -> 0..lastSeq']
    BY <2>1, <2>2
  <2>. QED
    BY <1>4, <1>5, <2>1, <2>3 DEF Shapes
<1>9. ASSUME NEW g \in Device, round'[g] = round[g] PROVE RoundFits(g)'
  <2>1. RoundFits(g)
    BY DEF SyncInv
  <2>2. round[g].at = "answered" => AnswersFit(g)'
    <3>1. round[g].at = "answered" => AnswersFit(g)
      BY <2>1 DEF RoundFits
    <3>2. outbox' = outbox /\ nextId' = nextId
      BY <1>5
    <3>. QED
      BY <1>9, <3>1, <3>2 DEF AnswersFit
  <2>3. round[g].at = "page" => PageFits(g)'
    <3>. SUFFICES ASSUME round[g].at = "page" PROVE PageFits(g)'
      OBVIOUS
    <3>1. PageFits(g)
      BY <2>1 DEF RoundFits
    <3>2. \A x \in round[g].page : x.seq <= lastSeq' /\ x.rec \in created'
      BY <1>2, <1>5, <3>1 DEF PageFits, ServerRow
    <3>. QED
      BY <1>9, <3>1, <3>2 DEF PageFits
  <2>. QED
    BY <1>9, <2>1, <2>2, <2>3 DEF RoundFits
<1>10. \A g \in Device : RoundFits(g)'
  BY <1>9
<1>. QED
  BY <1>2, <1>3, <1>4, <1>6, <1>7, <1>8, <1>10 DEF SyncInv

LEMMA HandlePushStep ==
  ASSUME SyncInv, NEW d \in Device, HandlePush(d)
  PROVE  /\ round[d].batch \in Batches
         /\ \E refused :
              /\ ServerStep(round[d].batch, refused) /\ SyncInv'
              /\ \A c \in round[d].batch : round'[d].results[c.id] = AnswerTo(round[d].batch, refused, c)
<1> DEFINE b == round[d].batch
<1>0. PICK refused \in Refusable(b) :
        \E outcome \in {PushChanges(b, refused)} :
          /\ Serve(b, refused, outcome)
          /\ Go(d, [at |-> "answered", batch |-> b, results |-> outcome.results,
                    again |-> FALSE, repush |-> round[d].repush])
  BY DEF HandlePush
<1>1. PICK outcome \in {PushChanges(b, refused)} :
        /\ Serve(b, refused, outcome)
        /\ Go(d, [at |-> "answered", batch |-> b, results |-> outcome.results,
                  again |-> FALSE, repush |-> round[d].repush])
  BY <1>0
<1>2. round[d].at = "sent" /\ UNCHANGED <<deviceVars, cursor, late, nextId, created, belated>>
  BY DEF HandlePush
<1>3. b \in Batches /\ b # {}
  <2>1. RoundFits(d)
    BY DEF SyncInv
  <2>. QED
    BY <1>2, <2>1 DEF Batches, RoundFits
<1> DEFINE next == [at |-> "answered", batch |-> b, results |-> outcome.results,
                    again |-> FALSE, repush |-> round[d].repush]
<1>4. next.at = "answered" /\ next.batch = b /\ next.results = outcome.results /\ Go(d, next)
  BY <1>1
<1> HIDE DEF b, next
<1>5. /\ ServerStep(b, refused)
      /\ \A c \in b : outcome.results[c.id] = AnswerTo(b, refused, c)
      /\ spent' \in [refused : 0..MaxRefusals, broken : 0..MaxBreaks, late : 0..MaxLate]
  BY <1>1, <1>2, <1>3, ServeIsStep
<1>6. round'[d] = next /\ round' = [g \in Device |-> round'[g]]
      /\ \A g \in Device \ {d} : round'[g] = round[g]
  BY <1>4, GoFacts
<1>7. Batches' \subseteq Batches
  <2>1. next.at # "sent" /\ late' \subseteq late
    BY <1>2, <1>4
  <2>. QED
    BY <1>4, <2>1, BatchesGo
<1>8. RoundFits(d)'
  <2>1. AnswersFit(d)'
    BY <1>3, <1>4, <1>5, <1>6, AnswersRight
  <2>. QED
    BY <1>4, <1>6, <2>1 DEF RoundFits
<1>9. belated' \subseteq Record
  BY <1>2 DEF SyncInv, Shapes
<1>10. SyncInv'
  BY <1>2, <1>3, <1>5, <1>6, <1>7, <1>8, <1>9, ServerStepKeepsInv
<1>11. \A c \in b : round'[d].results[c.id] = AnswerTo(b, refused, c)
  BY <1>4, <1>5, <1>6
<1>. QED
  BY <1>3, <1>5, <1>10, <1>11 DEF b

LEMMA ArriveLateStep ==
  ASSUME SyncInv, NEW b \in late, ArriveLate(b)
  PROVE  b \in Batches /\ \E refused : ServerStep(b, refused) /\ SyncInv'
<1>1. b \in Batches
  BY DEF Batches
<1>2. PICK refused \in Refusable(b) : Serve(b, refused, PushChanges(b, refused))
  BY DEF ArriveLate
<1>3. late' \subseteq late /\ UNCHANGED <<deviceVars, cursor, round, nextId, created>>
  BY DEF ArriveLate
<1> DEFINE outcome == PushChanges(b, refused)
<1>4. outcome = PushChanges(b, refused) /\ Serve(b, refused, outcome)
  BY <1>2
<1> HIDE DEF outcome
<1>5. /\ ServerStep(b, refused)
      /\ spent' \in [refused : 0..MaxRefusals, broken : 0..MaxBreaks, late : 0..MaxLate]
  BY <1>1, <1>3, <1>4, ServeIsStep
<1>6. Batches' \subseteq Batches
  BY <1>3, BatchesFrame
<1>7. round' = [g \in Device |-> round'[g]] /\ cursor' = cursor /\ \A g \in Device : round'[g] = round[g]
  BY <1>3 DEF SyncInv, Shapes
<1>8. belated' \subseteq Record
  <2>1. log' \subseteq ServerRow
    BY <1>1, <1>5, BatchFacts, ServerLog DEF LogInv
  <2>2. belated \subseteq Record /\ belated' = belated \cup { x.rec : x \in log' \ log }
    BY DEF SyncInv, Shapes, ArriveLate
  <2>. QED
    BY <2>1, <2>2 DEF ServerRow
<1>9. SyncInv'
  BY <1>1, <1>5, <1>6, <1>7, <1>8, ServerStepKeepsInv
<1>. QED
  BY <1>1, <1>5, <1>9

(* A new row of a change accepted before: a purge had taken the first.     *)
LEMMA ServerOnce ==
  ASSUME SyncInv, NEW b \in Batches, NEW refused, ServerStep(b, refused),
         NEW x \in log' \ log, x.id \in accepted
  PROVE  \E p \in log' : p.rec = x.rec /\ p.kind = "purged"
<1>1. LogInv /\ BatchFits(b) /\ \A c \in b : c.id \in accepted => ThereOrPurged(c)
  BY BatchFacts
<1>2. x \in AllOf(b, refused)
  BY DEF ServerStep
<1>3. /\ log \subseteq AllOf(b, refused)
      /\ \A z \in AllOf(b, refused) : z \in log \/ \E c \in NewOf(b, refused) : z = RowFor(b, refused, c)
  BY <1>1, AllRows
<1>4. PICK c \in NewOf(b, refused) : x = RowFor(b, refused, c)
  BY <1>2, <1>3
<1>5. x.rec = c.rec /\ x.id = c.id /\ c \in b /\ ~IsStored(log, c)
  BY <1>1, <1>4, NewRow, NewFacts
<1>6. PICK p \in log : p.rec = x.rec /\ p.kind = "purged"
  BY <1>1, <1>5 DEF ThereOrPurged
<1>7. p \in log' \/ \E q \in log' : q.rec = p.rec /\ q.kind = "purged"
  BY <1>1, <1>3, RowSurvives
<1>. QED
  BY <1>6, <1>7
-------------------------------------------------------------------------------
(***************************************************************************)
(* The theorems.                                                           *)
(***************************************************************************)
LEMMA InitInv ==
  ASSUME Init
  PROVE  SyncInv
<1>1. /\ log = {} /\ lastSeq = 0 /\ late = {} /\ nextId = 1 /\ created = {} /\ accepted = {} /\ belated = {}
      /\ store = [d \in Device |-> {}] /\ outbox = [d \in Device |-> {}]
      /\ cursor = [d \in Device |-> 0] /\ round = [d \in Device |-> Idle]
      /\ spent = [refused |-> 0, broken |-> 0, late |-> 0]
  BY DEF Init
<1>2. IsFiniteSet({})
  BY FS_EmptySet
<1>3. \A d \in Device : store[d] = {} /\ outbox[d] = {} /\ round[d].at = "idle"
  BY <1>1 DEF Idle
<1>4. Batches = {}
  BY <1>1, <1>3 DEF Batches
<1>5. Shapes
  <2>1. {MaxRefusals, MaxBreaks, MaxLate} \subseteq Nat
    BY RecordSyncAssumption
  <2>2. spent \in [refused : 0..MaxRefusals, broken : 0..MaxBreaks, late : 0..MaxLate]
    BY <1>1, <2>1
  <2>3. cursor \in [Device -> 0..lastSeq]
    BY <1>1
  <2>4. /\ store = [d \in Device |-> store[d]] /\ outbox = [d \in Device |-> outbox[d]]
        /\ round = [d \in Device |-> round[d]]
    BY <1>1
  <2>. QED
    BY <1>1, <2>2, <2>3, <2>4 DEF Shapes
<1>6. DeviceInv
  <2>1. \A d \in Device : DevFits(Device0(d))
    <3>. TAKE d \in Device
    <3>1. Device0(d).rows = {} /\ Device0(d).queue = {} /\ Device0(d).id = 1
      BY <1>1, <1>3 DEF Device0
    <3>2. Pending({}) = {}
      BY DEF Pending
    <3>3. RowsFit({}) /\ KindsFit({}) /\ QueueFits({}, {})
      BY <1>2 DEF RowsFit, KindsFit, QueueFits
    <3>. QED
      BY <3>1, <3>2, <3>3 DEF DevFits
  <2>. QED
    BY <1>3, <2>1 DEF DeviceInv, Known
<1>7. LogInv
  BY <1>1, <1>2 DEF LogInv, BelowPurge
<1>8. BatchesInv /\ AcceptedInv /\ \A d \in Device : StoredOf(d) /\ RoundFits(d)
  BY <1>1, <1>3, <1>4 DEF BatchesInv, AcceptedInv, StoredOf, RoundFits
<1>. QED
  BY <1>5, <1>6, <1>7, <1>8 DEF SyncInv

LEMMA StutterKeepsInv ==
  ASSUME SyncInv, UNCHANGED vars
  PROVE  SyncInv'
<1>1. /\ log' = log /\ lastSeq' = lastSeq /\ accepted' = accepted /\ store' = store /\ outbox' = outbox
      /\ cursor' = cursor /\ round' = round /\ late' = late /\ nextId' = nextId /\ spent' = spent
      /\ created' = created /\ belated' = belated
  BY DEF vars, serverVars, deviceVars
<1>2. Shapes' /\ LogInv'
  BY <1>1 DEF SyncInv, Shapes, LogInv, BelowPurge
<1>3. DeviceInv'
  BY <1>1 DEF SyncInv, DeviceInv, Device0, Known
<1>4. Batches' = Batches
  BY <1>1 DEF Batches
<1>5. BatchesInv' /\ AcceptedInv'
  <2>1. BatchesInv'
    BY <1>1, <1>4 DEF SyncInv, BatchesInv, BatchFits, StillWaits
  <2>2. AcceptedInv'
    BY <1>1, <1>4 DEF SyncInv, AcceptedInv, ThereOrPurged, IsStored
  <2>. QED
    BY <2>1, <2>2
<1>6. \A d \in Device : StoredOf(d)' /\ RoundFits(d)'
  <2>1. \A d \in Device : StoredOf(d)'
    BY <1>1 DEF SyncInv, StoredOf
  <2>2. \A d \in Device : RoundFits(d)'
    BY <1>1 DEF SyncInv, RoundFits, AnswersFit, PageFits
  <2>. QED
    BY <2>1, <2>2
<1>. QED
  BY <1>2, <1>3, <1>5, <1>6 DEF SyncInv

(* A step of the server is a push that it takes, or leaves its rows alone. *)
LEMMA ServerMoves ==
  ASSUME SyncInv, [Next]_vars
  PROVE  \/ log' = log
         \/ \E b \in Batches : \E refused : ServerStep(b, refused)
<1>1. CASE UNCHANGED vars
  BY <1>1 DEF vars, serverVars
<1>2. ASSUME NEW d \in Device, UserNext(d) PROVE log' = log
  BY <1>2 DEF UserNext, Create, Update, Delete, Purge, RetryParked, UserWrite, serverVars
<1>3. ASSUME NEW d \in Device, Send(d) \/ TakeResult(d) \/ ReadPage(d) \/ ApplyPage(d) \/ Break(d) \/ GiveUp(d)
      PROVE  log' = log
  BY <1>3 DEF Send, TakeResult, TakeResultOf, ReadPage, ApplyPage, Break, GiveUp, serverVars
<1>4. ASSUME NEW d \in Device, HandlePush(d) PROVE \E b \in Batches : \E refused : ServerStep(b, refused)
  BY <1>4, HandlePushStep
<1>5. ASSUME NEW b \in late, ArriveLate(b) PROVE \E h \in Batches : \E refused : ServerStep(h, refused)
  BY <1>5, ArriveLateStep
<1>. QED
  BY <1>1, <1>2, <1>3, <1>4, <1>5 DEF Next, RoundNext

LEMMA NextKeepsInv ==
  ASSUME SyncInv, [Next]_vars
  PROVE  SyncInv'
<1>1. CASE UNCHANGED vars
  BY <1>1, StutterKeepsInv
<1>2. ASSUME NEW d \in Device, UserNext(d) PROVE SyncInv'
  <2>1. ASSUME NEW r \in Record, Create(d, r) \/ Update(d, r) \/ Delete(d, r) \/ Purge(d, r) PROVE SyncInv'
    BY <2>1, CreateKeepsInv, UpdateKeepsInv, DeleteKeepsInv, PurgeKeepsInv
  <2>. QED
    BY <1>2, <2>1, RetryParkedKeepsInv DEF UserNext
<1>3. ASSUME NEW d \in Device, RoundNext(d) PROVE SyncInv'
  <2>1. CASE Send(d)
    BY <2>1, SendKeepsInv
  <2>2. CASE HandlePush(d)
    BY <2>2, HandlePushStep
  <2>3. CASE TakeResult(d)
    BY <2>3, TakeResultKeepsInv
  <2>4. CASE ReadPage(d)
    BY <2>4, ReadPageKeepsInv
  <2>5. CASE ApplyPage(d)
    BY <2>5, ApplyPageKeepsInv
  <2>. QED
    BY <1>3, <2>1, <2>2, <2>3, <2>4, <2>5 DEF RoundNext
<1>4. ASSUME NEW d \in Device, Break(d) \/ GiveUp(d) PROVE SyncInv'
  BY <1>4, BreakKeepsInv, GiveUpKeepsInv
<1>5. ASSUME NEW b \in late, ArriveLate(b) PROVE SyncInv'
  BY <1>5, ArriveLateStep
<1>. QED
  BY <1>1, <1>2, <1>3, <1>4, <1>5 DEF Next

LEMMA InvIsEnough ==
  ASSUME SyncInv
  PROVE  VersionsInOrder
<1>1. LogInv /\ Shapes /\ DeviceInv /\ BatchesInv /\ \A d \in Device : RoundFits(d)
  BY DEF SyncInv
<1>2. \A d \in Device : RowsFit(store[d]) /\ QueueFits(Pending(store[d]), outbox[d])
  BY DeviceFacts
<1>3. TypeOK
  <2>1. \A d \in Device : store[d] \subseteq StoreRow /\ outbox[d] \subseteq Entry
    BY <1>2 DEF RowsFit, QueueFits
  <2>2. \A d \in Device : cursor[d] \in 0..lastSeq
    BY <1>1 DEF Shapes
  <2>3. \A d \in Device : round[d].at \in {"idle", "sent", "answered", "ask", "page", "repush"}
    BY <1>1 DEF RoundFits
  <2>4. \A b \in late : b \subseteq PushChange
    BY <1>1 DEF BatchesInv, Batches, BatchFits
  <2>. QED
    BY <1>1, <2>1, <2>2, <2>3, <2>4 DEF TypeOK, LogInv, Shapes
<1>4. PendingAboveSynced
  BY <1>2 DEF RowsFit, PendingAboveSynced, Pending, Synced
<1>5. OutboxNamesPending
  <2>. SUFFICES ASSUME NEW d \in Device
                PROVE  /\ \A e, f \in outbox[d] :
                            /\ e.id = f.id => e = f
                            /\ e.rec = f.rec /\ e.id < f.id => e.ver < f.ver
                       /\ { <<e.rec, e.ver>> : e \in outbox[d] }
                            = { <<x.rec, x.ver>> : x \in Pending(store[d]) }
                       /\ \A x, y \in store[d] : x.rec = y.rec /\ x.ver = y.ver => x = y
    BY DEF OutboxNamesPending
  <2>1. /\ \A e, f \in outbox[d] :
             /\ e.id = f.id => e = f
             /\ e.rec = f.rec /\ e.id < f.id => e.ver < f.ver
        /\ \A e \in outbox[d] : \E x \in Pending(store[d]) : IsRowOf(x, e)
        /\ \A x \in Pending(store[d]) : \E e \in outbox[d] : IsRowOf(x, e)
    BY <1>2 DEF QueueFits
  <2>2. { <<e.rec, e.ver>> : e \in outbox[d] } = { <<x.rec, x.ver>> : x \in Pending(store[d]) }
    BY <2>1 DEF IsRowOf
  <2>. QED
    BY <1>2, <2>1, <2>2 DEF RowsFit
<1>6. ServerNumbering
  BY <1>1 DEF LogInv, ServerNumbering
<1>. QED
  BY <1>3, <1>4, <1>5, <1>6 DEF VersionsInOrder

(* On every device what waits lies above what is synced and the outbox     *)
(* names it, each version once and in write order; on the server versions  *)
(* are numbered without a gap in the order of the log.  Whatever users     *)
(* write between two steps, however rounds break off and requests arrive   *)
(* late (outbox-schema.ts, push.ts nextVersion).                           *)
THEOREM Ordered == Spec => []VersionsInOrder
<1>1. Init => SyncInv
  BY InitInv
<1>2. SyncInv /\ [Next]_vars => SyncInv'
  BY NextKeepsInv
<1>3. SyncInv => VersionsInOrder
  BY InvIsEnough
<1>. QED
  BY <1>1, <1>2, <1>3, PTL DEF Spec

(* No change is appended twice, pushed again or late, moved or not, unless *)
(* a purge of its record took the first row (push.ts, clientChangeId).     *)
THEOREM Once == Spec => AppliedOnce
<1>1. Init => SyncInv
  BY InitInv
<1>2. SyncInv /\ [Next]_vars => SyncInv'
  BY NextKeepsInv
<1>3. SyncInv /\ [Next]_vars =>
        [\A x \in log' \ log : x.id \in accepted => \E p \in log' : p.rec = x.rec /\ p.kind = "purged"]_vars
  <2>. SUFFICES ASSUME SyncInv, [Next]_vars, NEW x \in log' \ log, x.id \in accepted
                PROVE  \E p \in log' : p.rec = x.rec /\ p.kind = "purged"
    OBVIOUS
  <2>1. PICK b \in Batches : \E refused : ServerStep(b, refused)
    BY ServerMoves
  <2>. QED
    BY <2>1, ServerOnce
<1>. QED
  BY <1>1, <1>2, <1>3, PTL DEF Spec, AppliedOnce

(* What a rebase leaves of the rows: what is synced as it is, and of every *)
(* version that waits one like it, no lower; it adds nothing but puts.     *)
LEMMA RebasedRows ==
  ASSUME NEW dev, DevFits(dev), NEW pulled, PulledFits(pulled), NEW ids
  PROVE  /\ Synced(Rebased(dev, pulled, ids).rows) = Synced(dev.rows)
         /\ \A p \in Pending(Rebased(dev, pulled, ids).rows) : p.kind = "purged" =>
              \E q \in Pending(dev.rows) : q.rec = p.rec /\ q.kind = "purged"
         /\ \A q \in Pending(dev.rows) : \E p \in Pending(Rebased(dev, pulled, ids).rows) :
              p.rec = q.rec /\ p.kind = q.kind /\ q.ver <= p.ver
<1> DEFINE W == Pending(dev.rows)
           up(x) == [x EXCEPT !.ver = @ + Shift(dev, x.rec, pulled)]
           M == MergedRecords(dev, pulled)
           Version(r) == Highest(Chain(Moved(dev, pulled), r)).ver + 1
           Row(r) == LocalRow(r, Version(r), "put", Merged(dev, r, pulled), FALSE)
           new == Rebased(dev, pulled, ids)
<1>1. new.rows = (Synced(dev.rows) \cup { up(x) : x \in W }) \cup { Row(r) : r \in M }
  <2>1. Moved(dev, pulled).rows = Synced(dev.rows) \cup { up(x) : x \in W }
    BY DEF Moved
  <2>2. new.rows = Moved(dev, pulled).rows \cup { Row(r) : r \in M }
    BY DEF Rebased
  <2> HIDE DEF new, up, Row, W, M
  <2>. QED
    BY <2>1, <2>2
<1>2. \A x \in W : up(x).rec = x.rec /\ up(x).kind = x.kind /\ up(x).synced = FALSE
                   /\ x.ver <= up(x).ver
  <2>. SUFFICES ASSUME NEW x \in W
                PROVE  /\ up(x).rec = x.rec /\ up(x).kind = x.kind /\ up(x).synced = FALSE
                       /\ x.ver <= up(x).ver
    OBVIOUS
  <2>1. x \in StoreRow /\ ~x.synced
    BY PendingRows DEF DevFits
  <2>2. Shift(dev, x.rec, pulled) \in Nat
    BY ShiftAbove
  <2>. QED
    BY <2>1, <2>2 DEF StoreRow
<1>3. \A r \in M : Row(r).synced = FALSE /\ Row(r).kind = "put"
  BY DEF LocalRow
<1>4. \A x \in Synced(dev.rows) : x.synced
  BY DEF Synced
<1> HIDE DEF new, up, Row, W, M
<1>5. Synced(new.rows) = Synced(dev.rows)
  BY <1>1, <1>2, <1>3, <1>4 DEF Synced
<1>6. \A p \in Pending(new.rows) : p.kind = "purged" => \E x \in W : x.rec = p.rec /\ x.kind = "purged"
  BY <1>1, <1>2, <1>3, <1>4 DEF Pending
<1>7. \A x \in W : up(x) \in Pending(new.rows)
  BY <1>1, <1>2 DEF Pending
<1>. QED
  BY <1>2, <1>5, <1>6, <1>7 DEF new, W

(* A chain that goes goes for a purge that was pulled.                     *)
LEMMA DroppedRows ==
  ASSUME NEW dev, NEW pulled, PulledFits(pulled)
  PROVE  /\ Synced(DropDeletesOfPurged(dev, pulled).rows) = Synced(dev.rows)
         /\ Pending(DropDeletesOfPurged(dev, pulled).rows) \subseteq Pending(dev.rows)
         /\ \A q \in Pending(dev.rows) : q \notin Pending(DropDeletesOfPurged(dev, pulled).rows) =>
              \E y \in pulled : y.rec = q.rec /\ y.kind = "purged"
<1> DEFINE new == DropDeletesOfPurged(dev, pulled)
<1>1. /\ \A x \in new.rows : x \in dev.rows
      /\ \A x \in dev.rows : x.synced => x \in new.rows
      /\ \A x \in dev.rows : x \notin new.rows =>
           Of(pulled, x.rec) # {} /\ HeadOf(pulled, x.rec).kind = "purged"
  BY DEF DropDeletesOfPurged
<1>2. ASSUME NEW r, Of(pulled, r) # {} PROVE HeadOf(pulled, r) \in pulled /\ HeadOf(pulled, r).rec = r
  <2>1. IsFiniteSet(Of(pulled, r)) /\ \A x \in Of(pulled, r) : x.ver \in Nat
    BY FS_Subset DEF PulledFits, Of, StoreRow
  <2>2. HeadOf(pulled, r) \in Of(pulled, r)
    BY <1>2, <2>1, HighestRow DEF HeadOf
  <2>. QED
    BY <2>2 DEF Of
<1> HIDE DEF new
<1>3. \A x \in dev.rows : x \notin new.rows => \E y \in pulled : y.rec = x.rec /\ y.kind = "purged"
  BY <1>1, <1>2
<1>. QED
  BY <1>1, <1>3 DEF Synced, Pending, new

(* What a page leaves of the rows.                                         *)
PulledRows(page) == { AsSynced(row) : row \in page }

Applied(rows, newRows, pulled) ==
  /\ \A x \in Synced(newRows) : x \in pulled \/ x \in Synced(rows)
  /\ \A x \in Synced(newRows), p \in pulled :
       p.rec = x.rec /\ p.kind = "purged" => ~(x.ver < p.ver)
  /\ \A x \in Synced(newRows), p \in Pending(newRows) :
       p.rec = x.rec /\ p.kind = "purged" => x \notin pulled
  /\ \A x \in pulled \cup Synced(rows) :
       \/ x \in newRows
       \/ x \notin pulled /\ \E y \in pulled : y.rec = x.rec /\ y.ver = x.ver
       \/ \E p \in pulled \cup Synced(rows) \cup Pending(newRows) :
            p.rec = x.rec /\ p.kind = "purged" /\ x.ver < p.ver
  /\ \A p \in Pending(newRows) : p.kind = "purged" =>
       \E q \in Pending(rows) : q.rec = p.rec /\ q.kind = "purged"
  /\ \A q \in Pending(rows) : q.kind = "purged" =>
       \/ \E p \in Pending(newRows) : p.rec = q.rec /\ p.kind = "purged" /\ q.ver <= p.ver
       \/ \E y \in pulled : y.rec = q.rec /\ y.kind = "purged"

LEMMA AppliedRows ==
  ASSUME NEW dev, DevFits(dev), IsDev(dev), NEW page, page \subseteq ServerRow, IsFiniteSet(page),
         \A x, y \in page : x.rec = y.rec /\ x.ver = y.ver => x = y,
         NEW ids,
         ids \in Bijection(MergedBy(dev, page), dev.id..(dev.id + Cardinality(MergedBy(dev, page)) - 1)),
         NEW new, new = ApplyRows(dev, page, ids), NEW pulled, pulled = PulledRows(page)
  PROVE  Applied(dev.rows, new.rows, pulled)
<1> DEFINE R == { row.rec : row \in page }
           drop == DropDeletesOfPurged(dev, pulled)
           rebased == Rebased(drop, pulled, ids)
           U == Upsert(rebased.rows, pulled)
           old == { x \in Synced(BelowPurge(U)) : \E row \in page : row.rec = x.rec }
<1>1. PulledFits(pulled)
  BY PulledPage DEF PulledRows
<1>2. Keeps(dev, drop, R) /\ drop.id = dev.id /\ DevFits(drop)
  <2>1. Keeps(dev, drop, R)
    BY DropFits
  <2>2. drop.id = dev.id
    BY DEF DropDeletesOfPurged
  <2> HIDE DEF drop
  <2>. QED
    BY <2>1, <2>2 DEF Keeps
<1>3. MergedBy(dev, page) = MergedRecords(drop, pulled)
  BY DEF MergedBy, PulledRows
<1>4. Keeps(drop, rebased, R) /\ AbovePulled(rebased, pulled)
  <2> HIDE DEF drop, R
  <2>. QED
    BY <1>1, <1>2, <1>3, RebasedFits
<1>5. new.rows = U \ old
  <2>1. IsDev(rebased)
    BY <1>4 DEF Keeps
  <2>2. Written(dev, page, ids) = [rebased EXCEPT !.rows = U]
    BY DEF Written, PulledRows
  <2> HIDE DEF rebased
  <2>3. Written(dev, page, ids) = [rows |-> U, queue |-> rebased.queue, id |-> rebased.id]
    BY <2>1, <2>2, DevParts
  <2>4. Written(dev, page, ids).rows = U /\ IsDev(Written(dev, page, ids))
    BY <2>3 DEF IsDev
  <2> DEFINE w == Written(dev, page, ids)
             rest == U \ old
  <2>5. new = [w EXCEPT !.rows = rest]
    BY <2>4 DEF ApplyRows
  <2> HIDE DEF w, rest
  <2>6. [w EXCEPT !.rows = rest] = [rows |-> rest, queue |-> w.queue, id |-> w.id]
    BY <2>4, DevParts DEF w
  <2>. QED
    BY <2>5, <2>6 DEF rest
<1>6. /\ Synced(rebased.rows) = Synced(dev.rows)
      /\ \A p \in Pending(rebased.rows) : p.kind = "purged" =>
           \E q \in Pending(dev.rows) : q.rec = p.rec /\ q.kind = "purged"
      /\ \A q \in Pending(dev.rows) : q.kind = "purged" =>
           \/ \E p \in Pending(rebased.rows) : p.rec = q.rec /\ p.kind = "purged" /\ q.ver <= p.ver
           \/ \E y \in pulled : y.rec = q.rec /\ y.kind = "purged"
  <2>1. /\ Synced(rebased.rows) = Synced(drop.rows)
        /\ \A p \in Pending(rebased.rows) : p.kind = "purged" =>
             \E q \in Pending(drop.rows) : q.rec = p.rec /\ q.kind = "purged"
        /\ \A q \in Pending(drop.rows) : \E p \in Pending(rebased.rows) :
             p.rec = q.rec /\ p.kind = q.kind /\ q.ver <= p.ver
    <3> HIDE DEF drop
    <3>. QED
      BY <1>1, <1>2, RebasedRows
  <2>2. /\ Synced(drop.rows) = Synced(dev.rows) /\ Pending(drop.rows) \subseteq Pending(dev.rows)
        /\ \A q \in Pending(dev.rows) : q \notin Pending(drop.rows) =>
             \E y \in pulled : y.rec = q.rec /\ y.kind = "purged"
    BY <1>1, DroppedRows
  <2> HIDE DEF drop, rebased
  <2>. QED
    BY <2>1, <2>2
<1> HIDE DEF rebased, drop, R
<1>7. \A y \in pulled : y.synced /\ y.ver \in Nat
  BY <1>1 DEF PulledFits, StoreRow
<1>8. \A x \in rebased.rows : x.ver \in Nat
  BY <1>4 DEF Keeps, DevFits, RowsFit, StoreRow
<1>9. U = { x \in rebased.rows : \A y \in pulled : y.rec # x.rec \/ y.ver # x.ver } \cup pulled
  BY DEF Upsert
<1>10. \A x \in pulled : \E row \in page : row.rec = x.rec
  BY DEF PulledRows, AsSynced, LocalRow
<1>11. \A x : x \in old <=>
         /\ x \in U /\ x.synced /\ \E row \in page : row.rec = x.rec
         /\ \E p \in U : p.kind = "purged" /\ p.rec = x.rec /\ x.ver < p.ver
  BY DEF BelowPurge, Synced
<1> HIDE DEF U, old
<1>12. Pending(new.rows) = Pending(rebased.rows)
  <2>1. \A x \in Pending(rebased.rows) : \A y \in pulled : y.rec # x.rec \/ y.ver # x.ver
    <3>1. \A x \in Pending(rebased.rows) : x.ver \in Nat
      BY <1>8 DEF Pending
    <3>. QED
      BY <1>4, <1>7, <3>1 DEF AbovePulled
  <2>. QED
    BY <1>5, <1>7, <1>9, <1>11, <2>1 DEF Pending
<1>13. \A x \in U : x \in pulled \/ x \in Synced(dev.rows) \/ x \in Pending(new.rows)
  BY <1>6, <1>9, <1>12 DEF Pending, Synced
<1>14. \A x \in Synced(new.rows) : x \in pulled \/ x \in Synced(dev.rows)
  BY <1>5, <1>13 DEF Pending, Synced
<1>15. \A p \in pulled \cup Pending(new.rows) : p \in U
  BY <1>5, <1>9 DEF Pending
<1>16. \A x \in Synced(new.rows), p \in pulled :
         p.rec = x.rec /\ p.kind = "purged" => ~(x.ver < p.ver)
  BY <1>5, <1>10, <1>11, <1>15 DEF Synced
<1>17. \A x \in Synced(new.rows), p \in Pending(new.rows) :
         p.rec = x.rec /\ p.kind = "purged" => x \notin pulled
  <2>. SUFFICES ASSUME NEW x \in Synced(new.rows), NEW p \in Pending(new.rows), p.rec = x.rec,
                       p.kind = "purged", x \in pulled
                PROVE  FALSE
    OBVIOUS
  <2>1. x.ver < p.ver
    BY <1>4, <1>12 DEF AbovePulled
  <2>2. x \in old
    BY <1>7, <1>10, <1>11, <1>15, <2>1
  <2>. QED
    BY <1>5, <2>2 DEF Synced
<1>18. ASSUME NEW x \in pulled \cup Synced(dev.rows), x \notin new.rows,
              ~\E p \in pulled \cup Synced(dev.rows) \cup Pending(new.rows) :
                 p.rec = x.rec /\ p.kind = "purged" /\ x.ver < p.ver
       PROVE  x \notin pulled /\ \E y \in pulled : y.rec = x.rec /\ y.ver = x.ver
  <2>1. x \notin old
    BY <1>11, <1>13, <1>18
  <2>2. x \notin U
    BY <1>5, <1>18, <2>1
  <2>3. x \notin pulled
    BY <1>15, <2>2
  <2>4. x \in rebased.rows
    BY <1>6, <2>3 DEF Synced
  <2>. QED
    BY <1>9, <2>2, <2>3, <2>4
<1>. QED
  BY <1>6, <1>12, <1>14, <1>16, <1>17, <1>18 DEF Applied

(***************************************************************************)
(* What a device and the server know of each other: `L`, `S` and `Q` are   *)
(* the server's rows, the device's rows and its outbox entries of one      *)
(* record `r`, `n` is the device's cursor and `rd` its round.              *)
(***************************************************************************)
(* A purge the device has not pulled yet, above a version.                 *)
PurgedAbove(L, ver, n) == \E p \in L : p.kind = "purged" /\ ver < p.ver /\ n < p.seq

(* What lies behind the cursor is here, or about to be purged.             *)
HasAll(L, S, n) ==
  \A y \in L : y.seq <= n =>
    AsSynced(y) \in S \/ \E p \in Pending(S) : p.kind = "purged" /\ y.ver < p.ver

(* What counts as synced is on the server, or purged there since; or it is *)
(* the tombstone of a record that never got there.                         *)
HasOnly(L, S, n) ==
  \A x \in Synced(S) :
    \/ \E y \in L : x = AsSynced(y)
    \/ PurgedAbove(L, x.ver, n)
    \/ L = {} /\ x.kind = "purged"

PurgeAlone(S) == (\E p \in Pending(S) : p.kind = "purged") => Synced(S) = {}

(* What the server has of what waits is sent again before the next pull,   *)
(* and taken off the outbox by its answer.                                 *)
Unanswered(L, S, Q, n, rd) ==
  \A x \in L, e \in Q : x.id = e.id =>
    /\ rd.at \in {"idle", "sent", "answered"}
    /\ \A f \in Q : ~f.parked
    /\ n < x.seq
    /\ \A y \in Pending(S) : IsRowOf(y, e) /\ y.kind = "purged" => x.kind = "purged"
    /\ rd.at = "sent" => \E c \in rd.batch : c.id = e.id
    /\ rd.at = "answered" => \E c \in rd.batch : c.id = e.id /\ rd.results[c.id].status = "applied"

(* A record the server does not have is sent by the one device that has    *)
(* it, from its first version on unless that was counted as synced.        *)
SentAgrees(L, S, Q, rd, r) ==
  rd.at = "sent" => \A c \in Of(rd.batch, r) :
    /\ \A f \in Q : ~f.parked
    /\ L = {} => S # {} /\ (Synced(S) # {} => c.base # 0)

(* An answer about what still waits is as good as when it was given.       *)
AnswersAgree(L, S, Q, n, rd) ==
  rd.at = "answered" => \A c \in rd.batch, e \in Q : c.id = e.id =>
    /\ \A y \in Pending(S) : IsRowOf(y, e) => y.kind = c.kind
    /\ rd.results[c.id].status = "applied" =>
         /\ rd.results[c.id].row.id = e.id
         /\ rd.results[c.id].row \in L \/ PurgedAbove(L, rd.results[c.id].row.ver, n)
    /\ rd.results[c.id].status = "not_found" /\ c.kind = "purged" => L = {}

(* A page has all that lies between the cursor and its own end, but for    *)
(* what a later purge took away.                                           *)
PageAgrees(L, n, rd, r) ==
  rd.at = "page" =>
    /\ \A x \in rd.page : n < x.seq
    /\ \A x \in Of(rd.page, r) :
         \/ x \in L
         \/ \E p \in L : p.kind = "purged" /\ x.ver < p.ver /\ \A z \in rd.page : z.seq < p.seq
    /\ \A y \in L : y \notin rd.page /\ n < y.seq => \A z \in rd.page : z.seq < y.seq

AgreesOf(L, S, Q, n, rd, r) ==
  /\ HasAll(L, S, n) /\ HasOnly(L, S, n) /\ PurgeAlone(S)
  /\ Unanswered(L, S, Q, n, rd) /\ SentAgrees(L, S, Q, rd, r)
  /\ AnswersAgree(L, S, Q, n, rd) /\ PageAgrees(L, n, rd, r)

Agrees(d, r) == AgreesOf(Of(log, r), Of(store[d], r), Of(outbox[d], r), cursor[d], round[d], r)

(* A record the server does not have is on one device at most.             *)
Alone(r) ==
  Of(log, r) = {} => \A d, g \in Device : Of(store[d], r) # {} /\ Of(store[g], r) # {} => d = g

(* Only its own device has what is sent still waiting.                     *)
Own ==
  \A d, g \in Device : round[d].at = "sent" /\ d # g =>
    \A c \in round[d].batch, e \in outbox[g] : c.id # e.id

AgreeInv ==
  /\ Own
  /\ \A r \in Record \ belated : Alone(r) /\ \A d \in Device : Agrees(d, r)

(* What is settled has converged: nothing waits, and every cursor is past  *)
(* every row.                                                              *)
LEMMA AgreedIsConverged ==
  ASSUME SyncInv, AgreeInv
  PROVE  Converged
<1>. SUFFICES ASSUME Settled, NEW d \in Device, NEW r \in Record \ belated
              PROVE  { x \in Of(store[d], r) : x.kind # "purged" \/ Of(log, r) # {} }
                       = { AsSynced(x) : x \in Of(log, r) }
  BY DEF Converged
<1> DEFINE L == Of(log, r)
           S == Of(store[d], r)
<1>1. outbox[d] = {} /\ cursor[d] = lastSeq
  BY DEF Settled
<1>2. Pending(S) = {} /\ \A x \in S : x \in Synced(S)
  <2>1. QueueFits(Pending(store[d]), outbox[d])
    BY DeviceFacts
  <2>2. Pending(store[d]) = {}
    BY <1>1, <2>1 DEF QueueFits
  <2>. QED
    BY <2>2 DEF Pending, Synced, Of
<1>3. HasAll(L, S, lastSeq) /\ HasOnly(L, S, lastSeq)
  BY <1>1 DEF AgreeInv, Agrees, AgreesOf
<1>4. \A y \in L : y.seq \in Nat /\ y.seq <= lastSeq /\ lastSeq \in Nat
  BY DEF SyncInv, LogInv, Of, ServerRow
<1> HIDE DEF L, S
<1>5. \A y \in L : AsSynced(y) \in S
  BY <1>2, <1>3, <1>4 DEF HasAll
<1>6. \A x \in S : (\E y \in L : x = AsSynced(y)) \/ (L = {} /\ x.kind = "purged")
  BY <1>2, <1>3, <1>4 DEF HasOnly, PurgedAbove
<1>7. { x \in S : x.kind # "purged" \/ L # {} } = { AsSynced(x) : x \in L }
  BY <1>5, <1>6
<1>. QED
  BY <1>7 DEF L, S

-------------------------------------------------------------------------------
(* What the server's step makes of a record's rows.                        *)
LEMMA RowsAfterStep ==
  ASSUME LogInv, NEW b, BatchFits(b), NEW refused, ServerStep(b, refused), NEW r
  PROVE  /\ \A x \in Of(log', r) :
              \/ x \in Of(log, r)
              \/ \E c \in NewOf(b, refused) :
                   c.rec = r /\ x = RowFor(b, refused, c) /\ x.id = c.id /\ lastSeq < x.seq
         /\ \A x \in AllOf(b, refused) : x.rec = r => x \in log' \/ PurgedAbove(Of(log', r), x.ver, lastSeq)
         /\ (\E c \in NewOf(b, refused) : c.rec = r) => \E x \in log' : x.rec = r /\ x \notin log
<1> DEFINE all == AllOf(b, refused)
           A == Of(all, r)
<1>1. /\ all \subseteq ServerRow /\ IsFiniteSet(all) /\ log \subseteq all
      /\ \A c \in NewOf(b, refused) : RowFor(b, refused, c) \in all
      /\ \A x \in all : x \in log \/ \E c \in NewOf(b, refused) : x = RowFor(b, refused, c)
  BY AllRows
<1>2. log' = all \ { y \in all : \E p \in all : p.kind = "purged" /\ p.rec = y.rec /\ y.ver < p.ver }
  BY DEF ServerStep, BelowPurge
<1>3. \A c \in NewOf(b, refused) :
        /\ RowFor(b, refused, c).rec = c.rec /\ RowFor(b, refused, c).id = c.id
        /\ lastSeq < RowFor(b, refused, c).seq
  <2>. SUFFICES ASSUME NEW c \in NewOf(b, refused)
                PROVE  /\ RowFor(b, refused, c).rec = c.rec /\ RowFor(b, refused, c).id = c.id
                       /\ lastSeq < RowFor(b, refused, c).seq
    OBVIOUS
  <2>1. /\ RowFor(b, refused, c).rec = c.rec /\ RowFor(b, refused, c).id = c.id
        /\ RowFor(b, refused, c).seq = lastSeq + Cardinality(UpToChange(b, NewOf(b, refused), c))
    BY NewRow
  <2>2. Cardinality(UpToChange(b, NewOf(b, refused), c)) \in 1..Cardinality(NewOf(b, refused))
        /\ Cardinality(NewOf(b, refused)) \in Nat /\ lastSeq \in Nat
    BY SeqsOfNew DEF LogInv
  <2>. QED
    BY <2>1, <2>2
<1>4. \A x \in log, c \in NewOf(b, refused) : x.rec = c.rec => x.ver < RowFor(b, refused, c).ver
  BY NewRowsAfter
<1>5. \A x \in all : x.ver \in Nat
  BY <1>1 DEF ServerRow
<1>6. \A x \in A : x \in all /\ x.rec = r
  BY DEF Of
<1>7. \A x \in all : x.rec = r => x \in A
  BY DEF Of
<1>8. IsFiniteSet(A)
  <2>1. A \in SUBSET all
    BY DEF Of
  <2> HIDE DEF A, all
  <2>. QED
    BY <1>1, <2>1, FS_Subset
<1> HIDE DEF all, A
(* The highest of a set of a record's rows that has nothing above it.      *)
<1>9. \A x \in Of(log', r) :
        \/ x \in Of(log, r)
        \/ \E c \in NewOf(b, refused) :
             c.rec = r /\ x = RowFor(b, refused, c) /\ x.id = c.id /\ lastSeq < x.seq
  BY <1>1, <1>2, <1>3 DEF Of
<1>10. ASSUME NEW x \in all, x.rec = r, x \notin log'
       PROVE  PurgedAbove(Of(log', r), x.ver, lastSeq)
  <2> DEFINE P == { p \in A : p.kind = "purged" }
  <2>1. PICK q \in all : q.kind = "purged" /\ q.rec = r /\ x.ver < q.ver
    BY <1>2, <1>10
  <2>2. q \in P /\ P \in SUBSET A
    BY <1>7, <2>1
  <2>3. \A p \in P : p \in all /\ p.kind = "purged" /\ p.rec = r /\ p.ver \in Nat
    BY <1>5, <1>6
  <2>4. \A p \in all : p.kind = "purged" /\ p.rec = r => p \in P
    BY <1>7
  <2> HIDE DEF P
  <2>5. PICK h \in P : \A p \in P : p.ver <= h.ver
    BY <1>8, <2>2, <2>3, FS_Subset, HighestRow
  <2>6. x.ver < h.ver
    BY <1>5, <2>1, <2>2, <2>3, <2>5
  <2>7. h \in log' /\ h.rec = r /\ h.kind = "purged"
    BY <1>2, <1>5, <2>3, <2>4, <2>5
  <2>8. h \notin log
    <3>. SUFFICES ASSUME h \in log PROVE FALSE
      OBVIOUS
    <3>1. CASE x \in log
      BY <1>10, <2>6, <2>7, <3>1 DEF LogInv, BelowPurge
    <3>2. CASE x \notin log
      <4>1. PICK c \in NewOf(b, refused) : x = RowFor(b, refused, c)
        BY <1>1, <3>2
      <4>2. h.ver < x.ver
        BY <1>3, <1>4, <1>10, <2>7, <4>1
      <4>. QED
        BY <1>5, <2>3, <2>6, <4>2
    <3>. QED
      BY <3>1, <3>2
  <2>9. lastSeq < h.seq
    BY <1>1, <1>3, <2>3, <2>8
  <2>. QED
    BY <2>6, <2>7, <2>9 DEF PurgedAbove, Of
<1>11. ASSUME NEW c \in NewOf(b, refused), c.rec = r
       PROVE  \E x \in log' : x.rec = r /\ x \notin log
  <2>1. RowFor(b, refused, c) \in A
    BY <1>1, <1>3, <1>7, <1>11
  <2>2. PICK h \in A : \A x \in A : x.ver <= h.ver
    BY <1>5, <1>6, <1>8, <2>1, HighestRow
  <2>3. h \in log' /\ h.rec = r
    BY <1>2, <1>5, <1>6, <1>7, <2>2
  <2>4. h \notin log
    <3>. SUFFICES ASSUME h \in log PROVE FALSE
      OBVIOUS
    <3>1. h.ver < RowFor(b, refused, c).ver
      BY <1>4, <1>11, <2>3
    <3>2. RowFor(b, refused, c).ver <= h.ver
      BY <2>1, <2>2
    <3>3. h.ver \in Nat /\ RowFor(b, refused, c).ver \in Nat
      BY <1>1, <1>5, <1>6
    <3>. QED
      BY <3>1, <3>2, <3>3
  <2>. QED
    BY <2>3, <2>4
<1>. QED
  BY <1>9, <1>10, <1>11 DEF all

(* What is purged is appended as such.                                     *)
LEMMA PurgesAppended ==
  ASSUME LogInv, NEW b, BatchFits(b), NEW refused, NEW c \in NewOf(b, refused), c.kind = "purged"
  PROVE  RowFor(b, refused, c).kind = "purged"
<1> DEFINE F == Fresh(b, c.rec)
           head == ServerHead(log, c.rec)
           written == { e \in F : e.id <= c.id /\ e.kind # "deleted" }
           origin == IF written = {} THEN head ELSE Last(written)
<1>1. RowFor(b, refused, c).kind = IF origin.kind = "purged" THEN "purged" ELSE c.kind
  BY DEF RowFor, NextVersion
<1>. QED
  BY <1>1

(* A chain answered `not_found` is one of a record the server does not     *)
(* have, and stays so.                                                     *)
LEMMA NotFoundIsAbsent ==
  ASSUME LogInv, NEW b, BatchFits(b), NEW refused, NEW r,
         ChainFailure(Fresh(b, r), r, refused) = "not_found"
  PROVE  Of(log, r) = {} /\ \A c \in NewOf(b, refused) : c.rec # r
<1> DEFINE F == Fresh(b, r)
           v == ServerHead(log, r).ver
           failing == { e \in F : Failure(F, e, v) # "none" }
           n == Cardinality({ e \in F : e.id < First(failing).id })
<1>1. /\ IsFiniteSet(F) /\ \A e \in F : e.id \in Nat
      /\ \A e, f \in F : e.id = f.id => e = f
  BY FreshFacts
<1>2. failing # {} /\ Failure(F, First(failing), v) = "not_found"
  BY DEF ChainFailure
<1>3. First(failing) \in F
  <2>1. \A e \in failing : e.id \in Nat
    BY <1>1
  <2>2. failing \subseteq F
    OBVIOUS
  <2> HIDE DEF failing, F
  <2>. QED
    BY <1>2, <2>1, <2>2, FirstChange
<1>4. v + n = 0
  BY <1>2 DEF Failure
<1>5. v \in Nat /\ n \in Nat
  <2> HIDE DEF F, failing
  <2>. QED
    BY <1>1, <1>3, Rank, HeadOnServer
<1>6. v = 0
  BY <1>4, <1>5
<1>7. Of(log, r) = {}
  <2>1. \A x \in log : x.rec = r => x.ver <= v
    BY HeadOnServer
  <2>2. \A x \in log : x.ver \in Nat \ {0}
    BY DEF LogInv, ServerRow
  <2>. QED
    BY <1>6, <2>1, <2>2 DEF Of
<1>8. \A c \in NewOf(b, refused) : c.rec # r
  BY DEF NewOf
<1>. QED
  BY <1>7, <1>8

(* What is appended where there is nothing starts from nothing.            *)
LEMMA NewOnNothing ==
  ASSUME LogInv, NEW b, BatchFits(b), NEW refused, NEW c \in NewOf(b, refused), Of(log, c.rec) = {}
  PROVE  \E e \in Of(b, c.rec) : e.base = 0
<1> DEFINE F == Fresh(b, c.rec)
           e == First(F)
<1>1. /\ IsFiniteSet(F) /\ \A f \in F : f.id \in Nat
      /\ \A f \in F : f \in b /\ f.rec = c.rec
  BY FreshFacts
<1>2. c \in F /\ ChainFailure(F, c.rec, refused) = "none"
  BY NewFacts
<1>3. e \in F /\ \A f \in F : e.id <= f.id
  <2> HIDE DEF F
  <2>. QED
    BY <1>1, <1>2, FirstChange
<1>4. { f \in F : f.id < e.id } = {}
  <2>1. \A f \in F : f.id \in Nat /\ e.id \in Nat /\ e.id <= f.id
    BY <1>1, <1>3
  <2> HIDE DEF F, e
  <2>. QED
    BY <2>1
<1>5. ServerHead(log, c.rec).ver = 0
  BY DEF ServerHead
<1>6. e.base = ServerHead(log, c.rec).ver + Cardinality({ f \in F : f.id < e.id })
  <2> HIDE DEF e
  <2>. QED
    BY <1>2, <1>3, ChainFits
<1>7. e.base = 0
  BY <1>4, <1>5, <1>6, FS_EmptySet
<1>. QED
  BY <1>1, <1>3, <1>7 DEF Of

(* A row is still there after the server's step, or a new purge above it.  *)
LEMMA StaysOrPurged ==
  ASSUME LogInv, NEW b, BatchFits(b), NEW refused, ServerStep(b, refused), NEW r,
         NEW n \in Nat, n <= lastSeq
  PROVE  /\ \A x \in Of(log, r) : x \in Of(log', r) \/ PurgedAbove(Of(log', r), x.ver, lastSeq)
         /\ \A ver \in Nat : PurgedAbove(Of(log, r), ver, n) => PurgedAbove(Of(log', r), ver, n)
<1>1. \A x \in AllOf(b, refused) : x.rec = r => x \in log' \/ PurgedAbove(Of(log', r), x.ver, lastSeq)
  BY RowsAfterStep
<1>2. log \subseteq AllOf(b, refused)
  BY AllRows
<1>3. \A x \in Of(log, r) : x \in Of(log', r) \/ PurgedAbove(Of(log', r), x.ver, lastSeq)
  BY <1>1, <1>2 DEF Of
<1>4. ASSUME NEW ver \in Nat, PurgedAbove(Of(log, r), ver, n) PROVE PurgedAbove(Of(log', r), ver, n)
  <2>1. PICK p \in Of(log, r) : p.kind = "purged" /\ ver < p.ver /\ n < p.seq
    BY <1>4 DEF PurgedAbove
  <2>2. CASE p \in Of(log', r)
    BY <2>1, <2>2 DEF PurgedAbove
  <2>3. CASE p \notin Of(log', r)
    <3>1. PICK q \in Of(log', r) : q.kind = "purged" /\ p.ver < q.ver /\ lastSeq < q.seq
      BY <1>3, <2>3 DEF PurgedAbove
    <3>2. p.ver \in Nat /\ q.ver \in Nat /\ q.seq \in Nat /\ lastSeq \in Nat
      <4>1. LogInv'
        BY ServerLog
      <4>. QED
        BY <4>1 DEF LogInv, Of, ServerRow
    <3>3. ver < q.ver /\ n < q.seq
      BY <2>1, <3>1, <3>2
    <3>. QED
      BY <3>1, <3>3 DEF PurgedAbove
  <2>. QED
    BY <2>2, <2>3
<1>. QED
  BY <1>3, <1>4

-------------------------------------------------------------------------------
(***************************************************************************)
(* A push keeps the server and the devices in agreement.                   *)
(***************************************************************************)
(* The entries of a record and their rows.                                 *)
LEMMA RecordFacts ==
  ASSUME SyncInv, NEW d \in Device, NEW r
  PROVE  /\ cursor[d] \in Nat /\ cursor[d] <= lastSeq /\ lastSeq \in Nat
         /\ \A x \in Of(log, r) : x \in log /\ x.rec = r /\ x \in ServerRow
         /\ \A x \in Of(log, r) :
              /\ x.ver \in Nat \ {0} /\ x.seq \in Nat /\ x.seq <= lastSeq
              /\ x.id \in Nat /\ x.id < nextId
         /\ \A x, y \in Of(log, r) :
              /\ x.ver = y.ver => x = y
              /\ x.ver < y.ver => x.seq < y.seq /\ y.kind # "purged"
              /\ x.seq < y.seq => x.ver < y.ver
         /\ \A x \in Of(store[d], r) : x \in store[d] /\ x.rec = r /\ x.ver \in Nat \ {0}
         /\ \A e \in Of(outbox[d], r) :
              /\ e \in outbox[d] /\ e.rec = r /\ e.id \in Nat /\ e.id < nextId
              /\ \E x \in Pending(Of(store[d], r)) : IsRowOf(x, e)
<1>1. LogInv
  BY DEF SyncInv
<1>2. cursor[d] \in Nat /\ cursor[d] <= lastSeq /\ lastSeq \in Nat
  BY DEF SyncInv, Shapes, LogInv
<1>3. \A x \in Of(log, r) : x \in log /\ x.rec = r /\ x \in ServerRow
  BY <1>1 DEF Of, LogInv
<1>4. \A x \in Of(log, r) :
        /\ x.ver \in Nat \ {0} /\ x.seq \in Nat /\ x.seq <= lastSeq
        /\ x.id \in Nat /\ x.id < nextId
  BY <1>1, <1>3 DEF LogInv, ServerRow
<1>5. \A x, y \in Of(log, r) :
        /\ x.ver = y.ver => x = y
        /\ x.ver < y.ver => x.seq < y.seq
  BY <1>1, <1>3 DEF LogInv
<1>6. \A x, y \in Of(log, r) : x.ver < y.ver => y.kind # "purged"
  BY <1>1, <1>3 DEF LogInv, BelowPurge
<1>7. \A x, y \in Of(log, r) : x.seq < y.seq => x.ver < y.ver
  BY <1>4, <1>5
<1>8. RowsFit(store[d]) /\ QueueFits(Pending(store[d]), outbox[d])
  BY DeviceFacts
<1>9. \A x \in Of(store[d], r) : x \in store[d] /\ x.rec = r /\ x.ver \in Nat \ {0}
  BY <1>8 DEF RowsFit, Of, StoreRow
<1>10. ASSUME NEW e \in Of(outbox[d], r)
       PROVE  /\ e \in outbox[d] /\ e.rec = r /\ e.id \in Nat /\ e.id < nextId
              /\ \E x \in Pending(Of(store[d], r)) : IsRowOf(x, e)
  <2>1. e \in outbox[d] /\ e.rec = r
    BY DEF Of
  <2>2. PICK x \in Pending(store[d]) : IsRowOf(x, e)
    BY <1>8, <2>1 DEF QueueFits
  <2>3. x \in Pending(Of(store[d], r))
    BY <2>1, <2>2 DEF Pending, Of, IsRowOf
  <2>4. e.id \in Nat /\ e.id < nextId
    BY <2>1, DeviceFacts, EntryTypes
  <2>. QED
    BY <2>1, <2>2, <2>3, <2>4
<1>. QED
  BY <1>2, <1>3, <1>4, <1>5, <1>6, <1>7, <1>9, <1>10

(* The first version of a record to reach the server comes from the one    *)
(* device that has any, which has all of them waiting.                     *)
LEMMA NewIsAlone ==
  ASSUME SyncInv, AgreeInv, NEW g \in Device, round[g].at = "sent", NEW refused,
         NEW r \in Record \ belated, NEW c \in NewOf(round[g].batch, refused), c.rec = r,
         Of(log, r) = {}
  PROVE  /\ \A d \in Device : Of(store[d], r) # {} => d = g
         /\ Synced(Of(store[g], r)) = {}
<1> DEFINE b == round[g].batch
<1>1. LogInv /\ BatchFits(b)
  <2>1. b \in Batches
    BY DEF Batches
  <2>. QED
    BY <2>1, BatchFacts
<1>2. PICK e \in Of(b, r) : e.base = 0
  BY <1>1, NewOnNothing
<1>3. SentAgrees(Of(log, r), Of(store[g], r), Of(outbox[g], r), round[g], r) /\ Alone(r)
  BY DEF AgreeInv, Agrees, AgreesOf
<1>4. Of(store[g], r) # {} /\ Synced(Of(store[g], r)) = {}
  BY <1>2, <1>3 DEF SentAgrees
<1>. QED
  BY <1>3, <1>4 DEF Alone

LEMMA PushAgrees ==
  ASSUME SyncInv, AgreeInv, NEW g \in Device, HandlePush(g), NEW refused,
         ServerStep(round[g].batch, refused),
         \A c \in round[g].batch : round'[g].results[c.id] = AnswerTo(round[g].batch, refused, c),
         NEW r \in Record \ belated, NEW d \in Device
  PROVE  Agrees(d, r)'
<1> DEFINE b == round[g].batch
           L == Of(log, r)
           new == Of(log', r)
           S == Of(store[d], r)
           Q == Of(outbox[d], r)
           n == cursor[d]
           rd == round[d]
           rdNew == round'[d]
<1>1. store' = store /\ outbox' = outbox /\ cursor' = cursor /\ round[g].at = "sent"
  BY DEF HandlePush, deviceVars
<1>2. LogInv /\ BatchFits(b) /\ StillWaits(b, d)
  <2>1. b \in Batches
    BY <1>1 DEF Batches
  <2>. QED
    BY <2>1, BatchFacts
<1>3. /\ d = g => rdNew.at = "answered" /\ rdNew.batch = b
      /\ d # g => rdNew = rd
  <2>1. PICK next : Go(g, next) /\ next.at = "answered" /\ next.batch = b
    BY DEF HandlePush
  <2>. QED
    BY <2>1, GoFacts
<1>4. AgreesOf(L, S, Q, n, rd, r)
  BY DEF AgreeInv, Agrees
<1>5. /\ n \in Nat /\ n <= lastSeq /\ lastSeq \in Nat
      /\ \A x \in L : x \in log /\ x.rec = r /\ x.ver \in Nat /\ x.seq \in Nat
      /\ \A x \in S : x.ver \in Nat
      /\ \A e \in Q : e \in outbox[d] /\ e.rec = r /\ \E x \in Pending(S) : IsRowOf(x, e)
      /\ \A x \in S : x \in store[d]
  BY RecordFacts
<1>6. /\ \A x \in new :
           \/ x \in L
           \/ \E c \in NewOf(b, refused) :
                c.rec = r /\ x = RowFor(b, refused, c) /\ x.id = c.id /\ lastSeq < x.seq
      /\ \A x \in AllOf(b, refused) : x.rec = r => x \in new \/ PurgedAbove(new, x.ver, lastSeq)
  <2>1. \A x : x \in new <=> x \in log' /\ x.rec = r
    BY DEF Of
  <2>. QED
    BY <1>2, <2>1, RowsAfterStep
<1>7. /\ \A x \in L : x \in new \/ PurgedAbove(new, x.ver, lastSeq)
      /\ \A ver \in Nat : PurgedAbove(L, ver, n) => PurgedAbove(new, ver, n)
  BY <1>2, <1>5, StaysOrPurged
<1>8. \A c \in NewOf(b, refused) : c.rec = r /\ L = {} =>
        (\A k \in Device : Of(store[k], r) # {} => k = g) /\ Synced(Of(store[g], r)) = {}
  BY <1>1, NewIsAlone
<1>9. \A c \in NewOf(b, refused) : c \in b
  BY <1>2, NewFacts
<1>10. \A ver : PurgedAbove(new, ver, lastSeq) => PurgedAbove(new, ver, n)
  <2>1. \A p \in new : p.seq \in Nat
    <3>1. LogInv'
      BY <1>2, ServerLog
    <3>. QED
      BY <3>1 DEF LogInv, Of, ServerRow
  <2>. QED
    BY <1>5, <2>1 DEF PurgedAbove
<1>11. \A c \in b : \A e \in Q : c.id = e.id =>
         c.rec = r /\ \A x \in Pending(S) : IsRowOf(x, e) => x.kind = c.kind
  BY <1>2, <1>5 DEF StillWaits, Pending
<1>12. \A c \in b :
         /\ IsStored(log, c) \/ c \in NewOf(b, refused) =>
              /\ AnswerTo(b, refused, c).status = "applied"
              /\ AnswerTo(b, refused, c).row \in AllOf(b, refused)
              /\ AnswerTo(b, refused, c).row.rec = c.rec /\ AnswerTo(b, refused, c).row.id = c.id
         /\ AnswerTo(b, refused, c).status = "applied" => IsStored(log, c) \/ c \in NewOf(b, refused)
  BY <1>2, AnsweredFacts
<1>13. d = g => \A c \in b : rdNew.results[c.id] = AnswerTo(b, refused, c)
  OBVIOUS
<1>14. L # {} => new # {}
  BY <1>7 DEF PurgedAbove
<1> HIDE DEF b, L, new, S, Q, n, rd, rdNew
<1>15. HasAll(new, S, n)
  <2>1. \A y \in new : y.seq <= n => y \in L
    <3>1. \A y \in new : y \in L \/ (lastSeq < y.seq /\ y.seq \in Nat)
      <4>1. LogInv'
        BY <1>2, ServerLog DEF b
      <4>2. \A y \in new : y.seq \in Nat
        BY <4>1 DEF LogInv, Of, ServerRow, new
      <4>. QED
        BY <1>6, <4>2
    <3>. QED
      BY <1>5, <3>1
  <2>. QED
    BY <1>4, <2>1 DEF AgreesOf, HasAll
<1>16. HasOnly(new, S, n)
  <2>. SUFFICES ASSUME NEW x \in Synced(S)
                PROVE  \/ \E y \in new : x = AsSynced(y)
                       \/ PurgedAbove(new, x.ver, n)
                       \/ new = {} /\ x.kind = "purged"
    BY DEF HasOnly
  <2>1. x \in S /\ x.ver \in Nat
    BY <1>5 DEF Synced
  <2>2. CASE \E y \in L : x = AsSynced(y)
    <3>1. PICK y \in L : x = AsSynced(y)
      BY <2>2
    <3>2. x.ver = y.ver
      BY <3>1 DEF AsSynced, LocalRow
    <3>. QED
      BY <1>7, <1>10, <3>1, <3>2
  <2>3. CASE PurgedAbove(L, x.ver, n)
    BY <1>7, <2>1, <2>3
  <2>4. CASE L = {} /\ x.kind = "purged"
    <3>1. SUFFICES ASSUME NEW y \in new PROVE FALSE
      BY <2>4
    <3>2. PICK c \in NewOf(b, refused) : c.rec = r
      BY <1>6, <2>4, <3>1
    <3>3. d = g /\ Synced(S) = {}
      BY <1>8, <2>1, <2>4, <3>2 DEF S
    <3>. QED
      BY <3>3
  <2>. QED
    BY <1>4, <2>2, <2>3, <2>4 DEF AgreesOf, HasOnly
<1>17. Unanswered(new, S, Q, n, rdNew)
  <2>. SUFFICES ASSUME NEW x \in new, NEW e \in Q, x.id = e.id
                PROVE  /\ rdNew.at \in {"idle", "sent", "answered"}
                       /\ \A f \in Q : ~f.parked
                       /\ n < x.seq
                       /\ \A y \in Pending(S) : IsRowOf(y, e) /\ y.kind = "purged" => x.kind = "purged"
                       /\ rdNew.at = "sent" => \E c \in rdNew.batch : c.id = e.id
                       /\ rdNew.at = "answered" =>
                            \E c \in rdNew.batch : c.id = e.id /\ rdNew.results[c.id].status = "applied"
    BY DEF Unanswered
  <2>1. CASE x \in L
    <3>1. /\ rd.at \in {"idle", "sent", "answered"}
          /\ \A f \in Q : ~f.parked
          /\ n < x.seq
          /\ \A y \in Pending(S) : IsRowOf(y, e) /\ y.kind = "purged" => x.kind = "purged"
          /\ rd.at = "sent" => \E c \in rd.batch : c.id = e.id
          /\ rd.at = "answered" => \E c \in rd.batch : c.id = e.id /\ rd.results[c.id].status = "applied"
      BY <1>4, <2>1 DEF AgreesOf, Unanswered
    <3>2. CASE d # g
      BY <1>3, <3>1, <3>2
    <3>3. CASE d = g
      <4>1. PICK c \in b : c.id = e.id
        BY <1>1, <3>1, <3>3 DEF rd, b
      <4>2. IsStored(log, c)
        BY <1>5, <1>11, <2>1, <4>1 DEF IsStored
      <4>3. rdNew.at = "answered" /\ rdNew.batch = b /\ rdNew.results[c.id].status = "applied"
        BY <1>3, <1>12, <1>13, <3>3, <4>1, <4>2
      <4>. QED
        BY <3>1, <4>1, <4>3
    <3>. QED
      BY <3>2, <3>3
  <2>2. CASE x \notin L
    <3>1. PICK c \in NewOf(b, refused) :
            c.rec = r /\ x = RowFor(b, refused, c) /\ x.id = c.id /\ lastSeq < x.seq
      BY <1>6, <2>2
    <3>2. c \in b /\ c.id = e.id
      BY <1>9, <3>1
    <3>3. d = g
      BY <1>1, <1>5, <3>2 DEF AgreeInv, Own, b
    <3>4. \A f \in Q : ~f.parked
      BY <1>1, <1>4, <3>1, <3>2, <3>3 DEF AgreesOf, SentAgrees, Of, rd, b
    <3>5. n < x.seq
      <4>1. LogInv'
        BY <1>2, ServerLog DEF b
      <4>2. x.seq \in Nat
        BY <4>1 DEF LogInv, Of, ServerRow, new
      <4>. QED
        BY <1>5, <3>1, <4>2
    <3>6. \A y \in Pending(S) : IsRowOf(y, e) /\ y.kind = "purged" => x.kind = "purged"
      BY <1>2, <1>11, <3>1, <3>2, PurgesAppended DEF b
    <3>7. rdNew.at = "answered" /\ rdNew.batch = b /\ rdNew.results[c.id].status = "applied"
      BY <1>3, <1>12, <1>13, <3>1, <3>2, <3>3
    <3>. QED
      BY <3>2, <3>4, <3>5, <3>6, <3>7
  <2>. QED
    BY <2>1, <2>2
<1>18. SentAgrees(new, S, Q, rdNew, r)
  <2>1. CASE d = g
    BY <1>3, <2>1 DEF SentAgrees
  <2>2. CASE d # g
    BY <1>3, <1>4, <1>14, <2>2 DEF AgreesOf, SentAgrees
  <2>. QED
    BY <2>1, <2>2
<1>19. AnswersAgree(new, S, Q, n, rdNew)
  <2>. SUFFICES ASSUME rdNew.at = "answered", NEW c \in rdNew.batch, NEW e \in Q, c.id = e.id
                PROVE  /\ \A y \in Pending(S) : IsRowOf(y, e) => y.kind = c.kind
                       /\ rdNew.results[c.id].status = "applied" =>
                            /\ rdNew.results[c.id].row.id = e.id
                            /\ \/ rdNew.results[c.id].row \in new
                               \/ PurgedAbove(new, rdNew.results[c.id].row.ver, n)
                       /\ rdNew.results[c.id].status = "not_found" /\ c.kind = "purged" => new = {}
    BY DEF AnswersAgree
  <2>1. CASE d = g
    <3>1. c \in b /\ rdNew.results[c.id] = AnswerTo(b, refused, c)
      BY <1>3, <1>13, <2>1
    <3>2. c.rec = r /\ \A x \in Pending(S) : IsRowOf(x, e) => x.kind = c.kind
      BY <1>11, <3>1
    <3>3. ASSUME rdNew.results[c.id].status = "applied"
          PROVE  /\ rdNew.results[c.id].row.id = e.id
                 /\ \/ rdNew.results[c.id].row \in new
                    \/ PurgedAbove(new, rdNew.results[c.id].row.ver, n)
      <4> DEFINE row == AnswerTo(b, refused, c).row
      <4>1. row \in AllOf(b, refused) /\ row.rec = r /\ row.id = c.id
        BY <1>12, <3>1, <3>2, <3>3
      <4>2. row \in new \/ PurgedAbove(new, row.ver, lastSeq)
        BY <1>6, <4>1
      <4>. QED
        BY <1>10, <3>1, <4>1, <4>2
    <3>4. ASSUME rdNew.results[c.id].status = "not_found" PROVE new = {}
      <4>1. AnswerTo(b, refused, c).status = "not_found"
        BY <3>1, <3>4
      <4>2. ~(c \in NewOf(b, refused) \/ IsStored(log, c))
        BY <1>12, <3>1, <4>1
      <4>3. AnswerTo(b, refused, c).status = ChainFailure(Fresh(b, r), r, refused)
        BY <3>2, <4>2 DEF AnswerTo
      <4>4. L = {} /\ \A k \in NewOf(b, refused) : k.rec # r
        BY <1>2, <4>1, <4>3, NotFoundIsAbsent DEF b, L
      <4>. QED
        BY <1>6, <4>4
    <3>. QED
      BY <3>2, <3>3, <3>4
  <2>2. CASE d # g
    <3>1. rdNew = rd /\ rd.at = "answered" /\ c \in rd.batch
      BY <1>3, <2>2
    <3>2. /\ \A y \in Pending(S) : IsRowOf(y, e) => y.kind = c.kind
          /\ rd.results[c.id].status = "applied" =>
               /\ rd.results[c.id].row.id = e.id
               /\ rd.results[c.id].row \in L \/ PurgedAbove(L, rd.results[c.id].row.ver, n)
          /\ rd.results[c.id].status = "not_found" /\ c.kind = "purged" => L = {}
      BY <1>4, <3>1 DEF AgreesOf, AnswersAgree
    <3>3. ASSUME rd.results[c.id].status = "applied"
          PROVE  rd.results[c.id].row \in new \/ PurgedAbove(new, rd.results[c.id].row.ver, n)
      <4>1. rd.results[c.id].row.ver \in Nat
        <5>1. AnswersFit(d)
          BY <3>1 DEF SyncInv, RoundFits, rd
        <5>2. rd.results[c.id].row \in ServerRow
          BY <1>5, <3>1, <3>3, <5>1 DEF AnswersFit, rd
        <5>. QED
          BY <5>2 DEF ServerRow
      <4>. QED
        BY <1>7, <1>10, <3>2, <3>3, <4>1
    <3>4. ASSUME L = {} PROVE new = {}
      <4>1. SUFFICES ASSUME NEW y \in new PROVE FALSE
        OBVIOUS
      <4>2. PICK k \in NewOf(b, refused) : k.rec = r
        BY <1>6, <3>4, <4>1
      <4>3. S # {}
        BY <1>5 DEF Pending
      <4>. QED
        BY <1>8, <2>2, <3>4, <4>2, <4>3 DEF S
    <3>. QED
      BY <3>1, <3>2, <3>3, <3>4
  <2>. QED
    BY <2>1, <2>2
<1>20. PageAgrees(new, n, rdNew, r)
  <2>. SUFFICES ASSUME rdNew.at = "page" PROVE PageAgrees(new, n, rdNew, r)
    BY DEF PageAgrees
  <2>1. rdNew = rd /\ rd.at = "page"
    BY <1>3
  <2>2. \A z \in rd.page : z.seq \in Nat /\ z.seq <= lastSeq /\ z.ver \in Nat
    <3>1. PageFits(d)
      BY <2>1 DEF SyncInv, RoundFits, rd
    <3>. QED
      BY <3>1 DEF PageFits, ServerRow, rd
  <2>3. \A y \in new : y.seq \in Nat /\ y.ver \in Nat
    <3>1. LogInv'
      BY <1>2, ServerLog DEF b
    <3>. QED
      BY <3>1 DEF LogInv, Of, ServerRow, new
  <2>4. \A x \in rd.page : n < x.seq
    BY <1>4, <2>1 DEF AgreesOf, PageAgrees
  <2>5. ASSUME NEW x \in Of(rd.page, r)
        PROVE  \/ x \in new
               \/ \E p \in new : p.kind = "purged" /\ x.ver < p.ver /\ \A z \in rd.page : z.seq < p.seq
    <3>1. \A ver : PurgedAbove(new, ver, lastSeq) =>
            \E p \in new : p.kind = "purged" /\ ver < p.ver /\ \A z \in rd.page : z.seq < p.seq
      BY <1>5, <2>2, <2>3 DEF PurgedAbove
    <3>2. x \in L \/ \E p \in L : p.kind = "purged" /\ x.ver < p.ver /\ \A z \in rd.page : z.seq < p.seq
      BY <1>4, <2>1 DEF AgreesOf, PageAgrees
    <3>3. CASE x \in L
      BY <1>7, <3>1, <3>3
    <3>4. CASE x \notin L
      <4>1. PICK p \in L : p.kind = "purged" /\ x.ver < p.ver /\ \A z \in rd.page : z.seq < p.seq
        BY <3>2, <3>4
      <4>2. CASE p \in new
        BY <4>1, <4>2
      <4>3. CASE p \notin new
        <5>1. PICK q \in new : q.kind = "purged" /\ p.ver < q.ver /\ \A z \in rd.page : z.seq < q.seq
          BY <1>7, <3>1, <4>3
        <5>2. x.ver < q.ver
          <6>1. x.ver \in Nat /\ p.ver \in Nat /\ q.ver \in Nat
            BY <1>5, <2>2, <2>3 DEF Of
          <6>. QED
            BY <4>1, <5>1, <6>1
        <5>. QED
          BY <5>1, <5>2
      <4>. QED
        BY <4>2, <4>3
    <3>. QED
      BY <3>3, <3>4
  <2>6. \A y \in new : y \notin rd.page /\ n < y.seq => \A z \in rd.page : z.seq < y.seq
    <3>1. \A y \in L : y \notin rd.page /\ n < y.seq => \A z \in rd.page : z.seq < y.seq
      BY <1>4, <2>1 DEF AgreesOf, PageAgrees
    <3>2. \A y \in new : y \in L \/ lastSeq < y.seq
      BY <1>6
    <3>. QED
      BY <1>5, <2>2, <2>3, <3>1, <3>2
  <2>. QED
    BY <2>1, <2>4, <2>5, <2>6 DEF PageAgrees
<1>21. AgreesOf(new, S, Q, n, rdNew, r)
  BY <1>4, <1>15, <1>16, <1>17, <1>18, <1>19, <1>20 DEF AgreesOf
<1>. QED
  BY <1>1, <1>21 DEF Agrees, new, S, Q, n, rdNew

-------------------------------------------------------------------------------
(***************************************************************************)
(* A step of a device keeps it in agreement with the server.               *)
(***************************************************************************)
(* It leaves the other devices alone, and what waits after it waited       *)
(* before or is new.                                                       *)
LEMMA StepAgrees ==
  ASSUME SyncInv, AgreeInv, NEW d \in Device, log' = log, belated' = belated,
         \A g \in Device \ {d} : /\ store'[g] = store[g] /\ outbox'[g] = outbox[g]
                                 /\ cursor'[g] = cursor[g] /\ round'[g] = round[g],
         \A e \in outbox'[d] : nextId <= e.id \/ \E f \in outbox[d] : f.id = e.id,
         round'[d].at = "sent" =>
           round'[d] = round[d] \/ \A c \in round'[d].batch : \E e \in outbox[d] : c.id = e.id,
         \A r \in Record \ belated :
           /\ Agrees(d, r)'
           /\ Of(store'[d], r) # {} => Of(store[d], r) # {} \/ r \notin created \/ Of(log, r) # {}
  PROVE  AgreeInv'
<1>1. Own'
  <2>. SUFFICES ASSUME NEW k \in Device, NEW g \in Device, round'[k].at = "sent", k # g,
                       NEW c \in round'[k].batch, NEW e \in outbox'[g], c.id = e.id
                PROVE  FALSE
    BY DEF Own
  <2>1. nextId \in Nat /\ \A h \in Device : \A f \in outbox[h] : f.id \in Nat /\ f.id < nextId
    BY DeviceFacts, EntryTypes
  <2>2. c.id < nextId /\ c.id \in Nat
    <3>1. CASE round'[k] = round[k]
      <4>1. BatchFits(round[k].batch)
        BY <3>1, BatchFacts DEF Batches
      <4>. QED
        BY <3>1, <4>1 DEF BatchFits, PushChange
    <3>2. CASE round'[k] # round[k]
      BY <2>1, <3>2
    <3>. QED
      BY <3>1, <3>2
  <2>3. \E f \in outbox[g] : f.id = c.id
    <3>1. CASE g = d
      <4>1. ~(nextId <= e.id)
        BY <2>1, <2>2
      <4>. QED
        BY <3>1, <4>1
    <3>2. CASE g # d
      BY <3>2
    <3>. QED
      BY <3>1, <3>2
  <2>4. CASE round'[k] = round[k]
    BY <2>3, <2>4 DEF AgreeInv, Own
  <2>5. CASE round'[k] # round[k]
    <3>1. k = d /\ \E h \in outbox[d] : c.id = h.id
      BY <2>5
    <3>. QED
      BY <2>3, <3>1 DEF SyncInv, DeviceInv
  <2>. QED
    BY <2>4, <2>5
<1>2. ASSUME NEW r \in Record \ belated PROVE Alone(r)' /\ \A g \in Device : Agrees(g, r)'
  <2>1. Alone(r)'
    <3>. SUFFICES ASSUME Of(log, r) = {}, NEW k \in Device, NEW g \in Device, k # g,
                         Of(store'[k], r) # {}, Of(store'[g], r) # {}
                  PROVE  FALSE
      BY DEF Alone
    <3>1. r \notin created => \A h \in Device : Of(store[h], r) = {}
      BY DeviceFacts DEF Known, Of
    <3>2. Of(store[k], r) # {} /\ Of(store[g], r) # {}
      BY <3>1
    <3>. QED
      BY <3>2 DEF AgreeInv, Alone
  <2>2. \A g \in Device \ {d} : Agrees(g, r)'
    BY DEF AgreeInv, Agrees
  <2>. QED
    BY <2>1, <2>2
<1>. QED
  BY <1>1, <1>2 DEF AgreeInv

(* A version and its entry on top of a record's.                           *)
LEMMA InsertAgrees ==
  ASSUME NEW L, NEW S, NEW Q, NEW n, NEW rd, NEW r, AgreesOf(L, S, Q, n, rd, r),
         NEW x, ~x.synced, x.kind # "purged", NEW e, ~e.parked,
         \A y \in L : y.id # e.id, \A f \in Q : ~IsRowOf(x, f),
         rd.at = "answered" => \A c \in rd.batch : c.id # e.id
  PROVE  AgreesOf(L, S \cup {x}, Q \cup {e}, n, rd, r)
<1>1. Synced(S \cup {x}) = Synced(S) /\ Pending(S \cup {x}) = Pending(S) \cup {x}
  BY DEF Synced, Pending
<1>2. HasAll(L, S \cup {x}, n)
  BY <1>1 DEF AgreesOf, HasAll
<1>3. HasOnly(L, S \cup {x}, n) /\ PurgeAlone(S \cup {x})
  BY <1>1 DEF AgreesOf, HasOnly, PurgeAlone
<1>4. Unanswered(L, S \cup {x}, Q \cup {e}, n, rd)
  BY <1>1 DEF AgreesOf, Unanswered
<1>5. SentAgrees(L, S \cup {x}, Q \cup {e}, rd, r)
  BY <1>1 DEF AgreesOf, SentAgrees
<1>6. AnswersAgree(L, S \cup {x}, Q \cup {e}, n, rd)
  BY <1>1 DEF AgreesOf, AnswersAgree
<1>. QED
  BY <1>2, <1>3, <1>4, <1>5, <1>6 DEF AgreesOf

(* A purge in the place of all of them.                                    *)
LEMMA PurgeAgrees ==
  ASSUME NEW L, NEW S, NEW Q, NEW n, NEW rd, NEW r, AgreesOf(L, S, Q, n, rd, r),
         NEW x, ~x.synced, x.kind = "purged", x.ver \in Nat, NEW e, ~e.parked,
         \A y \in L : y.id # e.id /\ y.ver \in Nat,
         rd.at = "answered" => \A c \in rd.batch : c.id # e.id,
         \A y \in S : y.ver \in Nat,
         \A y \in Synced(S) : y.ver < x.ver,
         Synced(S) = {} => \A y \in S : y.ver < x.ver
  PROVE  AgreesOf(L, {x}, {e}, n, rd, r)
<1>1. Synced({x}) = {} /\ Pending({x}) = {x}
  BY DEF Synced, Pending
<1>2. HasAll(L, {x}, n)
  <2>. SUFFICES ASSUME NEW y \in L, y.seq <= n PROVE y.ver < x.ver
    BY <1>1 DEF HasAll
  <2>1. AsSynced(y).synced /\ AsSynced(y).ver = y.ver
    BY DEF AsSynced, LocalRow
  <2>2. AsSynced(y) \in S \/ \E p \in Pending(S) : p.kind = "purged" /\ y.ver < p.ver
    BY DEF AgreesOf, HasAll
  <2>3. CASE AsSynced(y) \in S
    BY <2>1, <2>3 DEF Synced
  <2>4. CASE \E p \in Pending(S) : p.kind = "purged" /\ y.ver < p.ver
    <3>1. PICK p \in Pending(S) : p.kind = "purged" /\ y.ver < p.ver
      BY <2>4
    <3>2. p \in S /\ Synced(S) = {}
      BY <3>1 DEF AgreesOf, PurgeAlone, Pending
    <3>3. p.ver < x.ver /\ p.ver \in Nat
      BY <3>2
    <3>. QED
      BY <3>1, <3>3
  <2>. QED
    BY <2>2, <2>3, <2>4
<1>3. HasOnly(L, {x}, n) /\ PurgeAlone({x})
  BY <1>1 DEF HasOnly, PurgeAlone
<1>4. Unanswered(L, {x}, {e}, n, rd) /\ AnswersAgree(L, {x}, {e}, n, rd)
  BY DEF Unanswered, AnswersAgree
<1>5. SentAgrees(L, {x}, {e}, rd, r)
  BY <1>1 DEF AgreesOf, SentAgrees
<1>. QED
  BY <1>2, <1>3, <1>4, <1>5 DEF AgreesOf

(* The same entries, none of them parked.                                  *)
LEMMA UnparkedAgrees ==
  ASSUME NEW L, NEW S, NEW Q, NEW n, NEW rd, NEW r, AgreesOf(L, S, Q, n, rd, r),
         NEW P, \A f \in P : ~f.parked /\ \E e \in Q : e.id = f.id /\ e.rec = f.rec /\ e.ver = f.ver
  PROVE  AgreesOf(L, S, P, n, rd, r)
<1>1. Unanswered(L, S, P, n, rd)
  <2>. SUFFICES ASSUME NEW x \in L, NEW f \in P, x.id = f.id
                PROVE  /\ rd.at \in {"idle", "sent", "answered"}
                       /\ \A e \in P : ~e.parked
                       /\ n < x.seq
                       /\ \A y \in Pending(S) : IsRowOf(y, f) /\ y.kind = "purged" => x.kind = "purged"
                       /\ rd.at = "sent" => \E c \in rd.batch : c.id = f.id
                       /\ rd.at = "answered" =>
                            \E c \in rd.batch : c.id = f.id /\ rd.results[c.id].status = "applied"
    BY DEF Unanswered
  <2>1. PICK e \in Q : e.id = f.id /\ e.rec = f.rec /\ e.ver = f.ver
    OBVIOUS
  <2>. QED
    BY <2>1 DEF AgreesOf, Unanswered, IsRowOf
<1>2. SentAgrees(L, S, P, rd, r)
  BY DEF AgreesOf, SentAgrees
<1>3. AnswersAgree(L, S, P, n, rd)
  <2>. SUFFICES ASSUME rd.at = "answered", NEW c \in rd.batch, NEW f \in P, c.id = f.id
                PROVE  /\ \A y \in Pending(S) : IsRowOf(y, f) => y.kind = c.kind
                       /\ rd.results[c.id].status = "applied" =>
                            /\ rd.results[c.id].row.id = f.id
                            /\ \/ rd.results[c.id].row \in L
                               \/ PurgedAbove(L, rd.results[c.id].row.ver, n)
                       /\ rd.results[c.id].status = "not_found" /\ c.kind = "purged" => L = {}
    BY DEF AnswersAgree
  <2>1. PICK e \in Q : e.id = f.id /\ e.rec = f.rec /\ e.ver = f.ver
    OBVIOUS
  <2>. QED
    BY <2>1 DEF AgreesOf, AnswersAgree, IsRowOf
<1>. QED
  BY <1>1, <1>2, <1>3 DEF AgreesOf

(* What a user writes of one record.                                       *)
LEMMA WriteAgrees ==
  ASSUME SyncInv, AgreeInv, NEW d \in Device, NEW new, UserWrite(d, new), NEW r0 \in Record,
         \A r : r # r0 =>
           Of(new.rows, r) = Of(store[d], r) /\ Of(new.queue, r) = Of(outbox[d], r),
         \A e \in new.queue : nextId <= e.id \/ e \in outbox[d],
         AgreesOf(Of(log, r0), Of(store[d], r0), Of(outbox[d], r0), cursor[d], round[d], r0) =>
           AgreesOf(Of(log, r0), Of(new.rows, r0), Of(new.queue, r0), cursor[d], round[d], r0),
         Of(store[d], r0) # {} \/ r0 \notin created
  PROVE  AgreeInv'
<1>1. store = [g \in Device |-> store[g]] /\ outbox = [g \in Device |-> outbox[g]]
  BY DEF SyncInv, Shapes
<1>2. store' = [store EXCEPT ![d] = new.rows] /\ outbox' = [outbox EXCEPT ![d] = new.queue]
  BY DEF UserWrite, Keep
<1>3. log' = log /\ belated' = belated /\ cursor' = cursor /\ round' = round
  BY DEF UserWrite, serverVars
<1>4. /\ store'[d] = new.rows /\ outbox'[d] = new.queue
      /\ \A g \in Device \ {d} : store'[g] = store[g] /\ outbox'[g] = outbox[g]
  BY <1>1, <1>2, Zenon
<1>5. ASSUME NEW r \in Record \ belated
      PROVE  /\ Agrees(d, r)'
             /\ Of(store'[d], r) # {} => Of(store[d], r) # {} \/ r \notin created \/ Of(log, r) # {}
  <2>1. AgreesOf(Of(log, r), Of(store[d], r), Of(outbox[d], r), cursor[d], round[d], r)
    BY DEF AgreeInv, Agrees
  <2>2. CASE r = r0
    BY <1>3, <1>4, <2>1, <2>2 DEF Agrees
  <2>3. CASE r # r0
    <3>1. Of(store'[d], r) = Of(store[d], r) /\ Of(outbox'[d], r) = Of(outbox[d], r)
      BY <1>4, <2>3
    <3>. QED
      BY <1>3, <2>1, <3>1 DEF Agrees
  <2>. QED
    BY <2>2, <2>3
<1>6. \A e \in outbox'[d] : nextId <= e.id \/ \E f \in outbox[d] : f.id = e.id
  BY <1>4
<1>7. \A g \in Device : cursor'[g] = cursor[g] /\ round'[g] = round[g]
  BY <1>3
<1>. QED
  BY <1>3, <1>4, <1>5, <1>6, <1>7, StepAgrees

(* Nothing the server has, or has answered, goes by the next change id.    *)
LEMMA NewIdFacts ==
  ASSUME SyncInv, NEW d \in Device, NEW r
  PROVE  /\ nextId \in Nat
         /\ \A y \in Of(log, r) : y.id # nextId /\ y.ver \in Nat
         /\ round[d].at = "answered" => \A c \in round[d].batch : c.id # nextId
<1>1. nextId \in Nat
  BY DEF SyncInv, Shapes
<1>2. \A y \in Of(log, r) : y.id # nextId /\ y.ver \in Nat
  BY <1>1, RecordFacts
<1>3. ASSUME round[d].at = "answered", NEW c \in round[d].batch PROVE c.id # nextId
  <2>1. AnswersFit(d)
    BY <1>3 DEF SyncInv, RoundFits
  <2>2. c.id \in Nat /\ c.id < nextId
    BY <2>1 DEF AnswersFit, PushChange
  <2>. QED
    BY <1>1, <2>2
<1>. QED
  BY <1>1, <1>2, <1>3

LEMMA InsertStepAgrees ==
  ASSUME SyncInv, AgreeInv, NEW d \in Device, NEW r0 \in Record, NEW ver, NEW kind, kind # "purged",
         NEW edits, UserWrite(d, InsertPending(Device0(d), r0, ver, kind, edits)),
         \A y \in Of(store[d], r0) : y.ver < ver,
         Of(store[d], r0) # {} \/ r0 \notin created
  PROVE  AgreeInv'
<1> DEFINE new == InsertPending(Device0(d), r0, ver, kind, edits)
           x == LocalRow(r0, ver, kind, edits, FALSE)
           e == [id |-> nextId, rec |-> r0, ver |-> ver, parked |-> FALSE]
<1>1. new.rows = store[d] \cup {x} /\ new.queue = outbox[d] \cup {e}
  BY DEF InsertPending, Device0
<1>2. x.rec = r0 /\ x.ver = ver /\ ~x.synced /\ x.kind = kind
  BY DEF LocalRow
<1>3. e.id = nextId /\ e.rec = r0 /\ ~e.parked
  OBVIOUS
<1>4. UserWrite(d, new)
  OBVIOUS
<1> HIDE DEF new, x, e
<1>5. \A r : r # r0 => Of(new.rows, r) = Of(store[d], r) /\ Of(new.queue, r) = Of(outbox[d], r)
  BY <1>1, <1>2, <1>3 DEF Of
<1>6. Of(new.rows, r0) = Of(store[d], r0) \cup {x} /\ Of(new.queue, r0) = Of(outbox[d], r0) \cup {e}
  BY <1>1, <1>2, <1>3 DEF Of
<1>7. /\ nextId \in Nat
      /\ \A y \in Of(log, r0) : y.id # e.id
      /\ round[d].at = "answered" => \A c \in round[d].batch : c.id # e.id
  BY <1>3, NewIdFacts
<1>8. \A f \in Of(outbox[d], r0) : ~IsRowOf(x, f)
  <2>. SUFFICES ASSUME NEW f \in Of(outbox[d], r0), IsRowOf(x, f) PROVE FALSE
    OBVIOUS
  <2>1. PICK y \in Pending(Of(store[d], r0)) : IsRowOf(y, f)
    BY RecordFacts
  <2>2. y \in Of(store[d], r0) /\ y.ver \in Nat /\ y.ver < ver /\ y.ver = ver
    <3>1. y \in Of(store[d], r0)
      BY <2>1 DEF Pending
    <3>. QED
      BY <1>2, <2>1, <3>1, RecordFacts DEF IsRowOf
  <2>. QED
    BY <2>2
<1>9. \A f \in new.queue : nextId <= f.id \/ f \in outbox[d]
  BY <1>1, <1>3, <1>7
<1>10. AgreesOf(Of(log, r0), Of(store[d], r0), Of(outbox[d], r0), cursor[d], round[d], r0) =>
         AgreesOf(Of(log, r0), Of(new.rows, r0), Of(new.queue, r0), cursor[d], round[d], r0)
  BY <1>2, <1>3, <1>6, <1>7, <1>8, InsertAgrees
<1>. QED
  BY <1>4, <1>5, <1>9, <1>10, WriteAgrees

LEMMA CreateAgrees ==
  ASSUME SyncInv, AgreeInv, NEW d \in Device, NEW r \in Record, Create(d, r)
  PROVE  AgreeInv'
<1>1. Of(store[d], r) = {}
  BY DeviceFacts DEF Create, Known, Of
<1>. QED
  BY <1>1, InsertStepAgrees DEF Create

LEMMA UpdateAgrees ==
  ASSUME SyncInv, AgreeInv, NEW d \in Device, NEW r \in Record, Update(d, r) \/ Delete(d, r)
  PROVE  AgreeInv'
<1> DEFINE head == HeadOf(store[d], r)
<1>1. Present(d, r)
  BY DEF Update, Delete
<1>2. \A y \in Of(store[d], r) : y.ver < head.ver + 1
  <2>1. \A y \in Of(store[d], r) : y.ver <= head.ver /\ y.ver \in Nat /\ head.ver \in Nat
    BY <1>1, HeadRow, RecordFacts DEF StoreRow
  <2> HIDE DEF head
  <2>. QED
    BY <2>1
<1>3. PICK kind \in {"put", "deleted"} : \E edits :
        UserWrite(d, InsertPending(Device0(d), r, head.ver + 1, kind, edits))
  BY DEF Update, Delete
<1> HIDE DEF head
<1>. QED
  BY <1>1, <1>2, <1>3, InsertStepAgrees DEF Present

LEMMA PurgeStepAgrees ==
  ASSUME SyncInv, AgreeInv, NEW d \in Device, NEW r \in Record, Purge(d, r)
  PROVE  AgreeInv'
<1> DEFINE mine == Of(store[d], r)
           below == IF Synced(mine) # {} THEN Highest(Synced(mine)) ELSE Highest(mine)
           x == LocalRow(r, below.ver + 1, "purged", {}, FALSE)
           e == [id |-> nextId, rec |-> r, ver |-> below.ver + 1, parked |-> FALSE]
           new == PurgeRecord(Device0(d), r)
<1>1. Present(d, r) /\ UserWrite(d, new)
  BY DEF Purge
<1>2. new.rows = (store[d] \ mine) \cup {x} /\ new.queue = (outbox[d] \ Of(outbox[d], r)) \cup {e}
  BY DEF PurgeRecord, InsertPending, Device0
<1>3. /\ mine # {} /\ IsFiniteSet(mine) /\ \A y \in mine : y.ver \in Nat
      /\ IsFiniteSet(Synced(mine)) /\ Synced(mine) \subseteq mine
  <2>1. RowsFit(store[d])
    BY DeviceFacts
  <2>2. IsFiniteSet(mine)
    BY <2>1, FS_Subset DEF RowsFit, Of
  <2>3. IsFiniteSet(Synced(mine)) /\ Synced(mine) \subseteq mine
    BY <2>2, FS_Subset DEF Synced
  <2>. QED
    BY <1>1, <2>2, <2>3, RecordFacts DEF Present
<1>4. /\ below.ver \in Nat
      /\ \A y \in Synced(mine) : y.ver <= below.ver
      /\ Synced(mine) = {} => \A y \in mine : y.ver <= below.ver
  <2> HIDE DEF mine
  <2>1. CASE Synced(mine) # {}
    <3>1. below = Highest(Synced(mine))
      BY <2>1
    <3>2. Highest(Synced(mine)) \in Synced(mine)
          /\ \A y \in Synced(mine) : y.ver <= Highest(Synced(mine)).ver
      BY <1>3, <2>1, HighestRow
    <3> HIDE DEF below
    <3>. QED
      BY <1>3, <2>1, <3>1, <3>2
  <2>2. CASE Synced(mine) = {}
    <3>1. below = Highest(mine)
      BY <2>2
    <3>2. Highest(mine) \in mine /\ \A y \in mine : y.ver <= Highest(mine).ver
      BY <1>3, HighestRow
    <3> HIDE DEF below
    <3>. QED
      BY <1>3, <2>2, <3>1, <3>2
  <2>. QED
    BY <2>1, <2>2
<1> HIDE DEF below
<1>5. x.rec = r /\ x.ver = below.ver + 1 /\ ~x.synced /\ x.kind = "purged" /\ x.ver \in Nat
  BY <1>4 DEF LocalRow
<1>6. e.id = nextId /\ e.rec = r /\ ~e.parked
  OBVIOUS
<1> HIDE DEF x, e, new
<1>7. /\ \A y \in Synced(mine) : y.ver < x.ver
      /\ Synced(mine) = {} => \A y \in mine : y.ver < x.ver
  <2>1. \A y \in mine : y.ver \in Nat /\ (y.ver <= below.ver => y.ver < x.ver)
    <3> HIDE DEF mine
    <3>. QED
      BY <1>3, <1>4, <1>5
  <2> HIDE DEF mine
  <2>. QED
    BY <1>3, <1>4, <2>1
<1>8. \A q : q # r => Of(new.rows, q) = Of(store[d], q) /\ Of(new.queue, q) = Of(outbox[d], q)
  BY <1>2, <1>5, <1>6 DEF Of
<1>9. Of(new.rows, r) = {x} /\ Of(new.queue, r) = {e}
  BY <1>2, <1>5, <1>6 DEF Of
<1>10. /\ nextId \in Nat
       /\ \A y \in Of(log, r) : y.id # e.id /\ y.ver \in Nat
       /\ round[d].at = "answered" => \A c \in round[d].batch : c.id # e.id
  BY <1>6, NewIdFacts
<1>11. \A f \in new.queue : nextId <= f.id \/ f \in outbox[d]
  BY <1>2, <1>6, <1>10
<1>12. AgreesOf(Of(log, r), Of(store[d], r), Of(outbox[d], r), cursor[d], round[d], r) =>
         AgreesOf(Of(log, r), Of(new.rows, r), Of(new.queue, r), cursor[d], round[d], r)
  <2>1. AgreesOf(Of(log, r), mine, Of(outbox[d], r), cursor[d], round[d], r) =>
          AgreesOf(Of(log, r), {x}, {e}, cursor[d], round[d], r)
    <3> HIDE DEF mine
    <3>. QED
      BY <1>3, <1>5, <1>6, <1>7, <1>10, PurgeAgrees
  <2>. QED
    BY <1>9, <2>1
<1>13. mine # {}
  BY <1>3
<1>. QED
  BY <1>1, <1>8, <1>11, <1>12, <1>13, WriteAgrees

LEMMA RetryAgrees ==
  ASSUME SyncInv, AgreeInv, NEW d \in Device, RetryParked(d)
  PROVE  AgreeInv'
<1>1. /\ log' = log /\ belated' = belated /\ store' = store /\ cursor' = cursor /\ round' = round
      /\ outbox' = [outbox EXCEPT ![d] = { [e EXCEPT !.parked = FALSE] : e \in @ }]
  BY DEF RetryParked, serverVars
<1>2. outbox = [g \in Device |-> outbox[g]]
  BY DEF SyncInv, Shapes
<1>3. /\ outbox'[d] = { [e EXCEPT !.parked = FALSE] : e \in outbox[d] }
      /\ \A g \in Device \ {d} : outbox'[g] = outbox[g]
  BY <1>1, <1>2, Zenon
<1>4. \A f \in outbox'[d] : /\ ~f.parked
                            /\ \E e \in outbox[d] : e.id = f.id /\ e.rec = f.rec /\ e.ver = f.ver
  <2>1. \A e \in outbox[d] : e \in Entry
    BY DeviceFacts, EntryTypes
  <2>2. \A e \in Entry : LET f == [e EXCEPT !.parked = FALSE]
                         IN  ~f.parked /\ e.id = f.id /\ e.rec = f.rec /\ e.ver = f.ver
    BY DEF Entry
  <2>. QED
    BY <1>3, <2>1, <2>2
<1>5. ASSUME NEW r \in Record \ belated PROVE Agrees(d, r)'
  <2>1. AgreesOf(Of(log, r), Of(store[d], r), Of(outbox[d], r), cursor[d], round[d], r)
    BY DEF AgreeInv, Agrees
  <2>2. \A f \in Of(outbox'[d], r) :
          ~f.parked /\ \E e \in Of(outbox[d], r) : e.id = f.id /\ e.rec = f.rec /\ e.ver = f.ver
    BY <1>4 DEF Of
  <2>3. AgreesOf(Of(log, r), Of(store[d], r), Of(outbox'[d], r), cursor[d], round[d], r)
    BY <2>1, <2>2, UnparkedAgrees
  <2>. QED
    BY <1>1, <2>3 DEF Agrees
<1>. QED
  BY <1>1, <1>3, <1>4, <1>5, StepAgrees

(* A step of the round that touches nothing but the round.                 *)
LEMMA RoundAgrees ==
  ASSUME SyncInv, AgreeInv, NEW d \in Device, NEW next, Go(d, next),
         UNCHANGED <<serverVars, deviceVars, cursor>>,
         next.at = "sent" => \A c \in next.batch : \E e \in outbox[d] : c.id = e.id,
         \A r \in Record \ belated :
           AgreesOf(Of(log, r), Of(store[d], r), Of(outbox[d], r), cursor[d], round[d], r) =>
             AgreesOf(Of(log, r), Of(store[d], r), Of(outbox[d], r), cursor[d], next, r)
  PROVE  AgreeInv'
<1>1. round'[d] = next /\ \A g \in Device \ {d} : round'[g] = round[g]
  BY GoFacts
<1>2. log' = log /\ belated' = belated /\ store' = store /\ outbox' = outbox /\ cursor' = cursor
  BY DEF serverVars, deviceVars
<1>3. ASSUME NEW r \in Record \ belated PROVE Agrees(d, r)'
  BY <1>1, <1>2 DEF AgreeInv, Agrees
<1>. QED
  BY <1>1, <1>2, <1>3, StepAgrees

(* The end of a round, or of its pushes when all the server has of what    *)
(* waits has been answered.                                                *)
LEMMA QuietAgrees ==
  ASSUME NEW L, NEW S, NEW Q, NEW n, NEW rd, NEW r, AgreesOf(L, S, Q, n, rd, r),
         NEW next, next.at \in {"idle", "ask", "repush"},
         next.at = "idle" \/ \A x \in L, e \in Q : x.id # e.id
  PROVE  AgreesOf(L, S, Q, n, next, r)
<1>1. SentAgrees(L, S, Q, next, r) /\ AnswersAgree(L, S, Q, n, next) /\ PageAgrees(L, n, next, r)
  BY DEF SentAgrees, AnswersAgree, PageAgrees
<1>2. Unanswered(L, S, Q, n, next)
  BY DEF AgreesOf, Unanswered
<1>. QED
  BY <1>1, <1>2 DEF AgreesOf

LEMMA BreakAgrees ==
  ASSUME SyncInv, AgreeInv, NEW d \in Device, Break(d) \/ GiveUp(d)
  PROVE  AgreeInv'
<1>1. Go(d, Idle) /\ UNCHANGED <<serverVars, deviceVars, cursor>> /\ Idle.at = "idle"
  BY DEF Break, GiveUp, Idle
<1>. QED
  BY <1>1, QuietAgrees, RoundAgrees

LEMMA SendAgrees ==
  ASSUME SyncInv, AgreeInv, NEW d \in Device, Send(d)
  PROVE  AgreeInv'
<1> DEFINE batch == Sendable(d)
           repush == round[d].at = "repush"
           next == IF batch = {} THEN AfterPush(repush, FALSE)
                   ELSE [at |-> "sent", batch |-> batch, repush |-> repush]
<1>1. /\ Go(d, next) /\ UNCHANGED <<serverVars, deviceVars, cursor>>
      /\ round[d].at \in {"idle", "repush"}
  BY DEF Send
<1>2. /\ batch = {} /\ repush => next.at = "idle"
      /\ batch = {} /\ ~repush => next.at = "ask"
      /\ batch # {} => next.at = "sent" /\ next.batch = batch
  BY DEF AfterPush, Idle
<1>3. /\ \A c \in batch : \E e \in outbox[d], x \in Pending(store[d]) :
           /\ \A f \in Of(outbox[d], e.rec) : ~f.parked
           /\ c.id = e.id /\ c.rec = e.rec /\ c.base = e.ver - 1 /\ IsRowOf(x, e)
      /\ \A e \in outbox[d] : (\A f \in Of(outbox[d], e.rec) : ~f.parked) => \E c \in batch : c.id = e.id
  BY SentChanges DEF Sent
<1> HIDE DEF next, batch, repush
<1>4. ASSUME NEW r \in Record \ belated,
             AgreesOf(Of(log, r), Of(store[d], r), Of(outbox[d], r), cursor[d], round[d], r)
      PROVE  AgreesOf(Of(log, r), Of(store[d], r), Of(outbox[d], r), cursor[d], next, r)
  <2> DEFINE L == Of(log, r)
             S == Of(store[d], r)
             Q == Of(outbox[d], r)
             n == cursor[d]
  <2>1. ASSUME NEW x \in L, NEW e \in Q, x.id = e.id
        PROVE  /\ ~repush /\ (\A f \in Q : ~f.parked) /\ n < x.seq
               /\ \A y \in Pending(S) : IsRowOf(y, e) /\ y.kind = "purged" => x.kind = "purged"
               /\ \E c \in batch : c.id = e.id
    <3>1. /\ round[d].at \in {"idle", "sent", "answered"} /\ (\A f \in Q : ~f.parked) /\ n < x.seq
          /\ \A y \in Pending(S) : IsRowOf(y, e) /\ y.kind = "purged" => x.kind = "purged"
      BY <1>4, <2>1 DEF AgreesOf, Unanswered
    <3>2. e \in outbox[d] /\ e.rec = r
      BY DEF Of
    <3>. QED
      BY <1>3, <3>1, <3>2 DEF repush
  <2> HIDE DEF L, S, Q, n
  <2>2. CASE batch = {}
    <3>1. next.at \in {"idle", "ask", "repush"}
      BY <1>2, <2>2
    <3>2. \A x \in L, e \in Q : x.id # e.id
      BY <2>1, <2>2
    <3>. QED
      BY <1>4, <3>1, <3>2, QuietAgrees DEF L, S, Q, n
  <2>3. CASE batch # {}
    <3>1. next.at = "sent" /\ next.batch = batch
      BY <1>2, <2>3
    <3>2. Unanswered(L, S, Q, n, next)
      BY <2>1, <3>1 DEF Unanswered
    <3>3. SentAgrees(L, S, Q, next, r)
      <4>. SUFFICES ASSUME NEW c \in batch, c.rec = r
                    PROVE  /\ \A f \in Q : ~f.parked
                           /\ S # {} /\ (Synced(S) # {} => c.base # 0)
        BY <3>1 DEF SentAgrees, Of
      <4>1. PICK e \in outbox[d], x \in Pending(store[d]) :
              /\ \A f \in Of(outbox[d], e.rec) : ~f.parked
              /\ c.id = e.id /\ c.rec = e.rec /\ c.base = e.ver - 1 /\ IsRowOf(x, e)
        BY <1>3
      <4>2. x \in S /\ ~x.synced /\ x.ver = e.ver
        BY <4>1 DEF IsRowOf, Pending, S, Of
      <4>3. \A y \in Synced(S) : y.ver < x.ver /\ y.ver \in Nat \ {0} /\ x.ver \in Nat
        <5>1. RowsFit(store[d])
          BY DeviceFacts
        <5>2. \A y \in S : y.ver \in Nat \ {0} /\ y.rec = r /\ y \in store[d]
          BY RecordFacts DEF S
        <5>. QED
          BY <4>2, <5>1, <5>2 DEF RowsFit, Synced
      <4>4. Synced(S) # {} => c.base # 0
        BY <4>1, <4>2, <4>3
      <4>. QED
        BY <4>1, <4>2, <4>4 DEF Q
    <3>4. AnswersAgree(L, S, Q, n, next) /\ PageAgrees(L, n, next, r)
      BY <3>1 DEF AnswersAgree, PageAgrees
    <3>5. AgreesOf(L, S, Q, n, next, r)
      <4>1. HasAll(L, S, n) /\ HasOnly(L, S, n) /\ PurgeAlone(S)
        BY <1>4 DEF AgreesOf, L, S, n
      <4>. QED
        BY <3>2, <3>3, <3>4, <4>1 DEF AgreesOf
    <3>. QED
      BY <3>5 DEF L, S, Q, n
  <2>. QED
    BY <2>2, <2>3
<1>5. next.at = "sent" => \A c \in next.batch : \E e \in outbox[d] : c.id = e.id
  BY <1>2, <1>3
<1>. QED
  BY <1>1, <1>4, <1>5, RoundAgrees

LEMMA ReadPageAgrees ==
  ASSUME SyncInv, AgreeInv, NEW d \in Device, ReadPage(d)
  PROVE  AgreeInv'
<1> DEFINE n == cursor[d]
           past == { x \in log : x.seq > n }
           upTo(x) == { y \in past : y.seq <= x.seq }
           page == { x \in past : Cardinality(upTo(x)) <= PageLimit }
           next == [at |-> "page", page |-> page, more |-> page # past, again |-> round[d].again]
<1>1. Go(d, next) /\ UNCHANGED <<serverVars, deviceVars, cursor>> /\ round[d].at = "ask"
  BY DEF ReadPage
<1>2. next.at = "page" /\ next.page = page
  OBVIOUS
<1>3. /\ LogInv /\ IsFiniteSet(log) /\ n \in Nat
      /\ \A x \in log : x.seq \in Nat
  BY DEF SyncInv, Shapes, LogInv, ServerRow
<1>4. \A x \in page : x \in log /\ n < x.seq
  BY <1>3
<1>5. ASSUME NEW y \in log, y \notin page, n < y.seq, NEW z \in page PROVE z.seq < y.seq
  <2>. SUFFICES ASSUME y.seq <= z.seq PROVE FALSE
    BY <1>3, <1>4
  <2>1. y \in past /\ ~(Cardinality(upTo(y)) <= PageLimit)
    BY <1>3, <1>5
  <2>2. z \in past /\ Cardinality(upTo(z)) <= PageLimit
    OBVIOUS
  <2>3. IsFiniteSet(upTo(z)) /\ IsFiniteSet(upTo(y))
    BY <1>3, FS_Subset
  <2>4. upTo(y) \subseteq upTo(z)
    BY <1>3, <2>1, <2>2
  <2>5. Cardinality(upTo(y)) <= Cardinality(upTo(z))
        /\ Cardinality(upTo(y)) \in Nat /\ Cardinality(upTo(z)) \in Nat
    <3> DEFINE A == upTo(y)
               B == upTo(z)
    <3>1. IsFiniteSet(A) /\ IsFiniteSet(B) /\ A \subseteq B
      BY <2>3, <2>4
    <3> HIDE DEF A, B
    <3>2. Cardinality(A) <= Cardinality(B) /\ Cardinality(A) \in Nat /\ Cardinality(B) \in Nat
      BY <3>1, FS_Subset, FS_CardinalityType
    <3>. QED
      BY <3>2 DEF A, B
  <2>6. PageLimit \in Nat
    BY RecordSyncAssumption
  <2>. QED
    BY <2>1, <2>2, <2>5, <2>6
<1> HIDE DEF next, page
<1>6. ASSUME NEW r \in Record \ belated,
             AgreesOf(Of(log, r), Of(store[d], r), Of(outbox[d], r), cursor[d], round[d], r)
      PROVE  AgreesOf(Of(log, r), Of(store[d], r), Of(outbox[d], r), cursor[d], next, r)
  <2> DEFINE L == Of(log, r)
             S == Of(store[d], r)
             Q == Of(outbox[d], r)
  <2>1. \A x \in L, e \in Q : x.id # e.id
    BY <1>1, <1>6 DEF AgreesOf, Unanswered
  <2>2. PageAgrees(L, n, next, r)
    <3>1. \A x \in Of(page, r) : x \in L
      BY <1>4 DEF Of
    <3>2. \A y \in L : y \notin page /\ n < y.seq => \A z \in page : z.seq < y.seq
      BY <1>5 DEF Of
    <3>. QED
      BY <1>2, <1>4, <3>1, <3>2 DEF PageAgrees
  <2>3. Unanswered(L, S, Q, n, next) /\ SentAgrees(L, S, Q, next, r) /\ AnswersAgree(L, S, Q, n, next)
    BY <1>2, <2>1 DEF Unanswered, SentAgrees, AnswersAgree
  <2>. QED
    BY <1>6, <2>2, <2>3 DEF AgreesOf
<1>7. next.at # "sent"
  BY <1>2
<1>. QED
  BY <1>1, <1>6, <1>7, RoundAgrees

(* The two steps of the server.                                            *)
LEMMA HandlePushAgrees ==
  ASSUME SyncInv, AgreeInv, NEW g \in Device, HandlePush(g)
  PROVE  AgreeInv'
<1> DEFINE b == round[g].batch
<1>1. PICK refused : /\ ServerStep(b, refused) /\ SyncInv'
                     /\ \A c \in b : round'[g].results[c.id] = AnswerTo(b, refused, c)
  BY HandlePushStep
<1>2. /\ store' = store /\ outbox' = outbox /\ belated' = belated /\ round[g].at = "sent"
  BY DEF HandlePush, deviceVars
<1>3. \A d \in Device : round'[d].at = "sent" => round'[d] = round[d]
  <2>1. PICK next : Go(g, next) /\ next.at = "answered"
    BY DEF HandlePush
  <2>2. round'[g] = next /\ \A d \in Device \ {g} : round'[d] = round[d]
    BY <2>1, GoFacts
  <2>. QED
    BY <2>1, <2>2
<1>4. Own'
  BY <1>2, <1>3 DEF Own, AgreeInv
<1>5. ASSUME NEW r \in Record \ belated PROVE Alone(r)' /\ \A d \in Device : Agrees(d, r)'
  <2>1. \A d \in Device : Agrees(d, r)'
    BY <1>1, PushAgrees
  <2>2. Of(log', r) = {} => Of(log, r) = {}
    <3>1. LogInv /\ BatchFits(b) /\ 0 \in Nat /\ lastSeq \in Nat
      <4>1. b \in Batches
        BY <1>2 DEF Batches
      <4>. QED
        BY <4>1, BatchFacts DEF LogInv
    <3>2. \A x \in Of(log, r) : x \in Of(log', r) \/ PurgedAbove(Of(log', r), x.ver, lastSeq)
      <4> HIDE DEF b
      <4>1. 0 <= lastSeq
        BY <3>1
      <4>. QED
        BY <1>1, <3>1, <4>1, StaysOrPurged
    <3>. QED
      BY <3>2 DEF PurgedAbove
  <2>3. Alone(r)'
    BY <1>2, <2>2 DEF AgreeInv, Alone
  <2>. QED
    BY <2>1, <2>3
<1>. QED
  BY <1>2, <1>4, <1>5 DEF AgreeInv

(* A request that arrives late leaves the other records' rows alone.       *)
LEMMA ArriveLateRows ==
  ASSUME SyncInv, NEW b \in late, ArriveLate(b), NEW r, r \notin belated'
  PROVE  Of(log', r) = Of(log, r)
<1>1. PICK refused : ServerStep(b, refused)
  BY ArriveLateStep
<1>2. LogInv /\ BatchFits(b)
  BY ArriveLateStep, BatchFacts
<1>3. belated' = belated \cup { x.rec : x \in log' \ log }
  BY DEF ArriveLate
<1>4. \A c \in NewOf(b, refused) : c.rec # r
  BY <1>1, <1>2, <1>3, RowsAfterStep
<1>5. \A x \in Of(log', r) : x \in Of(log, r)
  BY <1>1, <1>2, <1>4, RowsAfterStep
<1>6. \A x \in Of(log, r) : x \in Of(log', r) \/ PurgedAbove(Of(log', r), x.ver, lastSeq)
  <2>1. 0 \in Nat /\ 0 <= lastSeq
    BY <1>2 DEF LogInv
  <2>. QED
    BY <1>1, <1>2, <2>1, StaysOrPurged
<1>7. \A x \in Of(log', r) : x.seq <= lastSeq /\ x.seq \in Nat /\ lastSeq \in Nat
  BY <1>2, <1>5 DEF LogInv, Of, ServerRow
<1>. QED
  BY <1>5, <1>6, <1>7 DEF PurgedAbove

LEMMA ArriveLateAgrees ==
  ASSUME SyncInv, AgreeInv, NEW b \in late, ArriveLate(b)
  PROVE  AgreeInv'
<1>1. /\ store' = store /\ outbox' = outbox /\ cursor' = cursor /\ round' = round
      /\ belated' = belated \cup { x.rec : x \in log' \ log }
  BY DEF ArriveLate, deviceVars
<1>2. ASSUME NEW r \in Record \ belated' PROVE Of(log', r) = Of(log, r)
  BY ArriveLateRows
<1>3. Own'
  BY <1>1 DEF AgreeInv, Own
<1>4. ASSUME NEW r \in Record \ belated' PROVE Alone(r)' /\ \A d \in Device : Agrees(d, r)'
  BY <1>1, <1>2 DEF AgreeInv, Alone, Agrees
<1>. QED
  BY <1>3, <1>4 DEF AgreeInv

-------------------------------------------------------------------------------
(***************************************************************************)
(* An answer taken.                                                        *)
(***************************************************************************)
(* What an acknowledgement makes of the rows and the entries: of the row   *)
(* `x0`, named by the entry `e`.                                           *)
Acked(dev, e, serverRows, x0, new) ==
  /\ new.queue = dev.queue \ {e}
  /\ serverRows = {} => new.rows = (dev.rows \ {x0}) \cup {AsSynced(x0)}
  /\ \A row : serverRows = {row} => new.rows = Upsert(dev.rows \ {x0}, {AsSynced(row)})

LEMMA AckedRows ==
  ASSUME NEW dev, DevFits(dev), NEW e \in dev.queue, NEW serverRows,
         NEW x0 \in Pending(dev.rows), IsRowOf(x0, e), NEW new, new = AckPending(dev, e.id, serverRows)
  PROVE  Acked(dev, e, serverRows, x0, new)
<1>1. RowsFit(dev.rows) /\ QueueFits(Pending(dev.rows), dev.queue)
  BY DEF DevFits
<1>2. { f \in dev.queue : f.id = e.id } = {e}
  BY <1>1 DEF QueueFits
<1>4. x0 \in dev.rows /\ x0.rec = e.rec /\ x0.ver = e.ver
  BY DEF Pending, IsRowOf
<1>5. { x \in dev.rows : \E f \in {e} : x.rec = f.rec /\ x.ver = f.ver } = {x0}
  BY <1>1, <1>4 DEF RowsFit
<1>6. new =
        [rows  |-> IF serverRows = {}
                   THEN (dev.rows \ {x0}) \cup { AsSynced(x) : x \in {x0} }
                   ELSE Upsert(dev.rows \ {x0}, { AsSynced(row) : row \in serverRows }),
         queue |-> dev.queue \ {e}, id |-> dev.id]
  <2>1. {e} # {}
    OBVIOUS
  <2>. QED
    BY <1>2, <1>5, <2>1, ZenonT(60) DEF AckPending
<1>7. { AsSynced(x) : x \in {x0} } = {AsSynced(x0)}
  OBVIOUS
<1> DEFINE none == (dev.rows \ {x0}) \cup {AsSynced(x0)}
           some == Upsert(dev.rows \ {x0}, { AsSynced(row) : row \in serverRows })
<1>8. new =
        [rows |-> IF serverRows = {} THEN none ELSE some, queue |-> dev.queue \ {e}, id |-> dev.id]
  BY <1>6, <1>7
<1> HIDE DEF none, some
<1>9. /\ new.queue = dev.queue \ {e}
      /\ new.rows = IF serverRows = {} THEN none ELSE some
  BY <1>8
<1>10. \A row : serverRows = {row} => serverRows # {} /\ some = Upsert(dev.rows \ {x0}, {AsSynced(row)})
  <2>. SUFFICES ASSUME NEW row, serverRows = {row} PROVE some = Upsert(dev.rows \ {x0}, {AsSynced(row)})
    OBVIOUS
  <2>1. { AsSynced(x) : x \in serverRows } = {AsSynced(row)}
    OBVIOUS
  <2>. QED
    BY <2>1 DEF some
<1>11. serverRows = {} => new.rows = (dev.rows \ {x0}) \cup {AsSynced(x0)}
  BY <1>9 DEF none
<1>. QED
  BY <1>9, <1>10, <1>11 DEF Acked

(* A round goes on, or ends, once the change `c` has been answered.        *)
GoesOn(rd, c, next) ==
  \/ rd.batch = {c} /\ next.at \in {"idle", "ask"}
  \/ next.at = "answered" /\ next.batch = rd.batch \ {c} /\ next.results = rd.results

(* What is left to be answered then.                                       *)
LEMMA TakenAgrees ==
  ASSUME NEW L, NEW S, NEW Q, NEW n, NEW rd, NEW r, AgreesOf(L, S, Q, n, rd, r),
         rd.at = "answered", NEW c, NEW next, GoesOn(rd, c, next),
         NEW T, HasAll(L, T, n), HasOnly(L, T, n), PurgeAlone(T), Pending(T) \subseteq Pending(S),
         NEW P, \A f \in P : \E e \in Q : e.id = f.id /\ e.rec = f.rec /\ e.ver = f.ver,
         \A x \in L, f \in P : x.id = f.id => f.id # c.id /\ \A g \in P : ~g.parked
  PROVE  AgreesOf(L, T, P, n, next, r)
<1>1. Unanswered(L, T, P, n, next)
  <2>. SUFFICES ASSUME NEW x \in L, NEW f \in P, x.id = f.id
                PROVE  /\ next.at \in {"idle", "sent", "answered"}
                       /\ \A g \in P : ~g.parked
                       /\ n < x.seq
                       /\ \A y \in Pending(T) : IsRowOf(y, f) /\ y.kind = "purged" => x.kind = "purged"
                       /\ next.at = "sent" => \E k \in next.batch : k.id = f.id
                       /\ next.at = "answered" =>
                            \E k \in next.batch : k.id = f.id /\ next.results[k.id].status = "applied"
    BY DEF Unanswered
  <2>1. PICK e \in Q : e.id = f.id /\ e.rec = f.rec /\ e.ver = f.ver
    OBVIOUS
  <2>2. /\ n < x.seq
        /\ \A y \in Pending(S) : IsRowOf(y, e) /\ y.kind = "purged" => x.kind = "purged"
        /\ \E k \in rd.batch : k.id = e.id /\ rd.results[k.id].status = "applied"
    BY <2>1 DEF AgreesOf, Unanswered
  <2>3. PICK k \in rd.batch : k.id = e.id /\ rd.results[k.id].status = "applied"
    BY <2>2
  <2>4. k # c
    BY <2>1, <2>3
  <2>5. \A y \in Pending(T) : IsRowOf(y, f) /\ y.kind = "purged" => x.kind = "purged"
    BY <2>1, <2>2 DEF IsRowOf
  <2>. QED
    BY <2>1, <2>2, <2>3, <2>4, <2>5 DEF GoesOn
<1>2. SentAgrees(L, T, P, next, r) /\ PageAgrees(L, n, next, r)
  BY DEF SentAgrees, PageAgrees, GoesOn
<1>3. AnswersAgree(L, T, P, n, next)
  <2>. SUFFICES ASSUME next.at = "answered", NEW k \in next.batch, NEW f \in P, k.id = f.id
                PROVE  /\ \A y \in Pending(T) : IsRowOf(y, f) => y.kind = k.kind
                       /\ next.results[k.id].status = "applied" =>
                            /\ next.results[k.id].row.id = f.id
                            /\ \/ next.results[k.id].row \in L
                               \/ PurgedAbove(L, next.results[k.id].row.ver, n)
                       /\ next.results[k.id].status = "not_found" /\ k.kind = "purged" => L = {}
    BY DEF AnswersAgree
  <2>1. PICK e \in Q : e.id = f.id /\ e.rec = f.rec /\ e.ver = f.ver
    OBVIOUS
  <2>2. k \in rd.batch /\ next.results = rd.results
    BY DEF GoesOn
  <2>. QED
    BY <2>1, <2>2 DEF AgreesOf, AnswersAgree, IsRowOf
<1>. QED
  BY <1>1, <1>2, <1>3 DEF AgreesOf

(* The oldest of what waits, `x0`, becomes `z`: the server's copy, or the  *)
(* tombstone of a record the server does not have.                         *)
RowsOrdered(L) ==
  /\ \A x \in L : x.ver \in Nat /\ x.seq \in Nat
  /\ \A x, y \in L :
       /\ x.ver = y.ver => x = y
       /\ x.ver < y.ver => x.seq < y.seq /\ y.kind # "purged"
       /\ x.seq < y.seq => x.ver < y.ver

AckedTo(L, S, n, id, x0, z) ==
  /\ \A x \in Pending(S) : x # x0 => x.kind # "purged"
  /\ z.synced
  /\ \/ \E row \in ServerRow :
          z = AsSynced(row) /\ row.id = id /\ (row \in L \/ PurgedAbove(L, row.ver, n))
     \/ L = {} /\ z.kind = "purged"

Replaces(S, T, x0, z) ==
  /\ z \in T /\ \A x \in T : (x \in S /\ x # x0) \/ x = z
  /\ \A x \in Synced(S) : x \in T \/ x.ver = z.ver

LEMMA AckAgrees ==
  ASSUME NEW L, NEW S, NEW Q, NEW n \in Nat, NEW rd, NEW r, AgreesOf(L, S, Q, n, rd, r),
         RowsOrdered(L), NEW e \in Q, NEW x0 \in Pending(S), IsRowOf(x0, e),
         NEW z, AckedTo(L, S, n, e.id, x0, z), NEW T, Replaces(S, T, x0, z)
  PROVE  HasAll(L, T, n) /\ HasOnly(L, T, n) /\ PurgeAlone(T) /\ Pending(T) \subseteq Pending(S)
<1>. USE DEF RowsOrdered, AckedTo, Replaces
<1>1. Pending(T) \subseteq Pending(S) \ {x0}
  BY DEF Pending
<1>2. PurgeAlone(T)
  BY <1>1 DEF PurgeAlone
<1>3. CASE L = {} /\ z.kind = "purged"
  BY <1>1, <1>2, <1>3 DEF HasAll, HasOnly, Synced, AgreesOf
<1>4. CASE \E row \in ServerRow :
             z = AsSynced(row) /\ row.id = e.id /\ (row \in L \/ PurgedAbove(L, row.ver, n))
  <2>1. PICK row \in ServerRow :
          z = AsSynced(row) /\ row.id = e.id /\ (row \in L \/ PurgedAbove(L, row.ver, n))
    BY <1>4
  <2>2. z.ver = row.ver /\ row.ver \in Nat
    BY <2>1 DEF AsSynced, LocalRow, ServerRow
  <2>3. HasOnly(L, T, n)
    <3>. SUFFICES ASSUME NEW x \in Synced(T)
                  PROVE  \/ \E y \in L : x = AsSynced(y)
                         \/ PurgedAbove(L, x.ver, n)
                         \/ L = {} /\ x.kind = "purged"
      BY DEF HasOnly
    <3>1. CASE x = z
      BY <2>1, <2>2, <3>1
    <3>2. CASE x # z
      <4>1. x \in Synced(S)
        BY <3>2 DEF Synced
      <4>. QED
        BY <4>1 DEF AgreesOf, HasOnly
    <3>. QED
      BY <3>1, <3>2
  <2>4. HasAll(L, T, n)
    <3>. SUFFICES ASSUME NEW y \in L, y.seq <= n PROVE AsSynced(y) \in T
      BY DEF HasAll
    <3>1. AsSynced(y).synced /\ AsSynced(y).ver = y.ver
      BY DEF AsSynced, LocalRow
    <3>2. AsSynced(y) \in S
      <4>1. SUFFICES ASSUME NEW p \in Pending(S), p.kind = "purged", y.ver < p.ver
                     PROVE  FALSE
        BY DEF AgreesOf, HasAll
      <4>2. p = x0
        BY <4>1
      <4>3. CASE row \in L
        <5>1. n < row.seq /\ row.kind = "purged"
          BY <2>1, <4>1, <4>2, <4>3 DEF AgreesOf, Unanswered
        <5>2. y.seq < row.seq
          BY <4>3, <5>1
        <5>. QED
          BY <4>3, <5>1, <5>2
      <4>4. CASE PurgedAbove(L, row.ver, n)
        <5>1. PICK q \in L : q.kind = "purged" /\ row.ver < q.ver /\ n < q.seq
          BY <4>4 DEF PurgedAbove
        <5>2. y.seq < q.seq
          BY <5>1
        <5>. QED
          BY <5>1, <5>2
      <4>. QED
        BY <2>1, <4>3, <4>4
    <3>3. CASE y.ver = row.ver
      <4>1. CASE row \in L
        BY <2>1, <3>3, <4>1
      <4>2. CASE PurgedAbove(L, row.ver, n)
        BY <3>3, <4>2 DEF PurgedAbove
      <4>. QED
        BY <2>1, <4>1, <4>2
    <3>4. CASE y.ver # row.ver
      BY <2>2, <3>1, <3>2, <3>4 DEF Synced
    <3>. QED
      BY <3>3, <3>4
  <2>. QED
    BY <1>1, <1>2, <2>3, <2>4
<1>. QED
  BY <1>3, <1>4

(* What the outbox has of a change that has just been answered.            *)
LEMMA FirstAnswered ==
  ASSUME SyncInv, NEW d \in Device, round[d].at = "answered", NEW c, c = First(round[d].batch)
  PROVE  /\ c \in round[d].batch
         /\ \A k \in round[d].batch : k.id = c.id => k = c
         /\ Done(c, round[d].results[c.id]) => \A e \in outbox[d] : e.id = c.id =>
              /\ \A f \in outbox[d] : f.rec = e.rec => e.id <= f.id
              /\ \A x, y \in Pending(store[d]) :
                   IsRowOf(x, e) /\ y.rec = e.rec /\ y # x => y.kind # "purged"
         /\ ~Done(c, round[d].results[c.id]) => \A e, f \in outbox[d] :
              e.rec = f.rec /\ f.id = c.id =>
                \A k \in round[d].batch : k.id = e.id => round[d].results[k.id].status # "applied"
<1> DEFINE b == round[d].batch
           result == round[d].results
           Q == outbox[d]
           W == Pending(store[d])
<1>1. AnswersFit(d)
  BY DEF SyncInv, RoundFits
<1>2. /\ b \subseteq PushChange /\ b # {}
      /\ \A k \in b : k.id \in Nat
      /\ \A k, h \in b : k.id = h.id => k = h
      /\ \A k \in b : \A e \in Q : k.id = e.id /\ Done(k, result[k.id]) =>
           \A f \in Q : f.rec = e.rec /\ f.id < e.id =>
             \E g \in b : g.id = f.id /\ Done(g, result[g.id])
  BY <1>1 DEF AnswersFit, PushChange
<1>3. c \in b /\ \A k \in b : c.id <= k.id
  BY <1>2, FirstChange
<1>4. \A e \in Q : e.id \in Nat
  BY DeviceFacts, EntryTypes
<1>5. RowsFit(store[d]) /\ QueueFits(W, Q) /\ KindsFit(W)
  BY DeviceFacts
<1>6. \A k : result[k.id].status = "applied" => Done(k, result[k.id])
  BY DEF Done
<1> HIDE DEF b, result, Q, W
<1>7. ASSUME Done(c, result[c.id]), NEW e \in Q, e.id = c.id
      PROVE  /\ \A f \in Q : f.rec = e.rec => e.id <= f.id
             /\ \A x, y \in W : IsRowOf(x, e) /\ y.rec = e.rec /\ y # x => y.kind # "purged"
  <2>1. \A f \in Q : f.rec = e.rec => e.id <= f.id
    <3>. SUFFICES ASSUME NEW f \in Q, f.rec = e.rec, f.id < e.id PROVE FALSE
      BY <1>4
    <3>1. PICK g \in b : g.id = f.id
      BY <1>2, <1>3, <1>7
    <3>. QED
      BY <1>2, <1>3, <1>4, <1>7, <3>1
  <2>2. ASSUME NEW x \in W, NEW y \in W, IsRowOf(x, e), y.rec = e.rec, y # x
        PROVE  y.kind # "purged"
    <3>1. PICK f \in Q : IsRowOf(y, f)
      BY <1>5 DEF QueueFits
    <3>2. x \in store[d] /\ y \in store[d] /\ x.rec = y.rec
      BY <2>2 DEF W, Pending, IsRowOf
    <3>3. x.ver # y.ver
      BY <1>5, <2>2, <3>2 DEF RowsFit
    <3>4. f # e /\ f.rec = e.rec
      BY <2>2, <3>1, <3>3 DEF IsRowOf
    <3>5. e.id < f.id
      <4>1. e.id <= f.id /\ e.id # f.id
        BY <1>5, <2>1, <3>4 DEF QueueFits
      <4>. QED
        BY <1>4, <4>1
    <3>6. x.ver < y.ver
      BY <1>5, <2>2, <3>1, <3>4, <3>5 DEF QueueFits, IsRowOf
    <3>. QED
      BY <1>5, <2>2, <3>2, <3>6 DEF KindsFit
  <2>. QED
    BY <2>1, <2>2
<1>8. ASSUME ~Done(c, result[c.id]), NEW e \in Q, NEW f \in Q, e.rec = f.rec, f.id = c.id,
             NEW k \in b, k.id = e.id, result[k.id].status = "applied"
      PROVE  FALSE
  <2>1. f.id <= e.id
    BY <1>3, <1>8
  <2>2. k # c
    BY <1>6, <1>8
  <2>3. f.id < e.id
    BY <1>2, <1>3, <1>4, <1>8, <2>1, <2>2
  <2>4. PICK g \in b : g.id = f.id /\ Done(g, result[g.id])
    BY <1>2, <1>6, <1>8, <2>3
  <2>5. g = c
    BY <1>2, <1>3, <1>8, <2>4
  <2>. QED
    BY <1>8, <2>4, <2>5
<1>. QED
  BY <1>2, <1>3, <1>7, <1>8 DEF b, result, Q, W

(* An answer to what no longer waits, or one that leaves it waiting.       *)
LEMMA LeftAgrees ==
  ASSUME SyncInv, AgreeInv, NEW d \in Device, round[d].at = "answered",
         NEW c, c = First(round[d].batch), NEW next, GoesOn(round[d], c, next),
         NEW queue,
         \A f \in queue : \E e \in outbox[d] :
           /\ e.id = f.id /\ e.rec = f.rec /\ e.ver = f.ver
           /\ f.parked => e.parked \/ f.id = c.id,
         Done(c, round[d].results[c.id]) => \A e \in outbox[d] : e.id # c.id,
         NEW r \in Record \ belated
  PROVE  AgreesOf(Of(log, r), Of(store[d], r), Of(queue, r), cursor[d], next, r)
<1> DEFINE L == Of(log, r)
           S == Of(store[d], r)
           Q == Of(outbox[d], r)
           P == Of(queue, r)
           n == cursor[d]
           rd == round[d]
<1>1. AgreesOf(L, S, Q, n, rd, r)
  BY DEF AgreeInv, Agrees
<1>2. \A f \in P : \E e \in Q :
        e.id = f.id /\ e.rec = f.rec /\ e.ver = f.ver /\ (f.parked => e.parked \/ f.id = c.id)
  BY DEF Of
<1>3. \A e \in Q : e \in outbox[d] /\ e.rec = r
  BY DEF Of
<1>4. ASSUME NEW x \in L, NEW f \in P, x.id = f.id
      PROVE  f.id # c.id /\ \A g \in P : ~g.parked
  <2>1. PICK e \in Q : e.id = f.id /\ e.rec = f.rec /\ e.ver = f.ver
    BY <1>2
  <2>2. /\ \A g \in Q : ~g.parked
        /\ \E k \in rd.batch : k.id = e.id /\ rd.results[k.id].status = "applied"
    BY <1>1, <1>4, <2>1 DEF AgreesOf, Unanswered
  <2>3. PICK k \in rd.batch : k.id = e.id /\ rd.results[k.id].status = "applied"
    BY <2>2
  <2>4. Done(k, rd.results[k.id])
    BY <2>3 DEF Done
  <2>5. e.id # c.id
    <3>. SUFFICES ASSUME e.id = c.id PROVE FALSE
      OBVIOUS
    <3>1. k = c
      BY <2>3, FirstAnswered
    <3>. QED
      BY <1>3, <2>4, <3>1
  <2>6. ASSUME NEW g \in P, g.parked PROVE FALSE
    <3>1. PICK h \in Q : h.id = g.id /\ (h.parked \/ g.id = c.id)
      BY <1>2, <2>6
    <3>2. h.id = c.id /\ h.rec = e.rec /\ h \in outbox[d] /\ e \in outbox[d]
      BY <1>3, <2>2, <3>1
    <3>3. ~Done(c, round[d].results[c.id])
      BY <3>2
    <3>. QED
      BY <2>3, <3>2, <3>3, FirstAnswered DEF rd
  <2>. QED
    BY <2>1, <2>5, <2>6
<1> HIDE DEF L, S, Q, P, n
<1>5. HasAll(L, S, n) /\ HasOnly(L, S, n) /\ PurgeAlone(S) /\ Pending(S) \subseteq Pending(S)
  BY <1>1 DEF AgreesOf
<1>6. \A f \in P : \E e \in Q : e.id = f.id /\ e.rec = f.rec /\ e.ver = f.ver
  BY <1>2
<1>7. AgreesOf(L, S, P, n, next, r)
  BY <1>1, <1>4, <1>5, <1>6, TakenAgrees
<1>. QED
  BY <1>7 DEF L, S, P, n

(* The server's copy of what was answered as applied.                      *)
Copies(result) == IF result.status = "applied" THEN {result.row} ELSE {}

(* What a step makes of a record's rows and entries.                       *)
MadeAgree(d, new, next, r) ==
  /\ AgreesOf(Of(log, r), Of(new.rows, r), Of(new.queue, r), cursor[d], next, r)
  /\ Of(new.rows, r) # {} => Of(store[d], r) # {}

(* An answer that ends a change's wait.                                    *)
LEMMA EndedAgrees ==
  ASSUME SyncInv, AgreeInv, NEW d \in Device, round[d].at = "answered",
         NEW c, c = First(round[d].batch), NEW next, GoesOn(round[d], c, next),
         NEW result, result = round[d].results[c.id], Done(c, result),
         NEW e \in outbox[d], e.id = c.id,
         NEW new, new = AckPending(Device0(d), e.id, Copies(result)), NEW r \in Record \ belated
  PROVE  MadeAgree(d, new, next, r)
<1> DEFINE L == Of(log, r)
           S == Of(store[d], r)
           Q == Of(outbox[d], r)
           T == Of(new.rows, r)
           P == Of(new.queue, r)
           n == cursor[d]
           rd == round[d]
<1> DEFINE serverRows == Copies(result)
<1>17. /\ result.status = "applied" => serverRows = {result.row}
       /\ result.status # "applied" => serverRows = {}
  BY DEF Copies
<1> HIDE DEF serverRows
<1>1. AgreesOf(L, S, Q, n, rd, r)
  BY DEF AgreeInv, Agrees
<1>2. DevFits(Device0(d)) /\ Device0(d).rows = store[d] /\ Device0(d).queue = outbox[d]
  BY DeviceFacts
<1>3. PICK x0 \in Pending(store[d]) : IsRowOf(x0, e)
  BY DeviceFacts DEF QueueFits
<1>16. /\ new.queue = outbox[d] \ {e}
       /\ serverRows = {} => new.rows = (store[d] \ {x0}) \cup {AsSynced(x0)}
       /\ \A row : serverRows = {row} => new.rows = Upsert(store[d] \ {x0}, {AsSynced(row)})
  <2> DEFINE dev == Device0(d)
  <2>1. /\ DevFits(dev) /\ e \in dev.queue /\ x0 \in Pending(dev.rows)
        /\ new = AckPending(dev, e.id, serverRows)
        /\ dev.rows = store[d] /\ dev.queue = outbox[d]
    BY <1>2 DEF serverRows
  <2> HIDE DEF dev
  <2>2. Acked(dev, e, serverRows, x0, new)
    BY <1>3, <2>1, AckedRows
  <2>. QED
    BY <2>1, <2>2 DEF Acked
<1>4. x0 \in store[d] /\ ~x0.synced /\ x0.rec = e.rec
  BY <1>3 DEF Pending, IsRowOf
<1>5. c \in rd.batch /\ \A k \in rd.batch : k.id = c.id => k = c
  BY FirstAnswered
<1>6. \A f \in outbox[d] : f.id = e.id => f = e
  BY DeviceFacts DEF QueueFits
<1>7. result.status = "applied" => result.row \in ServerRow /\ result.row.rec = e.rec
  <2>1. AnswersFit(d)
    BY DEF SyncInv, RoundFits
  <2>. QED
    BY <1>5, <2>1 DEF AnswersFit
<1> DEFINE z == IF result.status = "applied" THEN AsSynced(result.row) ELSE AsSynced(x0)
<1>8. z.synced /\ z.rec = e.rec
  BY <1>4, <1>7 DEF AsSynced, LocalRow
<1>9. /\ \A x \in new.rows : x \in store[d] \ {x0} \/ x = z
      /\ z \in new.rows
      /\ \A x \in store[d] : x # x0 => x \in new.rows \/ (x.rec = z.rec /\ x.ver = z.ver)
  <2>1. CASE result.status # "applied"
    <3>1. new.rows = (store[d] \ {x0}) \cup {z}
      BY <1>16, <1>17, <2>1
    <3>. QED
      BY <3>1
  <2>2. CASE result.status = "applied"
    <3>1. serverRows = {result.row} /\ z = AsSynced(result.row)
      BY <1>17, <2>2
    <3>2. new.rows = Upsert(store[d] \ {x0}, {z})
      BY <1>16, <3>1
    <3> HIDE DEF z
    <3>. QED
      BY <3>2 DEF Upsert
  <2>. QED
    BY <2>1, <2>2
<1>10. \A f \in P : f \in Q /\ f # e
  BY <1>16 DEF Of
<1>11. Of(new.rows, r) # {} => Of(store[d], r) # {}
  <2> HIDE DEF z
  <2>. QED
    BY <1>4, <1>8, <1>9 DEF Of
<1>12. HasAll(L, T, n) /\ HasOnly(L, T, n) /\ PurgeAlone(T) /\ Pending(T) \subseteq Pending(S)
  <2>1. CASE r # e.rec
    <3>1. T = S
      <4> HIDE DEF z
      <4>. QED
        BY <1>4, <1>8, <1>9, <2>1 DEF Of
    <3>. QED
      BY <1>1, <3>1 DEF AgreesOf
  <2>2. CASE r = e.rec
    <3>1. e \in Q /\ x0 \in Pending(S) /\ IsRowOf(x0, e)
      BY <1>3, <1>4, <2>2 DEF Of, Pending
    <3>2. \A x \in Pending(S) : x # x0 => x.kind # "purged"
      <4>1. \A x, y \in Pending(store[d]) :
              IsRowOf(x, e) /\ y.rec = e.rec /\ y # x => y.kind # "purged"
        BY FirstAnswered
      <4>2. \A x \in Pending(S) : x \in Pending(store[d]) /\ x.rec = e.rec
        BY <2>2 DEF Pending, Of
      <4>. QED
        BY <1>3, <4>1, <4>2
    <3>3. AckedTo(L, S, n, e.id, x0, z)
      <4>1. /\ \A y \in Pending(S) : IsRowOf(y, e) => y.kind = c.kind
            /\ result.status = "applied" =>
                 result.row.id = e.id /\ (result.row \in L \/ PurgedAbove(L, result.row.ver, n))
            /\ result.status = "not_found" /\ c.kind = "purged" => L = {}
        BY <1>1, <1>5, <3>1 DEF AgreesOf, AnswersAgree
      <4>2. CASE result.status = "applied"
        <5>1. z = AsSynced(result.row)
          BY <4>2
        <5>. QED
          BY <1>7, <1>8, <3>2, <4>1, <4>2, <5>1 DEF AckedTo
      <4>3. CASE result.status # "applied"
        <5>1. L = {} /\ x0.kind = "purged"
          BY <3>1, <4>1, <4>3 DEF Done
        <5>2. z = AsSynced(x0)
          BY <4>3
        <5>3. z.kind = "purged"
          BY <5>1, <5>2 DEF AsSynced, LocalRow
        <5>. QED
          BY <1>8, <3>2, <5>1, <5>3 DEF AckedTo
      <4>. QED
        BY <4>2, <4>3
    <3>4. n \in Nat /\ RowsOrdered(L)
      BY RecordFacts DEF RowsOrdered
    <3> HIDE DEF z
    <3>5. Replaces(S, T, x0, z)
      BY <1>4, <1>8, <1>9, <2>2 DEF Of, Synced, Replaces
    <3> HIDE DEF L, S, Q, T, n, rd
    <3>. QED
      BY <1>1, <3>1, <3>3, <3>4, <3>5, AckAgrees
  <2>. QED
    BY <2>1, <2>2
<1>13. \A x \in L, f \in P : x.id = f.id => f.id # c.id /\ \A g \in P : ~g.parked
  <2>. SUFFICES ASSUME NEW x \in L, NEW f \in P, x.id = f.id
                PROVE  f.id # c.id /\ \A g \in P : ~g.parked
    OBVIOUS
  <2>1. f.id # c.id
    BY <1>6, <1>10 DEF Of
  <2>2. \A g \in Q : ~g.parked
    BY <1>1, <1>10 DEF AgreesOf, Unanswered
  <2>. QED
    BY <1>10, <2>1, <2>2
<1> HIDE DEF L, S, Q, T, P, n, z
<1>14. \A f \in P : \E g \in Q : g.id = f.id /\ g.rec = f.rec /\ g.ver = f.ver
  BY <1>10
<1>15. AgreesOf(L, T, P, n, next, r)
  BY <1>1, <1>12, <1>13, <1>14, TakenAgrees DEF rd
<1>. QED
  BY <1>11, <1>15 DEF L, T, P, n, MadeAgree

LEMMA TakeResultAgrees ==
  ASSUME SyncInv, AgreeInv, NEW d \in Device, TakeResult(d)
  PROVE  AgreeInv'
<1> DEFINE rd == round[d]
           c == First(rd.batch)
           result == rd.results[c.id]
           done == \/ result.status = "applied"
                   \/ result.status = "not_found" /\ c.kind = "purged"
           new == CASE result.status = "applied" -> AckPending(Device0(d), c.id, {result.row})
                    [] done /\ result.status # "applied" -> AckPending(Device0(d), c.id, {})
                    [] result.status = "stale" -> Device0(d)
                    [] OTHER -> Park(Device0(d), c.id)
           again == rd.again \/ ~done
           after == AfterPush(rd.repush, again)
           on == [at |-> "answered", batch |-> rd.batch \ {c}, results |-> rd.results,
                  again |-> again, repush |-> rd.repush]
           next == IF rd.batch = {c} THEN after ELSE on
<1>1. /\ Keep(d, new) /\ Go(d, next) /\ UNCHANGED <<serverVars, cursor, late, spent, created>>
      /\ rd.at = "answered"
  BY DEF TakeResult, TakeResultOf
<1>2. \/ /\ result.status = "applied" /\ Done(c, result)
         /\ new = AckPending(Device0(d), c.id, {result.row})
      \/ result.status # "applied" /\ Done(c, result) /\ new = AckPending(Device0(d), c.id, {})
      \/ ~Done(c, result) /\ new \in {Device0(d), Park(Device0(d), c.id)}
  BY DEF Done
<1>3. GoesOn(rd, c, next)
  BY DEF GoesOn, AfterPush, Idle
<1>4. Device0(d).rows = store[d] /\ Device0(d).queue = outbox[d] /\ IsDev(Device0(d))
  BY DeviceFacts
<1> HIDE DEF new, next, after, on, again, done, result, c
<1>5. /\ \A r \in Record \ belated : MadeAgree(d, new, next, r)
      /\ \A f \in new.queue : \E e \in outbox[d] : e.id = f.id
  <2>1. CASE ~Done(c, result) \/ \A e \in outbox[d] : e.id # c.id
    <3>1. /\ new.rows = store[d]
          /\ \A f \in new.queue : \E e \in outbox[d] :
               /\ e.id = f.id /\ e.rec = f.rec /\ e.ver = f.ver
               /\ f.parked => e.parked \/ f.id = c.id
      <4>1. new = Device0(d) \/ new = Park(Device0(d), c.id)
        BY <1>2, <1>4, <2>1, AckNothing
      <4>2. CASE new = Device0(d)
        BY <1>4, <4>2
      <4>3. CASE new = Park(Device0(d), c.id)
        <5> DEFINE g(e) == IF e.id = c.id THEN [e EXCEPT !.parked = TRUE] ELSE e
                   queue == { g(e) : e \in outbox[d] }
        <5>1. new = [Device0(d) EXCEPT !.queue = queue]
          BY <1>4, <4>3 DEF Park
        <5>2. \A e \in outbox[d] :
                /\ g(e).id = e.id /\ g(e).rec = e.rec /\ g(e).ver = e.ver
                /\ g(e).parked => e.parked \/ g(e).id = c.id
          <6>1. \A e \in outbox[d] : e \in Entry
            BY DeviceFacts DEF QueueFits
          <6>. QED
            BY <6>1 DEF Entry
        <5> HIDE DEF g
        <5>3. \A f \in queue : \E e \in outbox[d] : f = g(e)
          OBVIOUS
        <5> HIDE DEF queue
        <5>4. new.rows = store[d] /\ new.queue = queue
          <6>1. [Device0(d) EXCEPT !.queue = queue] = [rows |-> store[d], queue |-> queue, id |-> Device0(d).id]
            BY <1>4, DevParts
          <6>. QED
            BY <5>1, <6>1
        <5>. QED
          BY <5>2, <5>3, <5>4
      <4>. QED
        BY <4>1, <4>2, <4>3
    <3>2. Done(c, rd.results[c.id]) => \A e \in outbox[d] : e.id # c.id
      BY <2>1 DEF result
    <3>3. \A r \in Record \ belated :
            AgreesOf(Of(log, r), Of(store[d], r), Of(new.queue, r), cursor[d], next, r)
      BY <1>1, <1>3, <3>1, <3>2, LeftAgrees DEF c
    <3>. QED
      BY <3>1, <3>3 DEF MadeAgree
  <2>2. CASE Done(c, result) /\ \E e \in outbox[d] : e.id = c.id
    <3>1. PICK e \in outbox[d] : e.id = c.id
      BY <2>2
    <3>2. new = AckPending(Device0(d), e.id, Copies(result))
      BY <1>2, <2>2, <3>1 DEF Copies
    <3>3. \A r \in Record \ belated : MadeAgree(d, new, next, r)
      <4>. TAKE r \in Record \ belated
      <4>1. c = First(round[d].batch) /\ result = round[d].results[c.id]
        BY DEF c, result
      <4>2. round[d].at = "answered" /\ GoesOn(round[d], c, next) /\ Done(c, result)
        BY <1>1, <1>3, <2>2
      <4> HIDE DEF rd
      <4>. QED
        BY <3>1, <3>2, <4>1, <4>2, EndedAgrees
    <3>4. new.queue \subseteq outbox[d]
      <4> DEFINE dev == Device0(d)
      <4>1. DevFits(dev) /\ e \in dev.queue /\ new = AckPending(dev, e.id, Copies(result))
        BY <1>4, <3>2, DeviceFacts
      <4>2. new.queue = dev.queue \ {e}
        <5>1. PICK x0 \in Pending(dev.rows) : IsRowOf(x0, e)
          BY <4>1 DEF DevFits, QueueFits
        <5> HIDE DEF dev
        <5>2. Acked(dev, e, Copies(result), x0, new)
          BY <4>1, <5>1, AckedRows
        <5>. QED
          BY <5>2 DEF Acked
      <4>. QED
        BY <1>4, <3>2, <4>2
    <3>. QED
      BY <3>3, <3>4
  <2>. QED
    BY <2>1, <2>2
<1>6. /\ store'[d] = new.rows /\ outbox'[d] = new.queue
      /\ \A g \in Device \ {d} : store'[g] = store[g] /\ outbox'[g] = outbox[g]
  <2>1. store = [g \in Device |-> store[g]] /\ outbox = [g \in Device |-> outbox[g]]
    BY DEF SyncInv, Shapes
  <2>2. store' = [store EXCEPT ![d] = new.rows] /\ outbox' = [outbox EXCEPT ![d] = new.queue]
    BY <1>1 DEF Keep
  <2>. QED
    BY <2>1, <2>2, Zenon
<1>7. round'[d] = next /\ \A g \in Device \ {d} : round'[g] = round[g]
  BY <1>1, GoFacts
<1>8. log' = log /\ belated' = belated /\ cursor' = cursor
  BY <1>1 DEF serverVars
<1>9. \A r \in Record \ belated : Agrees(d, r)'
  BY <1>5, <1>6, <1>7, <1>8 DEF Agrees, MadeAgree
<1>10. next.at # "sent"
  BY <1>3 DEF GoesOn
<1>. QED
  BY <1>5, <1>6, <1>7, <1>8, <1>9, <1>10, StepAgrees DEF MadeAgree

-------------------------------------------------------------------------------
(***************************************************************************)
(* A page applied.                                                         *)
(***************************************************************************)
(* A page `page` of the rows after the cursor `n` ends at `m`.             *)
EndsAt(page, n, m) ==
  /\ n \in Nat /\ m \in Nat /\ n <= m
  /\ \A z \in page : z.seq \in Nat /\ z.seq <= m
  /\ m = n \/ \E z \in page : z.seq = m

(* `G` are the page's rows of one record, as the device counts them.       *)
PulledOf(page, r, G) ==
  /\ \A x \in Of(page, r) : AsSynced(x) \in G /\ x.ver \in Nat
  /\ \A g \in G : \E x \in Of(page, r) : g = AsSynced(x)

(* What an applied page makes of the rows of one record.                   *)
AppliedTo(S, T, G) ==
  /\ \A x \in Synced(T) : x \in G \/ x \in Synced(S)
  /\ \A x \in Synced(T), p \in G : p.kind = "purged" => ~(x.ver < p.ver)
  /\ \A x \in Synced(T), p \in Pending(T) : p.kind = "purged" => x \notin G
  /\ \A x : x \in G \/ x \in Synced(S) =>
       \/ x \in T
       \/ x \notin G /\ \E y \in G : y.ver = x.ver
       \/ \E p : (p \in G \/ p \in Synced(S) \/ p \in Pending(T)) /\ p.kind = "purged" /\ x.ver < p.ver
  /\ \A p \in Pending(T) : p.kind = "purged" => \E q \in Pending(S) : q.kind = "purged"
  /\ \A q \in Pending(S) : q.kind = "purged" =>
       \/ \E p \in Pending(T) : p.kind = "purged" /\ q.ver <= p.ver
       \/ \E y \in G : y.kind = "purged"

(* What the cursor moves over is here then, or about to be purged.         *)
LEMMA AppliedHasAll ==
  ASSUME NEW L, NEW S, NEW Q, NEW n, NEW rd, NEW r, AgreesOf(L, S, Q, n, rd, r),
         rd.at = "page", RowsOrdered(L), \A x \in L : x.rec = r,
         \A x \in S : x.ver \in Nat, NEW T, \A x \in T : x.ver \in Nat,
         NEW m, EndsAt(rd.page, n, m), NEW G, PulledOf(rd.page, r, G), AppliedTo(S, T, G)
  PROVE  HasAll(L, T, m)
<1>1. /\ n \in Nat /\ m \in Nat /\ n <= m
      /\ \A z \in rd.page : z.seq \in Nat /\ z.seq <= m
      /\ m = n \/ \E z \in rd.page : z.seq = m
  BY DEF EndsAt
<1>2. /\ \A x \in L : x.ver \in Nat /\ x.seq \in Nat
      /\ \A x, y \in L :
           /\ x.ver = y.ver => x = y
           /\ x.ver < y.ver => x.seq < y.seq /\ y.kind # "purged"
           /\ x.seq < y.seq => x.ver < y.ver
  BY DEF RowsOrdered
<1>3. /\ \A x \in Of(rd.page, r) :
           /\ n < x.seq /\ x.ver \in Nat
           /\ \/ x \in L
              \/ \E p \in L : p.kind = "purged" /\ x.ver < p.ver /\ \A z \in rd.page : z.seq < p.seq
      /\ \A y \in L : y \notin rd.page /\ n < y.seq => \A z \in rd.page : z.seq < y.seq
  BY DEF AgreesOf, PageAgrees, PulledOf, Of
<1>4. \A x : AsSynced(x).synced /\ AsSynced(x).ver = x.ver /\ AsSynced(x).kind = x.kind
  BY DEF AsSynced, LocalRow
<1>5. /\ \A x \in Of(rd.page, r) : AsSynced(x) \in G
      /\ \A g \in G : \E x \in Of(rd.page, r) : g = AsSynced(x)
  BY DEF PulledOf
(* No purge of the page lies above what the server has.                    *)
<1>6. \A y \in L, g \in G : g.kind = "purged" => ~(y.ver < g.ver)
  <2>. SUFFICES ASSUME NEW y \in L, NEW g \in G, g.kind = "purged", y.ver < g.ver PROVE FALSE
    OBVIOUS
  <2>1. PICK x \in Of(rd.page, r) : g = AsSynced(x)
    BY <1>5
  <2>2. x.kind = "purged" /\ y.ver < x.ver
    BY <1>4, <2>1
  <2>3. CASE x \in L
    BY <1>2, <2>2, <2>3
  <2>4. CASE x \notin L
    <3>1. PICK p \in L : p.kind = "purged" /\ x.ver < p.ver
      BY <1>3, <2>4
    <3>2. y.ver < p.ver
      BY <1>2, <1>3, <2>2, <3>1
    <3>. QED
      BY <1>2, <3>1, <3>2
  <2>. QED
    BY <2>3, <2>4
<1>. SUFFICES ASSUME NEW y \in L, y.seq <= m
              PROVE  AsSynced(y) \in T \/ \E p \in Pending(T) : p.kind = "purged" /\ y.ver < p.ver
  BY DEF HasAll
<1>7. \/ AsSynced(y) \in G \/ AsSynced(y) \in Synced(S)
      \/ \E p \in Pending(T) : p.kind = "purged" /\ y.ver < p.ver
  <2>1. CASE n < y.seq
    <3>1. y \in rd.page
      <4>. SUFFICES ASSUME y \notin rd.page PROVE FALSE
        OBVIOUS
      <4>1. \A z \in rd.page : z.seq < y.seq
        BY <1>3, <2>1
      <4>2. m < y.seq
        BY <1>1, <1>2, <2>1, <4>1
      <4>. QED
        BY <1>1, <1>2, <4>2
    <3>2. y \in Of(rd.page, r)
      BY <3>1 DEF Of
    <3>. QED
      BY <1>5, <3>2
  <2>2. CASE ~(n < y.seq)
    <3>1. y.seq <= n
      BY <1>1, <1>2, <2>2
    <3>2. AsSynced(y) \in S \/ \E q \in Pending(S) : q.kind = "purged" /\ y.ver < q.ver
      BY <3>1 DEF AgreesOf, HasAll
    <3>3. CASE AsSynced(y) \in S
      BY <1>4, <3>3 DEF Synced
    <3>4. CASE \E q \in Pending(S) : q.kind = "purged" /\ y.ver < q.ver
      <4>1. PICK q \in Pending(S) : q.kind = "purged" /\ y.ver < q.ver
        BY <3>4
      <4>2. \/ \E p \in Pending(T) : p.kind = "purged" /\ q.ver <= p.ver
            \/ \E g \in G : g.kind = "purged"
        BY <4>1 DEF AppliedTo
      <4>3. CASE \E p \in Pending(T) : p.kind = "purged" /\ q.ver <= p.ver
        <5>1. PICK p \in Pending(T) : p.kind = "purged" /\ q.ver <= p.ver
          BY <4>3
        <5>2. q.ver \in Nat /\ p.ver \in Nat
          BY DEF Pending
        <5>3. y.ver < p.ver
          BY <1>2, <4>1, <5>1, <5>2
        <5>. QED
          BY <5>1, <5>3
      <4>4. CASE \E g \in G : g.kind = "purged"
        <5>1. PICK g \in G : g.kind = "purged"
          BY <4>4
        <5>2. PICK x \in Of(rd.page, r) : g = AsSynced(x)
          BY <1>5
        <5>3. x.kind = "purged" /\ n < x.seq /\ x.seq \in Nat /\ x \in rd.page
          BY <1>1, <1>3, <1>4, <5>1, <5>2 DEF Of
        <5>4. CASE x \in L
          <6>1. y.seq < x.seq
            BY <1>1, <1>2, <3>1, <5>3
          <6>. QED
            BY <1>2, <5>3, <5>4, <6>1
        <5>5. CASE x \notin L
          <6>1. PICK p \in L : p.kind = "purged" /\ x.seq < p.seq
            BY <1>3, <5>3, <5>5
          <6>2. y.seq < p.seq
            BY <1>1, <1>2, <3>1, <5>3, <6>1
          <6>. QED
            BY <1>2, <6>1, <6>2
        <5>. QED
          BY <5>4, <5>5
      <4>. QED
        BY <4>2, <4>3, <4>4
    <3>. QED
      BY <3>2, <3>3, <3>4
  <2>. QED
    BY <2>1, <2>2
<1>8. ASSUME AsSynced(y) \in G \/ AsSynced(y) \in Synced(S)
      PROVE  AsSynced(y) \in T \/ \E p \in Pending(T) : p.kind = "purged" /\ y.ver < p.ver
  <2>1. \/ AsSynced(y) \in T
        \/ AsSynced(y) \notin G /\ \E g \in G : g.ver = y.ver
        \/ \E p : (p \in G \/ p \in Synced(S) \/ p \in Pending(T)) /\ p.kind = "purged" /\ y.ver < p.ver
    BY <1>4, <1>8 DEF AppliedTo
  <2>2. ASSUME AsSynced(y) \notin G, NEW g \in G, g.ver = y.ver PROVE FALSE
    <3>1. PICK x \in Of(rd.page, r) : g = AsSynced(x)
      BY <1>5
    <3>2. x.ver = y.ver
      BY <1>4, <2>2, <3>1
    <3>3. CASE x \in L
      BY <1>2, <2>2, <3>1, <3>2, <3>3
    <3>4. CASE x \notin L
      BY <1>2, <1>3, <3>2, <3>4
    <3>. QED
      BY <3>3, <3>4
  <2>3. ASSUME NEW p, p \in G \/ p \in Synced(S), p.kind = "purged", y.ver < p.ver PROVE FALSE
    <3>1. CASE p \in G
      BY <1>6, <2>3, <3>1
    <3>2. CASE p \in Synced(S)
      <4>1. \/ \E w \in L : p = AsSynced(w)
            \/ \E w \in L : w.kind = "purged" /\ p.ver < w.ver
        BY <3>2 DEF AgreesOf, HasOnly, PurgedAbove
      <4>2. p.ver \in Nat
        BY <3>2 DEF Synced
      <4>3. CASE \E w \in L : p = AsSynced(w)
        BY <1>2, <1>4, <2>3, <4>3
      <4>4. CASE \E w \in L : w.kind = "purged" /\ p.ver < w.ver
        <5>1. PICK w \in L : w.kind = "purged" /\ p.ver < w.ver
          BY <4>4
        <5>2. y.ver < w.ver
          BY <1>2, <2>3, <4>2, <5>1
        <5>. QED
          BY <1>2, <5>1, <5>2
      <4>. QED
        BY <4>1, <4>3, <4>4
    <3>. QED
      BY <2>3, <3>1, <3>2
  <2>. QED
    BY <2>1, <2>2, <2>3
<1>. QED
  BY <1>7, <1>8

(* What counts as synced then is on the server, or purged there beyond     *)
(* the cursor.                                                             *)
LEMMA AppliedHasOnly ==
  ASSUME NEW L, NEW S, NEW Q, NEW n, NEW rd, NEW r, AgreesOf(L, S, Q, n, rd, r),
         rd.at = "page", RowsOrdered(L), \A x \in L : x.rec = r,
         NEW T, NEW m, EndsAt(rd.page, n, m), NEW G, PulledOf(rd.page, r, G), AppliedTo(S, T, G)
  PROVE  HasOnly(L, T, m)
<1>1. /\ n \in Nat /\ m \in Nat /\ n <= m
      /\ \A z \in rd.page : z.seq \in Nat /\ z.seq <= m
      /\ m = n \/ \E z \in rd.page : z.seq = m
  BY DEF EndsAt
<1>2. \A x \in L : x.ver \in Nat /\ x.seq \in Nat
  BY DEF RowsOrdered
<1>3. /\ \A x \in Of(rd.page, r) :
           /\ n < x.seq /\ x \in rd.page
           /\ \/ x \in L
              \/ \E p \in L : p.kind = "purged" /\ x.ver < p.ver /\ \A z \in rd.page : z.seq < p.seq
      /\ \A y \in L : y \notin rd.page /\ n < y.seq => \A z \in rd.page : z.seq < y.seq
  BY DEF AgreesOf, PageAgrees, Of
<1>4. \A x : AsSynced(x).ver = x.ver /\ AsSynced(x).kind = x.kind
  BY DEF AsSynced, LocalRow
<1>. SUFFICES ASSUME NEW x \in Synced(T)
              PROVE  \/ \E y \in L : x = AsSynced(y)
                     \/ PurgedAbove(L, x.ver, m)
                     \/ L = {} /\ x.kind = "purged"
  BY DEF HasOnly
<1>5. x \in G \/ x \in Synced(S)
  BY DEF AppliedTo
<1>6. CASE x \in G
  <2>1. PICK w \in Of(rd.page, r) : x = AsSynced(w)
    BY <1>6 DEF PulledOf
  <2>2. CASE w \in L
    BY <2>1, <2>2
  <2>3. CASE w \notin L
    <3>1. PICK p \in L : p.kind = "purged" /\ w.ver < p.ver /\ \A z \in rd.page : z.seq < p.seq
      BY <1>3, <2>3
    <3>2. m # n
      BY <1>1, <1>3
    <3>3. m < p.seq
      BY <1>1, <3>1, <3>2
    <3>. QED
      BY <1>4, <2>1, <3>1, <3>3 DEF PurgedAbove
  <2>. QED
    BY <2>2, <2>3
<1>7. CASE x \in Synced(S)
  <2>1. \/ \E y \in L : x = AsSynced(y)
        \/ PurgedAbove(L, x.ver, n)
        \/ L = {} /\ x.kind = "purged"
    BY <1>7 DEF AgreesOf, HasOnly
  <2>2. CASE PurgedAbove(L, x.ver, n)
    <3>1. PICK p \in L : p.kind = "purged" /\ x.ver < p.ver /\ n < p.seq
      BY <2>2 DEF PurgedAbove
    <3>2. m < p.seq
      <4>. SUFFICES ASSUME p.seq <= m PROVE FALSE
        BY <1>1, <1>2
      <4>1. p \in rd.page
        BY <1>1, <1>2, <1>3, <3>1
      <4>2. AsSynced(p) \in G
        BY <4>1 DEF PulledOf, Of
      <4>3. ~(x.ver < AsSynced(p).ver)
        BY <1>4, <3>1, <4>2 DEF AppliedTo
      <4>. QED
        BY <1>4, <3>1, <4>3
    <3>. QED
      BY <3>1, <3>2 DEF PurgedAbove
  <2>. QED
    BY <2>1, <2>2
<1>. QED
  BY <1>5, <1>6, <1>7

LEMMA AppliedAgrees ==
  ASSUME NEW L, NEW S, NEW Q, NEW n, NEW rd, NEW r, AgreesOf(L, S, Q, n, rd, r),
         rd.at = "page", RowsOrdered(L), \A x \in L : x.rec = r,
         \A x \in S : x.ver \in Nat, NEW T, \A x \in T : x.ver \in Nat,
         NEW m, EndsAt(rd.page, n, m), NEW G, PulledOf(rd.page, r, G), AppliedTo(S, T, G),
         NEW P, \A f \in P : (\E e \in Q : e.id = f.id) \/ \A x \in L : x.id # f.id,
         NEW next, next.at \in {"idle", "ask", "repush"}
  PROVE  AgreesOf(L, T, P, m, next, r)
<1>1. HasAll(L, T, m)
  BY AppliedHasAll
<1>2. HasOnly(L, T, m)
  BY AppliedHasOnly
<1>3. PurgeAlone(T)
  <2>. SUFFICES ASSUME NEW p \in Pending(T), p.kind = "purged", NEW x \in Synced(T) PROVE FALSE
    BY DEF PurgeAlone
  <2>1. x \in Synced(S)
    BY DEF AppliedTo
  <2>2. \E q \in Pending(S) : q.kind = "purged"
    BY DEF AppliedTo
  <2>. QED
    BY <2>1, <2>2 DEF AgreesOf, PurgeAlone
<1>4. Unanswered(L, T, P, m, next)
  <2>1. \A x \in L, e \in Q : x.id # e.id
    BY DEF AgreesOf, Unanswered
  <2>2. \A x \in L, f \in P : x.id # f.id
    BY <2>1
  <2>. QED
    BY <2>2 DEF Unanswered
<1>5. SentAgrees(L, T, P, next, r) /\ AnswersAgree(L, T, P, m, next) /\ PageAgrees(L, m, next, r)
  BY DEF SentAgrees, AnswersAgree, PageAgrees
<1>. QED
  BY <1>1, <1>2, <1>3, <1>4, <1>5 DEF AgreesOf

(* The same of a record's rows among all.                                  *)
LEMMA AppliedOfRecord ==
  ASSUME NEW rows, NEW newRows, NEW pulled, Applied(rows, newRows, pulled), NEW r
  PROVE  AppliedTo(Of(rows, r), Of(newRows, r), Of(pulled, r))
<1> DEFINE S == Of(rows, r)
           T == Of(newRows, r)
           G == Of(pulled, r)
<1>1. /\ \A x : x \in S <=> x \in rows /\ x.rec = r
      /\ \A x : x \in T <=> x \in newRows /\ x.rec = r
      /\ \A x : x \in G <=> x \in pulled /\ x.rec = r
  BY DEF Of
<1>2. /\ \A x : x \in Synced(S) <=> x \in Synced(rows) /\ x.rec = r
      /\ \A x : x \in Synced(T) <=> x \in Synced(newRows) /\ x.rec = r
      /\ \A x : x \in Pending(S) <=> x \in Pending(rows) /\ x.rec = r
      /\ \A x : x \in Pending(T) <=> x \in Pending(newRows) /\ x.rec = r
  BY DEF Synced, Pending, Of
<1> HIDE DEF S, T, G
<1>3. /\ \A x \in Synced(T) : x \in G \/ x \in Synced(S)
      /\ \A x \in Synced(T), p \in G : p.kind = "purged" => ~(x.ver < p.ver)
      /\ \A x \in Synced(T), p \in Pending(T) : p.kind = "purged" => x \notin G
  BY <1>1, <1>2 DEF Applied
<1>4. \A x : x \in G \/ x \in Synced(S) =>
        \/ x \in T
        \/ x \notin G /\ \E y \in G : y.ver = x.ver
        \/ \E p : (p \in G \/ p \in Synced(S) \/ p \in Pending(T)) /\ p.kind = "purged" /\ x.ver < p.ver
  <2>. SUFFICES ASSUME NEW x, x \in G \/ x \in Synced(S)
                PROVE  \/ x \in T
                       \/ x \notin G /\ \E y \in G : y.ver = x.ver
                       \/ \E p : /\ p \in G \/ p \in Synced(S) \/ p \in Pending(T)
                                 /\ p.kind = "purged" /\ x.ver < p.ver
    OBVIOUS
  <2>1. x.rec = r /\ x \in pulled \cup Synced(rows)
    BY <1>1, <1>2
  <2>2. \/ x \in newRows
        \/ x \notin pulled /\ \E y \in pulled : y.rec = x.rec /\ y.ver = x.ver
        \/ \E p \in pulled \cup Synced(rows) \cup Pending(newRows) :
             p.rec = x.rec /\ p.kind = "purged" /\ x.ver < p.ver
    BY <2>1 DEF Applied
  <2>. QED
    BY <1>1, <1>2, <2>1, <2>2
<1>5. \A p \in Pending(T) : p.kind = "purged" => \E q \in Pending(S) : q.kind = "purged"
  BY <1>2 DEF Applied
<1>6. \A q \in Pending(S) : q.kind = "purged" =>
        \/ \E p \in Pending(T) : p.kind = "purged" /\ q.ver <= p.ver
        \/ \E y \in G : y.kind = "purged"
  BY <1>1, <1>2 DEF Applied
<1>. QED
  BY <1>3, <1>4, <1>5, <1>6 DEF AppliedTo, S, T, G

(* Where the cursor goes.                                                  *)
LEMMA NewestOfPage ==
  ASSUME NEW page, IsFiniteSet(page), \A x \in page : x.seq \in Nat, NEW n \in Nat,
         NEW m, m = Newest({n} \cup { x.seq : x \in page })
  PROVE  EndsAt(page, n, m)
<1> DEFINE f == [x \in page |-> x.seq]
           B == { f[x] : x \in page }
           C == {n}
           seqs == C \cup B
<1>1. m = Newest(seqs)
  <2>1. B = { x.seq : x \in page }
    OBVIOUS
  <2>. QED
    BY <2>1
<1>2. f = [x \in page |-> f[x]] /\ IsFiniteSet(C) /\ \A x \in page : f[x] = x.seq
  BY FS_Singleton
<1>3. n \in seqs /\ seqs \in SUBSET Nat
  OBVIOUS
<1>4. \A k \in seqs : k = n \/ \E z \in page : z.seq = k
  OBVIOUS
<1>5. \A z \in page : z.seq \in seqs
  OBVIOUS
<1> HIDE DEF f, C
<1>6. IsFiniteSet(B)
  BY <1>2, FiniteImage
<1>7. IsFiniteSet(seqs)
  BY <1>2, <1>6, FiniteUnion
<1> HIDE DEF seqs, B
<1>8. \E k \in seqs : \A j \in seqs : j <= k
  BY <1>3, <1>7, GreatestNumber
<1>9. m \in seqs /\ \A j \in seqs : j <= m
  BY <1>1, <1>8, Zenon DEF Newest
<1>. QED
  BY <1>3, <1>4, <1>5, <1>9 DEF EndsAt

LEMMA ApplyPageAgrees ==
  ASSUME SyncInv, AgreeInv, NEW d \in Device, ApplyPage(d)
  PROVE  AgreeInv'
<1> DEFINE rd == round[d]
           page == rd.page
           seqs == {cursor[d]} \cup { x.seq : x \in page }
           next == CASE rd.more -> [at |-> "ask", again |-> rd.again]
                     [] ~rd.more /\ rd.again -> [at |-> "repush"]
                     [] OTHER -> Idle
           merged == MergedBy(Device0(d), page)
           m == Newest(seqs)
           R == { row.rec : row \in page }
           pulled == PulledRows(page)
<1>1. /\ Go(d, next) /\ UNCHANGED serverVars /\ rd.at = "page"
      /\ cursor' = [cursor EXCEPT ![d] = m]
  BY DEF ApplyPage
<1>2. PICK ids \in Bijection(merged, nextId..(nextId + Cardinality(merged) - 1)) :
        Keep(d, ApplyRows(Device0(d), page, ids))
  BY DEF ApplyPage
<1>3. next.at \in {"idle", "ask", "repush"}
  BY DEF Idle
<1>4. /\ page \subseteq ServerRow /\ IsFiniteSet(page)
      /\ \A x, y \in page : x.rec = y.rec /\ x.ver = y.ver => x = y
  BY <1>1 DEF SyncInv, RoundFits, PageFits
<1>5. /\ DevFits(Device0(d)) /\ IsDev(Device0(d)) /\ Device0(d).id = nextId
      /\ Device0(d).rows = store[d] /\ Device0(d).queue = outbox[d] /\ nextId \in Nat
  BY DeviceFacts
<1> DEFINE new == ApplyRows(Device0(d), page, ids)
<1> HIDE DEF next, rd
<1>6. Keeps(Device0(d), new, R)
  BY <1>2, <1>4, <1>5, ApplyFits
<1>7. Applied(store[d], new.rows, pulled)
  <2>1. Applied(Device0(d).rows, new.rows, pulled)
    BY <1>2, <1>4, <1>5, AppliedRows
  <2> HIDE DEF new, pulled
  <2>. QED
    BY <1>5, <2>1
<1>8. EndsAt(page, cursor[d], m)
  <2>1. \A x \in page : x.seq \in Nat
    BY <1>4 DEF ServerRow
  <2>2. cursor[d] \in Nat
    BY RecordFacts
  <2> HIDE DEF page
  <2>. QED
    BY <1>4, <2>1, <2>2, NewestOfPage
<1>9. Keep(d, new)
  BY <1>2
<1>10. \A r : \A x \in Of(page, r) : AsSynced(x) \in Of(pulled, r) /\ x.ver \in Nat
  BY <1>4 DEF Of, PulledRows, AsSynced, LocalRow, ServerRow
<1>11. \A r : \A g \in Of(pulled, r) : \E x \in Of(page, r) : g = AsSynced(x)
  BY DEF Of, PulledRows, AsSynced, LocalRow
<1>12. \A x \in new.rows : (\E row \in page : row.rec = x.rec) \/ \E y \in store[d] : y.rec = x.rec
  BY <1>5, <1>6 DEF Keeps
<1>13. \A f \in new.queue : nextId <= f.id \/ \E e \in outbox[d] : e.id = f.id /\ e.rec = f.rec
  <2>1. \A f \in new.queue : f.id \in Nat
    BY <1>6 DEF Keeps, DevFits, QueueFits, Entry
  <2>2. \A f \in new.queue : f.id < nextId => \E e \in outbox[d] : e.id = f.id /\ e.rec = f.rec
    BY <1>5, <1>6 DEF Keeps, Follows
  <2>. QED
    BY <1>5, <2>1, <2>2
<1>14. \A x \in new.rows : x.ver \in Nat
  BY <1>6 DEF Keeps, DevFits, RowsFit, StoreRow
<1> HIDE DEF new, pulled, page, m, seqs
<1>15. ASSUME NEW r \in Record \ belated
       PROVE  /\ AgreesOf(Of(log, r), Of(new.rows, r), Of(new.queue, r), m, next, r)
              /\ Of(new.rows, r) # {} => Of(store[d], r) # {} \/ Of(log, r) # {}
  <2> DEFINE L == Of(log, r)
             S == Of(store[d], r)
             Q == Of(outbox[d], r)
             T == Of(new.rows, r)
             P == Of(new.queue, r)
             G == Of(pulled, r)
             n == cursor[d]
  <2>1. AgreesOf(L, S, Q, n, rd, r)
    BY DEF AgreeInv, Agrees, rd
  <2>2. /\ RowsOrdered(L) /\ (\A x \in L : x.rec = r /\ x.id \in Nat /\ x.id < nextId)
        /\ \A x \in S : x.ver \in Nat
    BY RecordFacts DEF RowsOrdered
  <2>3. \A x \in T : x.ver \in Nat
    BY <1>14 DEF Of
  <2>4. PulledOf(page, r, G) /\ AppliedTo(S, T, G)
    BY <1>7, <1>10, <1>11, AppliedOfRecord DEF PulledOf
  <2>5. \A f \in P : (\E e \in Q : e.id = f.id) \/ \A x \in L : x.id # f.id
    <3>1. \A f \in P : nextId <= f.id \/ \E e \in Q : e.id = f.id
      BY <1>13 DEF Of
    <3>2. \A f \in P : f.id \in Nat
      BY <1>6 DEF Of, Keeps, DevFits, QueueFits, Entry
    <3> HIDE DEF L, P, Q
    <3>3. \A f \in P, x \in L : nextId <= f.id => x.id # f.id
      BY <1>5, <2>2, <3>2
    <3>. QED
      BY <3>1, <3>3
  <2>6. T # {} => S # {} \/ L # {}
    <3>. SUFFICES ASSUME NEW x \in T PROVE S # {} \/ L # {}
      OBVIOUS
    <3>1. (\E w \in Of(page, r) : TRUE) \/ S # {}
      BY <1>12 DEF Of
    <3>2. ASSUME NEW w \in Of(page, r) PROVE L # {}
      BY <1>1, <2>1 DEF AgreesOf, PageAgrees, page
    <3>. QED
      BY <3>1, <3>2
  <2> HIDE DEF L, S, Q, T, P, G, n
  <2>7. EndsAt(rd.page, n, m) /\ PulledOf(rd.page, r, G)
    BY <1>8, <2>4 DEF page, n
  <2>8. AgreesOf(L, T, P, m, next, r)
    BY <1>1, <1>3, <2>1, <2>2, <2>3, <2>4, <2>5, <2>7, AppliedAgrees
  <2>. QED
    BY <2>6, <2>8 DEF L, S, T, P
<1>16. /\ store'[d] = new.rows /\ outbox'[d] = new.queue
       /\ \A g \in Device \ {d} : store'[g] = store[g] /\ outbox'[g] = outbox[g]
  <2>1. store = [g \in Device |-> store[g]] /\ outbox = [g \in Device |-> outbox[g]]
    BY DEF SyncInv, Shapes
  <2>2. store' = [store EXCEPT ![d] = new.rows] /\ outbox' = [outbox EXCEPT ![d] = new.queue]
    BY <1>9 DEF Keep
  <2>. QED
    BY <2>1, <2>2, Zenon
<1>17. round'[d] = next /\ \A g \in Device \ {d} : round'[g] = round[g]
  BY <1>1, GoFacts
<1>18. cursor'[d] = m /\ \A g \in Device \ {d} : cursor'[g] = cursor[g]
  BY <1>1 DEF SyncInv, Shapes
<1>19. log' = log /\ belated' = belated
  BY <1>1 DEF serverVars
<1>20. \A r \in Record \ belated : Agrees(d, r)'
  BY <1>15, <1>16, <1>17, <1>18, <1>19 DEF Agrees
<1>21. \A r \in Record \ belated :
         Of(store'[d], r) # {} => Of(store[d], r) # {} \/ r \notin created \/ Of(log, r) # {}
  BY <1>15, <1>16
<1>22. next.at # "sent"
  BY <1>3
<1>23. \A e \in outbox'[d] : nextId <= e.id \/ \E f \in outbox[d] : f.id = e.id
  BY <1>13, <1>16
<1>. QED
  BY <1>16, <1>17, <1>18, <1>19, <1>20, <1>21, <1>22, <1>23, StepAgrees
-------------------------------------------------------------------------------
(***************************************************************************)
(* The theorem.                                                            *)
(***************************************************************************)
LEMMA InitAgrees == Init => AgreeInv
<1>. SUFFICES ASSUME Init PROVE AgreeInv
  OBVIOUS
<1>1. /\ log = {} /\ \A d \in Device :
           store[d] = {} /\ outbox[d] = {} /\ cursor[d] = 0 /\ round[d] = Idle
  BY DEF Init
<1>2. \A r : Of(log, r) = {} /\ \A d \in Device : Of(store[d], r) = {} /\ Of(outbox[d], r) = {}
  BY <1>1 DEF Of
<1>3. Synced({}) = {} /\ Pending({}) = {}
  BY DEF Synced, Pending
<1>4. Idle.at = "idle"
  BY DEF Idle
<1>5. Own
  BY <1>1, <1>4 DEF Own
<1>6. ASSUME NEW r \in Record PROVE Alone(r) /\ \A d \in Device : Agrees(d, r)
  <2>1. Alone(r)
    BY <1>2 DEF Alone
  <2>2. AgreesOf({}, {}, {}, 0, Idle, r)
    BY <1>3, <1>4 DEF AgreesOf, HasAll, HasOnly, PurgeAlone, Unanswered, SentAgrees, AnswersAgree,
                      PageAgrees
  <2>3. \A d \in Device : Agrees(d, r)
    BY <1>1, <1>2, <2>2 DEF Agrees
  <2>. QED
    BY <2>1, <2>3
<1>. QED
  BY <1>5, <1>6 DEF AgreeInv

LEMMA NextAgrees ==
  ASSUME SyncInv, AgreeInv, [Next]_vars
  PROVE  AgreeInv'
<1>1. ASSUME NEW d \in Device, NEW r \in Record,
             Create(d, r) \/ Update(d, r) \/ Delete(d, r) \/ Purge(d, r)
      PROVE  AgreeInv'
  BY <1>1, CreateAgrees, UpdateAgrees, PurgeStepAgrees
<1>2. ASSUME NEW d \in Device, RetryParked(d) PROVE AgreeInv'
  BY <1>2, RetryAgrees
<1>3. ASSUME NEW d \in Device, RoundNext(d) PROVE AgreeInv'
  BY <1>3, SendAgrees, HandlePushAgrees, TakeResultAgrees, ReadPageAgrees, ApplyPageAgrees DEF RoundNext
<1>4. ASSUME NEW d \in Device, Break(d) \/ GiveUp(d) PROVE AgreeInv'
  BY <1>4, BreakAgrees
<1>5. ASSUME NEW b \in late, ArriveLate(b) PROVE AgreeInv'
  BY <1>5, ArriveLateAgrees
<1>6. ASSUME UNCHANGED vars PROVE AgreeInv'
  <2>1. /\ log' = log /\ store' = store /\ outbox' = outbox /\ cursor' = cursor
        /\ round' = round /\ belated' = belated
    BY <1>6 DEF vars, serverVars, deviceVars
  <2>. QED
    BY <2>1 DEF AgreeInv, Own, Alone, Agrees
<1>. QED
  BY <1>1, <1>2, <1>3, <1>4, <1>5, <1>6 DEF Next, UserNext

(* When nothing waits and every cursor is at the end, every device has the *)
(* server's versions and no others, whatever users wrote between the steps *)
(* of a round, however rounds broke off, and wherever a purge, a refusal   *)
(* or an answer taken late came in between (sync-manager.ts, vault.ts      *)
(* applySync, push.ts).  Set apart: records a push given up on was         *)
(* appended to after all.                                                  *)
THEOREM Convergence == Spec => []Converged
<1>1. Init => SyncInv /\ AgreeInv
  BY InitInv, InitAgrees
<1>2. SyncInv /\ AgreeInv /\ [Next]_vars => SyncInv' /\ AgreeInv'
  BY NextKeepsInv, NextAgrees
<1>3. SyncInv /\ AgreeInv => Converged
  BY AgreedIsConverged
<1>. QED
  BY <1>1, <1>2, <1>3, PTL DEF Spec
===============================================================================
