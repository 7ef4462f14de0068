--------------------------- MODULE VaultRekey_proofs ---------------------------
(***************************************************************************)
(* Proofs about VaultRekey, for any records, devices, members and events.  *)
(***************************************************************************)
EXTENDS VaultRekey, SequenceTheorems, WellFoundedInduction, TLAPS

(***************************************************************************)
(* Types.                                                                  *)
(***************************************************************************)
Keyed(key) == [edits : SUBSET Nat, deleted : BOOLEAN, saw : SUBSET Nat, key : 1..key]

CallType == {NoCall} \cup [at : {"sent", "refused", "rotated", "saved"}, key : Nat \ {0}]

Shapes ==
  /\ log \in [Record -> Seq(Keyed(vaultKey))]
  /\ vaultKey \in Nat \ {0} /\ needed \in BOOLEAN
  /\ wrap \in [User -> 1..vaultKey] /\ seal \in [User -> 0..vaultKey]
  /\ user \in [Device -> User]
  /\ synced \in [Device -> [Record -> Nat]] /\ stored \in [Device -> [Record -> Nat]]
  /\ pending \in [Device -> [Record -> Seq(Keyed(vaultKey))]]
  /\ listed \in [Device -> 1..vaultKey] /\ loaded \in [Device -> 1..vaultKey]
  /\ target \in [Device -> 0..(vaultKey + 1)]
  /\ round = [d \in Device |-> round[d]]
  /\ call \in [Device -> [Way -> CallType]]
  /\ written \in Nat

HistoryTyped ==
  /\ owing \in Device \cup {Nobody} /\ crossed \in BOOLEAN
  /\ unheard \subseteq Record /\ blind \subseteq Record /\ met \subseteq Record

(* A rotation asks for the next key, and then has it.                      *)
CallFits(d) ==
  \A w \in Way :
    /\ call[d][w].at = "sent" => call[d][w].key <= vaultKey + 1
    /\ call[d][w].at \in {"rotated", "saved"} => call[d][w].key <= vaultKey

Rewriting(d) ==
  /\ round[d] = [at |-> "rewrite", tasks |-> round[d].tasks, goal |-> round[d].goal, under |-> round[d].under,
                 todo |-> round[d].todo]
  /\ round[d].under \in 1..vaultKey /\ round[d].goal \in 1..round[d].under
  /\ round[d].todo \subseteq [rec : Record, ver : Nat, new : Keyed(vaultKey)]
  /\ \A x \in round[d].todo : ~x.new.deleted

(* From an answer to the next push nothing is stored that isn't            *)
(* acknowledged.                                                           *)
Clean == {"pull", "rows", "page", "again", "tasks", "rotating"}

RoundFits(d) ==
  /\ round[d].at \in {"idle", "list", "rewrite", "send", "answered"} \cup Clean
  /\ round[d].at = "rewrite" => Rewriting(d)
  /\ round[d].at \in {"rows", "page"} => round[d].key \in 1..vaultKey
  /\ round[d].at = "page" =>
       round[d].len \in [Record -> Nat] /\ \A r \in Record : round[d].len[r] <= Len(log[r])

(* What a device has of a record: versions of the server, then its own, of *)
(* which the server may have taken the first ones unnoticed.               *)
ChainFits(d, r) ==
  /\ synced[d][r] <= Len(log[r]) /\ stored[d][r] <= Len(pending[d][r])
  /\ stored[d][r] > 0 => synced[d][r] + stored[d][r] <= Len(log[r])
  /\ synced[d][r] = 0 /\ pending[d][r] # <<>> => ~pending[d][r][1].deleted
  /\ round[d].at \in Clean => stored[d][r] = 0

DeviceFits(d) == CallFits(d) /\ RoundFits(d) /\ \A r \in Record : ChainFits(d, r)

TypeInv == Shapes /\ HistoryTyped /\ \A d \in Device : DeviceFits(d)

(***************************************************************************)
(* Who still rewrites what is under an older key.                          *)
(***************************************************************************)
(* The device whose rotation it was has a marker, unless another rotation  *)
(* of its took it.                                                         *)
Marked == owing # Nobody => target[owing] # 0 \/ crossed

(* A change waits that the server doesn't have yet.                        *)
Unsent(r) == \E d \in Device : stored[d][r] < Len(pending[d][r])

Covered(r) == Unsent(r) \/ r \in unheard

Accounted == owing = Nobody => \A r \in Record : UnderOldKey(r) => Covered(r)

(* While it goes through its records, the others are on its list.          *)
OnTheList(d) ==
  round[d].at = "rewrite" /\ owing = d /\ round[d].under = vaultKey =>
    \A r \in Record : UnderOldKey(r) =>
      Covered(r) \/ \E x \in round[d].todo : x.rec = r /\ StillHead(d, x)

RekeyInv == Marked /\ Accounted /\ \A d \in Device : OnTheList(d)
-------------------------------------------------------------------------------
(***************************************************************************)
(* Sequences of versions.                                                  *)
(***************************************************************************)
LEMMA KeyedGrows ==
  ASSUME NEW k \in Nat, NEW n \in Nat, k <= n
  PROVE  Keyed(k) \subseteq Keyed(n) /\ Seq(Keyed(k)) \subseteq Seq(Keyed(n))
<1>1. Keyed(k) \subseteq Keyed(n)
  BY DEF Keyed
<1>2. Seq(Keyed(k)) \subseteq Seq(Keyed(n))
  BY <1>1, SeqMonotonic
<1> QED
  BY <1>1, <1>2

(* What a device has of a record, and its newest version.                  *)
LEMMA HeadTyped ==
  ASSUME TypeInv, NEW d \in Device, NEW r \in Record
  PROVE  /\ log[r] \in Seq(Keyed(vaultKey)) /\ pending[d][r] \in Seq(Keyed(vaultKey))
         /\ Len(log[r]) \in Nat /\ Len(pending[d][r]) \in Nat
         /\ synced[d][r] \in Nat /\ stored[d][r] \in Nat
         /\ HeadVersion(d, r) \in Nat
         /\ Has(d, r) => HeadOf(d, r) \in Keyed(vaultKey)
<1>1. log[r] \in Seq(Keyed(vaultKey)) /\ pending[d][r] \in Seq(Keyed(vaultKey))
      /\ synced[d][r] \in Nat /\ stored[d][r] \in Nat
  BY DEF TypeInv, Shapes
<1>2. Len(log[r]) \in Nat /\ Len(pending[d][r]) \in Nat
  BY <1>1, LenProperties
<1>3. HeadVersion(d, r) \in Nat
  BY <1>1, <1>2 DEF HeadVersion
<1>4. ASSUME Has(d, r) PROVE HeadOf(d, r) \in Keyed(vaultKey)
  <2>1. CASE pending[d][r] # <<>>
    <3>1. Len(pending[d][r]) \in 1..Len(pending[d][r])
      BY <1>1, <2>1, EmptySeq
    <3> QED
      BY <1>1, <2>1, <3>1, ElementOfSeq DEF HeadOf, Last
  <2>2. CASE pending[d][r] = <<>>
    <3>1. Len(pending[d][r]) = 0
      BY <2>2
    <3>2. synced[d][r] \in 1..Len(log[r])
      BY <1>1, <1>2, <1>4, <3>1 DEF Has, HeadVersion, TypeInv, DeviceFits, ChainFits
    <3> QED
      BY <1>1, <2>2, <3>2, ElementOfSeq DEF HeadOf
  <2> QED
    BY <2>1, <2>2
<1> QED
  BY <1>1, <1>2, <1>3, <1>4

(* Every set of natural numbers but the empty one has a least element.     *)
LEMMA LeastNumber ==
  ASSUME NEW T \in SUBSET Nat, T # {}
  PROVE  \E n \in T : \A m \in T : n <= m
<1> DEFINE R == OpToRel(<, Nat)
<1>1. IsWellFoundedOn(R, Nat)
  BY NatLessThanWellFounded
<1>2. \A m, n \in Nat : m < n => <<m, n>> \in R
  BY DEF OpToRel
<1> HIDE DEF R
<1>3. \E n \in T : \A m \in T : <<m, n>> \notin R
  BY <1>1, WFMin
<1>4. PICK n \in T : \A m \in T : <<m, n>> \notin R
  BY <1>3
<1>5. \A m \in T : n <= m
  <2> TAKE m \in T
  <2>1. m \in Nat /\ n \in Nat
    OBVIOUS
  <2>2. ~(m < n)
    BY <1>2, <1>4, <2>1, Zenon
  <2> QED
    BY <2>1, <2>2
<1> QED
  BY <1>5

(* And below a bound a greatest one.                                       *)
LEMMA GreatestNumber ==
  ASSUME NEW b \in Nat, NEW T, \A m \in T : m \in 0..b, T # {}
  PROVE  \E n \in T : \A m \in T : m <= n
<1> DEFINE S == { b - m : m \in T }
<1>1. S \in SUBSET Nat /\ S # {}
  <2>1. \A m \in T : b - m \in Nat
    OBVIOUS
  <2> QED
    BY <2>1
<1>2. PICK k \in S : \A m \in S : k <= m
  BY <1>1, LeastNumber
<1>3. PICK n \in T : k = b - n
  BY <1>2
<1>4. \A m \in T : m <= n
  <2> TAKE m \in T
  <2>1. b - m \in S /\ m \in 0..b /\ n \in 0..b
    OBVIOUS
  <2>2. b - n <= b - m
    BY <1>2, <1>3, <2>1
  <2> QED
    BY <2>1, <2>2
<1> QED
  BY <1>4

(* Appending a chain to a record's versions: the versions below stay, as   *)
(* many as the chain has come on top; none is under another key than the   *)
(* chain's or the head's, and the last is a tombstone or the chain's own.  *)
LEMMA AppendedIs ==
  ASSUME NEW k \in Nat, NEW below \in Seq(Keyed(k)), NEW chain \in Seq(Keyed(k)),
         below = <<>> /\ chain # <<>> => ~chain[1].deleted
  PROVE  /\ Appended(below, chain) \in Seq(Keyed(k))
         /\ Len(Appended(below, chain)) = Len(below) + Len(chain)
         /\ \A i \in 1..Len(below) : Appended(below, chain)[i] = below[i]
         /\ chain # <<>> =>
              LET top == Appended(below, chain)[Len(below) + Len(chain)]
              IN  top.deleted = Last(chain).deleted /\ (~top.deleted => top = Last(chain))
<1> DEFINE Puts(i) == { j \in 1..i : ~chain[j].deleted }
           Under(i) == IF Puts(i) = {} THEN Last(below)
                       ELSE chain[CHOOSE j \in Puts(i) : \A m \in Puts(i) : m <= j]
           New(i) == IF chain[i].deleted THEN Tombstone(Under(i), chain[i].saw) ELSE chain[i]
           top == [i \in DOMAIN chain |-> New(i)]
<1>1. Appended(below, chain) = below \o top
  BY DEF Appended
<1>2. DOMAIN chain = 1..Len(chain) /\ Len(chain) \in Nat /\ Len(below) \in Nat
      /\ \A i \in 1..Len(chain) : chain[i] \in Keyed(k)
  BY LenProperties, ElementOfSeq
<1>3. ASSUME NEW i \in 1..Len(chain) PROVE Under(i) \in Keyed(k)
  <2>1. CASE Puts(i) = {}
    <3>1. chain[1].deleted /\ chain # <<>>
      BY <1>2, <2>1
    <3>2. Len(below) \in 1..Len(below)
      BY <3>1, EmptySeq
    <3> QED
      BY <2>1, <3>2, ElementOfSeq DEF Last
  <2>2. CASE Puts(i) # {}
    <3> HIDE DEF Puts
    <3>1. i \in Nat /\ (\A m \in Puts(i) : m \in 0..i) /\ Puts(i) \subseteq 1..Len(chain)
      BY <1>2 DEF Puts
    <3>2. \E j \in Puts(i) : \A m \in Puts(i) : m <= j
      BY <2>2, <3>1, GreatestNumber
    <3>3. (CHOOSE j \in Puts(i) : \A m \in Puts(i) : m <= j) \in 1..Len(chain)
      BY <3>1, <3>2
    <3> QED
      BY <1>2, <2>2, <3>3
  <2> QED
    BY <2>1, <2>2
<1> HIDE DEF Under
<1>4. \A i \in 1..Len(chain) : New(i) \in Keyed(k)
  BY <1>2, <1>3 DEF Tombstone, Keyed
<1>5. top \in Seq(Keyed(k)) /\ Len(top) = Len(chain) /\ \A i \in 1..Len(chain) : top[i] = New(i)
  <2> HIDE DEF New
  <2> QED
    BY <1>2, <1>4
<1>6. \A i \in 1..Len(chain) : New(i).deleted = chain[i].deleted /\ (~chain[i].deleted => New(i) = chain[i])
  BY <1>2, <1>3 DEF Tombstone, Keyed
<1> HIDE DEF top, New
<1>7. /\ Appended(below, chain) \in Seq(Keyed(k))
      /\ Len(Appended(below, chain)) = Len(below) + Len(chain)
      /\ \A i \in 1..Len(below) + Len(chain) :
           Appended(below, chain)[i] = IF i <= Len(below) THEN below[i] ELSE top[i - Len(below)]
  <2>1. /\ below \o top \in Seq(Keyed(k))
        /\ Len(below \o top) = Len(below) + Len(top)
        /\ \A i \in 1..Len(below) + Len(top) :
             (below \o top)[i] = IF i <= Len(below) THEN below[i] ELSE top[i - Len(below)]
    BY <1>5, ConcatProperties
  <2> QED
    BY <1>1, <1>5, <2>1
<1>8. ASSUME chain # <<>>
      PROVE  LET new == Appended(below, chain)[Len(below) + Len(chain)]
             IN  new.deleted = Last(chain).deleted /\ (~new.deleted => new = Last(chain))
  <2>1. Len(chain) \in 1..Len(chain)
    BY <1>8, EmptySeq
  <2>2. Appended(below, chain)[Len(below) + Len(chain)] = New(Len(chain))
    BY <1>2, <1>5, <1>7, <2>1
  <2> QED
    BY <1>6, <2>1, <2>2 DEF Last
<1> QED
  BY <1>2, <1>7, <1>8
-------------------------------------------------------------------------------
(***************************************************************************)
(* Types.                                                                  *)
(***************************************************************************)
LEMMA InitTyped == Init => TypeInv
<1> SUFFICES ASSUME Init PROVE TypeInv
  OBVIOUS
<1>1. \A r \in Record : log[r] \in Seq(Keyed(1)) /\ Len(log[r]) \in Nat
  <2>1. Version({}, 1) \in Keyed(1)
    BY DEF Version, Keyed
  <2>2. \A r \in Record : log[r] \in {<<Version({}, 1)>>, <<>>}
    BY DEF Init
  <2>3. <<Version({}, 1)>> \in Seq(Keyed(1)) /\ <<>> \in Seq(Keyed(1))
    BY <2>1
  <2> QED
    BY <2>2, <2>3, LenProperties
<1>2. log \in [Record -> Seq(Keyed(vaultKey))]
  BY <1>1 DEF Init
<1>3. /\ pending \in [Device -> [Record -> Seq(Keyed(vaultKey))]]
      /\ \A d \in Device, r \in Record : pending[d][r] = <<>> /\ stored[d][r] = 0 /\ synced[d][r] = Len(log[r])
  <2>1. <<>> \in Seq(Keyed(vaultKey))
    OBVIOUS
  <2> QED
    BY <2>1 DEF Init
<1>4. Shapes
  BY <1>1, <1>2, <1>3 DEF Init, Shapes, CallType, Surjection
<1>5. HistoryTyped
  BY DEF Init, HistoryTyped
<1>6. \A d \in Device : DeviceFits(d)
  <2> TAKE d \in Device
  <2>1. CallFits(d) /\ RoundFits(d)
    BY DEF Init, CallFits, RoundFits, NoCall, Idle
  <2>2. \A r \in Record : ChainFits(d, r)
    BY <1>1, <1>3 DEF ChainFits
  <2> QED
    BY <2>1, <2>2 DEF DeviceFits
<1> QED
  BY <1>4, <1>5, <1>6 DEF TypeInv

(* What a step of a device leaves of another device.                       *)
Apart(e) ==
  /\ pending'[e] = pending[e] /\ synced'[e] = synced[e] /\ stored'[e] = stored[e]
  /\ round'[e] = round[e] /\ call'[e] = call[e] /\ target'[e] = target[e]

ServerGrows ==
  /\ vaultKey <= vaultKey' /\ vaultKey' \in Nat
  /\ \A r \in Record : Len(log[r]) <= Len(log'[r])

LEMMA ServerStays ==
  ASSUME TypeInv, UNCHANGED <<log, vaultKey>>
  PROVE  ServerGrows
BY LenProperties DEF TypeInv, Shapes, ServerGrows

(* A device's round and calls stay fit while it doesn't go on with them.   *)
LEMMA CallFitsOn ==
  ASSUME TypeInv, NEW d \in Device, CallFits(d), call'[d] = call[d], ServerGrows
  PROVE  CallFits(d)'
<1>1. \A w \in Way : call[d][w].at # "none" => call[d][w].key \in Nat
  BY DEF TypeInv, Shapes, CallType, NoCall
<1>2. vaultKey \in Nat /\ vaultKey' \in Nat /\ vaultKey <= vaultKey'
  BY DEF ServerGrows, TypeInv, Shapes
<1> QED
  BY <1>1, <1>2 DEF CallFits

LEMMA RoundFitsOn ==
  ASSUME TypeInv, NEW d \in Device, round'[d] = round[d], ServerGrows, Shapes'
  PROVE  RoundFits(d)'
<1>1. RoundFits(d) /\ vaultKey \in Nat
  BY DEF TypeInv, Shapes, DeviceFits
<1>2. Keyed(vaultKey) \subseteq Keyed(vaultKey')
  BY <1>1, KeyedGrows DEF ServerGrows
<1>3. Rewriting(d) => Rewriting(d)'
  BY <1>1, <1>2 DEF Rewriting, ServerGrows
<1>4. \A r \in Record : Len(log[r]) \in Nat /\ Len(log'[r]) \in Nat
  BY LenProperties DEF TypeInv, Shapes
<1> QED
  BY <1>1, <1>3, <1>4 DEF RoundFits, ServerGrows

LEMMA ChainFitsOn ==
  ASSUME TypeInv, Shapes', NEW d \in Device, NEW r \in Record, ServerGrows,
         pending'[d][r] = pending[d][r], synced'[d][r] = synced[d][r], stored'[d][r] = stored[d][r],
         round'[d].at \in Clean => round[d].at \in Clean
  PROVE  ChainFits(d, r)'
<1>1. ChainFits(d, r) /\ synced[d][r] \in Nat /\ stored[d][r] \in Nat /\ Len(log[r]) \in Nat /\ Len(log'[r]) \in Nat
  BY LenProperties DEF TypeInv, DeviceFits, Shapes
<1>2. Len(log[r]) <= Len(log'[r])
  BY DEF ServerGrows
<1>3. synced[d][r] + stored[d][r] \in Nat
  BY <1>1
<1> QED
  BY <1>1, <1>2, <1>3 DEF ChainFits

LEMMA ApartFits ==
  ASSUME TypeInv, Shapes', ServerGrows, NEW e \in Device, Apart(e)
  PROVE  DeviceFits(e)'
<1>1. CallFits(e)'
  BY CallFitsOn DEF TypeInv, DeviceFits, Apart
<1>2. RoundFits(e)'
  BY RoundFitsOn DEF Apart
<1>3. \A r \in Record : ChainFits(e, r)'
  BY ChainFitsOn DEF Apart
<1> QED
  BY <1>1, <1>2, <1>3 DEF DeviceFits

(* What each kind of step must show of its device.                         *)
StepFits(d) ==
  Shapes' /\ HistoryTyped' /\ ServerGrows /\ DeviceFits(d)' /\ \A e \in Device \ {d} : Apart(e)

LEMMA TypedOn ==
  ASSUME TypeInv, NEW d \in Device, StepFits(d)
  PROVE  TypeInv'
BY ApartFits DEF TypeInv, StepFits
-------------------------------------------------------------------------------
(* The user writes.                                                        *)
WriteStep(d) == \E r \in Record : Create(d, r) \/ Update(d, r) \/ Delete(d, r)

LEMMA WriteIs ==
  ASSUME TypeInv, NEW d \in Device, WriteStep(d)
  PROVE  \E r \in Record, v \in Keyed(vaultKey) :
           UserWrites(d, r, v) /\ (HeadVersion(d, r) = 0 => ~v.deleted)
<1> PICK r \in Record : Create(d, r) \/ Update(d, r) \/ Delete(d, r)
  BY DEF WriteStep
<1>1. written + 1 \in Nat /\ loaded[d] \in 1..vaultKey /\ HeadVersion(d, r) \in Nat
  BY HeadTyped DEF TypeInv, Shapes
<1>2. CASE Create(d, r)
  <2>1. Version({written + 1}, loaded[d]) \in Keyed(vaultKey) /\ ~Version({written + 1}, loaded[d]).deleted
    BY <1>1 DEF Version, Keyed
  <2> QED
    BY <1>2, <2>1 DEF Create
<1>3. CASE Update(d, r)
  <2>1. HeadOf(d, r) \in Keyed(vaultKey)
    BY <1>3, HeadTyped DEF Update
  <2>2. Version(HeadOf(d, r).edits \cup {written + 1}, loaded[d]) \in Keyed(vaultKey)
        /\ ~Version(HeadOf(d, r).edits \cup {written + 1}, loaded[d]).deleted
    BY <1>1, <2>1 DEF Version, Keyed
  <2> QED
    BY <1>3, <2>2 DEF Update
<1>4. CASE Delete(d, r)
  <2>1. HeadOf(d, r) \in Keyed(vaultKey) /\ HeadVersion(d, r) # 0
    BY <1>1, <1>4, HeadTyped DEF Delete, Live, Has
  <2>2. Tombstone(HeadOf(d, r), HeadOf(d, r).edits) \in Keyed(vaultKey)
    BY <2>1 DEF Tombstone, Keyed
  <2> QED
    BY <1>4, <2>1, <2>2 DEF Delete
<1> QED
  BY <1>2, <1>3, <1>4

LEMMA AppendIs ==
  ASSUME TypeInv, NEW d \in Device, NEW r \in Record, NEW v \in Keyed(vaultKey), AppendPending(d, r, v)
  PROVE  /\ pending' \in [Device -> [Record -> Seq(Keyed(vaultKey))]]
         /\ pending'[d][r] = Append(pending[d][r], v) /\ Len(pending'[d][r]) = Len(pending[d][r]) + 1
         /\ pending'[d][r][1] = IF pending[d][r] = <<>> THEN v ELSE pending[d][r][1]
         /\ \A q \in Record \ {r} : pending'[d][q] = pending[d][q]
         /\ \A e \in Device \ {d} : pending'[e] = pending[e]
<1>1. pending \in [Device -> [Record -> Seq(Keyed(vaultKey))]] /\ pending[d][r] \in Seq(Keyed(vaultKey))
  BY DEF TypeInv, Shapes
<1>2. /\ Append(pending[d][r], v) \in Seq(Keyed(vaultKey))
      /\ Len(Append(pending[d][r], v)) = Len(pending[d][r]) + 1
      /\ \A i \in 1..Len(pending[d][r]) : Append(pending[d][r], v)[i] = pending[d][r][i]
      /\ Append(pending[d][r], v)[Len(pending[d][r]) + 1] = v
  BY <1>1, AppendProperties
<1>3. pending'[d][r] = Append(pending[d][r], v) /\ \A q \in Record \ {r} : pending'[d][q] = pending[d][q]
  BY <1>1 DEF AppendPending
<1>4. \A e \in Device \ {d} : pending'[e] = pending[e]
  BY <1>1 DEF AppendPending
<1>5. pending' \in [Device -> [Record -> Seq(Keyed(vaultKey))]]
  BY <1>1, <1>2 DEF AppendPending
<1>6. Append(pending[d][r], v)[1] = IF pending[d][r] = <<>> THEN v ELSE pending[d][r][1]
  <2>1. CASE pending[d][r] = <<>>
    BY <1>2, <2>1
  <2>2. CASE pending[d][r] # <<>>
    BY <1>1, <1>2, <2>2, EmptySeq
  <2> QED
    BY <2>1, <2>2
<1> QED
  BY <1>2, <1>3, <1>4, <1>5, <1>6

LEMMA WriteStepFits ==
  ASSUME TypeInv, NEW d \in Device, WriteStep(d)
  PROVE  StepFits(d)
<1>1. PICK r \in Record, v \in Keyed(vaultKey) : UserWrites(d, r, v) /\ (HeadVersion(d, r) = 0 => ~v.deleted)
  BY WriteIs
<1>2. /\ pending' \in [Device -> [Record -> Seq(Keyed(vaultKey))]]
      /\ Len(pending'[d][r]) = Len(pending[d][r]) + 1
      /\ pending'[d][r][1] = IF pending[d][r] = <<>> THEN v ELSE pending[d][r][1]
      /\ \A q \in Record \ {r} : pending'[d][q] = pending[d][q]
      /\ \A e \in Device \ {d} : pending'[e] = pending[e]
  BY <1>1, AppendIs DEF UserWrites
<1>3. UNCHANGED <<serverVars, user, synced, stored, keyVars, round, call, historyVars>> /\ written' = written + 1
  BY <1>1 DEF UserWrites
<1>4. Shapes' /\ HistoryTyped' /\ ServerGrows
  <2>1. Shapes'
    <3>1. vaultKey' = vaultKey /\ log' = log
      BY <1>3 DEF serverVars
    <3>2. written' \in Nat
      BY <1>3 DEF TypeInv, Shapes
    <3> QED
      BY <1>2, <1>3, <3>1, <3>2 DEF TypeInv, Shapes, serverVars, keyVars
  <2>2. HistoryTyped' /\ ServerGrows
    BY <1>3, ServerStays DEF TypeInv, HistoryTyped, serverVars, historyVars
  <2> QED
    BY <2>1, <2>2
<1>5. ChainFits(d, r)'
  <2>1. ChainFits(d, r) /\ Len(pending[d][r]) \in Nat /\ synced[d][r] \in Nat /\ stored[d][r] \in Nat
    BY HeadTyped DEF TypeInv, DeviceFits
  <2>2. pending[d][r] = <<>> /\ synced[d][r] = 0 => ~v.deleted
    BY <1>1 DEF HeadVersion
  <2> QED
    BY <1>2, <1>3, <2>1, <2>2 DEF ChainFits, serverVars
<1>6. \A q \in Record : ChainFits(d, q)'
  BY <1>2, <1>3, <1>4, <1>5, ChainFitsOn
<1>7. CallFits(d)' /\ RoundFits(d)'
  BY <1>3, <1>4, CallFitsOn, RoundFitsOn DEF TypeInv, DeviceFits
<1> QED
  BY <1>2, <1>3, <1>4, <1>6, <1>7 DEF StepFits, DeviceFits, Apart, keyVars
-------------------------------------------------------------------------------
(* The device's unsent versions, rewritten or with more on top.            *)
Longer(d, r) ==
  /\ Len(pending[d][r]) <= Len(pending'[d][r])
  /\ pending[d][r] # <<>> => pending'[d][r][1].deleted = pending[d][r][1].deleted
  /\ pending[d][r] = <<>> /\ pending'[d][r] # <<>> => ~pending'[d][r][1].deleted

LEMMA LongerFits ==
  ASSUME TypeInv, Shapes', NEW d \in Device, NEW r \in Record, ServerGrows, Longer(d, r),
         synced'[d][r] = synced[d][r], stored'[d][r] = stored[d][r],
         round'[d].at \in Clean => round[d].at \in Clean
  PROVE  ChainFits(d, r)'
<1>1. ChainFits(d, r) /\ synced[d][r] \in Nat /\ stored[d][r] \in Nat /\ Len(log[r]) \in Nat /\ Len(log'[r]) \in Nat
      /\ Len(pending[d][r]) \in Nat /\ Len(pending'[d][r]) \in Nat
  BY LenProperties DEF TypeInv, DeviceFits, Shapes
<1>2. Len(log[r]) <= Len(log'[r]) /\ Len(pending[d][r]) <= Len(pending'[d][r])
  BY DEF ServerGrows, Longer
<1>3. synced[d][r] <= Len(log[r]) /\ stored[d][r] <= Len(pending[d][r])
      /\ (stored[d][r] > 0 => synced[d][r] + stored[d][r] <= Len(log[r]))
  BY <1>1 DEF ChainFits
<1>4. synced'[d][r] <= Len(log'[r]) /\ stored'[d][r] <= Len(pending'[d][r])
  BY <1>1, <1>2, <1>3
<1>5. stored'[d][r] > 0 => synced'[d][r] + stored'[d][r] <= Len(log'[r])
  <2> SUFFICES ASSUME stored[d][r] > 0 PROVE synced[d][r] + stored[d][r] <= Len(log'[r])
    OBVIOUS
  <2>1. synced[d][r] + stored[d][r] <= Len(log[r])
    BY <1>3
  <2> QED
    BY <1>1, <1>2, <2>1
<1>6. synced'[d][r] = 0 /\ pending'[d][r] # <<>> => ~pending'[d][r][1].deleted
  BY <1>1, Zenon DEF ChainFits, Longer
<1>7. round'[d].at \in Clean => stored'[d][r] = 0
  BY <1>1 DEF ChainFits
<1> QED
  BY <1>4, <1>5, <1>6, <1>7 DEF ChainFits

LEMMA PendingIs ==
  ASSUME TypeInv, NEW d \in Device, NEW f \in [Record -> Seq(Keyed(vaultKey))], pending' = [pending EXCEPT ![d] = f]
  PROVE  /\ pending' \in [Device -> [Record -> Seq(Keyed(vaultKey))]]
         /\ pending'[d] = f /\ \A e \in Device \ {d} : pending'[e] = pending[e]
BY DEF TypeInv, Shapes

LEMMA ReencryptTyped ==
  ASSUME TypeInv, NEW d \in Device, NEW v \in Keyed(vaultKey)
  PROVE  Reencrypt(d, v) \in Keyed(vaultKey) /\ Reencrypt(d, v).deleted = v.deleted
BY DEF Reencrypt, Keyed, TypeInv, Shapes

LEMMA ReencryptIs ==
  ASSUME TypeInv, NEW d \in Device
  PROVE  /\ ReencryptPending(d) \in [Record -> Seq(Keyed(vaultKey))]
         /\ \A r \in Record :
              /\ Len(ReencryptPending(d)[r]) = Len(pending[d][r])
              /\ pending[d][r] # <<>> => ReencryptPending(d)[r][1].deleted = pending[d][r][1].deleted
<1> DEFINE new(r, i) == IF ~pending[d][r][i].deleted /\ pending[d][r][i].key < listed[d]
                        THEN Reencrypt(d, pending[d][r][i]) ELSE pending[d][r][i]
<1>1. ASSUME NEW r \in Record
      PROVE  /\ [i \in DOMAIN pending[d][r] |-> new(r, i)] \in Seq(Keyed(vaultKey))
             /\ Len([i \in DOMAIN pending[d][r] |-> new(r, i)]) = Len(pending[d][r])
             /\ pending[d][r] # <<>> =>
                  [i \in DOMAIN pending[d][r] |-> new(r, i)][1].deleted = pending[d][r][1].deleted
  <2>1. pending[d][r] \in Seq(Keyed(vaultKey))
    BY HeadTyped
  <2>2. DOMAIN pending[d][r] = 1..Len(pending[d][r]) /\ Len(pending[d][r]) \in Nat
        /\ \A i \in 1..Len(pending[d][r]) : pending[d][r][i] \in Keyed(vaultKey)
    BY <2>1, LenProperties, ElementOfSeq
  <2>3. \A i \in 1..Len(pending[d][r]) :
          new(r, i) \in Keyed(vaultKey) /\ new(r, i).deleted = pending[d][r][i].deleted
    BY <2>2, ReencryptTyped
  <2>4. pending[d][r] # <<>> => 1 \in 1..Len(pending[d][r])
    BY <2>1, EmptySeq
  <2> HIDE DEF new
  <2> QED
    BY <2>2, <2>3, <2>4
<1>2. ReencryptPending(d) = [r \in Record |-> [i \in DOMAIN pending[d][r] |-> new(r, i)]]
  BY DEF ReencryptPending
<1> HIDE DEF new
<1> QED
  BY <1>1, <1>2

LEMMA PrepareFits ==
  ASSUME TypeInv, NEW d \in Device, Prepare(d)
  PROVE  StepFits(d)
<1>1. UNCHANGED <<serverVars, user, synced, stored, keyVars, call, written, spent, historyVars>>
  BY DEF Prepare
<1>2. round' = [e \in Device |-> round'[e]] /\ round'[d].at \in {"send", "list"}
      /\ \A e \in Device \ {d} : round'[e] = round[e]
  BY DEF Prepare, TypeInv, Shapes
<1>3. /\ pending' \in [Device -> [Record -> Seq(Keyed(vaultKey))]]
      /\ \A r \in Record : Longer(d, r)
      /\ \A e \in Device \ {d} : pending'[e] = pending[e]
  <2>1. CASE pending' = pending
    <3>1. \A r \in Record : Longer(d, r)
      BY <2>1, HeadTyped DEF Longer
    <3> QED
      BY <2>1, <3>1 DEF TypeInv, Shapes
  <2>2. CASE pending' = [pending EXCEPT ![d] = ReencryptPending(d)]
    <3>1. /\ pending' \in [Device -> [Record -> Seq(Keyed(vaultKey))]]
          /\ pending'[d] = ReencryptPending(d) /\ \A e \in Device \ {d} : pending'[e] = pending[e]
      BY <2>2, ReencryptIs, PendingIs
    <3>2. \A r \in Record : Longer(d, r)
      <4> TAKE r \in Record
      <4>1. Len(pending'[d][r]) = Len(pending[d][r]) /\ Len(pending[d][r]) \in Nat
            /\ pending'[d][r] \in Seq(Keyed(vaultKey))
            /\ (pending[d][r] # <<>> => pending'[d][r][1].deleted = pending[d][r][1].deleted)
        BY <3>1, ReencryptIs, HeadTyped
      <4>2. pending[d][r] = <<>> => pending'[d][r] = <<>>
        BY <4>1, EmptySeq
      <4> QED
        BY <4>1, <4>2 DEF Longer
    <3> QED
      BY <3>1, <3>2
  <2> QED
    BY <2>1, <2>2 DEF Prepare
<1>4. Shapes' /\ HistoryTyped' /\ ServerGrows
  <2>1. vaultKey' = vaultKey /\ log' = log
    BY <1>1 DEF serverVars
  <2>2. Shapes'
    BY <1>1, <1>2, <1>3, <2>1 DEF TypeInv, Shapes, serverVars, keyVars
  <2> QED
    BY <1>1, <2>1, <2>2, ServerStays DEF TypeInv, HistoryTyped, historyVars
<1>5. \A r \in Record : ChainFits(d, r)'
  BY <1>1, <1>2, <1>3, <1>4, LongerFits DEF Clean
<1>6. CallFits(d)' /\ RoundFits(d)'
  BY <1>1, <1>2, <1>4, CallFitsOn DEF TypeInv, DeviceFits, RoundFits
<1> QED
  BY <1>1, <1>2, <1>3, <1>4, <1>5, <1>6 DEF StepFits, DeviceFits, Apart, keyVars

(* A step that leaves the records as they are: only the round, the calls   *)
(* and the keys move.                                                      *)
LEMMA RecordsStay ==
  ASSUME TypeInv, Shapes', HistoryTyped', ServerGrows, NEW d \in Device, UNCHANGED <<pending, synced, stored>>,
         \A e \in Device \ {d} : round'[e] = round[e] /\ call'[e] = call[e] /\ target'[e] = target[e],
         round'[d].at \in Clean => round[d].at \in Clean, CallFits(d)', RoundFits(d)'
  PROVE  StepFits(d)
<1>1. \A r \in Record : ChainFits(d, r)'
  BY ChainFitsOn
<1> QED
  BY <1>1 DEF StepFits, DeviceFits, Apart

LEMMA ListStaleFits ==
  ASSUME TypeInv, NEW d \in Device, ListStale(d)
  PROVE  StepFits(d)
<1>1. UNCHANGED <<serverVars, user, storeVars, keyVars, call, written, spent, owing, crossed, blind, met>>
  BY DEF ListStale
<1>2. round' = [e \in Device |-> round'[e]] /\ round'[d].at \in {"send", "rewrite"}
      /\ \A e \in Device \ {d} : round'[e] = round[e]
  BY DEF ListStale, TypeInv, Shapes
<1>3. unheard' \subseteq Record
  BY DEF ListStale, Unheard, TypeInv, HistoryTyped
<1>4. Shapes' /\ HistoryTyped' /\ ServerGrows
  BY <1>1, <1>2, <1>3, ServerStays DEF TypeInv, Shapes, HistoryTyped, serverVars, storeVars, keyVars
<1>5. round'[d].at = "rewrite" => Rewriting(d)'
  <2> SUFFICES ASSUME MayRewrite(d) PROVE Rewriting(d)'
    BY DEF ListStale, TypeInv, Shapes
  <2>1. round'[d] = [at |-> "rewrite", tasks |-> round[d].tasks, goal |-> target[d], under |-> listed[d],
                    todo |-> Stale(d)]
    BY DEF ListStale, TypeInv, Shapes
  <2>2. listed[d] \in 1..vaultKey /\ target[d] \in 1..listed[d]
    BY DEF MayRewrite, TypeInv, Shapes
  <2>3. \A x \in Stale(d) : x \in [rec : Record, ver : Nat, new : Keyed(vaultKey)] /\ ~x.new.deleted
    <3> SUFFICES ASSUME NEW r \in Record, Live(d, r)
                 PROVE  /\ HeadVersion(d, r) \in Nat
                        /\ Reencrypt(d, HeadOf(d, r)) \in Keyed(vaultKey) /\ ~Reencrypt(d, HeadOf(d, r)).deleted
      BY DEF Stale
    <3> QED
      BY HeadTyped, ReencryptTyped DEF Live
  <2>4. vaultKey' = vaultKey
    BY <1>1 DEF serverVars
  <2> QED
    BY <2>1, <2>2, <2>3, <2>4 DEF Rewriting
<1>6. CallFits(d)' /\ RoundFits(d)'
  BY <1>1, <1>2, <1>4, <1>5, CallFitsOn DEF TypeInv, DeviceFits, RoundFits
<1> QED
  BY <1>1, <1>2, <1>4, <1>6, RecordsStay DEF Clean, storeVars, keyVars

LEMMA ClearTargetFits ==
  ASSUME TypeInv, NEW d \in Device, ClearTarget(d)
  PROVE  StepFits(d)
<1>1. UNCHANGED <<serverVars, user, storeVars, listed, loaded, call, written, spent, unheard, blind, met>>
  BY DEF ClearTarget
<1>2. round' = [e \in Device |-> round'[e]] /\ round'[d].at = "send"
      /\ \A e \in Device \ {d} : round'[e] = round[e] /\ target'[e] = target[e]
  BY DEF ClearTarget, TypeInv, Shapes
<1>3. target' \in [Device -> 0..(vaultKey + 1)]
  BY DEF ClearTarget, Cleared, TypeInv, Shapes
<1>4. owing' \in Device \cup {Nobody} /\ crossed' \in BOOLEAN
  BY DEF ClearTarget, TypeInv, HistoryTyped
<1>5. Shapes' /\ HistoryTyped' /\ ServerGrows
  BY <1>1, <1>2, <1>3, <1>4, ServerStays DEF TypeInv, Shapes, HistoryTyped, serverVars, storeVars
<1>6. CallFits(d)' /\ RoundFits(d)'
  BY <1>1, <1>2, <1>5, CallFitsOn DEF TypeInv, DeviceFits, RoundFits
<1> QED
  BY <1>1, <1>2, <1>5, <1>6, RecordsStay DEF Clean, storeVars
(* Versions that go on top of the device's own.                            *)
LEMMA OnTopIs ==
  ASSUME TypeInv, NEW d \in Device, NEW top \in [Record -> Seq(Keyed(vaultKey))],
         \A r \in Record : top[r] # <<>> => ~top[r][1].deleted,
         pending' = [pending EXCEPT ![d] = [r \in Record |-> pending[d][r] \o top[r]]]
  PROVE  /\ pending' \in [Device -> [Record -> Seq(Keyed(vaultKey))]]
         /\ \A e \in Device \ {d} : pending'[e] = pending[e]
         /\ \A r \in Record :
              /\ pending'[d][r] = pending[d][r] \o top[r]
              /\ Len(pending'[d][r]) = Len(pending[d][r]) + Len(top[r])
              /\ Longer(d, r)
<1> DEFINE f == [r \in Record |-> pending[d][r] \o top[r]]
<1>1. ASSUME NEW r \in Record
      PROVE  /\ pending[d][r] \o top[r] \in Seq(Keyed(vaultKey))
             /\ Len(pending[d][r] \o top[r]) = Len(pending[d][r]) + Len(top[r])
             /\ Len(pending[d][r]) \in Nat /\ Len(top[r]) \in Nat
             /\ \A i \in 1..Len(pending[d][r]) + Len(top[r]) :
                  (pending[d][r] \o top[r])[i] =
                    IF i <= Len(pending[d][r]) THEN pending[d][r][i] ELSE top[r][i - Len(pending[d][r])]
  <2>1. pending[d][r] \in Seq(Keyed(vaultKey)) /\ top[r] \in Seq(Keyed(vaultKey))
    BY HeadTyped
  <2> QED
    BY <2>1, ConcatProperties, LenProperties
<1>2. f \in [Record -> Seq(Keyed(vaultKey))]
  BY <1>1
<1>3. /\ pending' \in [Device -> [Record -> Seq(Keyed(vaultKey))]]
      /\ pending'[d] = f /\ \A e \in Device \ {d} : pending'[e] = pending[e]
  <2> HIDE DEF f
  <2>1. pending' = [pending EXCEPT ![d] = f]
    BY DEF f
  <2> QED
    BY <1>2, <2>1, PendingIs
<1>4. ASSUME NEW r \in Record
      PROVE  /\ pending'[d][r] = pending[d][r] \o top[r]
             /\ Len(pending'[d][r]) = Len(pending[d][r]) + Len(top[r])
             /\ Longer(d, r)
  <2>1. pending'[d][r] = pending[d][r] \o top[r]
    BY <1>3
  <2>2. pending[d][r] \in Seq(Keyed(vaultKey)) /\ top[r] \in Seq(Keyed(vaultKey))
    BY HeadTyped
  <2>3. CASE pending[d][r] # <<>>
    <3>1. Len(pending[d][r]) >= 1
      BY <1>1, <2>2, <2>3, EmptySeq
    <3>2. (pending[d][r] \o top[r])[1] = pending[d][r][1]
      <4>1. 1 \in 1..Len(pending[d][r]) + Len(top[r]) /\ 1 <= Len(pending[d][r])
        BY <1>1, <3>1
      <4> QED
        BY <1>1, <4>1
    <3>3. pending'[d][r][1] = pending[d][r][1]
      BY <2>1, <3>2
    <3>4. Len(pending[d][r]) <= Len(pending'[d][r])
      BY <1>1, <2>1
    <3> QED
      BY <1>1, <2>1, <2>3, <3>3, <3>4 DEF Longer
  <2>4. CASE pending[d][r] = <<>>
    <3>1. Len(pending[d][r]) = 0
      BY <2>4
    <3>2. pending'[d][r] # <<>> => top[r] # <<>> /\ pending'[d][r][1] = top[r][1]
      <4> SUFFICES ASSUME pending'[d][r] # <<>> PROVE top[r] # <<>> /\ pending'[d][r][1] = top[r][1]
        OBVIOUS
      <4>1. Len(pending'[d][r]) \in Nat \ {0}
        BY <1>1, <2>1, EmptySeq
      <4>2. Len(top[r]) # 0 /\ 1 \in 1..Len(top[r])
        BY <1>1, <2>1, <3>1, <4>1
      <4>3. top[r] # <<>>
        BY <2>2, <4>2, EmptySeq
      <4> QED
        BY <1>1, <2>1, <3>1, <4>2, <4>3
    <3> QED
      BY <1>1, <2>1, <2>4, <3>1, <3>2 DEF Longer
  <2> QED
    BY <1>1, <2>1, <2>3, <2>4
<1> QED
  BY <1>3, <1>4

(* What a batch puts on top of each record's chain.                        *)
BatchTop(d, batch) ==
  [r \in Record |-> IF \E x \in batch : x.rec = r /\ StillHead(d, x)
                    THEN <<(CHOOSE x \in batch : x.rec = r).new>> ELSE <<>>]

LEMMA BatchIs ==
  ASSUME TypeInv, NEW d \in Device, WriteBatch(d)
  PROVE  \E batch \in SUBSET round[d].todo :
           /\ BatchTop(d, batch) \in [Record -> Seq(Keyed(vaultKey))]
           /\ \A r \in Record : BatchTop(d, batch)[r] # <<>> => ~BatchTop(d, batch)[r][1].deleted
           /\ pending' = [pending EXCEPT ![d] = [r \in Record |-> pending[d][r] \o BatchTop(d, batch)[r]]]
           /\ round' = [round EXCEPT ![d].todo = @ \ batch]
<1>1. PICK batch \in (SUBSET round[d].todo) \ {{}} :
        /\ pending' = [pending EXCEPT ![d] = [r \in Record |->
             @[r] \o IF \E x \in batch : x.rec = r /\ StillHead(d, x)
                     THEN <<(CHOOSE x \in batch : x.rec = r).new>> ELSE <<>>]]
        /\ round' = [round EXCEPT ![d].todo = @ \ batch]
  BY DEF WriteBatch
<1>2. Rewriting(d) /\ pending \in [Device -> [Record -> Seq(Keyed(vaultKey))]]
  BY DEF WriteBatch, TypeInv, Shapes, DeviceFits, RoundFits
<1>3. ASSUME NEW r \in Record
      PROVE  /\ BatchTop(d, batch)[r] \in Seq(Keyed(vaultKey))
             /\ BatchTop(d, batch)[r] # <<>> => ~BatchTop(d, batch)[r][1].deleted
  <2>1. CASE \E x \in batch : x.rec = r /\ StillHead(d, x)
    <3>1. (CHOOSE x \in batch : x.rec = r) \in batch
      BY <2>1
    <3>2. (CHOOSE x \in batch : x.rec = r).new \in Keyed(vaultKey) /\ ~(CHOOSE x \in batch : x.rec = r).new.deleted
      BY <1>2, <3>1 DEF Rewriting
    <3> DEFINE new == (CHOOSE x \in batch : x.rec = r).new
    <3>3. BatchTop(d, batch)[r] = <<new>>
      BY <2>1 DEF BatchTop
    <3> HIDE DEF new
    <3>4. new \in Keyed(vaultKey) /\ ~new.deleted
      BY <3>2 DEF new
    <3> QED
      BY <3>3, <3>4
  <2>2. CASE ~\E x \in batch : x.rec = r /\ StillHead(d, x)
    <3>1. BatchTop(d, batch)[r] = <<>>
      BY <2>2 DEF BatchTop
    <3> QED
      BY <3>1
  <2> QED
    BY <2>1, <2>2
<1>4. BatchTop(d, batch) \in [Record -> Seq(Keyed(vaultKey))]
  BY <1>3 DEF BatchTop
<1>5. pending' = [pending EXCEPT ![d] = [r \in Record |-> pending[d][r] \o BatchTop(d, batch)[r]]]
  <2> DEFINE added(r) == IF \E x \in batch : x.rec = r /\ StillHead(d, x)
                         THEN <<(CHOOSE x \in batch : x.rec = r).new>> ELSE <<>>
  <2>1. \A r \in Record : BatchTop(d, batch)[r] = added(r)
    BY DEF BatchTop
  <2>2. pending' = [pending EXCEPT ![d] = [r \in Record |-> @[r] \o added(r)]]
    BY <1>1
  <2> HIDE DEF added
  <2>3. [r \in Record |-> pending[d][r] \o added(r)] = [r \in Record |-> pending[d][r] \o BatchTop(d, batch)[r]]
    BY <2>1
  <2>4. pending' = [pending EXCEPT ![d] = [r \in Record |-> pending[d][r] \o added(r)]]
    BY <2>2
  <2> QED
    BY <2>3, <2>4, Zenon
<1> QED
  BY <1>1, <1>3, <1>4, <1>5

LEMMA WriteBatchFits ==
  ASSUME TypeInv, NEW d \in Device, WriteBatch(d)
  PROVE  StepFits(d)
<1>1. UNCHANGED <<serverVars, user, synced, stored, keyVars, call, written, spent, historyVars>>
  BY DEF WriteBatch
<1>2. PICK batch \in SUBSET round[d].todo :
        /\ BatchTop(d, batch) \in [Record -> Seq(Keyed(vaultKey))]
        /\ \A r \in Record : BatchTop(d, batch)[r] # <<>> => ~BatchTop(d, batch)[r][1].deleted
        /\ pending' = [pending EXCEPT ![d] = [r \in Record |-> pending[d][r] \o BatchTop(d, batch)[r]]]
        /\ round' = [round EXCEPT ![d].todo = @ \ batch]
  BY BatchIs
<1>3. /\ pending' \in [Device -> [Record -> Seq(Keyed(vaultKey))]]
      /\ \A e \in Device \ {d} : pending'[e] = pending[e]
      /\ \A r \in Record : Longer(d, r)
  BY <1>2, OnTopIs
<1>4. round' = [e \in Device |-> round'[e]] /\ round'[d] = [round[d] EXCEPT !.todo = @ \ batch]
      /\ \A e \in Device \ {d} : round'[e] = round[e]
  BY <1>2 DEF TypeInv, Shapes
<1>5. Rewriting(d) /\ round[d].at = "rewrite"
  BY DEF WriteBatch, TypeInv, DeviceFits, RoundFits
<1>6. Shapes' /\ HistoryTyped' /\ ServerGrows
  <2>1. vaultKey' = vaultKey /\ log' = log
    BY <1>1 DEF serverVars
  <2>2. Shapes'
    BY <1>1, <1>3, <1>4, <2>1 DEF TypeInv, Shapes, serverVars, keyVars
  <2> QED
    BY <1>1, <2>1, <2>2, ServerStays DEF TypeInv, HistoryTyped, historyVars
<1>7. round'[d].at = "rewrite" /\ Rewriting(d)'
  <2>1. round'[d] = [at |-> "rewrite", tasks |-> round[d].tasks, goal |-> round[d].goal,
                    under |-> round[d].under, todo |-> round[d].todo \ batch]
    BY <1>4, <1>5 DEF Rewriting
  <2>2. vaultKey' = vaultKey
    BY <1>1 DEF serverVars
  <2> QED
    BY <1>5, <2>1, <2>2 DEF Rewriting
<1>8. \A r \in Record : ChainFits(d, r)'
  BY <1>1, <1>3, <1>6, <1>7, LongerFits DEF Clean
<1>9. CallFits(d)' /\ RoundFits(d)'
  BY <1>1, <1>6, <1>7, CallFitsOn DEF TypeInv, DeviceFits, RoundFits
<1> QED
  BY <1>1, <1>3, <1>4, <1>6, <1>8, <1>9 DEF StepFits, DeviceFits, Apart, keyVars
-------------------------------------------------------------------------------
(* What of a chain the server doesn't have: its last changes, from a put   *)
(* where the server has nothing of the record.                             *)
LEMMA UnstoredIs ==
  ASSUME TypeInv, NEW d \in Device, NEW r \in Record
  PROVE  /\ Unstored(d, r) \in Seq(Keyed(vaultKey))
         /\ Len(Unstored(d, r)) = Len(pending[d][r]) - stored[d][r]
         /\ \A i \in 1..Len(pending[d][r]) - stored[d][r] : Unstored(d, r)[i] = pending[d][r][stored[d][r] + i]
         /\ log[r] = <<>> /\ Unstored(d, r) # <<>> => ~Unstored(d, r)[1].deleted
<1>1. /\ pending[d][r] \in Seq(Keyed(vaultKey)) /\ log[r] \in Seq(Keyed(vaultKey))
      /\ Len(pending[d][r]) \in Nat /\ stored[d][r] \in Nat /\ synced[d][r] \in Nat
      /\ stored[d][r] <= Len(pending[d][r]) /\ ChainFits(d, r)
  BY HeadTyped DEF TypeInv, DeviceFits, ChainFits
<1> DEFINE m == stored[d][r] + 1
           n == Len(pending[d][r])
<1>2. m \in 1..n + 1 /\ n \in 0..Len(pending[d][r])
  BY <1>1
<1>3. /\ Unstored(d, r) \in Seq(Keyed(vaultKey))
      /\ Len(Unstored(d, r)) = IF m <= n THEN n - m + 1 ELSE 0
      /\ \A i \in 1..n - m + 1 : Unstored(d, r)[i] = pending[d][r][m + i - 1]
  <2> HIDE DEF m, n
  <2>1. Unstored(d, r) = SubSeq(pending[d][r], m, n)
    BY DEF Unstored, m, n
  <2> QED
    BY <1>1, <1>2, <2>1, SubSeqProperties
<1>4. Len(Unstored(d, r)) = Len(pending[d][r]) - stored[d][r]
  BY <1>1, <1>3
<1>5. \A i \in 1..Len(pending[d][r]) - stored[d][r] : Unstored(d, r)[i] = pending[d][r][stored[d][r] + i]
  <2> TAKE i \in 1..Len(pending[d][r]) - stored[d][r]
  <2>1. i \in 1..n - m + 1 /\ m + i - 1 = stored[d][r] + i
    BY <1>1
  <2>2. Unstored(d, r)[i] = pending[d][r][m + i - 1]
    BY <1>3, <2>1
  <2> QED
    BY <2>1, <2>2
<1>6. ASSUME log[r] = <<>>, Unstored(d, r) # <<>>
      PROVE  ~Unstored(d, r)[1].deleted
  <2>1. Len(log[r]) = 0
    BY <1>6
  <2>2. synced[d][r] = 0 /\ stored[d][r] = 0
    BY <1>1, <2>1 DEF ChainFits
  <2>3. Len(Unstored(d, r)) # 0
    BY <1>3, <1>6, EmptySeq
  <2>4. 1 \in 1..Len(pending[d][r]) - stored[d][r] /\ Len(pending[d][r]) # 0
    BY <1>1, <1>4, <2>2, <2>3
  <2>5. pending[d][r] # <<>>
    BY <1>1, <2>4, EmptySeq
  <2>6. Unstored(d, r)[1] = pending[d][r][1]
    BY <1>5, <2>2, <2>4
  <2> QED
    BY <1>1, <2>2, <2>5, <2>6 DEF ChainFits
<1> QED
  BY <1>3, <1>4, <1>5, <1>6

(* What a push appends: the chains it takes, whole, where they fit on what *)
(* the server has.                                                         *)
Taken(d) == { r \in Record : pending[d][r] # <<>> /\ Accepts(d, r) }

LEMMA PushIs ==
  ASSUME TypeInv, NEW d \in Device, Push(d)
  PROVE  /\ log' \in [Record -> Seq(Keyed(vaultKey))]
         /\ \A r \in Record \ Taken(d) : log'[r] = log[r] /\ stored'[d][r] = stored[d][r]
         /\ \A r \in Taken(d) :
              /\ stored'[d][r] = Len(pending[d][r])
              /\ log'[r] = Appended(log[r], Unstored(d, r))
              /\ Len(log'[r]) = Len(log[r]) + Len(Unstored(d, r))
              /\ \A i \in 1..Len(log[r]) : log'[r][i] = log[r][i]
              /\ Unstored(d, r) # <<>> =>
                   /\ Newest(r)'.deleted = Last(Unstored(d, r)).deleted
                   /\ ~Newest(r)'.deleted => Newest(r)' = Last(Unstored(d, r))
         /\ stored' \in [Device -> [Record -> Nat]]
         /\ \A e \in Device \ {d} : stored'[e] = stored[e] /\ round'[e] = round[e]
         /\ round' = [e \in Device |-> round'[e]]
<1>1. /\ log' = [r \in Record |-> IF r \in Taken(d) THEN Appended(log[r], Unstored(d, r)) ELSE log[r]]
      /\ stored' = [stored EXCEPT ![d] = [r \in Record |->
              IF r \in Taken(d) THEN Len(pending[d][r]) ELSE @[r]]]
      /\ vaultKey' = vaultKey
  BY DEF Push, Taken
<1>2. \A r \in Record :
        /\ log[r] \in Seq(Keyed(vaultKey)) /\ Len(pending[d][r]) \in Nat /\ Len(log[r]) \in Nat
        /\ Unstored(d, r) \in Seq(Keyed(vaultKey))
        /\ log[r] = <<>> /\ Unstored(d, r) # <<>> => ~Unstored(d, r)[1].deleted
  BY HeadTyped, UnstoredIs
<1>3. ASSUME NEW r \in Record
      PROVE  /\ Appended(log[r], Unstored(d, r)) \in Seq(Keyed(vaultKey))
             /\ Len(Appended(log[r], Unstored(d, r))) = Len(log[r]) + Len(Unstored(d, r))
             /\ \A i \in 1..Len(log[r]) : Appended(log[r], Unstored(d, r))[i] = log[r][i]
             /\ Unstored(d, r) # <<>> =>
                  LET top == Appended(log[r], Unstored(d, r))[Len(log[r]) + Len(Unstored(d, r))]
                  IN  top.deleted = Last(Unstored(d, r)).deleted /\ (~top.deleted => top = Last(Unstored(d, r)))
  <2> DEFINE below == log[r]
             chain == Unstored(d, r)
  <2>0. vaultKey \in Nat
    BY DEF TypeInv, Shapes
  <2>1. /\ below \in Seq(Keyed(vaultKey)) /\ chain \in Seq(Keyed(vaultKey))
        /\ below = <<>> /\ chain # <<>> => ~chain[1].deleted
    BY HeadTyped, UnstoredIs
  <2> HIDE DEF below, chain
  <2>2. /\ Appended(below, chain) \in Seq(Keyed(vaultKey))
        /\ Len(Appended(below, chain)) = Len(below) + Len(chain)
        /\ \A i \in 1..Len(below) : Appended(below, chain)[i] = below[i]
        /\ chain # <<>> =>
             LET top == Appended(below, chain)[Len(below) + Len(chain)]
             IN  top.deleted = Last(chain).deleted /\ (~top.deleted => top = Last(chain))
    BY <2>0, <2>1, AppendedIs
  <2> QED
    BY <2>2 DEF below, chain
<1>4. log' \in [Record -> Seq(Keyed(vaultKey))]
  <2>1. \A r \in Record : (IF r \in Taken(d) THEN Appended(log[r], Unstored(d, r)) ELSE log[r]) \in Seq(Keyed(vaultKey))
    <3> TAKE r \in Record
    <3>1. Appended(log[r], Unstored(d, r)) \in Seq(Keyed(vaultKey))
      BY <1>3
    <3>2. log[r] \in Seq(Keyed(vaultKey))
      BY <1>2
    <3> QED
      BY <3>1, <3>2
  <2> QED
    BY <1>1, <2>1
<1>5. ASSUME NEW r \in Taken(d)
      PROVE  /\ stored'[d][r] = Len(pending[d][r])
             /\ log'[r] = Appended(log[r], Unstored(d, r))
             /\ Len(log'[r]) = Len(log[r]) + Len(Unstored(d, r))
             /\ \A i \in 1..Len(log[r]) : log'[r][i] = log[r][i]
             /\ Unstored(d, r) # <<>> =>
                  /\ Newest(r)'.deleted = Last(Unstored(d, r)).deleted
                  /\ ~Newest(r)'.deleted => Newest(r)' = Last(Unstored(d, r))
  <2>1. r \in Record
    BY DEF Taken
  <2>2. stored'[d][r] = Len(pending[d][r]) /\ log'[r] = Appended(log[r], Unstored(d, r))
    BY <1>1, <2>1 DEF TypeInv, Shapes
  <2>3. Len(log'[r]) = Len(log[r]) + Len(Unstored(d, r)) /\ \A i \in 1..Len(log[r]) : log'[r][i] = log[r][i]
    BY <1>3, <2>1, <2>2
  <2>4. Newest(r)' = Appended(log[r], Unstored(d, r))[Len(log[r]) + Len(Unstored(d, r))]
    BY <2>2, <2>3 DEF Newest
  <2> QED
    BY <1>3, <2>1, <2>2, <2>3, <2>4
<1>6. /\ stored' \in [Device -> [Record -> Nat]]
      /\ \A e \in Device \ {d} : stored'[e] = stored[e]
      /\ \A r \in Record \ Taken(d) : log'[r] = log[r] /\ stored'[d][r] = stored[d][r]
  BY <1>1, <1>2 DEF TypeInv, Shapes
<1>7. round' = [e \in Device |-> round'[e]] /\ \A e \in Device \ {d} : round'[e] = round[e]
  BY DEF Push, TypeInv, Shapes
<1> QED
  BY <1>4, <1>5, <1>6, <1>7

LEMMA AfterPushIs ==
  ASSUME NEW d \in Device, NEW failed
  PROVE  AfterPush(d, failed).at \in {"pull", "idle", "tasks"}
BY DEF AfterPush, WithTasks, Idle

LEMMA PushFits ==
  ASSUME TypeInv, NEW d \in Device, Push(d)
  PROVE  StepFits(d)
<1>1. UNCHANGED <<vaultKey, needed, wrap, seal, user, synced, pending, keyVars, call, written, spent, historyVars>>
  BY DEF Push
<1>2. /\ log' \in [Record -> Seq(Keyed(vaultKey))] /\ stored' \in [Device -> [Record -> Nat]]
      /\ \A r \in Record \ Taken(d) : log'[r] = log[r] /\ stored'[d][r] = stored[d][r]
      /\ \A r \in Taken(d) :
           stored'[d][r] = Len(pending[d][r]) /\ Len(log'[r]) = Len(log[r]) + Len(Unstored(d, r))
      /\ \A e \in Device \ {d} : stored'[e] = stored[e] /\ round'[e] = round[e]
      /\ round' = [e \in Device |-> round'[e]]
  BY PushIs
<1>3. /\ round'[d].at \in {"pull", "idle", "tasks", "answered"}
      /\ round'[d].at # "answered" => \A r \in Record : pending[d][r] = <<>>
  <2>1. CASE { r \in Record : pending[d][r] # <<>> } = {}
    <3>1. round'[d] = AfterPush(d, FALSE)
      BY <2>1 DEF Push, TypeInv, Shapes
    <3> QED
      BY <2>1, <3>1, AfterPushIs
  <2>2. CASE { r \in Record : pending[d][r] # <<>> } # {}
    <3>1. round'[d].at = "answered"
      BY <2>2 DEF Push, TypeInv, Shapes
    <3> QED
      BY <3>1
  <2> QED
    BY <2>1, <2>2
<1>4. \A r \in Record : /\ Len(log[r]) \in Nat /\ Len(log'[r]) \in Nat /\ Len(pending[d][r]) \in Nat
                        /\ synced[d][r] \in Nat /\ stored[d][r] \in Nat
                        /\ Len(Unstored(d, r)) = Len(pending[d][r]) - stored[d][r]
                        /\ Unstored(d, r) \in Seq(Keyed(vaultKey)) /\ ChainFits(d, r)
  BY <1>2, HeadTyped, UnstoredIs, LenProperties DEF TypeInv, DeviceFits
<1>5. \A r \in Record : Len(log[r]) <= Len(log'[r])
  <2> TAKE r \in Record
  <2>1. stored[d][r] <= Len(pending[d][r])
    BY <1>4 DEF ChainFits
  <2>2. CASE r \in Taken(d)
    <3>1. Len(log'[r]) = Len(log[r]) + Len(Unstored(d, r)) /\ Len(Unstored(d, r)) = Len(pending[d][r]) - stored[d][r]
      BY <1>2, <1>4, <2>2
    <3> QED
      BY <1>4, <2>1, <3>1
  <2>3. CASE r \notin Taken(d)
    <3>1. log'[r] = log[r]
      BY <1>2, <2>3
    <3> QED
      BY <1>4, <3>1
  <2> QED
    BY <2>2, <2>3
<1>6. Shapes' /\ HistoryTyped' /\ ServerGrows
  <2>1. Shapes'
    BY <1>1, <1>2 DEF TypeInv, Shapes, keyVars
  <2>2. HistoryTyped'
    BY <1>1 DEF TypeInv, HistoryTyped, historyVars
  <2>3. ServerGrows
    BY <1>1, <1>5 DEF ServerGrows, TypeInv, Shapes
  <2> QED
    BY <2>1, <2>2, <2>3
<1>7. ASSUME NEW r \in Record PROVE ChainFits(d, r)'
  <2>1. ChainFits(d, r) /\ stored[d][r] <= Len(pending[d][r]) /\ synced[d][r] <= Len(log[r])
    BY <1>4 DEF ChainFits
  <2>2. synced'[d][r] <= Len(log'[r]) /\ stored'[d][r] <= Len(pending'[d][r])
    <3>1. stored'[d][r] \in {stored[d][r], Len(pending[d][r])}
      BY <1>2
    <3>2. synced[d][r] <= Len(log[r]) /\ Len(log[r]) <= Len(log'[r]) /\ synced' = synced /\ pending' = pending
      BY <1>1, <1>5, <2>1
    <3>3. stored'[d][r] <= Len(pending[d][r])
      BY <1>4, <2>1, <3>1
    <3> QED
      BY <1>4, <3>2, <3>3
  <2>3. stored'[d][r] > 0 => synced'[d][r] + stored'[d][r] <= Len(log'[r])
    <3>1. CASE r \in Taken(d) /\ stored[d][r] # Len(pending[d][r])
      <4>1. Unstored(d, r) # <<>>
        BY <1>4, <3>1, EmptySeq
      <4>2. Len(log[r]) = synced[d][r] + stored[d][r]
        BY <3>1, <4>1 DEF Taken, Accepts
      <4> QED
        BY <1>1, <1>2, <1>4, <3>1, <4>2
    <3>2. CASE r \notin Taken(d) \/ stored[d][r] = Len(pending[d][r])
      <4>1. stored'[d][r] = stored[d][r]
        BY <1>2, <3>2
      <4>2. stored[d][r] > 0 => synced[d][r] + stored[d][r] <= Len(log[r])
        BY <2>1 DEF ChainFits
      <4> QED
        BY <1>1, <1>4, <1>5, <4>1, <4>2
    <3> QED
      BY <3>1, <3>2
  <2>4. synced'[d][r] = 0 /\ pending'[d][r] # <<>> => ~pending'[d][r][1].deleted
    BY <1>1, <2>1 DEF ChainFits
  <2>5. round'[d].at \in Clean => stored'[d][r] = 0
    <3> SUFFICES ASSUME round'[d].at \in Clean PROVE stored'[d][r] = 0
      OBVIOUS
    <3>1. pending[d][r] = <<>>
      BY <1>3 DEF Clean
    <3>2. Len(pending[d][r]) = 0 /\ r \notin Taken(d)
      BY <3>1 DEF Taken
    <3> QED
      BY <1>2, <1>4, <2>1, <3>2
  <2> QED
    BY <2>2, <2>3, <2>4, <2>5 DEF ChainFits
<1>8. CallFits(d)' /\ RoundFits(d)'
  BY <1>1, <1>3, <1>6, CallFitsOn DEF TypeInv, DeviceFits, RoundFits, Clean
<1> QED
  BY <1>1, <1>2, <1>6, <1>7, <1>8 DEF StepFits, DeviceFits, Apart, keyVars

LEMMA TakeAnswerFits ==
  ASSUME TypeInv, NEW d \in Device, TakeAnswer(d)
  PROVE  /\ StepFits(d)
         /\ \A r \in Record : pending'[d][r] = Unstored(d, r) /\ stored'[d][r] = 0
                             /\ synced'[d][r] = synced[d][r] + stored[d][r]
<1>1. UNCHANGED <<serverVars, user, keyVars, call, written, spent, historyVars>>
  BY DEF TakeAnswer
<1>2. \A r \in Record : /\ Len(log[r]) \in Nat /\ Len(pending[d][r]) \in Nat
                        /\ synced[d][r] \in Nat /\ stored[d][r] \in Nat
                        /\ Len(Unstored(d, r)) = Len(pending[d][r]) - stored[d][r]
                        /\ Unstored(d, r) \in Seq(Keyed(vaultKey)) /\ ChainFits(d, r)
  BY HeadTyped, UnstoredIs DEF TypeInv, DeviceFits
<1>3. /\ synced' \in [Device -> [Record -> Nat]] /\ stored' \in [Device -> [Record -> Nat]]
      /\ round' = [e \in Device |-> round'[e]]
      /\ round'[d] = AfterPush(d, round[d].failed)
      /\ \A r \in Record : stored'[d][r] = 0 /\ synced'[d][r] = synced[d][r] + stored[d][r]
      /\ \A e \in Device \ {d} : synced'[e] = synced[e] /\ stored'[e] = stored[e] /\ round'[e] = round[e]
  <2>1. \A r \in Record : synced[d][r] + stored[d][r] \in Nat
    BY <1>2
  <2>2. [r \in Record |-> synced[d][r] + stored[d][r]] \in [Record -> Nat] /\ [r \in Record |-> 0] \in [Record -> Nat]
    BY <2>1
  <2>3. synced' = [synced EXCEPT ![d] = [r \in Record |-> synced[d][r] + stored[d][r]]]
    BY DEF TakeAnswer, TypeInv, Shapes
  <2>4. stored' = [stored EXCEPT ![d] = [r \in Record |-> 0]]
    BY DEF TakeAnswer
  <2>5. synced \in [Device -> [Record -> Nat]] /\ stored \in [Device -> [Record -> Nat]]
    BY DEF TypeInv, Shapes
  <2>6. /\ round' = [e \in Device |-> round'[e]] /\ round'[d] = AfterPush(d, round[d].failed)
        /\ \A e \in Device \ {d} : round'[e] = round[e]
    BY DEF TakeAnswer, TypeInv, Shapes
  <2>7. /\ synced' \in [Device -> [Record -> Nat]]
        /\ \A e \in Device \ {d} : synced'[e] = synced[e]
        /\ \A r \in Record : synced'[d][r] = synced[d][r] + stored[d][r]
    BY <2>2, <2>3, <2>5
  <2>8. /\ stored' \in [Device -> [Record -> Nat]]
        /\ \A e \in Device \ {d} : stored'[e] = stored[e]
        /\ \A r \in Record : stored'[d][r] = 0
    BY <2>2, <2>4, <2>5
  <2> QED
    BY <2>6, <2>7, <2>8
<1>4. /\ pending' \in [Device -> [Record -> Seq(Keyed(vaultKey))]]
      /\ \A r \in Record : pending'[d][r] = Unstored(d, r)
      /\ \A e \in Device \ {d} : pending'[e] = pending[e]
  <2> DEFINE f == [r \in Record |-> Unstored(d, r)]
  <2>1. f \in [Record -> Seq(Keyed(vaultKey))]
    BY <1>2
  <2>2. pending' = [pending EXCEPT ![d] = f]
    BY DEF TakeAnswer, Unstored, TypeInv, Shapes
  <2>3. \A r \in Record : f[r] = Unstored(d, r)
    OBVIOUS
  <2> HIDE DEF f
  <2> QED
    BY <2>1, <2>2, <2>3, PendingIs
<1>5. Shapes' /\ HistoryTyped' /\ ServerGrows
  <2>1. vaultKey' = vaultKey /\ log' = log
    BY <1>1 DEF serverVars
  <2>2. Shapes'
    BY <1>1, <1>3, <1>4, <2>1 DEF TypeInv, Shapes, serverVars, keyVars
  <2> QED
    BY <1>1, <2>1, <2>2, ServerStays DEF TypeInv, HistoryTyped, historyVars
<1>6. ASSUME NEW r \in Record PROVE ChainFits(d, r)'
  <2>1. /\ stored[d][r] <= Len(pending[d][r]) /\ synced[d][r] <= Len(log[r])
        /\ (stored[d][r] > 0 => synced[d][r] + stored[d][r] <= Len(log[r])) /\ log' = log
    BY <1>1, <1>2 DEF ChainFits, serverVars
  <2>2. synced'[d][r] <= Len(log'[r])
    BY <1>2, <1>3, <2>1
  <2>3. stored'[d][r] = 0 /\ Len(pending'[d][r]) \in Nat
    BY <1>3, <1>4, LenProperties
  <2>4. synced'[d][r] = 0 /\ pending'[d][r] # <<>> => ~pending'[d][r][1].deleted
    <3> SUFFICES ASSUME synced'[d][r] = 0, Unstored(d, r) # <<>> PROVE ~Unstored(d, r)[1].deleted
      BY <1>4
    <3>1. synced[d][r] = 0 /\ stored[d][r] = 0
      BY <1>2, <1>3
    <3>2. pending[d][r] \in Seq(Keyed(vaultKey))
      BY HeadTyped
    <3>3. Unstored(d, r) = pending[d][r]
      BY <3>1, <3>2, SubSeqFull DEF Unstored
    <3> QED
      BY <1>2, <3>1, <3>3 DEF ChainFits
  <2> QED
    BY <2>2, <2>3, <2>4 DEF ChainFits
<1>7. CallFits(d)' /\ RoundFits(d)'
  <2>1. round'[d].at \in {"pull", "idle", "tasks"}
    BY <1>3, AfterPushIs
  <2>2. CallFits(d)'
    BY <1>1, <1>5, CallFitsOn DEF TypeInv, DeviceFits
  <2> QED
    BY <2>1, <2>2 DEF RoundFits, Clean
<1>8. StepFits(d)
  BY <1>1, <1>3, <1>4, <1>5, <1>6, <1>7 DEF StepFits, DeviceFits, Apart, keyVars
<1> QED
  BY <1>3, <1>4, <1>8
-------------------------------------------------------------------------------
LEMMA PullVaultsFits ==
  ASSUME TypeInv, NEW d \in Device, PullVaults(d)
  PROVE  StepFits(d)
<1>1. UNCHANGED <<serverVars, user, storeVars, keyVars, call, written, spent, historyVars>> /\ round[d].at = "pull"
  BY DEF PullVaults
<1>2. round' = [e \in Device |-> round'[e]] /\ \A e \in Device \ {d} : round'[e] = round[e]
  BY DEF PullVaults, TypeInv, Shapes
<1>3. round'[d].at = "rows" /\ round'[d].key \in 1..vaultKey
  BY DEF PullVaults, TypeInv, Shapes
<1>4. Shapes' /\ HistoryTyped' /\ ServerGrows
  BY <1>1, <1>2, ServerStays DEF TypeInv, Shapes, HistoryTyped, serverVars, storeVars, keyVars, historyVars
<1>5. CallFits(d)' /\ RoundFits(d)'
  BY <1>1, <1>3, <1>4, CallFitsOn DEF TypeInv, DeviceFits, RoundFits, Clean, serverVars
<1> QED
  BY <1>1, <1>2, <1>4, <1>5, RecordsStay DEF Clean, storeVars, keyVars

LEMMA PullRowsFits ==
  ASSUME TypeInv, NEW d \in Device, PullRows(d)
  PROVE  StepFits(d)
<1>1. UNCHANGED <<serverVars, user, storeVars, listed, target, call, written, spent, historyVars>> /\ round[d].at = "rows"
  BY DEF PullRows
<1>2. round' = [e \in Device |-> round'[e]] /\ \A e \in Device \ {d} : round'[e] = round[e]
  BY DEF PullRows, TypeInv, Shapes
<1>3. round[d].key \in 1..vaultKey
  BY <1>1 DEF TypeInv, DeviceFits, RoundFits
<1>4. /\ round'[d].at = "page" /\ round'[d].key \in 1..vaultKey
      /\ round'[d].len = [r \in Record |-> Len(log[r])]
  BY <1>3 DEF PullRows, TypeInv, Shapes
<1>5. loaded' \in [Device -> 1..vaultKey]
  BY <1>3 DEF PullRows, TypeInv, Shapes
<1>6. Shapes' /\ HistoryTyped' /\ ServerGrows
  BY <1>1, <1>2, <1>5, ServerStays DEF TypeInv, Shapes, HistoryTyped, serverVars, storeVars, historyVars
<1>7. \A r \in Record : Len(log[r]) \in Nat
  BY LenProperties DEF TypeInv, Shapes
<1>8. CallFits(d)' /\ RoundFits(d)'
  BY <1>1, <1>4, <1>6, <1>7, CallFitsOn DEF TypeInv, DeviceFits, RoundFits, Clean, serverVars
<1> QED
  BY <1>1, <1>2, <1>6, <1>8, RecordsStay DEF Clean, storeVars

(* What a page puts on top of each record's chain: at most the merge of a  *)
(* conflict, which is an edit.                                             *)
PageTop(d) ==
  [r \in Record |-> IF Conflict(d, r, round[d]) /\ Opens(d, r, round[d])
                    THEN Merged(Last(pending[d][r]), log[r][round[d].len[r]], loaded[d]) ELSE <<>>]

LEMMA PageIs ==
  ASSUME TypeInv, NEW d \in Device, Apply(d)
  PROVE  /\ PageTop(d) \in [Record -> Seq(Keyed(vaultKey))]
         /\ \A r \in Record : PageTop(d)[r] # <<>> => ~PageTop(d)[r][1].deleted
         /\ pending' = [pending EXCEPT ![d] = [r \in Record |-> pending[d][r] \o PageTop(d)[r]]]
         /\ round[d].len \in [Record -> Nat] /\ \A r \in Record : round[d].len[r] <= Len(log[r])
<1>1. round[d].at = "page" /\ round[d].len \in [Record -> Nat] /\ \A r \in Record : round[d].len[r] <= Len(log[r])
  BY DEF Apply, TypeInv, DeviceFits, RoundFits
<1>2. ASSUME NEW r \in Record
      PROVE  /\ PageTop(d)[r] \in Seq(Keyed(vaultKey))
             /\ PageTop(d)[r] # <<>> => ~PageTop(d)[r][1].deleted
  <2>1. CASE Conflict(d, r, round[d]) /\ Opens(d, r, round[d])
    <3> DEFINE local == Last(pending[d][r])
               remote == log[r][round[d].len[r]]
               edits == local.edits \cup remote.edits
    <3>1. /\ pending[d][r] \in Seq(Keyed(vaultKey)) /\ log[r] \in Seq(Keyed(vaultKey))
          /\ Len(log[r]) \in Nat /\ Len(pending[d][r]) \in Nat /\ synced[d][r] \in Nat
      BY HeadTyped
    <3>2. local \in Keyed(vaultKey)
      <4>1. Len(pending[d][r]) \in 1..Len(pending[d][r])
        BY <2>1, <3>1, EmptySeq DEF Conflict
      <4> QED
        BY <3>1, <4>1, ElementOfSeq DEF Last
    <3>3. remote \in Keyed(vaultKey)
      <4>1. round[d].len[r] \in 1..Len(log[r])
        BY <1>1, <2>1, <3>1 DEF Conflict
      <4> QED
        BY <3>1, <4>1, ElementOfSeq
    <3>4. loaded[d] \in 1..vaultKey
      BY DEF TypeInv, Shapes
    <3>5. PageTop(d)[r] \in {<<>>, <<Version(edits, loaded[d])>>}
      BY <2>1 DEF PageTop, Merged
    <3> HIDE DEF local, remote
    <3>6. Version(edits, loaded[d]) \in Keyed(vaultKey) /\ ~Version(edits, loaded[d]).deleted
      BY <3>2, <3>3, <3>4 DEF Version, Keyed
    <3> DEFINE new == Version(edits, loaded[d])
    <3> HIDE DEF new
    <3>7. PageTop(d)[r] \in {<<>>, <<new>>} /\ new \in Keyed(vaultKey) /\ ~new.deleted
      BY <3>5, <3>6 DEF new
    <3>8. <<new>> \in Seq(Keyed(vaultKey)) /\ <<>> \in Seq(Keyed(vaultKey)) /\ <<new>>[1] = new
      BY <3>7
    <3> QED
      BY <3>7, <3>8
  <2>2. CASE ~(Conflict(d, r, round[d]) /\ Opens(d, r, round[d]))
    <3>1. PageTop(d)[r] = <<>>
      BY <2>2 DEF PageTop
    <3> QED
      BY <3>1
  <2> QED
    BY <2>1, <2>2
<1>3. PageTop(d) \in [Record -> Seq(Keyed(vaultKey))]
  BY <1>2 DEF PageTop
<1>4. pending' = [pending EXCEPT ![d] = [r \in Record |-> pending[d][r] \o PageTop(d)[r]]]
  <2>1. pending' = [pending EXCEPT ![d] = [r \in Record |-> Rebase(d, r, round[d])]]
    BY DEF Apply
  <2>2. \A r \in Record : Rebase(d, r, round[d]) = pending[d][r] \o PageTop(d)[r]
    BY DEF Rebase, PageTop
  <2>3. [r \in Record |-> Rebase(d, r, round[d])] = [r \in Record |-> pending[d][r] \o PageTop(d)[r]]
    BY <2>2
  <2> QED
    BY <2>1, <2>3, Zenon
<1> QED
  BY <1>1, <1>2, <1>3, <1>4

LEMMA ApplyFits ==
  ASSUME TypeInv, NEW d \in Device, Apply(d)
  PROVE  StepFits(d)
<1>1. UNCHANGED <<serverVars, user, stored, loaded, target, call, written, spent, owing, crossed, unheard>>
      /\ round[d].at = "page"
  BY DEF Apply
<1>2. /\ pending' \in [Device -> [Record -> Seq(Keyed(vaultKey))]]
      /\ \A e \in Device \ {d} : pending'[e] = pending[e]
      /\ \A r \in Record : Longer(d, r)
  BY PageIs, OnTopIs
<1>3. round' = [e \in Device |-> round'[e]] /\ \A e \in Device \ {d} : round'[e] = round[e]
  BY DEF Apply, TypeInv, Shapes
<1>4. round'[d].at \in {"again", "tasks", "idle"}
  BY DEF Apply, WithTasks, Idle, TypeInv, Shapes
<1>5. /\ synced' \in [Device -> [Record -> Nat]] /\ \A e \in Device \ {d} : synced'[e] = synced[e]
      /\ \A r \in Record : synced'[d][r] = IF round[d].len[r] > synced[d][r] THEN round[d].len[r] ELSE synced[d][r]
  <2> DEFINE f == [r \in Record |-> IF round[d].len[r] > synced[d][r] THEN round[d].len[r] ELSE synced[d][r]]
  <2>1. synced \in [Device -> [Record -> Nat]]
    BY DEF TypeInv, Shapes
  <2>2. f \in [Record -> Nat]
    <3>1. round[d].len \in [Record -> Nat] /\ synced[d] \in [Record -> Nat]
      BY <2>1, PageIs
    <3> QED
      BY <3>1
  <2>3. synced' = [synced EXCEPT ![d] = f]
    BY <2>1 DEF Apply
  <2>4. \A r \in Record : f[r] = IF round[d].len[r] > synced[d][r] THEN round[d].len[r] ELSE synced[d][r]
    OBVIOUS
  <2> HIDE DEF f
  <2>5. synced'[d] = f /\ synced' \in [Device -> [Record -> Nat]] /\ \A e \in Device \ {d} : synced'[e] = synced[e]
    BY <2>1, <2>2, <2>3
  <2> QED
    BY <2>4, <2>5
<1>6. listed' \in [Device -> 1..vaultKey]
  <2>1. round[d].key \in 1..vaultKey
    BY <1>1 DEF TypeInv, DeviceFits, RoundFits
  <2> QED
    BY <2>1 DEF Apply, TypeInv, Shapes
<1>7. Shapes' /\ HistoryTyped' /\ ServerGrows
  <2>1. vaultKey' = vaultKey /\ log' = log
    BY <1>1 DEF serverVars
  <2>2. Shapes'
    BY <1>1, <1>2, <1>3, <1>5, <1>6, <2>1 DEF TypeInv, Shapes, serverVars
  <2>3. blind' \subseteq Record /\ met' \subseteq Record
    BY DEF Apply, TypeInv, HistoryTyped
  <2> QED
    BY <1>1, <2>1, <2>2, <2>3, ServerStays DEF TypeInv, HistoryTyped
<1>8. ASSUME NEW r \in Record PROVE ChainFits(d, r)'
  <2>1. /\ Len(log[r]) \in Nat /\ Len(pending[d][r]) \in Nat /\ synced[d][r] \in Nat
        /\ round[d].len[r] \in Nat /\ round[d].len[r] <= Len(log[r]) /\ ChainFits(d, r)
    BY HeadTyped, PageIs DEF TypeInv, DeviceFits
  <2>2. synced[d][r] <= Len(log[r]) /\ stored'[d][r] = 0 /\ log' = log /\ Len(pending'[d][r]) \in Nat
    BY <1>1, <1>2, <2>1, LenProperties DEF ChainFits, Clean, serverVars
  <2>3. synced'[d][r] <= Len(log'[r]) /\ stored'[d][r] <= Len(pending'[d][r])
    BY <1>5, <2>1, <2>2
  <2>4. synced'[d][r] = 0 => synced[d][r] = 0
    BY <1>5, <2>1
  <2>5. synced'[d][r] = 0 /\ pending'[d][r] # <<>> => ~pending'[d][r][1].deleted
    BY <1>2, <2>1, <2>4, Zenon DEF ChainFits, Longer
  <2> QED
    BY <2>2, <2>3, <2>5 DEF ChainFits
<1>9. CallFits(d)' /\ RoundFits(d)'
  BY <1>1, <1>4, <1>7, CallFitsOn DEF TypeInv, DeviceFits, RoundFits, Clean
<1> QED
  BY <1>1, <1>2, <1>3, <1>5, <1>7, <1>8, <1>9 DEF StepFits, DeviceFits, Apart

LEMMA AcceptKeyFits ==
  ASSUME TypeInv, NEW d \in Device, AcceptKey(d)
  PROVE  StepFits(d)
<1>1. UNCHANGED <<log, vaultKey, needed, user, storeVars, keyVars, call, written, spent, historyVars>> /\ round[d].at = "tasks"
  BY DEF AcceptKey
<1>2. round' = [e \in Device |-> round'[e]] /\ \A e \in Device \ {d} : round'[e] = round[e]
  BY DEF AcceptKey, TypeInv, Shapes
<1>3. round'[d].at \in {"tasks", "idle"}
  BY DEF AcceptKey, WithTasks, Idle, TypeInv, Shapes
<1>4. wrap' \in [User -> 1..vaultKey] /\ seal' \in [User -> 0..vaultKey]
  <2>1. /\ seal[user[d]] \in 0..vaultKey /\ vaultKey \in Nat
        /\ wrap \in [User -> 1..vaultKey] /\ seal \in [User -> 0..vaultKey]
    BY DEF TypeInv, Shapes
  <2>2. CASE seal[user[d]] = round[d].tasks.seal
    <3>1. seal[user[d]] \in 1..vaultKey
      BY <2>1, <2>2 DEF AcceptKey
    <3>2. wrap' = [wrap EXCEPT ![user[d]] = seal[user[d]]] /\ seal' = [seal EXCEPT ![user[d]] = 0]
      BY <2>2 DEF AcceptKey
    <3>3. wrap' \in [User -> 1..vaultKey]
      BY <2>1, <3>1, <3>2
    <3>4. 0 \in 0..vaultKey
      BY <2>1
    <3>5. seal' \in [User -> 0..vaultKey]
      BY <2>1, <3>2, <3>4
    <3> QED
      BY <3>3, <3>5
  <2>3. CASE seal[user[d]] # round[d].tasks.seal
    BY <2>1, <2>3 DEF AcceptKey
  <2> QED
    BY <2>2, <2>3
<1>5. Shapes' /\ HistoryTyped' /\ ServerGrows
  BY <1>1, <1>2, <1>4, ServerStays DEF TypeInv, Shapes, HistoryTyped, storeVars, keyVars, historyVars
<1>6. CallFits(d)' /\ RoundFits(d)'
  BY <1>1, <1>3, <1>5, CallFitsOn DEF TypeInv, DeviceFits, RoundFits, Clean
<1> QED
  BY <1>1, <1>2, <1>5, <1>6, RecordsStay DEF Clean, storeVars, keyVars
-------------------------------------------------------------------------------
(* A rotation begins, for the user or the sync task.                       *)
LEMMA StartFits ==
  ASSUME TypeInv, NEW d \in Device, NEW w \in Way, StartRotation(d, w), round' = [e \in Device |-> round'[e]],
         \A e \in Device \ {d} : round'[e] = round[e],
         round'[d] = round[d] \/ (round[d].at \in Clean /\ round'[d] = [at |-> "rotating"])
  PROVE  StepFits(d)
<1>1. UNCHANGED <<serverVars, user, storeVars, listed, loaded, written, historyVars>>
  BY DEF StartRotation
<1>2. loaded[d] \in 1..vaultKey /\ vaultKey \in Nat \ {0}
  BY DEF TypeInv, Shapes
<1>3. /\ target' \in [Device -> 0..(vaultKey + 1)]
      /\ \A e \in Device \ {d} : target'[e] = target[e] /\ call'[e] = call[e]
  BY <1>2 DEF StartRotation, TypeInv, Shapes
<1>4. /\ call' \in [Device -> [Way -> CallType]]
      /\ call'[d][w] = [at |-> "sent", key |-> loaded[d] + 1] /\ \A u \in Way \ {w} : call'[d][u] = call[d][u]
  <2>1. [at |-> "sent", key |-> loaded[d] + 1] \in CallType
    BY <1>2 DEF CallType
  <2> QED
    BY <2>1 DEF StartRotation, TypeInv, Shapes
<1>5. Shapes' /\ HistoryTyped' /\ ServerGrows
  BY <1>1, <1>3, <1>4, ServerStays DEF TypeInv, Shapes, HistoryTyped, serverVars, storeVars, historyVars
<1>6. CallFits(d)'
  <2>1. CallFits(d) /\ vaultKey' = vaultKey
    BY <1>1 DEF TypeInv, DeviceFits, serverVars
  <2>2. ASSUME NEW u \in Way
        PROVE  /\ call'[d][u].at = "sent" => call'[d][u].key <= vaultKey' + 1
               /\ call'[d][u].at \in {"rotated", "saved"} => call'[d][u].key <= vaultKey'
    <3>1. CASE u = w
      BY <1>2, <1>4, <2>1, <3>1
    <3>2. CASE u # w
      BY <1>4, <2>1, <3>2 DEF CallFits
    <3> QED
      BY <3>1, <3>2
  <2> QED
    BY <2>2 DEF CallFits
<1>7. RoundFits(d)'
  BY <1>5, RoundFitsOn DEF RoundFits, Clean
<1>8. round'[d].at \in Clean => round[d].at \in Clean
  OBVIOUS
<1> QED
  BY <1>1, <1>3, <1>5, <1>6, <1>7, <1>8, RecordsStay DEF storeVars

LEMMA RotateFits ==
  ASSUME TypeInv, NEW d \in Device, Rotate(d) \/ RotateDue(d)
  PROVE  StepFits(d)
<1>1. CASE Rotate(d)
  BY <1>1, StartFits DEF Rotate, Way, TypeInv, Shapes
<1>2. CASE RotateDue(d)
  <2>1. StartRotation(d, "task") /\ round' = [round EXCEPT ![d] = [at |-> "rotating"]] /\ round[d].at = "tasks"
    BY <1>2 DEF RotateDue
  <2>2. round' = [e \in Device |-> round'[e]] /\ round'[d] = [at |-> "rotating"] /\ \A e \in Device \ {d} : round'[e] = round[e]
    BY <2>1 DEF TypeInv, Shapes
  <2> QED
    BY <2>1, <2>2, StartFits DEF Way, Clean
<1> QED
  BY <1>1, <1>2

LEMMA HandleFits ==
  ASSUME TypeInv, NEW d \in Device, NEW w \in Way, HandleRotation(d, w)
  PROVE  StepFits(d)
<1>1. UNCHANGED <<log, user, storeVars, keyVars, round, written, spent, blind, met>> /\ call[d][w].at = "sent"
  BY DEF HandleRotation
<1>2. call[d][w] \in CallType /\ call[d][w].key \in Nat \ {0} /\ CallFits(d) /\ vaultKey \in Nat \ {0}
  BY <1>1 DEF TypeInv, Shapes, CallType, NoCall, DeviceFits
<1> DEFINE key == call[d][w].key
           answer == IF MayRotate(user[d], key) THEN "rotated" ELSE "refused"
<1>3. call' = [call EXCEPT ![d][w].at = answer]
  BY DEF HandleRotation
<1>4. [call[d][w] EXCEPT !.at = answer] \in CallType
      /\ [call[d][w] EXCEPT !.at = answer].at = answer /\ [call[d][w] EXCEPT !.at = answer].key = key
  BY <1>1, <1>2 DEF CallType, NoCall
<1>5. /\ call' \in [Device -> [Way -> CallType]]
      /\ \A e \in Device \ {d} : call'[e] = call[e]
      /\ \A u \in Way \ {w} : call'[d][u] = call[d][u]
      /\ call'[d][w].at = answer /\ call'[d][w].key = key
  <2> HIDE DEF answer
  <2>1. call \in [Device -> [Way -> CallType]]
    BY DEF TypeInv, Shapes
  <2>2. call'[d][w] = [call[d][w] EXCEPT !.at = answer]
    BY <1>3, <2>1
  <2>3. /\ \A e \in Device \ {d} : call'[e] = call[e]
        /\ \A u \in Way \ {w} : call'[d][u] = call[d][u]
    BY <1>3, <2>1
  <2>4. call' \in [Device -> [Way -> CallType]]
    BY <1>3, <1>4, <2>1
  <2> QED
    BY <1>4, <2>2, <2>3, <2>4
<1>6. /\ vaultKey' \in {vaultKey, vaultKey + 1} /\ (MayRotate(user[d], key) => vaultKey' = key)
      /\ needed' \in BOOLEAN
      /\ wrap' \in [User -> 1..vaultKey'] /\ seal' \in [User -> 0..vaultKey']
  <2>1. CASE MayRotate(user[d], key)
    <3>1. vaultKey' = vaultKey + 1 /\ vaultKey' = key /\ needed' = FALSE
      BY <1>2, <2>1 DEF HandleRotation, MayRotate
    <3>2. /\ wrap' = [wrap EXCEPT ![user[d]] = key]
          /\ seal' = [m \in User |-> IF m = user[d] THEN seal[m] ELSE key]
      BY <2>1 DEF HandleRotation
    <3>3. wrap \in [User -> 1..vaultKey'] /\ seal \in [User -> 0..vaultKey']
      BY <1>2, <3>1 DEF TypeInv, Shapes
    <3>4. key \in 1..vaultKey' /\ key \in 0..vaultKey'
      BY <1>2, <3>1
    <3> HIDE DEF key
    <3>5. wrap' \in [User -> 1..vaultKey']
      BY <3>2, <3>3, <3>4
    <3>6. seal' \in [User -> 0..vaultKey']
      BY <3>2, <3>3, <3>4
    <3> QED
      BY <3>1, <3>5, <3>6
  <2>2. CASE ~MayRotate(user[d], key)
    BY <2>2 DEF HandleRotation, TypeInv, Shapes
  <2> QED
    BY <2>1, <2>2
<1>7. Keyed(vaultKey) \subseteq Keyed(vaultKey') /\ Seq(Keyed(vaultKey)) \subseteq Seq(Keyed(vaultKey'))
  BY <1>2, <1>6, KeyedGrows
<1>8. log' \in [Record -> Seq(Keyed(vaultKey'))] /\ pending' \in [Device -> [Record -> Seq(Keyed(vaultKey'))]]
  <2>1. log \in [Record -> Seq(Keyed(vaultKey))] /\ pending \in [Device -> [Record -> Seq(Keyed(vaultKey))]]
    BY DEF TypeInv, Shapes
  <2>2. log \in [Record -> Seq(Keyed(vaultKey'))]
    BY <1>7, <2>1
  <2>3. pending \in [Device -> [Record -> Seq(Keyed(vaultKey'))]]
    BY <1>7, <2>1
  <2> QED
    BY <1>1, <2>2, <2>3 DEF storeVars
<1>9. /\ listed' \in [Device -> 1..vaultKey'] /\ loaded' \in [Device -> 1..vaultKey']
      /\ target' \in [Device -> 0..(vaultKey' + 1)] /\ vaultKey' \in Nat \ {0}
  BY <1>1, <1>2, <1>6 DEF TypeInv, Shapes, keyVars
<1>10. Shapes'
  BY <1>1, <1>5, <1>6, <1>8, <1>9 DEF TypeInv, Shapes, storeVars
<1>11. HistoryTyped'
  BY <1>1 DEF HandleRotation, TypeInv, HistoryTyped
<1>12. ServerGrows
  <2>1. log' = log /\ \A r \in Record : Len(log[r]) \in Nat
    BY <1>1, HeadTyped
  <2> QED
    BY <1>2, <1>6, <2>1 DEF ServerGrows
<1>13. CallFits(d)'
  <2>1. ASSUME NEW u \in Way
        PROVE  /\ call'[d][u].at = "sent" => call'[d][u].key <= vaultKey' + 1
               /\ call'[d][u].at \in {"rotated", "saved"} => call'[d][u].key <= vaultKey'
    <3>1. CASE u = w
      BY <1>2, <1>5, <1>6, <3>1
    <3>2. CASE u # w
      <4>1. call'[d][u] = call[d][u] /\ call[d][u] \in CallType
        BY <1>5, <3>2 DEF TypeInv, Shapes
      <4>2. call[d][u].at # "none" => call[d][u].key \in Nat
        BY <4>1 DEF CallType, NoCall
      <4> QED
        BY <1>2, <1>6, <4>1, <4>2 DEF CallFits
    <3> QED
      BY <3>1, <3>2
  <2> QED
    BY <2>1 DEF CallFits
<1>14. RoundFits(d)'
  BY <1>1, <1>10, <1>12, RoundFitsOn
<1> QED
  BY <1>1, <1>5, <1>10, <1>11, <1>12, <1>13, <1>14, RecordsStay DEF storeVars, keyVars

(* A call goes on or ends, and the sync task's round with it.              *)
LEMMA CallMovesFits ==
  ASSUME TypeInv, NEW d \in Device, NEW w \in Way,
         TakeRefusal(d, w) \/ SaveVault(d, w) \/ ReloadKeys(d, w) \/ LoseRotation(d, w)
  PROVE  StepFits(d)
<1>1. UNCHANGED <<serverVars, user, storeVars, written, owing, unheard, blind, met>>
  BY DEF TakeRefusal, SaveVault, ReloadKeys, LoseRotation, keyVars, historyVars
<1>2. /\ round' = [e \in Device |-> round'[e]] /\ \A e \in Device \ {d} : round'[e] = round[e]
      /\ round'[d] \in {round[d], Idle}
  BY DEF TakeRefusal, SaveVault, ReloadKeys, LoseRotation, EndCall, TypeInv, Shapes
<1>3. /\ call' \in [Device -> [Way -> CallType]] /\ CallFits(d)'
      /\ listed' \in [Device -> 1..vaultKey]
      /\ \A e \in Device \ {d} : call'[e] = call[e]
  <2>1. CASE SaveVault(d, w)
    <3>1. call[d][w].at = "rotated" /\ call[d][w] \in CallType /\ call[d][w].key \in 1..vaultKey /\ CallFits(d)
      BY <2>1 DEF SaveVault, TypeInv, Shapes, CallType, NoCall, DeviceFits, CallFits
    <3>2. [call[d][w] EXCEPT !.at = "saved"] \in CallType
          /\ [call[d][w] EXCEPT !.at = "saved"].at = "saved" /\ [call[d][w] EXCEPT !.at = "saved"].key = call[d][w].key
      BY <3>1 DEF CallType, NoCall
    <3>3. call \in [Device -> [Way -> CallType]] /\ call' = [call EXCEPT ![d][w].at = "saved"]
      BY <2>1 DEF SaveVault, TypeInv, Shapes
    <3>4. /\ call'[d][w] = [call[d][w] EXCEPT !.at = "saved"]
          /\ \A u \in Way \ {w} : call'[d][u] = call[d][u]
          /\ \A e \in Device \ {d} : call'[e] = call[e]
      BY <3>3
    <3>5. call' \in [Device -> [Way -> CallType]]
      BY <3>2, <3>3
    <3>6. listed' \in [Device -> 1..vaultKey]
      BY <2>1, <3>1 DEF SaveVault, TypeInv, Shapes
    <3>7. vaultKey' = vaultKey
      BY <1>1 DEF serverVars
    <3> QED
      BY <3>1, <3>2, <3>4, <3>5, <3>6, <3>7 DEF CallFits
  <2>2. CASE ~SaveVault(d, w)
    <3>1. call' = [call EXCEPT ![d][w] = NoCall] /\ listed' = listed
      BY <2>2 DEF TakeRefusal, ReloadKeys, LoseRotation, EndCall, keyVars
    <3>2. NoCall \in CallType /\ call \in [Device -> [Way -> CallType]] /\ CallFits(d)
      BY DEF CallType, TypeInv, Shapes, DeviceFits
    <3>3. /\ call'[d][w] = NoCall /\ \A u \in Way \ {w} : call'[d][u] = call[d][u]
          /\ call' \in [Device -> [Way -> CallType]] /\ \A e \in Device \ {d} : call'[e] = call[e]
      BY <3>1, <3>2
    <3>4. vaultKey' = vaultKey /\ NoCall.at = "none"
      BY <1>1 DEF serverVars, NoCall
    <3>5. CallFits(d)'
      <4> SUFFICES ASSUME NEW u \in Way
                   PROVE  /\ call'[d][u].at = "sent" => call'[d][u].key <= vaultKey' + 1
                          /\ call'[d][u].at \in {"rotated", "saved"} => call'[d][u].key <= vaultKey'
        BY DEF CallFits
      <4>1. CASE u = w
        BY <3>3, <3>4, <4>1
      <4>2. CASE u # w
        BY <3>2, <3>3, <3>4, <4>2 DEF CallFits
      <4> QED
        BY <4>1, <4>2
    <3>6. listed' \in [Device -> 1..vaultKey]
      BY <3>1 DEF TypeInv, Shapes
    <3> QED
      BY <3>3, <3>5, <3>6
  <2> QED
    BY <2>1, <2>2
<1>4. /\ loaded' \in [Device -> 1..vaultKey] /\ target' \in [Device -> 0..(vaultKey + 1)] /\ crossed' \in BOOLEAN
      /\ \A e \in Device \ {d} : target'[e] = target[e]
  <2>1. /\ loaded \in [Device -> 1..vaultKey] /\ listed \in [Device -> 1..vaultKey]
        /\ target \in [Device -> 0..(vaultKey + 1)] /\ vaultKey \in Nat /\ crossed \in BOOLEAN
    BY DEF TypeInv, Shapes, HistoryTyped
  <2>2. loaded' = loaded \/ loaded' = [loaded EXCEPT ![d] = listed[d]]
    BY DEF TakeRefusal, SaveVault, ReloadKeys, LoseRotation, keyVars
  <2>3. loaded' \in [Device -> 1..vaultKey]
    BY <2>1, <2>2
  <2>4. target' = target \/ target' = [target EXCEPT ![d] = Cleared(d, call[d][w].key)]
    BY DEF TakeRefusal, SaveVault, ReloadKeys, LoseRotation, keyVars
  <2>5. Cleared(d, call[d][w].key) \in 0..(vaultKey + 1)
    BY <2>1 DEF Cleared
  <2>6. target' \in [Device -> 0..(vaultKey + 1)] /\ \A e \in Device \ {d} : target'[e] = target[e]
    BY <2>1, <2>4, <2>5
  <2>7. crossed' \in BOOLEAN
    BY <2>1 DEF TakeRefusal, SaveVault, ReloadKeys, LoseRotation, historyVars
  <2> QED
    BY <2>3, <2>6, <2>7
<1>5. Shapes' /\ HistoryTyped' /\ ServerGrows
  BY <1>1, <1>2, <1>3, <1>4, ServerStays DEF TypeInv, Shapes, HistoryTyped, serverVars, storeVars
<1>6. RoundFits(d)'
  <2>1. CASE round'[d] = round[d]
    BY <1>5, <2>1, RoundFitsOn
  <2>2. CASE round'[d] = Idle
    BY <2>2 DEF RoundFits, Idle, Clean
  <2> QED
    BY <1>2, <2>1, <2>2
<1> QED
  BY <1>1, <1>2, <1>3, <1>4, <1>5, <1>6, RecordsStay DEF Clean, Idle, storeVars

(* Faults.                                                                 *)
LEMMA FaultFits ==
  ASSUME TypeInv, NEW d \in Device, BreakRound(d) \/ FailToPrepare(d) \/ Restart(d)
  PROVE  StepFits(d)
<1>1. UNCHANGED <<serverVars, user, storeVars, listed, target, written, historyVars>>
  BY DEF BreakRound, FailToPrepare, Restart, keyVars
<1>2. /\ round' = [e \in Device |-> round'[e]] /\ \A e \in Device \ {d} : round'[e] = round[e]
      /\ round'[d].at \in {"idle", "send"}
  BY DEF BreakRound, FailToPrepare, Restart, Idle, TypeInv, Shapes
<1>3. /\ loaded' \in [Device -> 1..vaultKey] /\ call' \in [Device -> [Way -> CallType]]
      /\ \A e \in Device \ {d} : call'[e] = call[e]
      /\ call'[d] = call[d] \/ \A w \in Way : call'[d][w].at = "none"
  <2>1. CASE BreakRound(d) \/ FailToPrepare(d)
    BY <2>1 DEF BreakRound, FailToPrepare, keyVars, TypeInv, Shapes
  <2>2. CASE Restart(d)
    <3>1. NoCall \in CallType /\ NoCall.at = "none"
      BY DEF CallType, NoCall
    <3>2. call' = [call EXCEPT ![d] = [w \in Way |-> NoCall]] /\ loaded' = [loaded EXCEPT ![d] = listed[d]]
      BY <2>2 DEF Restart
    <3>3. /\ call \in [Device -> [Way -> CallType]]
          /\ loaded \in [Device -> 1..vaultKey] /\ listed \in [Device -> 1..vaultKey]
      BY DEF TypeInv, Shapes
    <3>4. loaded' \in [Device -> 1..vaultKey]
      BY <3>2, <3>3
    <3>5. [w \in Way |-> NoCall] \in [Way -> CallType]
      BY <3>1
    <3>6. /\ call' \in [Device -> [Way -> CallType]] /\ call'[d] = [w \in Way |-> NoCall]
          /\ \A e \in Device \ {d} : call'[e] = call[e]
      BY <3>2, <3>3, <3>5
    <3> QED
      BY <3>1, <3>4, <3>6
  <2> QED
    BY <2>1, <2>2
<1>4. Shapes' /\ HistoryTyped' /\ ServerGrows
  BY <1>1, <1>2, <1>3, ServerStays DEF TypeInv, Shapes, HistoryTyped, serverVars, storeVars, historyVars
<1>5. CallFits(d)'
  <2>1. CASE call'[d] = call[d]
    BY <1>4, <2>1, CallFitsOn DEF TypeInv, DeviceFits
  <2>2. CASE \A w \in Way : call'[d][w].at = "none"
    BY <2>2 DEF CallFits
  <2> QED
    BY <1>3, <2>1, <2>2
<1>6. RoundFits(d)'
  BY <1>2 DEF RoundFits, Clean
<1> QED
  BY <1>1, <1>2, <1>3, <1>4, <1>5, <1>6, RecordsStay DEF Clean, storeVars
-------------------------------------------------------------------------------
LEMMA TypedStep == TypeInv /\ [Next]_vars => TypeInv'
<1> SUFFICES ASSUME TypeInv, [Next]_vars PROVE TypeInv'
  OBVIOUS
<1>1. CASE Next
  <2>1. PICK d \in Device :
          \/ WriteStep(d) \/ RoundNext(d) \/ Rotate(d)
          \/ \E w \in Way : CallNext(d, w) \/ LoseRotation(d, w)
          \/ BreakRound(d) \/ FailToPrepare(d) \/ Restart(d)
    BY <1>1 DEF Next, WriteStep
  <2>2. StepFits(d)
    <3>1. CASE WriteStep(d)
      BY <3>1, WriteStepFits
    <3>2. CASE Prepare(d)
      BY <3>2, PrepareFits
    <3>3. CASE ListStale(d)
      BY <3>3, ListStaleFits
    <3>4. CASE WriteBatch(d)
      BY <3>4, WriteBatchFits
    <3>5. CASE ClearTarget(d)
      BY <3>5, ClearTargetFits
    <3>6. CASE Push(d)
      BY <3>6, PushFits
    <3>7. CASE TakeAnswer(d)
      BY <3>7, TakeAnswerFits
    <3>8. CASE PullVaults(d)
      BY <3>8, PullVaultsFits
    <3>9. CASE PullRows(d)
      BY <3>9, PullRowsFits
    <3>10. CASE Apply(d)
      BY <3>10, ApplyFits
    <3>11. CASE AcceptKey(d)
      BY <3>11, AcceptKeyFits
    <3>12. CASE Rotate(d) \/ RotateDue(d)
      BY <3>12, RotateFits
    <3>13. CASE \E w \in Way : CallNext(d, w) \/ LoseRotation(d, w)
      BY <3>13, HandleFits, CallMovesFits DEF CallNext
    <3>14. CASE BreakRound(d) \/ FailToPrepare(d) \/ Restart(d)
      BY <3>14, FaultFits
    <3> QED
      BY <2>1, <3>1, <3>2, <3>3, <3>4, <3>5, <3>6, <3>7, <3>8, <3>9, <3>10, <3>11, <3>12, <3>13, <3>14 DEF RoundNext
  <2> QED
    BY <2>2, TypedOn
<1>2. CASE UNCHANGED vars
  <2>1. UNCHANGED <<serverVars, user, storeVars, keyVars, round, call, written, historyVars>>
    BY <1>2 DEF vars
  <2>2. Shapes' /\ HistoryTyped' /\ ServerGrows
    BY <2>1, ServerStays DEF TypeInv, Shapes, HistoryTyped, serverVars, storeVars, keyVars, historyVars
  <2>3. \A d \in Device : Apart(d)
    BY <2>1 DEF Apart, storeVars, keyVars
  <2> QED
    BY <2>2, <2>3, ApartFits DEF TypeInv
<1> QED
  BY <1>1, <1>2

LEMMA AlwaysTyped == Spec => []TypeInv
<1>1. Init => TypeInv
  BY InitTyped
<1>2. TypeInv /\ [Next]_vars => TypeInv'
  BY TypedStep
<1> QED
  BY <1>1, <1>2, PTL DEF Spec
-------------------------------------------------------------------------------
(***************************************************************************)
(* Who still rewrites what is under an older key.                          *)
(***************************************************************************)
LEMMA InitAccounted == Init => RekeyInv
BY DEF Init, RekeyInv, Marked, Accounted, OnTheList, UnderOldKey, Newest, Version, Idle

(* A record that is under an older key after a step is covered then, or    *)
(* was under it and not covered before.                                    *)
CoverStays == \A r \in Record : UnderOldKey(r)' => Covered(r)' \/ (UnderOldKey(r) /\ ~Covered(r))

LEMMA CoverKept ==
  ASSUME UNCHANGED <<log, vaultKey, unheard>>,
         \A e \in Device, r \in Record : stored[e][r] < Len(pending[e][r]) => stored'[e][r] < Len(pending'[e][r])
  PROVE  CoverStays
<1> SUFFICES ASSUME NEW r \in Record, UnderOldKey(r)', Covered(r)
             PROVE  Covered(r)'
  BY DEF CoverStays, UnderOldKey, Newest
<1>1. CASE Unsent(r)
  BY <1>1 DEF Unsent, Covered
<1>2. CASE r \in unheard
  BY <1>2 DEF Covered
<1> QED
  BY <1>1, <1>2 DEF Covered

LogStays == \A r \in Record : \A i \in 1..Len(log[r]) : log'[r][i] = log[r][i]

LEMMA HeadStays ==
  ASSUME TypeInv, NEW e \in Device, NEW x, x.rec \in Record, LogStays, StillHead(e, x),
         pending'[e][x.rec] = pending[e][x.rec], synced'[e][x.rec] = synced[e][x.rec]
  PROVE  StillHead(e, x)'
<1> DEFINE r == x.rec
<1>1. HeadVersion(e, r)' = HeadVersion(e, r) /\ Has(e, r) /\ Has(e, r)'
  BY DEF HeadVersion, Has, StillHead, Live
<1>2. HeadOf(e, r)' = HeadOf(e, r)
  <2>1. CASE pending[e][r] # <<>>
    BY <2>1 DEF HeadOf
  <2>2. CASE pending[e][r] = <<>>
    <3>1. synced[e][r] \in 1..Len(log[r])
      <4>1. Len(pending[e][r]) = 0 /\ synced[e][r] \in Nat /\ Len(log[r]) \in Nat /\ synced[e][r] <= Len(log[r])
        BY <2>2, HeadTyped DEF TypeInv, DeviceFits, ChainFits
      <4> QED
        BY <1>1, <4>1 DEF Has, HeadVersion
    <3> QED
      BY <2>2, <3>1 DEF HeadOf, LogStays
  <2> QED
    BY <2>1, <2>2
<1> QED
  BY <1>1, <1>2 DEF StillHead, Live

(* A device's list stays good while it goes through its records, unless it *)
(* has something unsent on top of one.                                     *)
LEMMA ListOn ==
  ASSUME TypeInv, NEW e \in Device, OnTheList(e), CoverStays, vaultKey' = vaultKey, owing' = owing,
         round'[e] = round[e],
         \A r \in Record : Covered(r)' \/ \A x \in round[e].todo : x.rec = r /\ StillHead(e, x) => StillHead(e, x)'
  PROVE  OnTheList(e)'
<1> SUFFICES ASSUME round[e].at = "rewrite", owing = e, round[e].under = vaultKey,
                    NEW r \in Record, UnderOldKey(r)', ~Covered(r)'
             PROVE  \E x \in round[e].todo : x.rec = r /\ StillHead(e, x)'
  BY DEF OnTheList
<1>1. UnderOldKey(r) /\ ~Covered(r)
  BY DEF CoverStays
<1>2. PICK x \in round[e].todo : x.rec = r /\ StillHead(e, x)
  BY <1>1 DEF OnTheList
<1> QED
  BY <1>2

LEMMA OthersListed ==
  ASSUME TypeInv, NEW e \in Device, OnTheList(e), Apart(e), CoverStays, LogStays, vaultKey' = vaultKey, owing' = owing
  PROVE  OnTheList(e)'
<1>1. ASSUME round[e].at = "rewrite", NEW x \in round[e].todo, StillHead(e, x)
      PROVE  StillHead(e, x)'
  <2>1. x.rec \in Record
    BY <1>1 DEF TypeInv, DeviceFits, RoundFits, Rewriting
  <2> QED
    BY <1>1, <2>1, HeadStays DEF Apart
<1>2. CASE round[e].at = "rewrite"
  BY <1>1, <1>2, ListOn DEF Apart
<1>3. CASE round[e].at # "rewrite"
  BY <1>3 DEF OnTheList, Apart
<1> QED
  BY <1>2, <1>3

(* What each kind of step must show, rotations and the end of the list     *)
(* aside.                                                                  *)
LEMMA RekeyOn ==
  ASSUME TypeInv, RekeyInv, NEW d \in Device, StepFits(d), CoverStays, LogStays,
         vaultKey' = vaultKey, owing' = owing, Marked', OnTheList(d)'
  PROVE  RekeyInv'
<1>1. Accounted'
  BY DEF RekeyInv, Accounted, CoverStays
<1>2. \A e \in Device \ {d} : OnTheList(e)'
  BY OthersListed DEF RekeyInv, StepFits
<1> QED
  BY <1>1, <1>2 DEF RekeyInv

(* A step that leaves the records as they are.                             *)
LEMMA RekeyAsItWas ==
  ASSUME TypeInv, RekeyInv, NEW d \in Device, StepFits(d),
         UNCHANGED <<log, vaultKey, unheard, owing, pending, stored, synced>>,
         Marked', round'[d] = round[d] \/ round'[d].at # "rewrite"
  PROVE  RekeyInv'
<1>1. CoverStays
  BY CoverKept
<1>2. LogStays
  BY DEF LogStays
<1>3. OnTheList(d)'
  <2>1. CASE round'[d].at # "rewrite"
    BY <2>1 DEF OnTheList
  <2>2. CASE round'[d] = round[d] /\ round[d].at = "rewrite"
    <3>1. \A x \in round[d].todo : x.rec \in Record
      BY <2>2 DEF TypeInv, DeviceFits, RoundFits, Rewriting
    <3>2. \A x \in round[d].todo : StillHead(d, x) => StillHead(d, x)'
      BY <1>2, <3>1, HeadStays
    <3> QED
      BY <1>1, <2>2, <3>2, ListOn DEF RekeyInv
  <2> QED
    BY <2>1, <2>2
<1> QED
  BY <1>1, <1>2, <1>3, RekeyOn
-------------------------------------------------------------------------------
LEMMA MarkStays ==
  ASSUME RekeyInv, UNCHANGED <<owing, crossed, target>>
  PROVE  Marked'
BY DEF RekeyInv, Marked

LEMMA WriteKept ==
  ASSUME TypeInv, RekeyInv, NEW d \in Device, WriteStep(d)
  PROVE  RekeyInv'
<1>1. PICK r \in Record, v \in Keyed(vaultKey) : UserWrites(d, r, v)
  BY WriteIs
<1>2. UNCHANGED <<log, vaultKey, unheard, owing, crossed, target, stored, synced, round>>
  BY <1>1 DEF UserWrites, serverVars, keyVars, historyVars
<1>3. /\ Len(pending'[d][r]) = Len(pending[d][r]) + 1
      /\ \A q \in Record \ {r} : pending'[d][q] = pending[d][q]
      /\ \A e \in Device \ {d} : pending'[e] = pending[e]
  BY <1>1, AppendIs DEF UserWrites
<1>4. ASSUME NEW e \in Device, NEW q \in Record, stored[e][q] < Len(pending[e][q])
      PROVE  stored'[e][q] < Len(pending'[e][q])
  <2>1. CASE e = d /\ q = r
    BY <1>2, <1>3, <1>4, <2>1, HeadTyped
  <2>2. CASE e # d \/ q # r
    <3>1. pending'[e][q] = pending[e][q]
      BY <1>3, <2>2
    <3> QED
      BY <1>2, <1>4, <3>1
  <2> QED
    BY <2>1, <2>2
<1>5. CoverStays /\ LogStays
  BY <1>2, <1>4, CoverKept DEF LogStays
<1>6. Covered(r)'
  <2>1. stored[d][r] <= Len(pending[d][r]) /\ stored[d][r] \in Nat /\ Len(pending[d][r]) \in Nat
    BY HeadTyped DEF TypeInv, DeviceFits, ChainFits
  <2>2. stored'[d][r] < Len(pending'[d][r])
    BY <1>2, <1>3, <2>1
  <2> QED
    BY <2>2 DEF Covered, Unsent
<1>7. OnTheList(d)'
  <2>1. CASE round[d].at = "rewrite"
    <3>1. \A x \in round[d].todo : x.rec \in Record
      BY <2>1 DEF TypeInv, DeviceFits, RoundFits, Rewriting
    <3>2. \A q \in Record : Covered(q)' \/ \A x \in round[d].todo : x.rec = q /\ StillHead(d, x) => StillHead(d, x)'
      BY <1>2, <1>3, <1>5, <1>6, <3>1, HeadStays
    <3> QED
      BY <1>2, <1>5, <3>2, ListOn DEF RekeyInv
  <2>2. CASE round[d].at # "rewrite"
    BY <1>2, <2>2 DEF OnTheList
  <2> QED
    BY <2>1, <2>2
<1> QED
  BY <1>2, <1>5, <1>7, WriteStepFits, MarkStays, RekeyOn

(* Before a push: in place, so nothing becomes less.                       *)
LEMMA PrepareKept ==
  ASSUME TypeInv, RekeyInv, NEW d \in Device, Prepare(d)
  PROVE  RekeyInv'
<1>1. UNCHANGED <<log, vaultKey, unheard, owing, crossed, target, stored>>
  BY DEF Prepare, serverVars, keyVars, historyVars
<1>2. round'[d].at # "rewrite"
  BY DEF Prepare, TypeInv, Shapes
<1>3. \A e \in Device, r \in Record : Len(pending'[e][r]) = Len(pending[e][r])
  <2>1. CASE pending' = pending
    BY <2>1
  <2>2. CASE pending' = [pending EXCEPT ![d] = ReencryptPending(d)]
    BY <2>2, ReencryptIs, PendingIs
  <2> QED
    BY <2>1, <2>2 DEF Prepare
<1>4. CoverStays /\ LogStays
  BY <1>1, <1>3, CoverKept DEF LogStays
<1> QED
  BY <1>1, <1>2, <1>4, PrepareFits, MarkStays, RekeyOn DEF OnTheList

(* What is put on the list is all there is: of a record the device has     *)
(* heard everything of and waits with nothing, it has the newest version.  *)
LEMMA ListStaleKept ==
  ASSUME TypeInv, RekeyInv, NEW d \in Device, ListStale(d)
  PROVE  RekeyInv'
<1>1. UNCHANGED <<serverVars, storeVars, keyVars, owing, crossed>>
  BY DEF ListStale
<1>2. UNCHANGED <<log, vaultKey, target, stored, pending, synced>>
  BY <1>1 DEF serverVars, storeVars, keyVars
<1>3. Marked'
  BY <1>1, <1>2, MarkStays
<1>4. CASE owing # d \/ ~MayRewrite(d)
  <2>1. unheard' = unheard
    BY <1>4 DEF ListStale
  <2>2. CoverStays /\ LogStays
    BY <1>2, <2>1, CoverKept DEF LogStays
  <2>3. OnTheList(d)'
    BY <1>1, <1>4 DEF OnTheList, ListStale, TypeInv, Shapes
  <2> QED
    BY <1>1, <1>2, <1>3, <2>2, <2>3, ListStaleFits, RekeyOn
<1>5. CASE owing = d /\ MayRewrite(d)
  <2>1. /\ unheard' = Unheard(d)
        /\ round'[d] = [at |-> "rewrite", tasks |-> round[d].tasks, goal |-> target[d], under |-> listed[d],
                    todo |-> Stale(d)]
    BY <1>5 DEF ListStale, TypeInv, Shapes
  <2>2. OnTheList(d)'
    <3> SUFFICES ASSUME listed[d] = vaultKey, NEW r \in Record, UnderOldKey(r), ~Covered(r)'
                 PROVE  \E x \in Stale(d) : x.rec = r /\ StillHead(d, x)'
      BY <1>2, <2>1 DEF OnTheList, UnderOldKey, Newest
    <3>1. listed[d] = vaultKey
      BY <1>5 DEF MayRewrite, TypeInv, Shapes
    <3>2. /\ Len(log[r]) \in Nat /\ Len(pending[d][r]) \in Nat /\ stored[d][r] \in Nat /\ synced[d][r] \in Nat
          /\ log[r] \in Seq(Keyed(vaultKey)) /\ pending[d][r] \in Seq(Keyed(vaultKey)) /\ ChainFits(d, r)
      BY HeadTyped DEF TypeInv, DeviceFits
    <3>3. synced[d][r] = Len(log[r])
      BY <2>1 DEF Covered, Unheard
    <3>4. ~(stored[d][r] < Len(pending[d][r]))
      BY <1>2 DEF Covered, Unsent
    <3>5. stored[d][r] = 0 /\ Len(pending[d][r]) = 0
      BY <3>2, <3>3, <3>4 DEF ChainFits
    <3>6. pending[d][r] = <<>> /\ Len(log[r]) # 0
      BY <3>2, <3>5, EmptySeq DEF UnderOldKey
    <3>7. HeadOf(d, r) = Newest(r) /\ Live(d, r)
      BY <3>2, <3>3, <3>5, <3>6 DEF HeadOf, Newest, Live, Has, HeadVersion, UnderOldKey
    <3>8. HeadOf(d, r).key < listed[d]
      BY <3>1, <3>7 DEF UnderOldKey
    <3>9. PICK x \in Stale(d) : x.rec = r /\ x.ver = HeadVersion(d, r)
      <4> DEFINE y == [rec |-> r, ver |-> HeadVersion(d, r), new |-> Reencrypt(d, HeadOf(d, r))]
      <4>1. y \in Stale(d)
        BY <3>7, <3>8 DEF Stale
      <4>2. y.rec = r /\ y.ver = HeadVersion(d, r)
        OBVIOUS
      <4> QED
        BY <4>1, <4>2, Zenon
    <3>10. StillHead(d, x)
      BY <3>7, <3>9 DEF StillHead
    <3>11. StillHead(d, x)'
      BY <1>2, <3>9, <3>10, HeadStays DEF LogStays
    <3> QED
      BY <3>9, <3>11
  <2>3. Accounted'
    BY <1>1, <1>5, RekeyAssumption DEF Accounted
  <2>4. \A e \in Device \ {d} : OnTheList(e)'
    BY <1>1, <1>5 DEF OnTheList
  <2> QED
    BY <1>3, <2>2, <2>3, <2>4 DEF RekeyInv
<1> QED
  BY <1>4, <1>5

(* What a batch leaves is still on the list, what it writes waits.         *)
LEMMA WriteBatchKept ==
  ASSUME TypeInv, RekeyInv, NEW d \in Device, WriteBatch(d)
  PROVE  RekeyInv'
<1>1. UNCHANGED <<log, vaultKey, unheard, owing, crossed, target, stored, synced>> /\ round[d].at = "rewrite"
  BY DEF WriteBatch, serverVars, keyVars, historyVars
<1>2. PICK batch \in SUBSET round[d].todo :
        /\ BatchTop(d, batch) \in [Record -> Seq(Keyed(vaultKey))]
        /\ \A r \in Record : BatchTop(d, batch)[r] # <<>> => ~BatchTop(d, batch)[r][1].deleted
        /\ pending' = [pending EXCEPT ![d] = [r \in Record |-> pending[d][r] \o BatchTop(d, batch)[r]]]
        /\ round' = [round EXCEPT ![d].todo = @ \ batch]
  BY BatchIs
<1>3. /\ \A e \in Device \ {d} : pending'[e] = pending[e]
      /\ \A r \in Record : /\ pending'[d][r] = pending[d][r] \o BatchTop(d, batch)[r]
                           /\ Len(pending'[d][r]) = Len(pending[d][r]) + Len(BatchTop(d, batch)[r])
  BY <1>2, OnTopIs
<1>4. \A r \in Record : /\ Len(BatchTop(d, batch)[r]) \in Nat /\ Len(pending[d][r]) \in Nat
                        /\ stored[d][r] \in Nat /\ stored[d][r] <= Len(pending[d][r])
  BY <1>2, HeadTyped, LenProperties DEF TypeInv, DeviceFits, ChainFits
<1>5. ASSUME NEW e \in Device, NEW r \in Record, stored[e][r] < Len(pending[e][r])
      PROVE  stored'[e][r] < Len(pending'[e][r])
  <2>1. CASE e = d
    <3>1. Len(pending'[d][r]) = Len(pending[d][r]) + Len(BatchTop(d, batch)[r])
      BY <1>3
    <3>2. stored'[d][r] = stored[d][r] /\ Len(BatchTop(d, batch)[r]) \in Nat /\ Len(pending[d][r]) \in Nat /\ stored[d][r] \in Nat
      BY <1>1, <1>4
    <3> DEFINE more == Len(BatchTop(d, batch)[r])
               now == Len(pending'[d][r])
    <3>3. /\ now = Len(pending[d][r]) + more /\ more \in Nat /\ Len(pending[d][r]) \in Nat
          /\ stored[d][r] \in Nat /\ stored[d][r] < Len(pending[d][r])
      BY <1>5, <2>1, <3>1, <3>2, Zenon
    <3> HIDE DEF more, now
    <3>4. stored[d][r] < now
      BY <3>3
    <3> QED
      BY <2>1, <3>2, <3>4 DEF now
  <2>2. CASE e # d
    BY <1>1, <1>3, <1>5, <2>2
  <2> QED
    BY <2>1, <2>2
<1>6. CoverStays /\ LogStays
  BY <1>1, <1>5, CoverKept DEF LogStays
<1>7. OnTheList(d)'
  <2>1. /\ round'[d].at = "rewrite" /\ round'[d].under = round[d].under
        /\ round'[d].todo = round[d].todo \ batch /\ Rewriting(d)
    BY <1>1, <1>2 DEF TypeInv, Shapes, DeviceFits, RoundFits, Rewriting
  <2> SUFFICES ASSUME owing = d, round[d].under = vaultKey, NEW r \in Record, UnderOldKey(r)', ~Covered(r)'
               PROVE  \E x \in round[d].todo \ batch : x.rec = r /\ StillHead(d, x)'
    BY <1>1, <2>1 DEF OnTheList
  <2>2. UnderOldKey(r) /\ ~Covered(r)
    BY <1>6 DEF CoverStays
  <2>3. PICK x \in round[d].todo : x.rec = r /\ StillHead(d, x)
    BY <1>1, <2>2 DEF RekeyInv, OnTheList
  <2>4. Len(BatchTop(d, batch)[r]) = 0
    <3>1. ~(stored'[d][r] < Len(pending'[d][r]))
      BY DEF Covered, Unsent
    <3>2. Len(pending'[d][r]) = Len(pending[d][r]) + Len(BatchTop(d, batch)[r])
      BY <1>3
    <3>3. /\ stored'[d][r] = stored[d][r] /\ Len(BatchTop(d, batch)[r]) \in Nat /\ Len(pending[d][r]) \in Nat
          /\ stored[d][r] \in Nat /\ stored[d][r] <= Len(pending[d][r])
      BY <1>1, <1>4
    <3> DEFINE more == Len(BatchTop(d, batch)[r])
               now == Len(pending'[d][r])
    <3>4. /\ now = Len(pending[d][r]) + more /\ more \in Nat /\ Len(pending[d][r]) \in Nat
          /\ stored[d][r] \in Nat /\ stored[d][r] <= Len(pending[d][r]) /\ ~(stored[d][r] < now)
      BY <3>1, <3>2, <3>3, Zenon
    <3> HIDE DEF more, now
    <3>5. more = 0
      BY <3>4
    <3> QED
      BY <3>5 DEF more
  <2>5. x \notin batch
    <3> SUFFICES ASSUME x \in batch PROVE FALSE
      OBVIOUS
    <3> DEFINE new == (CHOOSE y \in batch : y.rec = r).new
    <3>1. BatchTop(d, batch)[r] = <<new>>
      BY <2>3 DEF BatchTop
    <3> HIDE DEF new
    <3>2. Len(<<new>>) = 1
      OBVIOUS
    <3> QED
      BY <2>4, <3>1, <3>2
  <2>6. pending'[d][r] = pending[d][r]
    <3>1. BatchTop(d, batch)[r] = <<>> /\ pending[d][r] \in Seq(Keyed(vaultKey))
      BY <1>2, <2>4, EmptySeq, HeadTyped
    <3> QED
      BY <1>3, <3>1, ConcatEmptySeq
  <2>7. StillHead(d, x)'
    BY <1>1, <1>6, <2>3, <2>6, HeadStays
  <2> QED
    BY <2>3, <2>5, <2>7
<1> QED
  BY <1>1, <1>6, <1>7, WriteBatchFits, MarkStays, RekeyOn

(* The marker goes when all that was on the list waits or is done.         *)
LEMMA ClearTargetKept ==
  ASSUME TypeInv, RekeyInv, NEW d \in Device, ClearTarget(d)
  PROVE  RekeyInv'
<1>1. UNCHANGED <<log, vaultKey, unheard, stored, pending, synced>> /\ round[d].at = "rewrite" /\ round[d].todo = {}
  BY DEF ClearTarget, serverVars, storeVars
<1>2. round'[d].at # "rewrite"
  BY DEF ClearTarget, TypeInv, Shapes
<1> DEFINE gone == owing = d /\ target'[d] # target[d]
           older == round[d].goal < vaultKey /\ round[d].under < vaultKey
<1>3. /\ owing' = IF gone /\ ~older THEN Nobody ELSE owing
      /\ crossed' = (crossed \/ (gone /\ older))
      /\ \A e \in Device \ {d} : target'[e] = target[e]
  BY DEF ClearTarget, TypeInv, Shapes
<1>4. Marked'
  <2>1. CASE gone
    BY <1>3, <2>1 DEF Marked
  <2>2. CASE ~gone
    BY <1>3, <2>2 DEF Marked, RekeyInv, TypeInv, HistoryTyped
  <2> QED
    BY <2>1, <2>2
<1>5. CASE ~(gone /\ ~older)
  BY <1>1, <1>2, <1>3, <1>4, <1>5, ClearTargetFits, RekeyAsItWas
<1>6. CASE gone /\ ~older
  <2>0. round[d].under = vaultKey
    BY <1>1, <1>6 DEF TypeInv, DeviceFits, RoundFits, Rewriting, Shapes
  <2>1. \A r \in Record : UnderOldKey(r) => Covered(r)
    BY <1>1, <1>6, <2>0 DEF RekeyInv, OnTheList
  <2>2. CoverStays
    BY <1>1, CoverKept
  <2>3. Accounted'
    BY <2>1, <2>2 DEF Accounted, CoverStays
  <2>4. \A e \in Device : OnTheList(e)'
    BY <1>3, <1>6, RekeyAssumption DEF OnTheList
  <2> QED
    BY <1>4, <2>3, <2>4 DEF RekeyInv
<1> QED
  BY <1>5, <1>6

(* A chain the server takes leaves the record under the current key, or    *)
(* deleted; one it doesn't take still waits.                               *)
LEMMA PushKept ==
  ASSUME TypeInv, RekeyInv, NEW d \in Device, Push(d)
  PROVE  RekeyInv'
<1>1. UNCHANGED <<vaultKey, unheard, owing, crossed, target, pending, synced>> /\ round[d].at = "send"
  BY DEF Push, keyVars, historyVars
<1>2. round'[d].at # "rewrite"
  <2>1. round'[d].at \in {"pull", "idle", "tasks", "answered"}
    BY AfterPushIs DEF Push, TypeInv, Shapes
  <2> QED
    BY <2>1
<1>3. /\ \A r \in Record \ Taken(d) : log'[r] = log[r] /\ stored'[d][r] = stored[d][r]
      /\ \A r \in Taken(d) :
           /\ stored'[d][r] = Len(pending[d][r])
           /\ Len(log'[r]) = Len(log[r]) + Len(Unstored(d, r))
           /\ \A i \in 1..Len(log[r]) : log'[r][i] = log[r][i]
           /\ Unstored(d, r) # <<>> =>
                /\ Newest(r)'.deleted = Last(Unstored(d, r)).deleted
                /\ ~Newest(r)'.deleted => Newest(r)' = Last(Unstored(d, r))
      /\ \A e \in Device \ {d} : stored'[e] = stored[e]
  BY PushIs
<1>4. LogStays
  BY <1>3 DEF LogStays
<1>5. ASSUME NEW r \in Record, UnderOldKey(r)'
      PROVE  UnderOldKey(r) /\ \A e \in Device : stored[e][r] < Len(pending[e][r]) => stored'[e][r] < Len(pending'[e][r])
  <2>1. /\ Unstored(d, r) \in Seq(Keyed(vaultKey)) /\ Len(Unstored(d, r)) = Len(pending[d][r]) - stored[d][r]
        /\ Len(log[r]) \in Nat /\ Len(pending[d][r]) \in Nat /\ stored[d][r] \in Nat /\ log[r] \in Seq(Keyed(vaultKey))
    BY UnstoredIs, HeadTyped
  <2>2. CASE r \notin Taken(d)
    <3>1. log'[r] = log[r] /\ stored'[d][r] = stored[d][r]
      BY <1>3, <2>2
    <3> QED
      BY <1>1, <1>3, <1>5, <3>1 DEF UnderOldKey, Newest
  <2>3. CASE r \in Taken(d) /\ Unstored(d, r) = <<>>
    <3>1. Len(Unstored(d, r)) = 0 /\ stored[d][r] = Len(pending[d][r])
      BY <2>1, <2>3
    <3>2. Len(log'[r]) = Len(log[r]) /\ \A i \in 1..Len(log[r]) : log'[r][i] = log[r][i]
      BY <1>3, <2>1, <2>3, <3>1
    <3>3. Len(log[r]) # 0
      <4>1. Shapes' /\ log'[r] # <<>>
        BY <1>5, PushFits DEF StepFits, UnderOldKey
      <4>2. log'[r] \in Seq(Keyed(vaultKey'))
        BY <4>1 DEF Shapes
      <4> QED
        BY <3>2, <4>1, <4>2, EmptySeq
    <3>4. Newest(r)' = Newest(r) /\ log[r] # <<>>
      BY <2>1, <3>2, <3>3 DEF Newest
    <3> QED
      BY <1>1, <1>3, <1>5, <2>1, <3>1, <3>4 DEF UnderOldKey
  <2>4. CASE r \in Taken(d) /\ Unstored(d, r) # <<>>
    <3>1. /\ Newest(r)'.deleted = Last(Unstored(d, r)).deleted
          /\ ~Newest(r)'.deleted => Newest(r)' = Last(Unstored(d, r))
      BY <1>3, <2>4
    <3>2. Last(Unstored(d, r)) \in ToSet(Unstored(d, r))
      <4>1. Len(Unstored(d, r)) \in DOMAIN Unstored(d, r)
        BY <2>1, <2>4, EmptySeq
      <4> QED
        BY <4>1 DEF Last, ToSet
    <3>3. Last(Unstored(d, r)).deleted \/ Last(Unstored(d, r)).key = vaultKey
      BY <2>4, <3>2 DEF Taken, Accepts
    <3>4. vaultKey \in Nat
      BY DEF TypeInv, Shapes
    <3> QED
      BY <1>1, <1>5, <3>1, <3>3, <3>4 DEF UnderOldKey
  <2> QED
    BY <2>2, <2>3, <2>4
<1>6. CoverStays
  BY <1>1, <1>5 DEF CoverStays, Covered, Unsent
<1> QED
  BY <1>1, <1>2, <1>4, <1>6, PushFits, MarkStays, RekeyOn DEF OnTheList

LEMMA TakeAnswerKept ==
  ASSUME TypeInv, RekeyInv, NEW d \in Device, TakeAnswer(d)
  PROVE  RekeyInv'
<1>1. UNCHANGED <<log, vaultKey, unheard, owing, crossed, target>>
  BY DEF TakeAnswer, serverVars, keyVars, historyVars
<1>2. round'[d].at # "rewrite"
  <2>1. round'[d] = AfterPush(d, round[d].failed)
    BY DEF TakeAnswer, TypeInv, Shapes
  <2> QED
    BY <2>1, AfterPushIs
<1>3. StepFits(d) /\ \A r \in Record : pending'[d][r] = Unstored(d, r) /\ stored'[d][r] = 0
  BY TakeAnswerFits
<1>4. ASSUME NEW e \in Device, NEW r \in Record, stored[e][r] < Len(pending[e][r])
      PROVE  stored'[e][r] < Len(pending'[e][r])
  <2>1. CASE e = d
    <3>1. /\ Len(pending'[d][r]) = Len(pending[d][r]) - stored[d][r] /\ stored'[d][r] = 0
          /\ Len(pending[d][r]) \in Nat /\ stored[d][r] \in Nat
      BY <1>3, UnstoredIs, HeadTyped
    <3> QED
      BY <1>4, <2>1, <3>1
  <2>2. CASE e # d
    BY <1>3, <1>4, <2>2 DEF StepFits, Apart
  <2> QED
    BY <2>1, <2>2
<1>5. CoverStays /\ LogStays
  BY <1>1, <1>4, CoverKept DEF LogStays
<1> QED
  BY <1>1, <1>2, <1>3, <1>5, MarkStays, RekeyOn DEF OnTheList

LEMMA ApplyKept ==
  ASSUME TypeInv, RekeyInv, NEW d \in Device, Apply(d)
  PROVE  RekeyInv'
<1>1. UNCHANGED <<log, vaultKey, unheard, owing, crossed, target, stored>>
  BY DEF Apply, serverVars
<1>2. round'[d].at # "rewrite"
  BY DEF Apply, WithTasks, Idle, TypeInv, Shapes
<1>3. /\ \A e \in Device \ {d} : pending'[e] = pending[e]
      /\ \A r \in Record : Longer(d, r)
  BY PageIs, OnTopIs
<1>4. ASSUME NEW e \in Device, NEW r \in Record, stored[e][r] < Len(pending[e][r])
      PROVE  stored'[e][r] < Len(pending'[e][r])
  <2>1. CASE e = d
    <3>1. Len(pending[d][r]) <= Len(pending'[d][r]) /\ stored[d][r] \in Nat /\ Len(pending[d][r]) \in Nat
      BY <1>3, HeadTyped DEF Longer
    <3>2. Len(pending'[d][r]) \in Nat
      BY ApplyFits, LenProperties DEF StepFits, Shapes
    <3> QED
      BY <1>1, <1>4, <2>1, <3>1, <3>2
  <2>2. CASE e # d
    BY <1>1, <1>3, <1>4, <2>2
  <2> QED
    BY <2>1, <2>2
<1>5. CoverStays /\ LogStays
  BY <1>1, <1>4, CoverKept DEF LogStays
<1> QED
  BY <1>1, <1>2, <1>5, ApplyFits, MarkStays, RekeyOn DEF OnTheList

LEMMA RoundKept ==
  ASSUME TypeInv, RekeyInv, NEW d \in Device, PullVaults(d) \/ PullRows(d) \/ AcceptKey(d)
  PROVE  RekeyInv'
<1>1. UNCHANGED <<log, vaultKey, unheard, owing, crossed, target, pending, stored, synced>>
  BY DEF PullVaults, PullRows, AcceptKey, serverVars, storeVars, keyVars, historyVars
<1>2. round'[d].at # "rewrite"
  BY DEF PullVaults, PullRows, AcceptKey, WithTasks, Idle, TypeInv, Shapes
<1>3. StepFits(d)
  BY PullVaultsFits, PullRowsFits, AcceptKeyFits
<1> QED
  BY <1>1, <1>2, <1>3, MarkStays, RekeyAsItWas

(* Notes a marker, whatever there was.                                     *)
LEMMA RotateKept ==
  ASSUME TypeInv, RekeyInv, NEW d \in Device, Rotate(d) \/ RotateDue(d)
  PROVE  RekeyInv'
<1>1. UNCHANGED <<log, vaultKey, unheard, owing, crossed, pending, stored, synced>>
      /\ target' = [target EXCEPT ![d] = loaded[d] + 1]
  BY DEF Rotate, RotateDue, StartRotation, serverVars, storeVars, historyVars
<1>2. round'[d] = round[d] \/ round'[d].at # "rewrite"
  BY DEF Rotate, RotateDue, TypeInv, Shapes
<1>3. Marked'
  BY <1>1 DEF Marked, RekeyInv, TypeInv, Shapes, HistoryTyped
<1> QED
  BY <1>1, <1>2, <1>3, RotateFits, RekeyAsItWas

(* A new key: its device has the marker it noted before it asked, and no   *)
(* device goes through its records for this one yet.                       *)
LEMMA HandleKept ==
  ASSUME TypeInv, RekeyInv, NEW d \in Device, NEW w \in Way, HandleRotation(d, w)
  PROVE  RekeyInv'
<1>1. UNCHANGED <<log, target, pending, stored, synced, round>>
  BY DEF HandleRotation, storeVars, keyVars
<1>2. CASE MayRotate(user[d], call[d][w].key)
  <2>1. owing' = d /\ vaultKey' = call[d][w].key /\ crossed' = (target[d] # call[d][w].key)
    BY <1>2 DEF HandleRotation
  <2>2. call[d][w].key \in Nat \ {0} /\ vaultKey \in Nat /\ vaultKey' = vaultKey + 1
    BY <1>2, <2>1 DEF HandleRotation, MayRotate, TypeInv, Shapes, CallType, NoCall
  <2>3. Marked'
    BY <1>1, <2>1, <2>2 DEF Marked
  <2>4. Accounted'
    BY <2>1, RekeyAssumption DEF Accounted
  <2>5. \A e \in Device : OnTheList(e)'
    <3> SUFFICES ASSUME NEW e \in Device, round[e].at = "rewrite" PROVE round[e].under # vaultKey'
      BY <1>1 DEF OnTheList
    <3>1. round[e].under \in 1..vaultKey
      BY DEF TypeInv, DeviceFits, RoundFits, Rewriting
    <3> QED
      BY <2>2, <3>1
  <2> QED
    BY <2>3, <2>4, <2>5 DEF RekeyInv
<1>3. CASE ~MayRotate(user[d], call[d][w].key)
  <2>1. UNCHANGED <<vaultKey, owing, crossed, unheard>>
    BY <1>3 DEF HandleRotation
  <2> QED
    BY <1>1, <2>1, HandleFits, MarkStays, RekeyAsItWas
<1> QED
  BY <1>2, <1>3

LEMMA CallKept ==
  ASSUME TypeInv, RekeyInv, NEW d \in Device, NEW w \in Way,
         TakeRefusal(d, w) \/ SaveVault(d, w) \/ ReloadKeys(d, w) \/ LoseRotation(d, w)
  PROVE  RekeyInv'
<1>1. UNCHANGED <<log, vaultKey, unheard, owing, pending, stored, synced>>
  BY DEF TakeRefusal, SaveVault, ReloadKeys, LoseRotation, serverVars, storeVars, historyVars
<1>2. round'[d] = round[d] \/ round'[d].at # "rewrite"
  BY DEF TakeRefusal, SaveVault, ReloadKeys, LoseRotation, EndCall, Idle, TypeInv, Shapes
<1>3. Marked'
  <2>1. CASE TakeRefusal(d, w)
    <3>1. /\ target' = [target EXCEPT ![d] = Cleared(d, call[d][w].key)]
          /\ crossed' = (crossed \/ (owing = d /\ target'[d] # target[d]))
      BY <2>1 DEF TakeRefusal
    <3>2. \A e \in Device \ {d} : target'[e] = target[e]
      BY <3>1 DEF TypeInv, Shapes
    <3> QED
      BY <1>1, <3>1, <3>2 DEF Marked, RekeyInv, TypeInv, HistoryTyped
  <2>2. CASE ~TakeRefusal(d, w)
    BY <2>2, MarkStays DEF SaveVault, ReloadKeys, LoseRotation, keyVars, historyVars
  <2> QED
    BY <2>1, <2>2
<1> QED
  BY <1>1, <1>2, <1>3, CallMovesFits, RekeyAsItWas

LEMMA FaultKept ==
  ASSUME TypeInv, RekeyInv, NEW d \in Device, BreakRound(d) \/ FailToPrepare(d) \/ Restart(d)
  PROVE  RekeyInv'
<1>1. UNCHANGED <<log, vaultKey, unheard, owing, crossed, target, pending, stored, synced>>
  BY DEF BreakRound, FailToPrepare, Restart, serverVars, storeVars, keyVars, historyVars
<1>2. round'[d].at # "rewrite"
  BY DEF BreakRound, FailToPrepare, Restart, Idle, TypeInv, Shapes
<1> QED
  BY <1>1, <1>2, FaultFits, MarkStays, RekeyAsItWas
-------------------------------------------------------------------------------
LEMMA RekeyStep == TypeInv /\ RekeyInv /\ [Next]_vars => RekeyInv'
<1> SUFFICES ASSUME TypeInv, RekeyInv, [Next]_vars PROVE RekeyInv'
  OBVIOUS
<1>1. ASSUME NEW d \in Device, WriteStep(d) PROVE RekeyInv'
  BY <1>1, WriteKept
<1>2. ASSUME NEW d \in Device, RoundNext(d) PROVE RekeyInv'
  <2>1. CASE Prepare(d)
    BY <2>1, PrepareKept
  <2>2. CASE ListStale(d)
    BY <2>2, ListStaleKept
  <2>3. CASE WriteBatch(d)
    BY <2>3, WriteBatchKept
  <2>4. CASE ClearTarget(d)
    BY <2>4, ClearTargetKept
  <2>5. CASE Push(d)
    BY <2>5, PushKept
  <2>6. CASE TakeAnswer(d)
    BY <2>6, TakeAnswerKept
  <2>7. CASE PullVaults(d) \/ PullRows(d) \/ AcceptKey(d)
    BY <2>7, RoundKept
  <2>8. CASE Apply(d)
    BY <2>8, ApplyKept
  <2>9. CASE RotateDue(d)
    BY <2>9, RotateKept
  <2> QED
    BY <1>2, <2>1, <2>2, <2>3, <2>4, <2>5, <2>6, <2>7, <2>8, <2>9 DEF RoundNext
<1>3. ASSUME NEW d \in Device, Rotate(d) PROVE RekeyInv'
  BY <1>3, RotateKept
<1>4. ASSUME NEW d \in Device, NEW w \in Way, CallNext(d, w) \/ LoseRotation(d, w) PROVE RekeyInv'
  BY <1>4, HandleKept, CallKept DEF CallNext
<1>5. ASSUME NEW d \in Device, BreakRound(d) \/ FailToPrepare(d) \/ Restart(d) PROVE RekeyInv'
  BY <1>5, FaultKept
<1>6. CASE UNCHANGED vars
  <2>1. UNCHANGED <<log, vaultKey, unheard, owing, crossed, target, pending, stored, synced, round>>
    BY <1>6 DEF vars, serverVars, storeVars, keyVars, historyVars
  <2> QED
    BY <2>1 DEF RekeyInv, Marked, Accounted, OnTheList, UnderOldKey, Newest, Covered, Unsent, StillHead, Live, Has,
                HeadVersion, HeadOf
<1> QED
  BY <1>1, <1>2, <1>3, <1>4, <1>5, <1>6 DEF Next, WriteStep

LEMMA TypeOKFollows == TypeInv => TypeOK
<1> SUFFICES ASSUME TypeInv PROVE TypeOK
  OBVIOUS
<1>1. ASSUME NEW r \in Record, NEW i \in DOMAIN log[r] PROVE log[r][i].key \in 1..vaultKey
  <2>1. log[r] \in Seq(Keyed(vaultKey))
    BY DEF TypeInv, Shapes
  <2>2. i \in 1..Len(log[r])
    BY <2>1, LenProperties
  <2>3. log[r][i] \in Keyed(vaultKey)
    BY <2>1, <2>2, ElementOfSeq
  <2> QED
    BY <2>3 DEF Keyed
<1>2. ASSUME NEW d \in Device, NEW r \in Record
      PROVE  /\ synced[d][r] \in 0..Len(log[r]) /\ stored[d][r] \in 0..Len(pending[d][r])
             /\ stored[d][r] > 0 => synced[d][r] + stored[d][r] <= Len(log[r])
  <2>1. /\ Len(log[r]) \in Nat /\ Len(pending[d][r]) \in Nat /\ synced[d][r] \in Nat /\ stored[d][r] \in Nat
        /\ ChainFits(d, r)
    BY HeadTyped DEF TypeInv, DeviceFits
  <2> QED
    BY <2>1 DEF ChainFits
<1>3. /\ needed \in BOOLEAN
      /\ \A u \in User : wrap[u] \in 1..vaultKey /\ seal[u] \in 0..vaultKey
      /\ \A d \in Device : {listed[d], loaded[d]} \subseteq 1..vaultKey /\ target[d] \in 0..(vaultKey + 1)
  BY DEF TypeInv, Shapes
<1> QED
  BY <1>1, <1>2, <1>3 DEF TypeOK, TypeInv, HistoryTyped

(* However rotations, rounds, edits, faults and restarts meet, a live      *)
(* record under an older key than the vault's is still to be rewritten: by *)
(* the device whose rotation it was, which has its marker, or by a change  *)
(* that waits (rotateVault, reencryptRotatedVaults).                       *)
THEOREM OldKeys == Spec => []OldKeysAreAccountedFor
<1>1. Init => RekeyInv
  BY InitAccounted
<1>2. TypeInv /\ RekeyInv /\ [Next]_vars => RekeyInv'
  BY RekeyStep
<1>3. TypeInv /\ RekeyInv => OldKeysAreAccountedFor
  <2> SUFFICES ASSUME TypeInv, RekeyInv, NEW r \in Record, UnderOldKey(r)
               PROVE  \/ Waits(r)
                      \/ owing # Nobody /\ (target[owing] # 0 \/ crossed)
                      \/ owing = Nobody /\ r \in unheard
    BY TypeOKFollows DEF OldKeysAreAccountedFor
  <2>1. Unsent(r) => Waits(r)
    <3> SUFFICES ASSUME NEW d \in Device, stored[d][r] < Len(pending[d][r]) PROVE pending[d][r] # <<>>
      BY DEF Unsent, Waits
    <3>1. stored[d][r] \in Nat
      BY HeadTyped
    <3>2. Len(pending[d][r]) # 0
      BY <3>1, HeadTyped
    <3> QED
      BY <3>2
  <2> QED
    BY <2>1 DEF RekeyInv, Marked, Accounted, Covered
<1> QED
  BY <1>1, <1>2, <1>3, AlwaysTyped, PTL DEF Spec
===============================================================================
