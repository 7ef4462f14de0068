-------------------------- MODULE VaultSharing_proofs --------------------------
(***************************************************************************)
(* Proofs about VaultSharing, for any users, requests and roles.           *)
(***************************************************************************)
EXTENDS VaultSharing, TLAPS

(***************************************************************************)
(* What requests hold between their statements.                            *)
(***************************************************************************)
UnderLock == {"locked", "sealing", "put", "own", "handing", "dropping"}

Holds(r) ==
  /\ req[r] # NoReq /\ req[r].at \in UnderLock => vaultLock = r
  /\ req[r] # NoReq /\ req[r].at # "sealing" => req[r].sealed = {} /\ req[r].half = NoUser
  /\ At(r, "accept", "written") =>
       rowLock[req[r].user] = r /\ req[r].user \in Members /\ member[req[r].user].seal = req[r].ver
  /\ At(r, "decline", "written") => rowLock[req[r].user] = r
  /\ At(r, "push", "put") => req[r].ver = keyVersion
  /\ Sealing(r) =>
       /\ req[r].ver = keyVersion + 1
       /\ req[r].user \notin req[r].others
       /\ req[r].half \in req[r].todo \cup {NoUser}
       /\ req[r].todo \subseteq req[r].others /\ req[r].sealed \subseteq req[r].others
       /\ \A m \in {req[r].user} \cup req[r].sealed : rowLock[m] = r /\ m \in Members
       /\ Members \ {req[r].user} \subseteq req[r].others
       /\ req[r].others \subseteq Members \/ gone # {}

SharingInv == TypeOK /\ \A r \in Request : Holds(r)

(* The variables no request waits for.                                     *)
RestTyped ==
  /\ keyVersion \in Nat \ {0} /\ metaKey \in Nat /\ keyRotationNeeded \in BOOLEAN
  /\ ownerId \in User /\ deleted \in BOOLEAN
  /\ member \in [User -> Row \cup {NoRow}] /\ gone \subseteq User
  /\ knows \subseteq User /\ stale \in BOOLEAN /\ crossed \subseteq User /\ lapsed \subseteq User

LEMMA SharingInit == Init => SharingInv
<1> SUFFICES ASSUME Init PROVE SharingInv
  OBVIOUS
<1>1. \A r \in Request : Holds(r)
  BY DEF Init, Holds, At, Sealing
<1>2. member \in [User -> Row \cup {NoRow}]
  BY SharingAssumption DEF Init, Row
<1>3. RestTyped
  <2>1. keyVersion \in Nat \ {0} /\ metaKey \in Nat /\ ownerId \in User
    BY DEF Init
  <2>2. keyRotationNeeded \in BOOLEAN /\ deleted \in BOOLEAN /\ stale \in BOOLEAN
    BY DEF Init
  <2>3. gone \subseteq User /\ knows \subseteq User /\ crossed \subseteq User /\ lapsed \subseteq User
    BY DEF Init, Members
  <2>. QED
    BY <1>2, <2>1, <2>2, <2>3 DEF RestTyped
<1>4. /\ vaultLock \in Request \cup {NoRequest} /\ rowLock \in [User -> Request \cup {NoRequest}]
      /\ req \in [Request -> CallType \cup {NoReq}] /\ asked \in Nat
  BY DEF Init
<1>. QED
  BY <1>1, <1>3, <1>4 DEF RestTyped, SharingInv, TypeOK

(* A new request: a call that holds nothing yet.                           *)
Fresh(call) ==
  /\ call \in CallType /\ call.at \in {"begun", "unlocked"}
  /\ call.sealed = {} /\ call.half = NoUser

LEMMA StartKeeps ==
  ASSUME SharingInv, NEW r \in Request, NEW call, Fresh(call), Start(r, call), asked' \in Nat
  PROVE  SharingInv'
<1>1. TypeOK'
  BY DEF SharingInv, TypeOK, Start, vaultVars, lockVars, historyVars, Fresh
<1>2. ASSUME NEW q \in Request PROVE Holds(q)'
  <2>1. CASE q = r
    <3>1. req'[r] = call
      BY DEF Start, SharingInv, TypeOK
    <3>. QED
      BY <2>1, <3>1 DEF Holds, At, Sealing, UnderLock, Fresh
  <2>2. CASE q # r
    <3>1. req'[q] = req[q] /\ Holds(q)
      BY <2>2 DEF Start, SharingInv, TypeOK
    <3>. QED
      BY <3>1 DEF Start, vaultVars, lockVars, Holds, At, Sealing, Members
  <2>. QED
    BY <2>1, <2>2
<1>. QED
  BY <1>1, <1>2 DEF SharingInv

(* Another request keeps what it holds, as long as nobody changes what is  *)
(* behind its locks.                                                       *)
LEMMA HoldsKept ==
  ASSUME TypeOK, NEW q \in Request, Holds(q), req'[q] = req[q],
         vaultLock = q => /\ vaultLock' = q /\ keyVersion' = keyVersion
                          /\ Members' \subseteq Members
                          /\ Members \subseteq Members' \/ gone' # {},
         gone \subseteq gone',
         \A u \in User : rowLock[u] = q =>
           /\ rowLock'[u] = q
           /\ u \in Members => u \in Members' /\ member'[u].seal = member[u].seal
  PROVE  Holds(q)'
<1>1. CASE req[q] = NoReq
  BY <1>1 DEF Holds, At, Sealing
<1>2. CASE req[q] # NoReq
  <2>1. req[q] \in CallType
    BY <1>2 DEF TypeOK
  <2>2. req[q].user \in User /\ req[q].sealed \subseteq User
    BY <2>1 DEF CallType
  <2>3. /\ req'[q] # NoReq /\ req'[q].at \in UnderLock => vaultLock' = q
        /\ req'[q] # NoReq /\ req'[q].at # "sealing" => req'[q].sealed = {} /\ req'[q].half = NoUser
        /\ At(q, "accept", "written")' =>
             rowLock'[req'[q].user] = q /\ req'[q].user \in Members' /\ member'[req'[q].user].seal = req'[q].ver
        /\ At(q, "decline", "written")' => rowLock'[req'[q].user] = q
    BY <2>2 DEF Holds, At
  <2>4. At(q, "push", "put")' => req'[q].ver = keyVersion'
    BY DEF Holds, At, UnderLock
  <2>5. ASSUME Sealing(q)'
        PROVE  /\ req'[q].ver = keyVersion' + 1
               /\ req'[q].user \notin req'[q].others
               /\ req'[q].half \in req'[q].todo \cup {NoUser}
               /\ req'[q].todo \subseteq req'[q].others /\ req'[q].sealed \subseteq req'[q].others
               /\ \A m \in {req'[q].user} \cup req'[q].sealed : rowLock'[m] = q /\ m \in Members'
               /\ Members' \ {req'[q].user} \subseteq req'[q].others
               /\ req'[q].others \subseteq Members' \/ gone' # {}
    <3>1. Sealing(q) /\ vaultLock = q
      BY <2>5 DEF Sealing, At, Holds, UnderLock
    <3>. QED
      BY <2>2, <3>1 DEF Holds
  <2>. QED
    BY <2>3, <2>4, <2>5 DEF Holds
<1>. QED
  BY <1>1, <1>2

(* A statement that takes locks and moves its request on.                  *)
LEMMA MoveKeeps ==
  ASSUME SharingInv, NEW r \in Request, NEW x \in CallType,
         req' = [req EXCEPT ![r] = x],
         vaultLock' = vaultLock \/ (vaultLock = NoRequest /\ vaultLock' = r),
         rowLock' = rowLock \/ \E u \in User : RowFree(r, u) /\ TakeRow(r, u),
         UNCHANGED <<vaultVars, member, gone, asked, historyVars>>,
         Holds(r)'
  PROVE  SharingInv'
<1>1. TypeOK'
  BY DEF SharingInv, TypeOK, vaultVars, historyVars, TakeRow
<1>2. ASSUME NEW q \in Request, q # r PROVE Holds(q)'
  <2>1. TypeOK /\ Holds(q) /\ req'[q] = req[q]
    BY <1>2 DEF SharingInv, TypeOK
  <2>2. Members' = Members /\ keyVersion' = keyVersion /\ gone' = gone /\ member' = member
    BY DEF Members, vaultVars
  <2>3. vaultLock = q => vaultLock' = q
    BY SharingAssumption
  <2>4. \A u \in User : rowLock[u] = q => rowLock'[u] = q
    BY <1>2, SharingAssumption DEF RowFree, TakeRow, SharingInv, TypeOK
  <2>. QED
    BY <2>1, <2>2, <2>3, <2>4, HoldsKept
<1>. QED
  BY <1>1, <1>2 DEF SharingInv

(* A commit, or an abort: its locks go, and what it wrote is behind nobody *)
(* else's.                                                                 *)
LEMMA CommitKeeps ==
  ASSUME SharingInv, NEW r \in Request, End(r), RestTyped', gone \subseteq gone',
         vaultLock \notin {r, NoRequest} =>
           /\ keyVersion' = keyVersion /\ Members' \subseteq Members
           /\ Members \subseteq Members' \/ gone' # {},
         \A u \in User : ~RowFree(r, u) /\ u \in Members =>
           u \in Members' /\ member'[u].seal = member[u].seal
  PROVE  SharingInv'
<1>1. TypeOK'
  BY DEF SharingInv, TypeOK, RestTyped, End
<1>2. ASSUME NEW q \in Request PROVE Holds(q)'
  <2>1. CASE q = r
    <3>1. req'[r] = NoReq
      BY DEF End, SharingInv, TypeOK
    <3>. QED
      BY <2>1, <3>1 DEF Holds, At, Sealing
  <2>2. CASE q # r
    <3>1. TypeOK /\ Holds(q) /\ req'[q] = req[q]
      BY <2>2 DEF SharingInv, TypeOK, End
    <3>2. vaultLock = q => vaultLock' = q /\ vaultLock \notin {r, NoRequest}
      BY <2>2, SharingAssumption DEF End
    <3>3. \A u \in User : rowLock[u] = q => rowLock'[u] = q /\ ~RowFree(r, u)
      BY <2>2, SharingAssumption DEF End, RowFree
    <3>. QED
      BY <3>1, <3>2, <3>3, HoldsKept
  <2>. QED
    BY <2>1, <2>2
<1>. QED
  BY <1>1, <1>2 DEF SharingInv

Ops == Locking \cup {"accept", "decline", "rename", "deleteVault"}

LEMMA CallTyped ==
  ASSUME TypeOK, NEW op \in Ops, NEW u \in User
  PROVE  /\ Call(op, u) \in CallType /\ Call(op, u).at = "begun" /\ Call(op, u).op = op /\ Call(op, u).user = u
         /\ Call(op, u).sealed = {} /\ Call(op, u).half = NoUser
<1>1. Standing(u) \in [role : Role, status : {"active", "pending"}] \cup {NoRow}
  BY DEF Standing, Members, TypeOK, Row
<1> DEFINE own == IF op \in Deciding THEN Standing(u) ELSE NoRow
<1>2. own \in [role : Role, status : {"active", "pending"}] \cup {NoRow}
  BY <1>1
<1>3. Call(op, u) = [op |-> op, at |-> "begun", user |-> u, target |-> u, role |-> "read", ver |-> 0,
                     own |-> own, others |-> {}, todo |-> {}, half |-> NoUser, sealed |-> {}]
  BY DEF Call
<1> HIDE DEF own
<1>. QED
  BY <1>2, <1>3 DEF CallType, Ops, Role

(* The calls that are asked for.                                           *)
LEMMA CallsTyped ==
  ASSUME TypeOK, NEW u \in User, NEW op \in Ops, NEW target \in User, NEW role \in Role, NEW ver \in Nat,
         NEW others \in SUBSET User, NEW at \in {"begun", "unlocked"}
  PROVE  \A call \in { Call(op, u),
                       [Call(op, u) EXCEPT !.ver = ver],
                       [Call(op, u) EXCEPT !.target = target],
                       [Call(op, u) EXCEPT !.target = target, !.role = role],
                       [Call(op, u) EXCEPT !.target = target, !.role = role, !.ver = ver],
                       [Call(op, u) EXCEPT !.ver = ver, !.others = others],
                       [Call(op, u) EXCEPT !.at = at] } :
           Fresh(call)
<1>1. Call(op, u) \in CallType /\ Call(op, u).at = "begun" /\ Call(op, u).sealed = {} /\ Call(op, u).half = NoUser
  BY CallTyped
<1> DEFINE c == Call(op, u)
<1> HIDE DEF c
<1>2. c \in CallType /\ c.at = "begun" /\ c.sealed = {} /\ c.half = NoUser
  BY <1>1 DEF c
<1>3. \A call \in { c, [c EXCEPT !.ver = ver], [c EXCEPT !.target = target],
                    [c EXCEPT !.target = target, !.role = role],
                    [c EXCEPT !.target = target, !.role = role, !.ver = ver],
                    [c EXCEPT !.ver = ver, !.others = others], [c EXCEPT !.at = at] } :
        Fresh(call)
  BY <1>2 DEF CallType, Fresh
<1>. QED
  BY <1>3 DEF c

(* Who declines has an open invite when the call starts, who removes is    *)
(* active and removes somebody else, who accepts is sealed the key.        *)
Fitting(call) ==
  /\ call.op = "decline" => call.own.status = "pending"
  /\ call.op = "remove" => call.own.status = "active" /\ call.target # call.user
  /\ call.op = "accept" => /\ call.ver = member[call.user].seal
                           /\ member[call.user].status = "pending" \/ call.ver # 0

Starts(r) == (\E call : Fresh(call) /\ Fitting(call) /\ Start(r, call)) /\ asked' \in Nat

LEMMA AsksStart ==
  ASSUME SharingInv, NEW r \in Request, Ask(r) \/ Task(r)
  PROVE  Starts(r)
<1>. /\ TypeOK /\ asked \in Nat /\ Given \subseteq Role
     /\ \A v \in User : v \in Members => member[v] \in Row
  BY SharingAssumption DEF SharingInv, TypeOK, Members
<1>1. \A v \in Active : v \in User /\ member[v].wrap \in Nat /\ member[v].wrap + 1 \in Nat /\ member[v].seal \in Nat
  BY DEF Active, Members, Row, NoRow
<1>2. \A v \in User : member[v].status = "pending" => member[v].seal \in Nat
  BY DEF Members, Row, NoRow
<1>3. 0 \in Nat /\ {} \in SUBSET User /\ "read" \in Role
  BY DEF Role
<1>4. ASSUME NEW u \in User, AskAcceptInvite(r, u) PROVE Starts(r)
  <2> DEFINE call == [Call("accept", u) EXCEPT !.ver = member[u].seal]
  <2>1. "accept" \in Ops
    BY DEF Ops, Locking
  <2>2. Start(r, call) /\ asked' \in Nat
    BY <1>4 DEF AskAcceptInvite, ByUser
  <2>3. Fresh(call)
    <3>1. member[u].seal \in Nat
      BY <1>1, <1>2, <1>4 DEF AskAcceptInvite, ByUser
    <3>. QED
      BY <1>3, <2>1, <3>1, CallsTyped
  <2>4. Fitting(call)
    BY <1>4, <2>1, CallTyped DEF CallType, Fitting, AskAcceptInvite
  <2>. QED
    BY <2>2, <2>3, <2>4 DEF Starts
<1>5. ASSUME NEW u \in User, AskDecline(r, u) PROVE Starts(r)
  <2> DEFINE call == Call("decline", u)
  <2>1. "decline" \in Ops
    BY DEF Ops, Locking
  <2>2. Start(r, call) /\ asked' \in Nat
    BY <1>5 DEF AskDecline, ByUser
  <2>3. Fresh(call)
    BY <1>3, <2>1, CallsTyped
  <2>4. Fitting(call)
    BY <1>5, <2>1, CallTyped DEF AskDecline, ByUser, Call, Deciding, Standing, Active, Members, NoRow, CallType, Fitting
  <2>. QED
    BY <2>2, <2>3, <2>4 DEF Starts
<1>6. ASSUME NEW u \in User, AskLeave(r, u) PROVE Starts(r)
  <2> DEFINE call == Call("leave", u)
  <2>1. "leave" \in Ops
    BY DEF Ops, Locking
  <2>2. Start(r, call) /\ asked' \in Nat
    BY <1>6 DEF AskLeave, ByUser
  <2>3. Fresh(call)
    BY <1>3, <2>1, CallsTyped
  <2>4. Fitting(call)
    BY <2>1, CallTyped DEF CallType, Fitting
  <2>. QED
    BY <2>2, <2>3, <2>4 DEF Starts
<1>7. ASSUME NEW u \in User, AskRotate(r, u) PROVE Starts(r)
  <2> DEFINE call == [Call("rotate", u) EXCEPT !.ver = member[u].wrap + 1, !.others = Members \ {u}]
  <2>1. "rotate" \in Ops
    BY DEF Ops, Locking
  <2>2. Start(r, call) /\ asked' \in Nat
    BY <1>7 DEF AskRotate, Rotation, ByUser
  <2>3. Fresh(call)
    <3>1. member[u].wrap + 1 \in Nat
      BY <1>1, <1>2, <1>7 DEF AskRotate, Rotation, ByUser
    <3>. QED
      BY <1>3, <2>1, <3>1, CallsTyped DEF Members
  <2>4. Fitting(call)
    BY <2>1, CallTyped DEF CallType, Fitting
  <2>. QED
    BY <2>2, <2>3, <2>4 DEF Starts
<1>8. ASSUME NEW u \in User, AskRename(r, u) PROVE Starts(r)
  <2> DEFINE call == [Call("rename", u) EXCEPT !.ver = member[u].wrap]
  <2>1. "rename" \in Ops
    BY DEF Ops, Locking
  <2>2. Start(r, call) /\ asked' \in Nat
    BY <1>8 DEF AskRename, ByUser
  <2>3. Fresh(call)
    <3>1. member[u].wrap \in Nat
      BY <1>1, <1>2, <1>8 DEF AskRename, ByUser
    <3>. QED
      BY <1>3, <2>1, <3>1, CallsTyped
  <2>4. Fitting(call)
    BY <2>1, CallTyped DEF CallType, Fitting
  <2>. QED
    BY <2>2, <2>3, <2>4 DEF Starts
<1>9. ASSUME NEW u \in User, AskDeleteVault(r, u) PROVE Starts(r)
  <2> DEFINE call == Call("deleteVault", u)
  <2>1. "deleteVault" \in Ops
    BY DEF Ops, Locking
  <2>2. Start(r, call) /\ asked' \in Nat
    BY <1>9 DEF AskDeleteVault, ByUser
  <2>3. Fresh(call)
    BY <1>3, <2>1, CallsTyped
  <2>4. Fitting(call)
    BY <2>1, CallTyped DEF CallType, Fitting
  <2>. QED
    BY <2>2, <2>3, <2>4 DEF Starts
<1>10. ASSUME NEW u \in User, AskPush(r, u) PROVE Starts(r)
  <2> DEFINE call == [Call("push", u) EXCEPT !.ver = member[u].wrap]
  <2>1. "push" \in Ops
    BY DEF Ops, Locking
  <2>2. Start(r, call) /\ asked' \in Nat
    BY <1>10 DEF AskPush, ByUser
  <2>3. Fresh(call)
    <3>1. member[u].wrap \in Nat
      BY <1>1, <1>2, <1>10 DEF AskPush, ByUser
    <3>. QED
      BY <1>3, <2>1, <3>1, CallsTyped
  <2>4. Fitting(call)
    BY <2>1, CallTyped DEF CallType, Fitting
  <2>. QED
    BY <2>2, <2>3, <2>4 DEF Starts
<1>11. ASSUME NEW u \in User, AskDeleteAccount(r, u) PROVE Starts(r)
  <2> DEFINE at == IF ~deleted /\ (ownerId = u \/ u \in Members) THEN "begun" ELSE "unlocked"
             call == [Call("deleteAccount", u) EXCEPT !.at = at]
  <2>1. "deleteAccount" \in Ops /\ at \in {"begun", "unlocked"}
    BY DEF Ops, Locking
  <2> HIDE DEF at
  <2>2. Fresh(call)
    BY <1>3, <2>1, CallsTyped
  <2>3. Start(r, call) /\ asked' \in Nat
    BY <1>11 DEF AskDeleteAccount, ByUser, at
  <2>4. Fitting(call)
    BY <2>1, CallTyped DEF CallType, Fitting
  <2>. QED
    BY <2>2, <2>3, <2>4 DEF Starts
<1>12. ASSUME NEW u \in User, NEW t \in User, AskRemove(r, u, t) PROVE Starts(r)
  <2> DEFINE call == [Call("remove", u) EXCEPT !.target = t]
  <2>1. "remove" \in Ops
    BY DEF Ops, Locking
  <2>2. Start(r, call) /\ asked' \in Nat
    BY <1>12 DEF AskRemove, ByUser
  <2>3. Fresh(call)
    BY <1>3, <2>1, CallsTyped
  <2>4. Fitting(call)
    BY <1>12, <2>1, CallTyped DEF AskRemove, ByUser, Call, Deciding, Standing, Active, Members, NoRow, CallType, Fitting
  <2>. QED
    BY <2>2, <2>3, <2>4 DEF Starts
<1>13. ASSUME NEW u \in User, NEW t \in User, AskTransfer(r, u, t) PROVE Starts(r)
  <2> DEFINE call == [Call("transfer", u) EXCEPT !.target = t]
  <2>1. "transfer" \in Ops
    BY DEF Ops, Locking
  <2>2. Start(r, call) /\ asked' \in Nat
    BY <1>13 DEF AskTransfer, ByUser
  <2>3. Fresh(call)
    BY <1>3, <2>1, CallsTyped
  <2>4. Fitting(call)
    BY <2>1, CallTyped DEF CallType, Fitting
  <2>. QED
    BY <2>2, <2>3, <2>4 DEF Starts
<1>14. ASSUME NEW u \in User, NEW t \in User, NEW role \in Given, AskInvite(r, u, t, role) PROVE Starts(r)
  <2> DEFINE call == [Call("invite", u) EXCEPT !.target = t, !.role = role, !.ver = member[u].wrap]
  <2>1. "invite" \in Ops
    BY DEF Ops, Locking
  <2>2. Start(r, call) /\ asked' \in Nat
    BY <1>14 DEF AskInvite, ByUser
  <2>3. Fresh(call)
    <3>1. member[u].wrap \in Nat
      BY <1>1, <1>2, <1>14 DEF AskInvite, ByUser
    <3>. QED
      BY <1>3, <2>1, <3>1, SharingAssumption, CallsTyped
  <2>4. Fitting(call)
    BY <2>1, CallTyped DEF CallType, Fitting
  <2>. QED
    BY <2>2, <2>3, <2>4 DEF Starts
<1>15. ASSUME NEW u \in User, NEW t \in User, NEW role \in Given, AskSetRole(r, u, t, role) PROVE Starts(r)
  <2> DEFINE call == [Call("setRole", u) EXCEPT !.target = t, !.role = role]
  <2>1. "setRole" \in Ops
    BY DEF Ops, Locking
  <2>2. Start(r, call) /\ asked' \in Nat
    BY <1>15 DEF AskSetRole, ByUser
  <2>3. Fresh(call)
    BY <1>3, <2>1, CallsTyped
  <2>4. Fitting(call)
    BY <2>1, CallTyped DEF CallType, Fitting
  <2>. QED
    BY <2>2, <2>3, <2>4 DEF Starts
<1>16. ASSUME NEW u \in User, TaskAccept(r, u) PROVE Starts(r)
  <2> DEFINE call == [Call("accept", u) EXCEPT !.ver = member[u].seal]
  <2>1. "accept" \in Ops
    BY DEF Ops, Locking
  <2>2. Start(r, call) /\ asked' \in Nat
    BY <1>16 DEF TaskAccept
  <2>3. Fresh(call)
    <3>1. member[u].seal \in Nat
      BY <1>1, <1>2, <1>16 DEF TaskAccept
    <3>. QED
      BY <1>3, <2>1, <3>1, CallsTyped
  <2>4. Fitting(call)
    BY <1>16, <2>1, CallTyped DEF CallType, Fitting, TaskAccept
  <2>. QED
    BY <2>2, <2>3, <2>4 DEF Starts
<1>17. ASSUME NEW u \in User, TaskRotate(r, u) PROVE Starts(r)
  <2> DEFINE call == [Call("rotate", u) EXCEPT !.ver = member[u].wrap + 1, !.others = Members \ {u}]
  <2>1. "rotate" \in Ops
    BY DEF Ops, Locking
  <2>2. Start(r, call) /\ asked' \in Nat
    BY <1>17 DEF TaskRotate, Rotation
  <2>3. Fresh(call)
    <3>1. member[u].wrap + 1 \in Nat
      BY <1>1, <1>2, <1>17 DEF TaskRotate, Rotation
    <3>. QED
      BY <1>3, <2>1, <3>1, CallsTyped DEF Members
  <2>4. Fitting(call)
    BY <2>1, CallTyped DEF CallType, Fitting
  <2>. QED
    BY <2>2, <2>3, <2>4 DEF Starts
<1>. QED
  BY <1>4, <1>5, <1>6, <1>7, <1>8, <1>9, <1>10, <1>11, <1>12, <1>13, <1>14, <1>15, <1>16, <1>17 DEF Ask, Task

LEMMA AsksKeep ==
  ASSUME SharingInv, NEW r \in Request, Ask(r) \/ Task(r)
  PROVE  SharingInv'
BY AsksStart, StartKeeps DEF Starts

(* A step of the seal loop: the rows it seals are locked.                  *)
LEMMA SealKeeps ==
  ASSUME SharingInv, NEW r \in Request, Sealing(r), NEW x \in CallType, NEW m \in User,
         x.at = "sealing", x.op = "rotate", x.user = req[r].user, x.ver = req[r].ver,
         x.others = req[r].others, x.todo \subseteq req[r].todo, x.half \in x.todo \cup {NoUser},
         \/ x.sealed = req[r].sealed /\ UNCHANGED rowLock
         \/ /\ x.sealed = req[r].sealed \cup {m} /\ m \in Members /\ m \in req[r].others
            /\ RowFree(r, m) /\ TakeRow(r, m),
         req' = [req EXCEPT ![r] = x],
         UNCHANGED <<vaultVars, member, gone, vaultLock, asked, historyVars>>
  PROVE  SharingInv'
<1>1. TypeOK /\ Holds(r) /\ req'[r] = x /\ x # NoReq
  BY DEF SharingInv, TypeOK, NoReq, CallType
<1>2. vaultLock = r /\ vaultLock' = r /\ Members' = Members /\ keyVersion' = keyVersion /\ gone' = gone
  BY <1>1 DEF Holds, Sealing, At, UnderLock, Members, vaultVars
<1>3. rowLock' = rowLock \/ rowLock' = [rowLock EXCEPT ![m] = r]
  BY DEF TakeRow
<1>4. \A n \in User : rowLock[n] = r => rowLock'[n] = r
  BY <1>1, <1>3 DEF TypeOK
<1>5. req[r] \in CallType /\ req[r].user \in User /\ req[r].sealed \subseteq User
  BY <1>1 DEF Sealing, At, TypeOK, CallType
<1>6. m \in x.sealed \ req[r].sealed => rowLock'[m] = r
  BY <1>1 DEF TakeRow, TypeOK
<1>7. /\ x.ver = keyVersion' + 1 /\ x.half \in x.todo \cup {NoUser} /\ x.user \notin x.others /\ x.todo \subseteq x.others /\ x.sealed \subseteq x.others
      /\ \A n \in {x.user} \cup x.sealed : rowLock'[n] = r /\ n \in Members'
      /\ Members' \ {x.user} \subseteq x.others
      /\ x.others \subseteq Members' \/ gone' # {}
  BY <1>1, <1>2, <1>4, <1>5, <1>6 DEF Holds
<1>8. Holds(r)'
  BY <1>1, <1>2, <1>7 DEF Holds, At
<1>. QED
  BY <1>3, <1>8, MoveKeeps DEF TakeRow

(* Statements that take locks.                                             *)
LEMMA MovesKeep ==
  ASSUME SharingInv, NEW r \in Request,
         \/ LockVault(r) \/ WriteAccept(r) \/ WriteDecline(r) \/ CheckRotation(r) \/ SealActive(r)
         \/ SealPending(r) \/ CheckPut(r) \/ LockOwn(r) \/ DecideAccount(r)
  PROVE  SharingInv'
<1> USE DEF lockVars, vaultVars, historyVars
<1>. /\ TypeOK /\ Holds(r)
     /\ req \in [Request -> CallType \cup {NoReq}]
     /\ req[r] # NoReq => req[r] \in CallType
  BY DEF SharingInv, TypeOK
<1>. /\ req[r] \in CallType => req[r] # NoReq
     /\ req[r] \in CallType /\ req[r].at # "sealing" => req[r].sealed = {} /\ req[r].half = NoUser
     /\ req[r] \in CallType /\ req[r].at \in {"locked", "own"} => vaultLock = r
  <2>1. req[r] \in CallType => req[r] # NoReq
    BY DEF CallType, NoReq
  <2>. QED
    BY <2>1 DEF Holds, UnderLock
<1>1. CASE LockVault(r)
  <2> DEFINE x == [req[r] EXCEPT !.at = "locked"]
  <2>1. req[r] \in CallType /\ req[r].at # "sealing" /\ req' = [req EXCEPT ![r] = x] /\ vaultLock = NoRequest /\ vaultLock' = r
    BY <1>1 DEF LockVault, At, Step
  <2>2. x \in CallType /\ req'[r] = x /\ x.at = "locked" /\ x.sealed = {} /\ x.half = NoUser
    BY <2>1 DEF CallType
  <2>3. Holds(r)'
    BY <2>1, <2>2 DEF Holds, At, Sealing
  <2>. QED
    BY <1>1, <2>1, <2>2, <2>3, MoveKeeps DEF LockVault
<1>2. CASE WriteAccept(r)
  <2> DEFINE x == [req[r] EXCEPT !.at = "written"]
  <2>1. req[r] \in CallType /\ req[r].at # "sealing" /\ req' = [req EXCEPT ![r] = x] /\ req[r].op = "accept"
    BY <1>2 DEF WriteAccept, At, Step
  <2>2. x \in CallType /\ req'[r] = x /\ x.at = "written" /\ x.sealed = {} /\ x.half = NoUser /\ x.op = "accept" /\ x.user = req[r].user /\ x.ver = req[r].ver
    BY <2>1 DEF CallType
  <2>3. /\ req[r].user \in User /\ RowFree(r, req[r].user) /\ TakeRow(r, req[r].user)
        /\ req[r].user \in Members /\ member[req[r].user].seal = req[r].ver
        /\ UNCHANGED <<member, vaultLock>>
    BY <1>2, <2>1 DEF WriteAccept, CallType
  <2>4. rowLock'[req[r].user] = r
    BY <2>3 DEF TakeRow, TypeOK
  <2>5. Holds(r)'
    BY <2>2, <2>3, <2>4 DEF Holds, At, Sealing, UnderLock, Members
  <2>. QED
    BY <1>2, <2>1, <2>2, <2>3, <2>5, MoveKeeps DEF WriteAccept
<1>3. CASE WriteDecline(r)
  <2> DEFINE x == [req[r] EXCEPT !.at = "written"]
  <2>1. req[r] \in CallType /\ req[r].at # "sealing" /\ req' = [req EXCEPT ![r] = x] /\ req[r].op = "decline"
    BY <1>3 DEF WriteDecline, At, Step
  <2>2. x \in CallType /\ req'[r] = x /\ x.at = "written" /\ x.sealed = {} /\ x.half = NoUser /\ x.op = "decline" /\ x.user = req[r].user
    BY <2>1 DEF CallType
  <2>3. req[r].user \in User /\ RowFree(r, req[r].user) /\ TakeRow(r, req[r].user) /\ UNCHANGED <<member, vaultLock>>
    BY <1>3, <2>1 DEF WriteDecline, CallType
  <2>4. rowLock'[req[r].user] = r
    BY <2>3 DEF TakeRow, TypeOK
  <2>5. Holds(r)'
    BY <2>2, <2>3, <2>4 DEF Holds, At, Sealing, UnderLock
  <2>. QED
    BY <1>3, <2>1, <2>2, <2>3, <2>5, MoveKeeps DEF WriteDecline
<1>4. CASE CheckRotation(r)
  <2> DEFINE u == req[r].user
             x == [req[r] EXCEPT !.at = "sealing", !.todo = req[r].others]
  <2>1. /\ req[r] \in CallType /\ req' = [req EXCEPT ![r] = x] /\ req[r].op = "rotate" /\ req[r].at = "locked"
        /\ UNCHANGED <<vaultLock, member, gone, keyVersion>>
    BY <1>4 DEF CheckRotation, At
  <2>2. x \in CallType /\ req'[r] = x /\ x.at = "sealing" /\ x.op = "rotate" /\ x.user = u /\ x.ver = req[r].ver
        /\ x.others = req[r].others /\ x.todo = req[r].others /\ x.sealed = {} /\ x.half = NoUser
    BY <2>1 DEF CallType
  <2>3. /\ u \in User /\ RowFree(r, u) /\ TakeRow(r, u) /\ u \in Members
        /\ req[r].others = Members \ {u} /\ keyVersion = req[r].ver - 1
    BY <1>4, <2>1 DEF CheckRotation, CallType
  <2>4. rowLock'[u] = r /\ req[r].ver = keyVersion + 1
    BY <2>1, <2>3 DEF TakeRow, TypeOK, CallType
  <2>5. vaultLock' = r /\ Members' = Members
    BY <2>1 DEF Holds, UnderLock, Members, NoReq, CallType
  <2>6. Sealing(r)' =>
          /\ x.ver = keyVersion' + 1 /\ x.half \in x.todo \cup {NoUser} /\ x.user \notin x.others /\ x.todo \subseteq x.others /\ x.sealed \subseteq x.others
          /\ \A m \in {x.user} \cup x.sealed : rowLock'[m] = r /\ m \in Members'
          /\ Members' \ {x.user} \subseteq x.others
          /\ x.others \subseteq Members' \/ gone' # {}
    BY <2>1, <2>2, <2>3, <2>4, <2>5
  <2>7. Holds(r)'
    BY <2>2, <2>5, <2>6 DEF Holds, At
  <2>. QED
    BY <1>4, <2>1, <2>2, <2>3, <2>7, MoveKeeps DEF CheckRotation
<1>5. CASE SealActive(r)
  <2>1. req[r] \in CallType /\ req[r].at = "sealing" /\ req[r].op = "rotate" /\ Sealing(r)
    BY <1>5 DEF SealActive, Sealing, At
  <2>2. PICK m \in req[r].todo :
          IF member[m].status = "active"
          THEN /\ RowFree(r, m) /\ TakeRow(r, m)
               /\ req' = [req EXCEPT ![r] = [@ EXCEPT !.half = m, !.sealed = req[r].sealed \cup {m}]]
          ELSE /\ req' = [req EXCEPT ![r].half = m]
               /\ UNCHANGED rowLock
    BY <1>5, Zenon DEF SealActive
  <2>3. m \in User /\ m \in req[r].others /\ UNCHANGED <<vaultVars, member, gone, vaultLock, asked, historyVars>>
    BY <1>5, <2>1, <2>2 DEF SealActive, CallType, Holds
  <2>4. CASE member[m].status = "active"
    <3>1. m \in Members
      BY <2>3, <2>4 DEF Members, NoRow
    <3> DEFINE x == [req[r] EXCEPT !.half = m, !.sealed = req[r].sealed \cup {m}]
    <3>2. x \in CallType /\ x.at = "sealing" /\ x.op = "rotate" /\ x.user = req[r].user /\ x.ver = req[r].ver
          /\ x.half = m /\ x.others = req[r].others /\ x.todo = req[r].todo /\ x.sealed = req[r].sealed \cup {m}
      BY <2>1, <2>3 DEF CallType
    <3>3. RowFree(r, m) /\ TakeRow(r, m) /\ req' = [req EXCEPT ![r] = x]
      BY <2>2, <2>4
    <3> HIDE DEF x
    <3>. QED
      BY <2>1, <2>2, <2>3, <3>1, <3>2, <3>3, SealKeeps
  <2>5. CASE member[m].status # "active"
    <3> DEFINE x == [req[r] EXCEPT !.half = m]
    <3>1. x \in CallType /\ x.at = "sealing" /\ x.op = "rotate" /\ x.user = req[r].user /\ x.ver = req[r].ver
          /\ x.half = m /\ x.others = req[r].others /\ x.todo = req[r].todo /\ x.sealed = req[r].sealed
      BY <2>1, <2>3 DEF CallType
    <3>2. req' = [req EXCEPT ![r] = x] /\ UNCHANGED rowLock
      BY <2>2, <2>5
    <3> HIDE DEF x
    <3>. QED
      BY <2>1, <2>3, <3>1, <3>2, SealKeeps
  <2>. QED
    BY <2>4, <2>5
<1>6. CASE SealPending(r)
  <2> DEFINE m == req[r].half
  <2>1. req[r] \in CallType /\ req[r].at = "sealing" /\ req[r].op = "rotate" /\ m \in User /\ Sealing(r) /\ m \in req[r].todo
    BY <1>6 DEF SealPending, Sealing, At, CallType, Holds
  <2>2. UNCHANGED <<vaultVars, member, gone, vaultLock, asked, historyVars>>
    BY <1>6 DEF SealPending
  <2>3. CASE member[m].status = "pending"
    <3>1. m \in Members
      BY <2>1, <2>3 DEF Members, NoRow
    <3> DEFINE x == [req[r] EXCEPT !.half = NoUser, !.todo = req[r].todo \ {m},
                                 !.sealed = req[r].sealed \cup {m}]
    <3>2. x \in CallType /\ x.at = "sealing" /\ x.op = "rotate" /\ x.user = req[r].user /\ x.ver = req[r].ver
          /\ x.half = NoUser /\ x.others = req[r].others /\ x.todo = req[r].todo \ {m} /\ x.sealed = req[r].sealed \cup {m}
      BY <2>1 DEF CallType
    <3>3. RowFree(r, m) /\ TakeRow(r, m) /\ req' = [req EXCEPT ![r] = x]
      BY <1>6, <2>3 DEF SealPending
    <3>4. m \in req[r].others
      BY <2>1 DEF Holds
    <3> HIDE DEF x
    <3>. QED
      BY <2>1, <2>2, <3>1, <3>2, <3>3, <3>4, SealKeeps
  <2>4. CASE member[m].status # "pending"
    <3> DEFINE x == [req[r] EXCEPT !.half = NoUser, !.todo = req[r].todo \ {m}]
    <3>1. x \in CallType /\ x.at = "sealing" /\ x.op = "rotate" /\ x.user = req[r].user /\ x.ver = req[r].ver
          /\ x.half = NoUser /\ x.others = req[r].others /\ x.todo = req[r].todo \ {m} /\ x.sealed = req[r].sealed
      BY <2>1 DEF CallType
    <3>2. req' = [req EXCEPT ![r] = x] /\ UNCHANGED rowLock
      BY <1>6, <2>4 DEF SealPending
    <3> HIDE DEF x
    <3>. QED
      BY <2>1, <2>2, <3>1, <3>2, SealKeeps
  <2>. QED
    BY <2>3, <2>4
<1>7. CASE CheckPut(r)
  <2> DEFINE x == [req[r] EXCEPT !.at = "put"]
  <2>1. /\ req[r] \in CallType /\ req[r].at = "locked" /\ req' = [req EXCEPT ![r] = x]
        /\ req[r].ver = keyVersion /\ UNCHANGED <<keyVersion, vaultLock>> /\ req[r].op = "push"
    BY <1>7 DEF CheckPut, At, Step
  <2>2. x \in CallType /\ req'[r] = x /\ x.at = "put" /\ x.op = "push" /\ x.ver = req[r].ver
        /\ x.sealed = {} /\ x.half = NoUser
    BY <2>1 DEF CallType
  <2>3. vaultLock = r
    BY <2>1
  <2>4. Holds(r)'
    BY <2>1, <2>2, <2>3 DEF Holds, At, Sealing
  <2>. QED
    BY <1>7, <2>1, <2>2, <2>4, MoveKeeps DEF CheckPut
<1>8. CASE LockOwn(r)
  <2>1. PICK at \in {"own", "leaving"} :
          /\ req[r] \in CallType /\ req[r].op = "deleteAccount" /\ req[r].at \in {"locked", "unlocked"}
          /\ req' = [req EXCEPT ![r].at = at]
          /\ at = "own" => req[r].at = "locked"
    BY <1>8 DEF LockOwn, At, Step
  <2> DEFINE x == [req[r] EXCEPT !.at = at]
  <2>2. x \in CallType /\ req'[r] = x /\ x.at = at /\ x.op = "deleteAccount" /\ x.sealed = {} /\ x.half = NoUser
    BY <2>1 DEF CallType
  <2>3. at = "own" => vaultLock = r
    BY <2>1
  <2>4. /\ req[r].user \in User /\ RowFree(r, req[r].user) /\ TakeRow(r, req[r].user)
        /\ UNCHANGED <<vaultVars, member, gone, vaultLock, asked, historyVars>>
    BY <1>8, <2>1 DEF LockOwn, CallType
  <2>5. Holds(r)'
    BY <2>2, <2>3, <2>4 DEF Holds, At, Sealing, UnderLock
  <2>6. req' = [req EXCEPT ![r] = x]
    BY <2>1
  <2>. QED
    BY <2>2, <2>4, <2>5, <2>6, MoveKeeps
<1>9. CASE DecideAccount(r)
  <2>1. /\ req[r] \in CallType /\ req[r].op = "deleteAccount" /\ req[r].at = "own"
        /\ UNCHANGED <<vaultVars, member, gone, lockVars, asked, historyVars>>
    BY <1>9 DEF DecideAccount, At
  <2>2. PICK heir \in User, at \in {"leaving", "handing", "dropping"} :
          req' = [req EXCEPT ![r] = [req[r] EXCEPT !.target = heir, !.at = at]]
    <3>1. req[r].user \in User /\ ActiveOwners \subseteq User
      BY <2>1 DEF CallType, ActiveOwners, Active
    <3>. QED
      BY <1>9, <3>1 DEF DecideAccount
  <2> DEFINE x == [req[r] EXCEPT !.target = heir, !.at = at]
  <2>3. x \in CallType /\ req'[r] = x /\ x.at = at /\ x.op = "deleteAccount" /\ x.sealed = {} /\ x.half = NoUser
    BY <2>1, <2>2 DEF CallType
  <2>4. vaultLock = r
    BY <2>1
  <2>5. Holds(r)'
    BY <2>1, <2>3, <2>4 DEF Holds, At, Sealing
  <2>. QED
    BY <2>1, <2>2, <2>3, <2>5, MoveKeeps
<1>. QED
  BY <1>1, <1>2, <1>3, <1>4, <1>5, <1>6, <1>7, <1>8, <1>9

(* A member's row goes, under the vault's lock or where nobody holds it.   *)
LEMMA DropKeeps ==
  ASSUME SharingInv, NEW r \in Request, NEW u, End(r), VaultFree(r), Drop(u), u \in User => RowFree(r, u),
         RequireRotation, NoteStanding(r), UNCHANGED <<gone, knows, crossed, lapsed>>
  PROVE  SharingInv'
<1>1. RestTyped'
  BY DEF SharingInv, TypeOK, RestTyped, Drop, RequireRotation, NoteStanding
<1>2. \A v \in User : ~RowFree(r, v) => member'[v] = member[v]
  BY DEF SharingInv, TypeOK, Drop
<1>. QED
  BY <1>1, <1>2, CommitKeeps DEF VaultFree, Members

(* What commits write keeps its type; what is behind others' locks stays.  *)
LEMMA CommitsKeep ==
  ASSUME SharingInv, NEW r \in Request,
         \/ Abort(r) \/ CommitInvite(r) \/ CommitAccept(r) \/ CommitDecline(r) \/ CommitSetRole(r)
         \/ CommitRemove(r) \/ CommitLeave(r) \/ CommitTransfer(r) \/ CommitRotation(r) \/ CommitRename(r)
         \/ CommitDeleteVault(r) \/ CommitPut(r) \/ CommitDeleteAccount(r)
  PROVE  SharingInv'
<1> USE DEF lockVars, vaultVars, historyVars
<1>. /\ TypeOK /\ Holds(r) /\ RestTyped
     /\ req[r] # NoReq => req[r] \in CallType
     /\ NoReq \notin CallType
     /\ Members \subseteq User /\ \A u \in Members : member[u] \in Row
     /\ NoRow \notin Row
  BY DEF SharingInv, TypeOK, RestTyped, NoReq, CallType, Members, NoRow, Row
<1>1. CASE Abort(r)
  <2>1. UNCHANGED <<vaultVars, member, gone, historyVars>> /\ End(r)
    BY <1>1 DEF Abort
  <2>. QED
    BY <2>1, CommitKeeps DEF RestTyped, Members
<1>2. CASE CommitInvite(r)
  <2> DEFINE t == req[r].target
  <2>1. /\ req[r] \in CallType /\ req[r].at = "locked" /\ End(r)
        /\ t \in User \ Members
        /\ member' = [member EXCEPT ![t] = [role |-> req[r].role, status |-> "pending", wrap |-> req[r].ver,
                                            seal |-> req[r].ver, by |-> req[r].user]]
        /\ knows' = knows \cup {t} /\ lapsed' = lapsed \ {t}
        /\ UNCHANGED <<vaultVars, gone, stale, crossed>>
    BY <1>2 DEF CommitInvite, At, CallType, Unmarked
  <2>2. vaultLock = r
    BY <2>1 DEF Holds, UnderLock
  <2>3. RestTyped'
    BY <2>1 DEF RestTyped, Row, CallType
  <2>4. \A u \in User \ {t} : member'[u] = member[u]
    BY <2>1 DEF RestTyped
  <2>5. \A u \in Members : u \in Members' /\ member'[u].seal = member[u].seal
    BY <2>1, <2>4 DEF Members
  <2>. QED
    BY <2>1, <2>2, <2>3, <2>5, CommitKeeps
<1>3. CASE CommitAccept(r)
  <2> DEFINE u == req[r].user
  <2>1. /\ req[r] \in CallType /\ End(r) /\ At(r, "accept", "written")
        /\ member' = [member EXCEPT ![u] = [member[u] EXCEPT !.status = "active", !.wrap = req[r].ver,
                                                             !.seal = 0, !.by = NoUser]]
        /\ UNCHANGED <<vaultVars, gone, knows, stale, lapsed>>
        /\ crossed' \subseteq crossed \cup {u}
    BY <1>3 DEF CommitAccept, At, Unmarked
  <2>2. rowLock[u] = r /\ u \in Members
    BY <2>1 DEF Holds
  <2> DEFINE y == [member[u] EXCEPT !.status = "active", !.wrap = req[r].ver, !.seal = 0, !.by = NoUser]
  <2>6. y \in Row
    <3>1. member[u] \in Row /\ req[r].ver \in Nat
      BY <2>1, <2>2 DEF CallType
    <3>. QED
      BY <3>1 DEF Row
  <2>7. member' = [member EXCEPT ![u] = y]
    BY <2>1
  <2> HIDE DEF y
  <2>3. RestTyped'
    BY <2>1, <2>2, <2>6, <2>7 DEF RestTyped
  <2>4. Members' = Members
    BY <2>2, <2>6, <2>7 DEF Members, RestTyped
  <2>5. \A v \in User : ~RowFree(r, v) => member'[v] = member[v]
    BY <2>1, <2>2 DEF RowFree, RestTyped
  <2>. QED
    BY <2>1, <2>3, <2>4, <2>5, CommitKeeps
<1>4. CASE CommitDecline(r)
  <2>1. /\ End(r) /\ VaultFree(r) /\ Drop(req[r].user) /\ At(r, "decline", "written")
        /\ RequireRotation /\ NoteStanding(r) /\ UNCHANGED <<gone, knows, crossed, lapsed>>
    BY <1>4 DEF CommitDecline
  <2>2. RowFree(r, req[r].user)
    BY <2>1 DEF Holds, RowFree
  <2>. QED
    BY <2>1, <2>2, DropKeeps
<1>5. CASE CommitSetRole(r)
  <2> DEFINE t == req[r].target
  <2>1. /\ req[r] \in CallType /\ req[r].at = "locked" /\ End(r) /\ t \in Members /\ req[r].role \in Role
        /\ member' = [member EXCEPT ![t].role = req[r].role]
        /\ NoteStanding(r) /\ UNCHANGED <<vaultVars, gone, knows, crossed, lapsed>>
    BY <1>5 DEF CommitSetRole, At, Unmarked, CallType
  <2>2. vaultLock = r
    BY <2>1 DEF Holds, UnderLock
  <2>3. RestTyped'
    BY <2>1 DEF RestTyped, Row, NoteStanding
  <2>4. \A u \in Members : u \in Members' /\ member'[u].seal = member[u].seal
    BY <2>1, <2>3 DEF Members, RestTyped, Row
  <2>. QED
    BY <2>1, <2>2, <2>3, <2>4, CommitKeeps
<1>6. CASE CommitRemove(r)
  <2>1. /\ End(r) /\ Drop(req[r].target) /\ RowFree(r, req[r].target) /\ At(r, "remove", "locked")
        /\ RequireRotation /\ NoteStanding(r) /\ UNCHANGED <<gone, knows, crossed, lapsed>>
    BY <1>6 DEF CommitRemove
  <2>2. VaultFree(r)
    BY <2>1 DEF Holds, At, UnderLock, VaultFree
  <2>. QED
    BY <2>1, <2>2, DropKeeps
<1>7. CASE CommitLeave(r)
  <2>1. /\ End(r) /\ Drop(req[r].user) /\ RowFree(r, req[r].user) /\ At(r, "leave", "locked")
        /\ RequireRotation /\ NoteStanding(r) /\ UNCHANGED <<gone, knows, crossed, lapsed>>
    BY <1>7 DEF CommitLeave
  <2>2. VaultFree(r)
    BY <2>1 DEF Holds, At, UnderLock, VaultFree
  <2>. QED
    BY <2>1, <2>2, DropKeeps
<1>8. CASE CommitTransfer(r)
  <2> DEFINE u == req[r].user
             t == req[r].target
  <2>1. /\ req[r] \in CallType /\ req[r].at = "locked" /\ End(r) /\ t \in Active
        /\ member' = [v \in User |->
             IF v = t THEN [member[v] EXCEPT !.role = "owner"]
             ELSE IF v = u /\ u \in Members THEN [member[v] EXCEPT !.role = "manage"] ELSE member[v]]
        /\ ownerId' = t /\ NoteStanding(r)
        /\ UNCHANGED <<keyVersion, metaKey, keyRotationNeeded, deleted, gone, knows, crossed, lapsed>>
    BY <1>8 DEF CommitTransfer, At
  <2>2. vaultLock = r /\ t \in Members
    BY <2>1 DEF Holds, UnderLock, Active, Members, NoRow
  <2>3. \A v \in User : \/ member'[v] = member[v]
                        \/ /\ v \in Members
                           /\ \E role \in Role : member'[v] = [member[v] EXCEPT !.role = role]
    BY <2>1, <2>2 DEF Role
  <2>4. ASSUME NEW v \in Members PROVE member'[v] \in Row /\ member'[v].seal = member[v].seal
    <3>1. CASE member'[v] = member[v]
      BY <3>1
    <3>2. ASSUME NEW role \in Role, member'[v] = [member[v] EXCEPT !.role = role]
          PROVE  member'[v] \in Row /\ member'[v].seal = member[v].seal
      <4>1. member[v] \in Row
        OBVIOUS
      <4>. QED
        BY <3>2, <4>1 DEF Row
    <3>. QED
      BY <2>3, <3>1, <3>2
  <2>5. member' \in [User -> Row \cup {NoRow}]
    BY <2>1, <2>3, <2>4 DEF RestTyped
  <2>6. RestTyped'
    BY <2>1, <2>2, <2>5 DEF RestTyped, NoteStanding
  <2>7. \A v \in Members : v \in Members' /\ member'[v].seal = member[v].seal
    BY <2>4 DEF Members
  <2>. QED
    BY <2>1, <2>2, <2>6, <2>7, CommitKeeps
<1>9. CASE CommitRotation(r)
  <2> DEFINE u == req[r].user
             ver == req[r].ver
  <2>1. /\ req[r] \in CallType /\ Sealing(r) /\ End(r)
        /\ keyVersion' = ver /\ metaKey' = ver /\ keyRotationNeeded' = FALSE
        /\ member' = [m \in User |->
             IF m = u THEN [member[m] EXCEPT !.wrap = ver]
             ELSE IF m \in req[r].sealed
                  THEN [member[m] EXCEPT !.seal = ver, !.by = u,
                          !.wrap = IF member[m].status = "pending" THEN ver ELSE member[m].wrap]
             ELSE member[m]]
        /\ knows' = {u} \cup req[r].sealed
        /\ crossed' = (crossed \ req[r].sealed) \cup ({u} \ Active)
        /\ UNCHANGED <<ownerId, deleted, gone, stale, lapsed>>
    BY <1>9 DEF CommitRotation, Sealing, At
  <2>2. vaultLock = r /\ ver \in Nat \ {0} /\ u \in Members /\ req[r].sealed \subseteq Members
        /\ \A m \in {u} \cup req[r].sealed : RowFree(r, m)
    <3>1. /\ vaultLock = r /\ ver = keyVersion + 1
          /\ \A m \in {u} \cup req[r].sealed : rowLock[m] = r /\ m \in Members
      BY <2>1 DEF Holds, Sealing, At, UnderLock
    <3>2. keyVersion + 1 \in Nat \ {0}
      BY DEF RestTyped
    <3>. QED
      BY <3>1, <3>2 DEF RowFree
  <2>3. \A m \in User : member'[m] \in Row \cup {NoRow}
    <3>1. ASSUME NEW m \in User, m = u PROVE member'[m] \in Row
      BY <2>1, <2>2, <3>1 DEF Row
    <3>2. ASSUME NEW m \in User, m # u, m \in req[r].sealed PROVE member'[m] \in Row
      BY <2>1, <2>2, <3>2 DEF Row
    <3>3. ASSUME NEW m \in User, m # u, m \notin req[r].sealed PROVE member'[m] = member[m]
      BY <2>1, <3>3
    <3>. QED
      BY <3>1, <3>2, <3>3 DEF RestTyped
  <2>4. RestTyped'
    BY <2>1, <2>2, <2>3 DEF RestTyped
  <2>5. \A m \in User : ~RowFree(r, m) => member'[m] = member[m]
    BY <2>1, <2>2
  <2>. QED
    BY <2>1, <2>2, <2>4, <2>5, CommitKeeps DEF Members
<1>10. CASE CommitRename(r)
  <2>1. req[r] \in CallType /\ End(r) /\ VaultFree(r) /\ metaKey' = req[r].ver
        /\ UNCHANGED <<keyVersion, keyRotationNeeded, ownerId, deleted, member, gone, historyVars>>
    BY <1>10 DEF CommitRename, At
  <2>2. RestTyped'
    BY <2>1 DEF RestTyped, CallType
  <2>. QED
    BY <2>1, <2>2, CommitKeeps DEF Members
<1>11. CASE CommitDeleteVault(r)
  <2>1. End(r) /\ deleted' = TRUE
        /\ UNCHANGED <<keyVersion, metaKey, keyRotationNeeded, ownerId, member, gone, historyVars>>
    BY <1>11 DEF CommitDeleteVault
  <2>2. RestTyped'
    BY <2>1 DEF RestTyped
  <2>. QED
    BY <2>1, <2>2, CommitKeeps DEF Members
<1>12. CASE CommitPut(r)
  <2>1. UNCHANGED <<vaultVars, member, gone, historyVars>> /\ End(r)
    BY <1>12 DEF CommitPut
  <2>. QED
    BY <2>1, CommitKeeps DEF RestTyped, Members
<1>13. CASE CommitDeleteAccount(r)
  <2> DEFINE u == req[r].user
  <2>1. PICK rows \in SUBSET Members :
          /\ \A m \in rows : RowFree(r, m)
          /\ member' = [m \in User |-> IF m \in rows THEN NoRow ELSE member[m]]
          /\ lapsed' \subseteq lapsed \cup rows
    BY <1>13 DEF CommitDeleteAccount
  <2>2. /\ req[r] \in CallType /\ End(r) /\ ownerId' = Heir(r) /\ gone' = gone \cup {u}
        /\ deleted' \in BOOLEAN /\ keyRotationNeeded' \in BOOLEAN /\ stale' \in BOOLEAN
        /\ UNCHANGED <<keyVersion, metaKey, knows, crossed>>
    BY <1>13 DEF CommitDeleteAccount, At, RestTyped
  <2>3. u \in User /\ Heir(r) \in User
    BY <2>2 DEF CallType, Heir, RestTyped
  <2>4. RestTyped'
    BY <2>1, <2>2, <2>3 DEF RestTyped
  <2>5. Members' = Members \ rows /\ gone' # {}
    BY <2>1, <2>2 DEF Members
  <2>6. \A m \in User : ~RowFree(r, m) => member'[m] = member[m]
    BY <2>1
  <2>. QED
    BY <2>2, <2>4, <2>5, <2>6, CommitKeeps DEF Members
<1>. QED
  BY <1>1, <1>2, <1>3, <1>4, <1>5, <1>6, <1>7, <1>8, <1>9, <1>10, <1>11, <1>12, <1>13

THEOREM SharingSafe == Spec => []SharingInv
<1>1. ASSUME SharingInv, [Next]_vars PROVE SharingInv'
  <2>1. CASE Next
    BY <1>1, <2>1, AsksKeep, MovesKeep, CommitsKeep DEF Next, Statement
  <2>2. CASE UNCHANGED vars
    BY <1>1, <2>2 DEF vars, vaultVars, lockVars, historyVars, SharingInv, TypeOK, Holds, At, Sealing, Members
  <2>. QED
    BY <1>1, <2>1, <2>2
<1>. QED
  BY <1>1, SharingInit, PTL DEF Spec

(* From a rotation's commit on, puts are taken under the new key only:     *)
(* a push that passed its check holds the lock a rotation needs            *)
(* (decideChain, rotateKey).                                               *)
THEOREM PutsCurrent == Spec => []PutsUnderCurrentKey
<1>1. SharingInv => PutsUnderCurrentKey
  BY DEF SharingInv, Holds, PutsUnderCurrentKey
<1>. QED
  BY <1>1, SharingSafe, PTL

(* Calls stay in their states, and a rotation seals to exactly those who   *)
(* are members when it commits (rotateKey).                                *)
THEOREM RotationsRight == Spec => []RotationsSound
<1>1. SharingInv => RotationsSound
  BY DEF SharingInv, Holds, RotationsSound, SealsToTheMembers
<1>. QED
  BY <1>1, SharingSafe, PTL
-------------------------------------------------------------------------------
(***************************************************************************)
(* Members and the key.                                                    *)
(***************************************************************************)
(* A member has the current key, or is sealed it.                          *)
Reaches(u) ==
  \/ member[u].seal = keyVersion
  \/ member[u].status = "active" /\ member[u].wrap = keyVersion /\ member[u].seal = 0

(* Keys aren't ahead of the vault's, invitees are sealed one, and an active *)
(* member isn't sealed the one it has.                                     *)
KeysInOrder(u) ==
  /\ member[u].wrap <= keyVersion /\ member[u].seal <= keyVersion
  /\ member[u].status = "pending" => member[u].seal # 0
  /\ member[u].status = "active" /\ member[u].seal # 0 => member[u].wrap # member[u].seal

(* Who accepts was sealed a key.  Who seals has the current one, and the   *)
(* loop misses nobody, except who changes their status between its two     *)
(* UPDATEs.                                                                *)
CallInOrder(r) ==
  /\ req[r] # NoReq /\ req[r].op = "accept" => req[r].ver # 0
  /\ Sealing(r) =>
       /\ member[req[r].user].wrap = keyVersion
       /\ \A m \in Members \ ({req[r].user} \cup crossed) : m \in req[r].todo \cup req[r].sealed
       /\ req[r].half \in Members =>
            req[r].half \in req[r].sealed \cup crossed \/ member[req[r].half].status = "pending"

KeyInv ==
  /\ \A u \in Members \ crossed : Reaches(u)
  /\ \A u \in Members : KeysInOrder(u)
  /\ \A r \in Request : CallInOrder(r)

LEMMA KeyInit == Init => KeyInv
<1> SUFFICES ASSUME Init PROVE KeyInv
  OBVIOUS
<1>1. ASSUME NEW u \in Members PROVE Reaches(u) /\ KeysInOrder(u)
  BY DEF Init, Members, Reaches, KeysInOrder
<1>2. \A r \in Request : CallInOrder(r)
  BY DEF Init, CallInOrder, Sealing, At
<1>. QED
  BY <1>1, <1>2 DEF KeyInv

(* Rows lose their role or go, and no seal loop moves.                     *)
LEMMA KeyKept ==
  ASSUME KeyInv, SharingInv', keyVersion' = keyVersion, crossed' = crossed,
         \A u \in Members' : /\ u \in Members
                             /\ member'[u].status = member[u].status
                             /\ member'[u].wrap = member[u].wrap /\ member'[u].seal = member[u].seal,
         \A q \in Request :
           \/ req'[q] = req[q]
           \/ ~Sealing(q)' /\ (req'[q] # NoReq /\ req'[q].op = "accept" => req'[q].ver # 0)
  PROVE  KeyInv'
<1>1. \A u \in Members' \ crossed' : Reaches(u)'
  BY DEF KeyInv, Reaches
<1>2. \A u \in Members' : KeysInOrder(u)'
  BY DEF KeyInv, KeysInOrder
<1>3. ASSUME NEW q \in Request PROVE CallInOrder(q)'
  <2>1. CASE req'[q] = req[q] /\ Sealing(q)
    <3>1. CallInOrder(q) /\ req'[q].user \in Members'
      BY <2>1 DEF KeyInv, SharingInv, Holds, Sealing, At
    <3>. QED
      BY <2>1, <3>1 DEF CallInOrder
  <2>2. CASE ~Sealing(q)'
    <3>1. CallInOrder(q)
      BY DEF KeyInv
    <3>. QED
      BY <2>2, <3>1 DEF CallInOrder
  <2>. QED
    BY <2>1, <2>2 DEF Sealing, At
<1>. QED
  BY <1>1, <1>2, <1>3 DEF KeyInv

(* Nobody seals, and rows are changed that all reach the key.              *)
LEMMA KeyKeptUnsealed ==
  ASSUME KeyInv, NEW r \in Request, End(r), req \in [Request -> CallType \cup {NoReq}],
         \A q \in Request \ {r} : ~Sealing(q),
         \A u \in Members' \ crossed' : Reaches(u)',
         \A u \in Members' : KeysInOrder(u)'
  PROVE  KeyInv'
<1>1. ASSUME NEW q \in Request PROVE CallInOrder(q)'
  BY <1>1 DEF KeyInv, CallInOrder, End, Sealing, At
<1>. QED
  BY <1>1 DEF KeyInv

LEMMA KeyStep ==
  ASSUME SharingInv, SharingInv', KeyInv, NEW r \in Request, Ask(r) \/ Task(r) \/ Statement(r) \/ Abort(r)
  PROVE  KeyInv'
<1> USE DEF lockVars, vaultVars, historyVars
<1>. /\ TypeOK /\ Holds(r) /\ CallInOrder(r)
     /\ req \in [Request -> CallType \cup {NoReq}] /\ member \in [User -> Row \cup {NoRow}]
     /\ NoReq \notin CallType /\ NoRow \notin Row
     /\ req[r] # NoReq => req[r] \in CallType
     /\ Members \subseteq User /\ \A u \in Members : member[u] \in Row
     /\ keyVersion \in Nat \ {0}
  BY DEF SharingInv, TypeOK, NoReq, CallType, Members, NoRow, Row, KeyInv
<1>. /\ Members' \subseteq User /\ \A u \in Members' : member'[u] \in Row
  BY DEF SharingInv, TypeOK, Members
<1>. \A q \in Request : Sealing(q) => vaultLock = q
  BY DEF SharingInv, Holds, Sealing, At, UnderLock
<1>1. CASE Ask(r) \/ Task(r)
  <2>1. PICK call : Fresh(call) /\ Fitting(call) /\ Start(r, call)
    BY <1>1, AsksStart DEF Starts
  <2>2. /\ req' = [req EXCEPT ![r] = call] /\ UNCHANGED <<vaultVars, member, gone, historyVars>>
        /\ call.at \in {"begun", "unlocked"} /\ call.user \in User
    BY <2>1 DEF Start, Fresh, CallType
  <2>3. call.op = "accept" => call.ver # 0
    <3>1. member[call.user].status = "pending" => call.user \in Members
      BY <2>2 DEF Members, NoRow
    <3>. QED
      BY <2>1, <3>1 DEF Fitting, KeyInv, KeysInOrder
  <2>4. \A q \in Request :
           \/ req'[q] = req[q]
           \/ ~Sealing(q)' /\ (req'[q] # NoReq /\ req'[q].op = "accept" => req'[q].ver # 0)
    BY <2>2, <2>3 DEF Sealing, At
  <2>. QED
    BY <2>2, <2>4, KeyKept DEF Members
<1>2. CASE LockVault(r) \/ WriteAccept(r) \/ WriteDecline(r) \/ CheckPut(r) \/ LockOwn(r) \/ DecideAccount(r)
  <2>1. /\ UNCHANGED <<vaultVars, member, gone, historyVars>>
        /\ \E x : /\ req' = [req EXCEPT ![r] = x] /\ req[r] \in CallType
                  /\ x.at # "sealing" /\ x.op = req[r].op /\ x.ver = req[r].ver
    <3>6. ASSUME NEW at, at # "sealing", Step(r, at), req[r] \in CallType
          PROVE  \E x : /\ req' = [req EXCEPT ![r] = x] /\ x.at # "sealing"
                        /\ x.op = req[r].op /\ x.ver = req[r].ver
      <4> DEFINE x == [req[r] EXCEPT !.at = at]
      <4>1. req' = [req EXCEPT ![r] = x] /\ x.at # "sealing" /\ x.op = req[r].op /\ x.ver = req[r].ver
        BY <3>6 DEF Step, CallType
      <4>. QED
        BY <4>1
    <3>1. CASE LockVault(r)
      BY <3>1, <3>6 DEF LockVault, At
    <3>2. CASE WriteAccept(r) \/ WriteDecline(r)
      BY <3>2, <3>6 DEF WriteAccept, WriteDecline, At
    <3>3. CASE CheckPut(r)
      BY <3>3, <3>6 DEF CheckPut, At
    <3>4. CASE LockOwn(r)
      <4>1. \E at \in {"own", "leaving"} : Step(r, at) /\ req[r] \in CallType
        BY <3>4 DEF LockOwn, At
      <4>. QED
        BY <3>4, <3>6, <4>1 DEF LockOwn
    <3>5. CASE DecideAccount(r)
      <4> DEFINE shared == ~deleted /\ (ownerId = req[r].user \/ req[r].user \in Active)
                 owners == ActiveOwners \ {req[r].user}
                 at == IF ~shared THEN "leaving" ELSE IF owners = {} THEN "dropping" ELSE "handing"
      <4>3. PICK heir : req' = [req EXCEPT ![r] = [req[r] EXCEPT !.target = heir, !.at = at]]
        BY <3>5 DEF DecideAccount
      <4>4. at # "sealing" /\ req[r] \in CallType
        BY <3>5 DEF DecideAccount, At
      <4> HIDE DEF at
      <4>1. req[r] \in CallType /\ req' = [req EXCEPT ![r] = [req[r] EXCEPT !.target = heir, !.at = at]]
        BY <4>3, <4>4
      <4> DEFINE x == [req[r] EXCEPT !.target = heir, !.at = at]
      <4>2. req' = [req EXCEPT ![r] = x] /\ x.at # "sealing" /\ x.op = req[r].op /\ x.ver = req[r].ver
        BY <4>1, <4>4 DEF CallType
      <4>. QED
        BY <3>5, <4>1, <4>2 DEF DecideAccount
    <3>. QED
      BY <1>2, <3>1, <3>2, <3>3, <3>4, <3>5
  <2>2. \A q \in Request :
           \/ req'[q] = req[q]
           \/ ~Sealing(q)' /\ (req'[q] # NoReq /\ req'[q].op = "accept" => req'[q].ver # 0)
    BY <2>1 DEF Sealing, At, CallInOrder
  <2>. QED
    BY <2>1, <2>2, KeyKept DEF Members
<1>3. CASE \/ Abort(r) \/ CommitDecline(r) \/ CommitRemove(r) \/ CommitLeave(r) \/ CommitRename(r)
           \/ CommitDeleteVault(r) \/ CommitPut(r) \/ CommitDeleteAccount(r)
  <2>1. End(r) /\ keyVersion' = keyVersion /\ crossed' = crossed
    <3>1. CASE Abort(r) \/ CommitPut(r)
      BY <3>1 DEF Abort, CommitPut
    <3>2. CASE CommitDecline(r) \/ CommitRemove(r) \/ CommitLeave(r)
      BY <3>2 DEF CommitDecline, CommitRemove, CommitLeave, RequireRotation
    <3>3. CASE CommitRename(r) \/ CommitDeleteVault(r)
      BY <3>3 DEF CommitRename, CommitDeleteVault
    <3>4. CASE CommitDeleteAccount(r)
      BY <3>4 DEF CommitDeleteAccount
    <3>. QED
      BY <1>3, <3>1, <3>2, <3>3, <3>4
  <2>2. \A u \in User : member'[u] \in {member[u], NoRow}
    <3>1. CASE Abort(r) \/ CommitPut(r) \/ CommitRename(r) \/ CommitDeleteVault(r)
      BY <3>1 DEF Abort, CommitPut, CommitRename, CommitDeleteVault
    <3>2. CASE CommitDecline(r) \/ CommitRemove(r) \/ CommitLeave(r)
      BY <3>2 DEF CommitDecline, CommitRemove, CommitLeave, Drop
    <3>3. CASE CommitDeleteAccount(r)
      BY <3>3 DEF CommitDeleteAccount
    <3>. QED
      BY <1>3, <3>1, <3>2, <3>3
  <2>3. \A u \in Members' : u \in Members /\ member'[u] = member[u]
    BY <2>2 DEF Members
  <2>4. \A q \in Request :
           \/ req'[q] = req[q]
           \/ ~Sealing(q)' /\ (req'[q] # NoReq /\ req'[q].op = "accept" => req'[q].ver # 0)
    BY <2>1 DEF End, Sealing, At
  <2>. QED
    BY <2>1, <2>3, <2>4, KeyKept
<1>4. CASE CommitSetRole(r) \/ CommitTransfer(r)
  <2>1. End(r) /\ keyVersion' = keyVersion /\ crossed' = crossed
    BY <1>4 DEF CommitSetRole, CommitTransfer, Unmarked
  <2>2. \A u \in User : \/ member'[u] = member[u]
                        \/ u \in Members /\ \E role : member'[u] = [member[u] EXCEPT !.role = role]
    <3>1. CASE CommitSetRole(r)
      BY <3>1 DEF CommitSetRole
    <3>2. CASE CommitTransfer(r)
      <4>1. req[r].target \in Active => req[r].target \in Members
        BY DEF Active, Members, NoRow
      <4>. QED
        BY <3>2, <4>1 DEF CommitTransfer
    <3>. QED
      BY <1>4, <3>1, <3>2
  <2>3. ASSUME NEW u \in Members'
        PROVE  /\ u \in Members /\ member'[u].status = member[u].status
               /\ member'[u].wrap = member[u].wrap /\ member'[u].seal = member[u].seal
    <3>1. CASE member'[u] = member[u]
      BY <3>1 DEF Members
    <3>2. CASE u \in Members /\ \E role : member'[u] = [member[u] EXCEPT !.role = role]
      BY <3>2 DEF Row
    <3>. QED
      BY <2>2, <3>1, <3>2
  <2>4. \A q \in Request :
           \/ req'[q] = req[q]
           \/ ~Sealing(q)' /\ (req'[q] # NoReq /\ req'[q].op = "accept" => req'[q].ver # 0)
    BY <2>1 DEF End, Sealing, At
  <2>. QED
    BY <2>1, <2>3, <2>4, KeyKept
<1>5. CASE CommitInvite(r)
  <2> DEFINE t == req[r].target
             y == [role |-> req[r].role, status |-> "pending", wrap |-> req[r].ver,
                   seal |-> req[r].ver, by |-> req[r].user]
  <2>1. /\ req[r] \in CallType /\ req[r].at = "locked" /\ req[r].op = "invite" /\ End(r)
        /\ req[r].ver = keyVersion /\ t \in User \ Members
        /\ member' = [member EXCEPT ![t] = y]
        /\ UNCHANGED <<vaultVars, crossed>>
    BY <1>5 DEF CommitInvite, At, CallType, Unmarked
  <2>2. \A q \in Request \ {r} : ~Sealing(q)
    BY <2>1 DEF Holds, UnderLock
  <2>3. ASSUME NEW u \in Members' PROVE KeysInOrder(u)' /\ (u \notin crossed' => Reaches(u)')
    <3>1. CASE u = t
      BY <2>1, <3>1 DEF KeysInOrder, Reaches
    <3>2. CASE u # t
      BY <2>1, <3>2 DEF KeysInOrder, Reaches, KeyInv, Members
    <3>. QED
      BY <3>1, <3>2
  <2>. QED
    BY <2>1, <2>2, <2>3, KeyKeptUnsealed
<1>6. CASE CommitAccept(r)
  <2> DEFINE u == req[r].user
             y == [member[u] EXCEPT !.status = "active", !.wrap = req[r].ver, !.seal = 0, !.by = NoUser]
  <2>1. /\ req[r] \in CallType /\ End(r) /\ At(r, "accept", "written")
        /\ member' = [member EXCEPT ![u] = y]
        /\ UNCHANGED vaultVars
        /\ crossed' = IF \E q \in Request : Sealing(q) THEN crossed \cup {u} ELSE crossed
    BY <1>6 DEF CommitAccept, At, Unmarked
  <2>2. /\ rowLock[u] = r /\ u \in Members /\ member[u].seal = req[r].ver /\ req[r].ver # 0
        /\ member[u] \in Row /\ KeysInOrder(u)
    BY <2>1 DEF Holds, CallInOrder, At, KeyInv
  <2>3. y.status = "active" /\ y.wrap = req[r].ver /\ y.seal = 0 /\ member'[u] = y
    BY <2>1, <2>2 DEF Row
  <2> HIDE DEF y
  <2>4. Members' \subseteq Members /\ \A v \in User \ {u} : member'[v] = member[v]
    BY <2>1, <2>2 DEF Members
  <2>5. ASSUME NEW v \in Members' PROVE KeysInOrder(v)'
    <3>1. CASE v = u
      BY <2>1, <2>2, <2>3, <3>1 DEF KeysInOrder
    <3>2. CASE v # u
      BY <2>1, <2>4, <3>2 DEF KeysInOrder, KeyInv
    <3>. QED
      BY <3>1, <3>2
  <2>6. ASSUME NEW v \in Members' \ crossed' PROVE Reaches(v)'
    <3>1. v \notin crossed /\ v \in Members /\ Reaches(v)
      BY <2>1, <2>4 DEF KeyInv
    <3>2. CASE v = u
      BY <2>1, <2>2, <2>3, <3>1, <3>2 DEF Reaches
    <3>3. CASE v # u
      BY <2>1, <2>4, <3>1, <3>3 DEF Reaches
    <3>. QED
      BY <3>2, <3>3
  <2>7. CASE \A q \in Request \ {r} : ~Sealing(q)
    BY <2>1, <2>5, <2>6, <2>7, KeyKeptUnsealed
  <2>8. ASSUME NEW p \in Request, Sealing(p) PROVE KeyInv'
    <3>1. crossed' = crossed \cup {u}
      BY <2>1, <2>8
    <3>2. ASSUME NEW q \in Request, Sealing(q)' PROVE CallInOrder(q)'
      <4>1. q # r /\ req'[q] = req[q] /\ Sealing(q)
        BY <2>1, <3>2 DEF End, Sealing, At
      <4>2. CallInOrder(q) /\ req[q].user # u /\ req[q].user \in User
        BY <2>2, <4>1 DEF KeyInv, SharingInv, Holds, Sealing, At
      <4>3. req[q].half \in User /\ req[q].half # u => member'[req[q].half] = member[req[q].half]
        BY <2>4
      <4>. QED
        BY <2>1, <2>4, <3>1, <4>1, <4>2, <4>3 DEF CallInOrder, Sealing, At
    <3>3. ASSUME NEW q \in Request, ~Sealing(q)' PROVE CallInOrder(q)'
      BY <2>1, <3>3 DEF End, CallInOrder, KeyInv
    <3>. QED
      BY <2>5, <2>6, <3>2, <3>3 DEF KeyInv
  <2>. QED
    BY <2>7, <2>8
<1>7. CASE CheckRotation(r)
  <2> DEFINE x == [req[r] EXCEPT !.at = "sealing", !.todo = req[r].others]
  <2>1. /\ req[r] \in CallType /\ req[r].at = "locked" /\ req' = [req EXCEPT ![r] = x]
        /\ req[r].op = "rotate" /\ req[r].user \in Members /\ member[req[r].user].wrap = req[r].ver - 1
        /\ keyVersion = req[r].ver - 1 /\ req[r].others = Members \ {req[r].user}
        /\ UNCHANGED <<vaultVars, member, crossed>>
    BY <1>7 DEF CheckRotation, At
  <2>2. vaultLock = r /\ req[r].half = NoUser
    BY <2>1 DEF Holds, UnderLock
  <2>3. /\ req'[r] = x /\ x.todo = req[r].others /\ x.user = req[r].user /\ x.half = NoUser /\ x.op = "rotate"
        /\ x.sealed = req[r].sealed
    BY <2>1, <2>2 DEF CallType
  <2>4. Members' = Members /\ NoUser \notin Members
    BY <2>1, SharingAssumption DEF Members
  <2>5. ASSUME NEW q \in Request PROVE CallInOrder(q)'
    <3>1. CASE q = r
      BY <2>1, <2>3, <2>4, <3>1 DEF CallInOrder
    <3>2. CASE q # r
      BY <2>1, <2>2, <3>2 DEF CallInOrder, KeyInv, Sealing, At
    <3>. QED
      BY <3>1, <3>2
  <2>. QED
    BY <2>1, <2>4, <2>5 DEF KeyInv, Reaches, KeysInOrder
<1>8. CASE SealActive(r)
  <2>1. PICK m \in req[r].todo : \E x :
          /\ req' = [req EXCEPT ![r] = x] /\ x.todo = req[r].todo /\ x.half = m
          /\ x.user = req[r].user /\ x.op = req[r].op
          /\ x.sealed = IF member[m].status = "active" THEN req[r].sealed \cup {m} ELSE req[r].sealed
    <3>1. Sealing(r) /\ req[r] \in CallType
      BY <1>8 DEF SealActive, Sealing, At
    <3>2. PICK m \in req[r].todo :
            IF member[m].status = "active"
            THEN req' = [req EXCEPT ![r] = [req[r] EXCEPT !.half = m, !.sealed = req[r].sealed \cup {m}]]
            ELSE req' = [req EXCEPT ![r] = [req[r] EXCEPT !.half = m]]
      BY <1>8, <3>1 DEF SealActive
    <3>3. CASE member[m].status = "active"
      <4> DEFINE x == [req[r] EXCEPT !.half = m, !.sealed = req[r].sealed \cup {m}]
      <4>1. /\ req' = [req EXCEPT ![r] = x] /\ x.todo = req[r].todo /\ x.half = m
            /\ x.user = req[r].user /\ x.op = req[r].op /\ x.sealed = req[r].sealed \cup {m}
        BY <3>1, <3>2, <3>3 DEF CallType
      <4>. QED
        BY <3>3, <4>1
    <3>4. CASE member[m].status # "active"
      <4> DEFINE x == [req[r] EXCEPT !.half = m]
      <4>1. /\ req' = [req EXCEPT ![r] = x] /\ x.todo = req[r].todo /\ x.half = m
            /\ x.user = req[r].user /\ x.op = req[r].op /\ x.sealed = req[r].sealed
        BY <3>1, <3>2, <3>4 DEF CallType
      <4>. QED
        BY <3>4, <4>1
    <3>. QED
      BY <3>3, <3>4
  <2>2. Sealing(r) /\ UNCHANGED <<vaultVars, member, crossed>> /\ Members' = Members
    BY <1>8 DEF SealActive, Members
  <2>3. m \in Members => member[m].status = "active" \/ member[m].status = "pending"
    BY DEF Row
  <2>4. CallInOrder(r)'
    BY <2>1, <2>2, <2>3 DEF CallInOrder, Sealing, At
  <2>. QED
    BY <2>1, <2>2, <2>4 DEF KeyInv, CallInOrder, Reaches, KeysInOrder, Sealing, At
<1>9. CASE SealPending(r)
  <2> DEFINE m == req[r].half
  <2>1. Sealing(r) /\ req[r] \in CallType /\ UNCHANGED <<vaultVars, member, crossed>> /\ Members' = Members
    BY <1>9 DEF SealPending, Sealing, At, Members
  <2>2. \E x :
          /\ req' = [req EXCEPT ![r] = x] /\ x.todo = req[r].todo \ {m} /\ x.half = NoUser
          /\ x.user = req[r].user /\ x.op = req[r].op
          /\ x.sealed = IF member[m].status = "pending" THEN req[r].sealed \cup {m} ELSE req[r].sealed
    <3>1. CASE member[m].status = "pending"
      <4> DEFINE x == [req[r] EXCEPT !.half = NoUser, !.todo = req[r].todo \ {m}, !.sealed = req[r].sealed \cup {m}]
      <4>1. req' = [req EXCEPT ![r] = x]
        BY <1>9, <3>1 DEF SealPending
      <4>2. /\ x.todo = req[r].todo \ {m} /\ x.half = NoUser
            /\ x.user = req[r].user /\ x.op = req[r].op /\ x.sealed = req[r].sealed \cup {m}
        BY <2>1 DEF CallType
      <4>. QED
        BY <3>1, <4>1, <4>2
    <3>2. CASE member[m].status # "pending"
      <4> DEFINE x == [req[r] EXCEPT !.half = NoUser, !.todo = req[r].todo \ {m}]
      <4>1. req' = [req EXCEPT ![r] = x]
        BY <1>9, <3>2 DEF SealPending
      <4>2. /\ x.todo = req[r].todo \ {m} /\ x.half = NoUser
            /\ x.user = req[r].user /\ x.op = req[r].op /\ x.sealed = req[r].sealed
        BY <2>1 DEF CallType
      <4>. QED
        BY <3>2, <4>1, <4>2
    <3>. QED
      BY <3>1, <3>2
  <2>3. NoUser \notin Members
    BY SharingAssumption
  <2>4. CallInOrder(r)'
    BY <2>1, <2>2, <2>3 DEF CallInOrder, Sealing, At
  <2>. QED
    BY <2>1, <2>2, <2>4 DEF KeyInv, CallInOrder, Reaches, KeysInOrder, Sealing, At
<1>10. CASE CommitRotation(r)
  <2> DEFINE u == req[r].user
             ver == req[r].ver
             x == [member[u] EXCEPT !.wrap = ver]
  <2>1. /\ Sealing(r) /\ End(r) /\ req[r].todo = {} /\ keyVersion' = ver
        /\ member' = [m \in User |->
             IF m = u THEN [member[m] EXCEPT !.wrap = ver]
             ELSE IF m \in req[r].sealed
                  THEN [member[m] EXCEPT !.seal = ver, !.by = u,
                          !.wrap = IF member[m].status = "pending" THEN ver ELSE member[m].wrap]
             ELSE member[m]]
        /\ crossed' = (crossed \ req[r].sealed) \cup ({u} \ Active)
    BY <1>10 DEF CommitRotation
  <2>2. /\ ver = keyVersion + 1 /\ u \in Members /\ req[r].sealed \subseteq Members /\ u \notin req[r].sealed
        /\ member[u].wrap = keyVersion
        /\ \A m \in Members \ ({u} \cup crossed) : m \in req[r].sealed
    BY <2>1 DEF Holds, CallInOrder
  <2>3. member'[u].wrap = ver /\ member'[u].seal = member[u].seal /\ member'[u].status = member[u].status
    <3>1. u \in User /\ member[u] \in Row
      BY <2>2
    <3>. QED
      BY <2>1, <3>1 DEF Row
  <2>4. ASSUME NEW m \in req[r].sealed
        PROVE  /\ member'[m].seal = ver /\ member'[m].status = member[m].status
               /\ member'[m].wrap = IF member[m].status = "pending" THEN ver ELSE member[m].wrap
    <3>1. m \in User /\ m # u /\ member[m] \in Row
      BY <2>2
    <3>. QED
      BY <2>1, <3>1 DEF Row
  <2>5. \A m \in User \ ({u} \cup req[r].sealed) : member'[m] = member[m]
    BY <2>1
  <2>6. \A m \in Members' : m \in Members
    BY <2>2, <2>5 DEF Members
  <2>7. \A m \in Members : member[m].wrap \in Nat /\ member[m].seal \in Nat /\ member[m].status \in {"active", "pending"}
    BY DEF Row
  <2>8. ASSUME NEW m \in Members' PROVE KeysInOrder(m)'
    <3>1. KeysInOrder(m) /\ m \in Members
      BY <2>6 DEF KeyInv
    <3> DEFINE wrap == member[m].wrap
               seal == member[m].seal
    <3>5. /\ wrap \in Nat /\ seal \in Nat /\ wrap <= keyVersion /\ seal <= keyVersion
          /\ keyVersion \in Nat /\ ver = keyVersion + 1 /\ keyVersion' = ver
          /\ member[m].status = "pending" => seal # 0
          /\ member[m].status = "active" /\ seal # 0 => wrap # seal
      BY <2>1, <2>2, <2>7, <3>1 DEF KeysInOrder
    <3> HIDE DEF wrap, seal
    <3>6. wrap < ver /\ seal < ver /\ ver # 0
      BY <3>5
    <3>2. CASE m = u
      <4>1. member'[m].wrap = ver /\ member'[m].seal = seal /\ member'[m].status = member[m].status
        BY <2>3, <3>2 DEF seal
      <4>. QED
        BY <3>5, <3>6, <4>1 DEF KeysInOrder
    <3>3. CASE m \in req[r].sealed
      <4>1. /\ member'[m].wrap = IF member[m].status = "pending" THEN ver ELSE wrap
            /\ member'[m].seal = ver /\ member'[m].status = member[m].status
        BY <2>4, <3>3 DEF wrap
      <4>. QED
        BY <3>5, <3>6, <4>1 DEF KeysInOrder
    <3>4. CASE m \notin {u} \cup req[r].sealed
      <4>1. member'[m].wrap = wrap /\ member'[m].seal = seal /\ member'[m].status = member[m].status
        BY <2>5, <3>1, <3>4 DEF wrap, seal
      <4>. QED
        BY <3>5, <3>6, <4>1 DEF KeysInOrder
    <3>. QED
      BY <3>2, <3>3, <3>4
  <2>9. ASSUME NEW m \in Members' \ crossed' PROVE Reaches(m)'
    <3>1. KeysInOrder(m) /\ m \in Members
      BY <2>6 DEF KeyInv
    <3>2. CASE m \in req[r].sealed
      BY <2>1, <2>4, <3>2 DEF Reaches
    <3>3. CASE m \notin req[r].sealed
      <4>1. m = u /\ m \notin crossed /\ member[u].status = "active"
        BY <2>1, <2>2, <3>1, <3>3 DEF Active
      <4>2. member[u].seal = 0
        BY <2>2, <3>1, <4>1 DEF KeyInv, Reaches, KeysInOrder
      <4>. QED
        BY <2>1, <2>3, <4>1, <4>2 DEF Reaches
    <3>. QED
      BY <3>2, <3>3
  <2>10. \A q \in Request \ {r} : ~Sealing(q)
    BY <2>1
  <2>. QED
    BY <2>1, <2>8, <2>9, <2>10, KeyKeptUnsealed
<1>. QED
  BY <1>1, <1>2, <1>3, <1>4, <1>5, <1>6, <1>7, <1>8, <1>9, <1>10 DEF Statement

(* Every member has, or is sealed, the vault's current key, but for those  *)
(* who accept one while a rotation seals the next (acceptKey takes no lock *)
(* of the vault), or whom their own rotation found invited anew.           *)
THEOREM KeyReached == Spec => []MembersReachTheKey
<1>1. ASSUME SharingInv, SharingInv', KeyInv, [Next]_vars PROVE KeyInv'
  <2>1. CASE Next
    BY <1>1, <2>1, KeyStep DEF Next
  <2>2. CASE UNCHANGED vars
    BY <1>1, <2>2 DEF vars, vaultVars, historyVars, KeyInv, Reaches, KeysInOrder, CallInOrder, Sealing, At, Members
  <2>. QED
    BY <1>1, <2>1, <2>2
<1>2. KeyInv => MembersReachTheKey
  BY DEF KeyInv, Reaches, MembersReachTheKey
<1>. QED
  BY <1>1, <1>2, KeyInit, SharingSafe, PTL DEF Spec
-------------------------------------------------------------------------------
(***************************************************************************)
(* A vault keeps an owner.                                                 *)
(***************************************************************************)
(* What a call read of the members still stands when it comes to use it.   *)
(* An account that is being deleted has its rows locked; the member it     *)
(* hands its vaults to, or that it has no vault, is seen under their lock. *)
CallStands(r) ==
  LET q == req[r]
      u == q.user
  IN  /\ vaultLock = r => q # NoReq /\ q.at \in UnderLock \cup {"leaving"}
      /\ q # NoReq /\ q.op = "decline" => q.own.status = "pending"
      /\ q # NoReq /\ q.op = "remove" => q.own.status = "active" /\ q.target # u
      /\ q # NoReq /\ q.op = "deleteAccount" =>
           /\ q.at \in {"own", "leaving", "handing", "dropping"} => rowLock[u] = r
           /\ q.at = "handing" /\ ~stale /\ ~deleted => q.target \in ActiveOwners \ {u}
           /\ q.at = "leaving" /\ vaultLock = r /\ ~deleted => u \notin Active

OwnerInv == OwnerStaysUnlessStale /\ \A r \in Request : CallStands(r)

LEMMA OwnerInit == Init => OwnerInv
<1> SUFFICES ASSUME Init PROVE OwnerInv
  OBVIOUS
<1>1. OwnerStaysUnlessStale
  BY DEF Init, OwnerStaysUnlessStale
<1>2. \A r \in Request : CallStands(r)
  BY SharingAssumption DEF Init, CallStands
<1>. QED
  BY <1>1, <1>2 DEF OwnerInv

(* Another request keeps what it stands on.                                *)
LEMMA StandsKept ==
  ASSUME SharingInv, NEW q \in Request, CallStands(q), req'[q] = req[q],
         vaultLock' = q => vaultLock = q,
         stale => stale', deleted => deleted',
         vaultLock = q => stale' \/ ActiveOwners \subseteq ActiveOwners',
         \A u \in User : rowLock[u] = q => rowLock'[u] = q /\ (u \in Active' => u \in Active)
  PROVE  CallStands(q)'
<1>. Holds(q) /\ (req[q] # NoReq => req[q] \in CallType)
  BY DEF SharingInv, TypeOK
<1>1. req[q] # NoReq => req[q].user \in User
  BY DEF CallType
<1>2. req[q] # NoReq /\ req[q].at = "handing" => vaultLock = q
  BY DEF Holds, UnderLock
<1>. QED
  BY <1>1, <1>2 DEF CallStands

(* A statement that moves its request on.                                  *)
LEMMA OwnerMove ==
  ASSUME SharingInv, OwnerInv, NEW r \in Request, NEW x, req' = [req EXCEPT ![r] = x],
         vaultLock' = vaultLock \/ (vaultLock = NoRequest /\ vaultLock' = r),
         rowLock' = rowLock \/ \E u \in User : RowFree(r, u) /\ TakeRow(r, u),
         UNCHANGED <<vaultVars, member, historyVars>>,
         CallStands(r)'
  PROVE  OwnerInv'
<1>1. ASSUME NEW q \in Request, q # r PROVE CallStands(q)'
  <2>1. CallStands(q) /\ req'[q] = req[q]
    BY <1>1 DEF SharingInv, OwnerInv, TypeOK
  <2>2. Active' = Active /\ ActiveOwners' = ActiveOwners /\ stale' = stale /\ deleted' = deleted
    BY DEF Active, ActiveOwners, vaultVars, historyVars
  <2>3. vaultLock' = q => vaultLock = q
    BY <1>1
  <2>4. \A u \in User : rowLock[u] = q => rowLock'[u] = q
    BY <1>1, SharingAssumption DEF RowFree, TakeRow, SharingInv, TypeOK
  <2>. QED
    BY <2>1, <2>2, <2>3, <2>4, StandsKept
<1>2. OwnerStaysUnlessStale'
  BY DEF OwnerInv, OwnerStaysUnlessStale, ActiveOwners, Active, vaultVars, historyVars
<1>. QED
  BY <1>1, <1>2 DEF OwnerInv

(* A commit, or an abort.                                                  *)
LEMMA OwnerCommit ==
  ASSUME SharingInv, OwnerInv, NEW r \in Request, End(r), stale => stale', deleted => deleted',
         vaultLock \notin {r, NoRequest} => stale' \/ ActiveOwners \subseteq ActiveOwners',
         \A u \in User : ~RowFree(r, u) /\ u \in Active' => u \in Active,
         ~stale' /\ ~deleted' /\ ActiveOwners # {} => ActiveOwners' # {}
  PROVE  OwnerInv'
<1>1. ASSUME NEW q \in Request PROVE CallStands(q)'
  <2>1. CASE q = r
    <3>1. req'[r] = NoReq /\ vaultLock' # r
      BY SharingAssumption DEF End, SharingInv, TypeOK
    <3>. QED
      BY <2>1, <3>1 DEF CallStands
  <2>2. CASE q # r
    <3>1. CallStands(q) /\ req'[q] = req[q]
      BY <2>2 DEF SharingInv, OwnerInv, TypeOK, End
    <3>2. (vaultLock' = q => vaultLock = q) /\ (vaultLock = q => vaultLock \notin {r, NoRequest})
      BY <2>2, SharingAssumption DEF End
    <3>3. \A u \in User : rowLock[u] = q => rowLock'[u] = q /\ ~RowFree(r, u)
      BY <2>2, SharingAssumption DEF End, RowFree
    <3>. QED
      BY <3>1, <3>2, <3>3, StandsKept
  <2>. QED
    BY <2>1, <2>2
<1>2. OwnerStaysUnlessStale'
  BY DEF OwnerInv, OwnerStaysUnlessStale
<1>. QED
  BY <1>1, <1>2 DEF OwnerInv

(* A member's row goes, under the vault's lock or where nobody holds it:   *)
(* the caller's standing is what it was when it was read, or the change    *)
(* counts as stale.                                                        *)
LEMMA OwnerDrop ==
  ASSUME SharingInv, OwnerInv, NEW r \in Request, NEW v \in User, End(r), VaultFree(r), Drop(v),
         NoteStanding(r), deleted' = deleted,
         Standing(req[r].user) = req[r].own /\ ActiveOwners # {} => \E o \in ActiveOwners : o # v
  PROVE  OwnerInv'
<1>1. \A u \in User : member'[u] = IF u = v THEN NoRow ELSE member[u]
  BY DEF Drop, SharingInv, TypeOK
<1>2. Active' = Active \ {v} /\ ActiveOwners' = ActiveOwners \ {v}
  BY <1>1 DEF Active, ActiveOwners, NoRow
<1>. QED
  BY <1>2, OwnerCommit DEF VaultFree, NoteStanding

LEMMA OwnerStep ==
  ASSUME SharingInv, OwnerInv, NEW r \in Request, Ask(r) \/ Task(r) \/ Statement(r) \/ Abort(r)
  PROVE  OwnerInv'
<1> USE DEF lockVars, vaultVars, historyVars
<1>. /\ TypeOK /\ Holds(r) /\ CallStands(r) /\ OwnerStaysUnlessStale
     /\ req \in [Request -> CallType \cup {NoReq}] /\ member \in [User -> Row \cup {NoRow}]
     /\ rowLock \in [User -> Request \cup {NoRequest}]
     /\ NoReq \notin CallType /\ NoRow \notin Row
     /\ req[r] # NoReq => req[r] \in CallType
     /\ Members \subseteq User /\ \A u \in Members : member[u] \in Row
     /\ stale \in BOOLEAN /\ deleted \in BOOLEAN
  BY DEF SharingInv, TypeOK, NoReq, CallType, Members, NoRow, Row, OwnerInv
<1>. Active \subseteq Members /\ ActiveOwners \subseteq Active
  BY DEF Active, ActiveOwners, Members, NoRow
<1>1. CASE Ask(r) \/ Task(r)
  <2>1. PICK call : Fresh(call) /\ Fitting(call) /\ Start(r, call)
    BY <1>1, AsksStart DEF Starts
  <2>2. /\ req[r] = NoReq /\ req' = [req EXCEPT ![r] = call] /\ req'[r] = call
        /\ UNCHANGED <<vaultVars, member, lockVars, historyVars>>
        /\ call.at \in {"begun", "unlocked"}
    BY <2>1 DEF Start, Fresh, CallType
  <2>3. CallStands(r)'
    BY <2>1, <2>2 DEF CallStands, Fitting
  <2>. QED
    BY <2>2, <2>3, OwnerMove
<1>2. CASE LockVault(r) \/ WriteAccept(r) \/ WriteDecline(r) \/ CheckPut(r)
  <2>1. PICK at \in {"locked", "written", "put"} :
          /\ Step(r, at) /\ req[r] \in CallType /\ req[r].at # "sealing"
          /\ vaultLock' = vaultLock \/ (vaultLock = NoRequest /\ vaultLock' = r)
          /\ at = "written" => req[r].at = "begun" /\ vaultLock' = vaultLock
          /\ UNCHANGED <<vaultVars, member, historyVars>>
    BY <1>2 DEF LockVault, WriteAccept, WriteDecline, CheckPut, At
  <2>2. rowLock' = rowLock \/ \E u \in User : RowFree(r, u) /\ TakeRow(r, u)
    <3>1. CASE LockVault(r) \/ CheckPut(r)
      BY <3>1 DEF LockVault, CheckPut
    <3>2. CASE WriteAccept(r) \/ WriteDecline(r)
      BY <2>1, <3>2 DEF WriteAccept, WriteDecline, CallType
    <3>. QED
      BY <1>2, <3>1, <3>2
  <2> DEFINE x == [req[r] EXCEPT !.at = at]
  <2>3. /\ req' = [req EXCEPT ![r] = x] /\ req'[r] = x /\ x.at = at /\ x.op = req[r].op /\ x.own = req[r].own
        /\ x.target = req[r].target /\ x.user = req[r].user /\ x # NoReq
    BY <2>1 DEF Step, CallType, NoReq
  <2>4. CallStands(r)'
    BY <2>1, <2>3 DEF CallStands, UnderLock
  <2>. QED
    BY <2>1, <2>2, <2>3, <2>4, OwnerMove
<1>3. CASE CheckRotation(r) \/ SealActive(r) \/ SealPending(r)
  <2>1. /\ req[r] \in CallType /\ req[r].op = "rotate" /\ req[r].at \in {"locked", "sealing"}
        /\ UNCHANGED <<vaultVars, member, vaultLock, historyVars>>
    BY <1>3 DEF CheckRotation, SealActive, SealPending, Sealing, At
  <2>2. rowLock' = rowLock \/ \E u \in User : RowFree(r, u) /\ TakeRow(r, u)
    <3>1. CASE CheckRotation(r)
      BY <3>1 DEF CheckRotation
    <3>2. CASE SealActive(r)
      <4>1. req[r].todo \subseteq User
        BY <2>1 DEF CallType
      <4>. QED
        BY <3>2, <4>1 DEF SealActive
    <3>3. CASE SealPending(r)
      <4>1. member[req[r].half].status = "pending" => RowFree(r, req[r].half) /\ TakeRow(r, req[r].half)
        BY <3>3 DEF SealPending
      <4>2. member[req[r].half].status # "pending" => rowLock' = rowLock
        BY <3>3 DEF SealPending
      <4>3. req[r].half \in User
        BY <2>1, <3>3 DEF SealPending, CallType
      <4>. QED
        BY <4>1, <4>2, <4>3
    <3>. QED
      BY <1>3, <3>1, <3>2, <3>3
  <2>3. \E x : req' = [req EXCEPT ![r] = x] /\ x # NoReq /\ x.at = "sealing" /\ x.op = "rotate"
    <3>1. CASE CheckRotation(r)
      <4> DEFINE x == [req[r] EXCEPT !.at = "sealing", !.todo = req[r].others]
      <4>1. req' = [req EXCEPT ![r] = x]
        BY <3>1 DEF CheckRotation
      <4>2. x # NoReq /\ x.at = "sealing" /\ x.op = "rotate"
        BY <2>1 DEF CallType, NoReq
      <4>. QED
        BY <4>1, <4>2
    <3>2. CASE SealActive(r)
      <4>1. req[r].at = "sealing"
        BY <3>2 DEF SealActive, Sealing, At
      <4>2. PICK m : \/ req' = [req EXCEPT ![r] = [req[r] EXCEPT !.half = m, !.sealed = req[r].sealed \cup {m}]]
                     \/ req' = [req EXCEPT ![r] = [req[r] EXCEPT !.half = m]]
        BY <3>2 DEF SealActive
      <4> DEFINE x == [req[r] EXCEPT !.half = m, !.sealed = req[r].sealed \cup {m}]
                 y == [req[r] EXCEPT !.half = m]
      <4>3. /\ x # NoReq /\ x.at = "sealing" /\ x.op = "rotate"
            /\ y # NoReq /\ y.at = "sealing" /\ y.op = "rotate"
        BY <2>1, <4>1 DEF CallType, NoReq
      <4>. QED
        BY <4>2, <4>3
    <3>3. CASE SealPending(r)
      <4> DEFINE m == req[r].half
                 x == [req[r] EXCEPT !.half = NoUser, !.todo = req[r].todo \ {m}, !.sealed = req[r].sealed \cup {m}]
                 y == [req[r] EXCEPT !.half = NoUser, !.todo = req[r].todo \ {m}]
      <4>1. req[r].at = "sealing"
        BY <3>3 DEF SealPending, Sealing, At
      <4>2. req' = [req EXCEPT ![r] = x] \/ req' = [req EXCEPT ![r] = y]
        BY <3>3 DEF SealPending
      <4>3. /\ x # NoReq /\ x.at = "sealing" /\ x.op = "rotate"
            /\ y # NoReq /\ y.at = "sealing" /\ y.op = "rotate"
        BY <2>1, <4>1 DEF CallType, NoReq
      <4>. QED
        BY <4>2, <4>3
    <3>. QED
      BY <1>3, <3>1, <3>2, <3>3
  <2>4. PICK x : req' = [req EXCEPT ![r] = x] /\ req'[r] = x /\ x # NoReq /\ x.at = "sealing" /\ x.op = "rotate"
    BY <2>3
  <2>5. CallStands(r)'
    BY <2>4 DEF CallStands, UnderLock
  <2>. QED
    BY <2>1, <2>2, <2>4, <2>5, OwnerMove
<1>4. CASE LockOwn(r)
  <2>1. PICK at \in {"locked", "unlocked"} :
          /\ At(r, "deleteAccount", at) /\ Step(r, IF at = "locked" THEN "own" ELSE "leaving")
    BY <1>4 DEF LockOwn
  <2> DEFINE x == [req[r] EXCEPT !.at = IF at = "locked" THEN "own" ELSE "leaving"]
  <2>2. /\ req[r] \in CallType /\ req[r].user \in User /\ req' = [req EXCEPT ![r] = x] /\ req'[r] = x
        /\ x # NoReq /\ x.op = "deleteAccount" /\ x.user = req[r].user
        /\ x.at = IF at = "locked" THEN "own" ELSE "leaving"
    BY <2>1 DEF At, Step, CallType, NoReq
  <2>3. /\ RowFree(r, req[r].user) /\ TakeRow(r, req[r].user) /\ rowLock'[req[r].user] = r
        /\ UNCHANGED <<vaultVars, member, vaultLock, historyVars>>
    BY <1>4, <2>2 DEF LockOwn, TakeRow
  <2>4. at = "unlocked" => vaultLock # r
    BY <2>1 DEF CallStands, At, UnderLock
  <2>5. CallStands(r)'
    BY <2>1, <2>2, <2>3, <2>4 DEF CallStands, UnderLock
  <2>. QED
    BY <2>2, <2>3, <2>5, OwnerMove
<1>5. CASE DecideAccount(r)
  <2> DEFINE u == req[r].user
             shared == ~deleted /\ (ownerId = u \/ u \in Active)
             owners == ActiveOwners \ {u}
             at == IF ~shared THEN "leaving" ELSE IF owners = {} THEN "dropping" ELSE "handing"
  <2>1. /\ At(r, "deleteAccount", "own") /\ req[r] \in CallType
        /\ UNCHANGED <<vaultVars, member, lockVars, historyVars>>
    BY <1>5 DEF DecideAccount, At
  <2>2. PICK heir \in IF owners = {} THEN {u} ELSE owners :
          req' = [req EXCEPT ![r] = [req[r] EXCEPT !.target = heir, !.at = at]]
    BY <1>5 DEF DecideAccount
  <2>3. /\ at \in {"leaving", "dropping", "handing"}
        /\ at = "leaving" /\ ~deleted => u \notin Active
        /\ at = "handing" => heir \in ActiveOwners \ {u}
    BY <2>2
  <2> HIDE DEF at
  <2> DEFINE x == [req[r] EXCEPT !.target = heir, !.at = at]
  <2>4. /\ req' = [req EXCEPT ![r] = x] /\ req'[r] = x /\ x # NoReq /\ x.at = at /\ x.op = "deleteAccount"
        /\ x.user = u /\ x.target = heir
    BY <2>1, <2>2 DEF At, CallType, NoReq
  <2>5. rowLock[u] = r
    BY <2>1 DEF At, CallStands
  <2>6. Active' = Active /\ ActiveOwners' = ActiveOwners
    BY <2>1 DEF Active, ActiveOwners
  <2>7. CallStands(r)'
    BY <2>1, <2>3, <2>4, <2>5, <2>6 DEF CallStands, UnderLock
  <2>. QED
    BY <2>1, <2>4, <2>7, OwnerMove
<1>6. CASE Abort(r) \/ CommitPut(r) \/ CommitRename(r) \/ CommitDeleteVault(r)
  <2>1. End(r) /\ (deleted => deleted') /\ UNCHANGED <<member, historyVars>>
    BY <1>6 DEF Abort, CommitPut, CommitRename, CommitDeleteVault
  <2>. QED
    BY <2>1, OwnerCommit DEF Active, ActiveOwners
<1>7. CASE CommitDecline(r)
  <2>1. /\ req[r] \in CallType /\ req[r].user \in User /\ req[r].op = "decline"
        /\ VaultFree(r) /\ Drop(req[r].user) /\ NoteStanding(r) /\ End(r) /\ deleted' = deleted
    BY <1>7 DEF CommitDecline, At, RequireRotation, CallType
  <2>2. Standing(req[r].user) = req[r].own => req[r].user \notin Active
    BY <2>1 DEF CallStands, Standing, Active, NoRow
  <2>. QED
    BY <2>1, <2>2, OwnerDrop
<1>8. CASE CommitRemove(r)
  <2>1. /\ req[r] \in CallType /\ req[r].target \in Members /\ req[r].op = "remove" /\ req[r].at = "locked"
        /\ CanAssign(req[r].own.role, member[req[r].target].role)
        /\ Drop(req[r].target) /\ NoteStanding(r) /\ End(r) /\ deleted' = deleted
    BY <1>8 DEF CommitRemove, At, RequireRotation
  <2>2. VaultFree(r)
    BY <2>1 DEF Holds, UnderLock, VaultFree
  <2>3. ASSUME Standing(req[r].user) = req[r].own, req[r].target \in ActiveOwners
        PROVE  req[r].user \in ActiveOwners /\ req[r].user # req[r].target
    <3>1. req[r].own.role = "owner" /\ req[r].own.status = "active" /\ req[r].target # req[r].user
      BY <2>1, <2>3 DEF CanAssign, ActiveOwners, CallStands
    <3>2. req[r].user \in User
      BY <2>1 DEF CallType
    <3>. QED
      BY <2>3, <3>1, <3>2 DEF Standing, NoRow, ActiveOwners, Active
  <2>. QED
    BY <2>1, <2>2, <2>3, OwnerDrop
<1>9. CASE CommitLeave(r)
  <2>1. /\ req[r] \in CallType /\ req[r].user \in User /\ req[r].at = "locked"
        /\ ~(req[r].own.role = "owner" /\ AtMostOne(ActiveOwners))
        /\ Drop(req[r].user) /\ NoteStanding(r) /\ End(r) /\ deleted' = deleted
    BY <1>9 DEF CommitLeave, At, RequireRotation, CallType
  <2>2. VaultFree(r)
    BY <2>1 DEF Holds, UnderLock, VaultFree
  <2>3. ASSUME Standing(req[r].user) = req[r].own, req[r].user \in ActiveOwners
        PROVE  \E o \in ActiveOwners : o # req[r].user
    <3>1. req[r].own.role = "owner"
      BY <2>3 DEF Standing, ActiveOwners
    <3>. QED
      BY <2>1, <3>1 DEF AtMostOne
  <2>. QED
    BY <2>1, <2>2, <2>3, OwnerDrop
<1>10. CASE CommitSetRole(r)
  <2> DEFINE t == req[r].target
  <2>1. /\ req[r] \in CallType /\ req[r].at = "locked" /\ t \in Members /\ End(r)
        /\ ~(t \in ActiveOwners /\ req[r].role # "owner" /\ AtMostOne(ActiveOwners))
        /\ member' = [member EXCEPT ![t].role = req[r].role]
        /\ NoteStanding(r) /\ deleted' = deleted
    BY <1>10 DEF CommitSetRole, At, Unmarked
  <2>2. vaultLock = r /\ (stale => stale')
    BY <2>1 DEF Holds, UnderLock, NoteStanding
  <2>3. /\ \A u \in User \ {t} : member'[u] = member[u]
        /\ member'[t].status = member[t].status /\ member'[t].role = req[r].role
    <3>1. t \in User /\ member[t] \in Row
      BY <2>1
    <3>. QED
      BY <2>1, <3>1 DEF Row
  <2>4. Active' = Active /\ ActiveOwners \ {t} \subseteq ActiveOwners'
    BY <2>3 DEF Active, ActiveOwners
  <2>5. t \in ActiveOwners /\ req[r].role = "owner" => t \in ActiveOwners'
    BY <2>3, <2>4 DEF ActiveOwners
  <2>6. ActiveOwners # {} => ActiveOwners' # {}
    BY <2>1, <2>4, <2>5 DEF AtMostOne
  <2>. QED
    BY <2>1, <2>2, <2>4, <2>6, OwnerCommit
<1>11. CASE CommitTransfer(r)
  <2> DEFINE t == req[r].target
  <2>1. /\ req[r] \in CallType /\ req[r].at = "locked" /\ t \in Active /\ End(r)
        /\ \A v \in User : \/ member'[v] = member[v]
                           \/ v \in Members /\ \E role : member'[v] = [member[v] EXCEPT !.role = role]
        /\ member'[t] = [member[t] EXCEPT !.role = "owner"]
        /\ NoteStanding(r) /\ deleted' = deleted
    BY <1>11 DEF CommitTransfer, At
  <2>2. vaultLock = r /\ (stale => stale')
    BY <2>1 DEF Holds, UnderLock, NoteStanding
  <2>3. \A v \in User : member'[v].status = member[v].status
    <3>1. ASSUME NEW v \in Members, NEW role, member'[v] = [member[v] EXCEPT !.role = role]
          PROVE  member'[v].status = member[v].status
      BY <3>1 DEF Row
    <3>. QED
      BY <2>1, <3>1
  <2>4. Active' = Active /\ t \in ActiveOwners'
    <3>1. member[t] \in Row /\ t \in User
      BY <2>1
    <3>2. member'[t].role = "owner"
      BY <2>1, <3>1 DEF Row
    <3>. QED
      BY <2>1, <2>3, <3>2 DEF Active, ActiveOwners
  <2>. QED
    BY <2>1, <2>2, <2>4, OwnerCommit
<1>12. CASE CommitInvite(r)
  <2> DEFINE t == req[r].target
  <2>1. /\ req[r] \in CallType /\ End(r) /\ t \in User \ Members
        /\ member'[t].status = "pending" /\ \A v \in User \ {t} : member'[v] = member[v]
        /\ stale' = stale /\ deleted' = deleted
    BY <1>12 DEF CommitInvite, At, CallType, Unmarked
  <2>2. Active' = Active /\ ActiveOwners \subseteq ActiveOwners'
    BY <2>1 DEF Active, ActiveOwners
  <2>. QED
    BY <2>1, <2>2, OwnerCommit
<1>13. CASE CommitAccept(r)
  <2> DEFINE u == req[r].user
  <2>1. /\ req[r] \in CallType /\ End(r) /\ At(r, "accept", "written")
        /\ member' = [member EXCEPT ![u] = [member[u] EXCEPT !.status = "active", !.wrap = req[r].ver,
                                                             !.seal = 0, !.by = NoUser]]
        /\ stale' = stale /\ deleted' = deleted
    BY <1>13 DEF CommitAccept, At, Unmarked
  <2>2. rowLock[u] = r /\ u \in Members /\ member[u] \in Row
    BY <2>1 DEF Holds
  <2>3. /\ member'[u].status = "active" /\ member'[u].role = member[u].role
        /\ \A v \in User \ {u} : member'[v] = member[v]
    BY <2>1, <2>2 DEF Row
  <2>4. Active' = Active \cup {u} /\ ActiveOwners \subseteq ActiveOwners'
    BY <2>2, <2>3 DEF Active, ActiveOwners
  <2>. QED
    BY <2>1, <2>2, <2>4, OwnerCommit DEF RowFree
<1>14. CASE CommitRotation(r)
  <2>1. End(r) /\ stale' = stale /\ deleted' = deleted
    BY <1>14 DEF CommitRotation
  <2>2. req[r].user \in Members /\ req[r].sealed \subseteq Members
    BY <1>14 DEF CommitRotation, Holds
  <2>3. ASSUME NEW m \in User PROVE member'[m].status = member[m].status /\ member'[m].role = member[m].role
    <3> DEFINE u == req[r].user
               ver == req[r].ver
    <3>1. member'[m] = IF m = u THEN [member[m] EXCEPT !.wrap = ver]
                       ELSE IF m \in req[r].sealed
                            THEN [member[m] EXCEPT !.seal = ver, !.by = u,
                                    !.wrap = IF member[m].status = "pending" THEN ver ELSE member[m].wrap]
                       ELSE member[m]
      BY <1>14 DEF CommitRotation
    <3>2. CASE m \in {u} \cup req[r].sealed
      <4>1. member[m] \in Row
        BY <2>2, <3>2
      <4>. QED
        BY <3>1, <3>2, <4>1 DEF Row
    <3>3. CASE m \notin {u} \cup req[r].sealed
      BY <3>1, <3>3
    <3>. QED
      BY <3>2, <3>3
  <2>4. Active' = Active /\ ActiveOwners' = ActiveOwners
    BY <2>3 DEF Active, ActiveOwners
  <2>. QED
    BY <2>1, <2>4, OwnerCommit
<1>15. CASE CommitDeleteAccount(r)
  <2> DEFINE u == req[r].user
             handing == req[r].at = "handing"
             drops == req[r].at = "dropping" \/ Heir(r) = u
             rows == IF drops THEN Members
                     ELSE { m \in Members : m = u \/ (member[m].status = "pending" /\ member[m].by = u) }
  <2>1. /\ req[r] \in CallType /\ req[r].op = "deleteAccount" /\ req[r].at \in {"leaving", "handing", "dropping"}
        /\ End(r) /\ (drops => VaultFree(r))
        /\ member' = [m \in User |-> IF m \in rows THEN NoRow ELSE member[m]]
        /\ deleted' = (deleted \/ drops)
        /\ stale' = (stale \/ (rowLock[u] = r /\ vaultLock # r /\ (u \in Members \/ ownerId = u)))
    BY <1>15 DEF CommitDeleteAccount, At
  <2>2. u \in User /\ rowLock[u] = r
    BY <2>1 DEF CallStands, CallType
  <2>3. Active' \subseteq Active
    BY <2>1 DEF Active, NoRow
  <2>4. ~drops => ActiveOwners' = ActiveOwners \ {u}
    <3>1. ASSUME ~drops, NEW m \in User, m \in Active, m # u PROVE member'[m] = member[m]
      BY <2>1, <3>1 DEF Active
    <3>2. ASSUME ~drops PROVE u \notin Active'
      BY <2>1, <2>2, <3>2 DEF Active, Members, NoRow
    <3>. QED
      BY <2>3, <3>1, <3>2 DEF ActiveOwners, Active
  <2>5. (stale => stale') /\ (deleted => deleted')
    BY <2>1
  <2>6. vaultLock \notin {r, NoRequest} => stale' \/ ActiveOwners \subseteq ActiveOwners'
    <3>1. ASSUME vaultLock \notin {r, NoRequest}, ~stale' PROVE ~drops /\ u \notin ActiveOwners
      BY <2>1, <2>2, <3>1 DEF VaultFree
    <3>. QED
      BY <2>4, <3>1
  <2>7. ASSUME ~stale', ~deleted', ActiveOwners # {} PROVE ActiveOwners' # {}
    <3>1. ~drops /\ ~stale /\ ~deleted
      BY <2>1, <2>7
    <3>2. CASE req[r].at = "handing"
      BY <2>1, <2>4, <3>1, <3>2 DEF CallStands
    <3>3. CASE req[r].at = "leaving"
      <4>1. u \notin Active
        BY <2>1, <2>2, <2>7, <3>1, <3>3 DEF CallStands
      <4>. QED
        BY <2>4, <2>7, <3>1, <4>1
    <3>. QED
      BY <2>1, <3>1, <3>2, <3>3
  <2> HIDE DEF drops, rows
  <2>. QED
    BY <2>1, <2>3, <2>5, <2>6, <2>7, OwnerCommit
<1>. QED
  BY <1>1, <1>2, <1>3, <1>4, <1>5, <1>6, <1>7, <1>8, <1>9, <1>10, <1>11, <1>12, <1>13, <1>14, <1>15 DEF Statement

(* A vault keeps an active owner, whoever leaves, is removed, demoted or   *)
(* deletes their account at the same time, unless a request decided on a   *)
(* role or status of its caller that had changed since it was read         *)
(* (sharing.ts, delete-account.ts).                                        *)
THEOREM OwnerStays == Spec => []OwnerStaysUnlessStale
<1>1. ASSUME SharingInv, OwnerInv, [Next]_vars PROVE OwnerInv'
  <2>1. CASE Next
    BY <1>1, <2>1, OwnerStep DEF Next
  <2>2. CASE UNCHANGED vars
    BY <1>1, <2>2 DEF vars, vaultVars, lockVars, historyVars, OwnerInv, OwnerStaysUnlessStale, CallStands,
                      Active, ActiveOwners
  <2>. QED
    BY <1>1, <2>1, <2>2
<1>2. OwnerInv => OwnerStaysUnlessStale
  BY DEF OwnerInv
<1>. QED
  BY <1>1, <1>2, OwnerInit, SharingSafe, PTL DEF Spec
-------------------------------------------------------------------------------
(***************************************************************************)
(* Who is gone and knows the key has left a mark.                          *)
(***************************************************************************)
LEMMA MarkInit == Init => ExMembersMark
BY DEF Init, ExMembersMark

(* No step forgets a mark while someone who is gone knows the key, but     *)
(* what needs no mark any more.                                            *)
LEMMA MarkKept ==
  ASSUME ExMembersMark, deleted => deleted', stale => stale', keyRotationNeeded => keyRotationNeeded',
         knows' \subseteq knows \cup Members', Members \cup lapsed \subseteq Members' \cup lapsed'
  PROVE  ExMembersMark'
BY DEF ExMembersMark

LEMMA MarkStep ==
  ASSUME SharingInv, OwnerInv, ExMembersMark, NEW r \in Request, Ask(r) \/ Task(r) \/ Statement(r) \/ Abort(r)
  PROVE  ExMembersMark'
<1> USE DEF lockVars, vaultVars, historyVars
<1>. /\ TypeOK /\ Holds(r) /\ CallStands(r) /\ NoRow \notin Row /\ member \in [User -> Row \cup {NoRow}]
     /\ NoReq \notin CallType /\ (req[r] # NoReq => req[r] \in CallType)
  BY DEF SharingInv, TypeOK, OwnerInv, NoRow, Row, NoReq, CallType
<1>1. CASE Ask(r) \/ Task(r)
  <2>1. PICK call : Start(r, call)
    BY <1>1, AsksStart DEF Starts
  <2>. QED
    BY <2>1, MarkKept DEF Start, Members
<1>2. CASE \/ LockVault(r) \/ WriteAccept(r) \/ WriteDecline(r) \/ CheckRotation(r) \/ SealActive(r)
           \/ SealPending(r) \/ CheckPut(r) \/ LockOwn(r) \/ DecideAccount(r) \/ CommitPut(r) \/ Abort(r)
  <2>1. UNCHANGED <<vaultVars, member, historyVars>>
    BY <1>2 DEF LockVault, WriteAccept, WriteDecline, CheckRotation, SealActive, SealPending, CheckPut, LockOwn,
                DecideAccount, CommitPut, Abort
  <2>. QED
    BY <2>1, MarkKept DEF Members
<1>3. CASE CommitRename(r) \/ CommitDeleteVault(r)
  <2>1. UNCHANGED <<keyRotationNeeded, member, historyVars>> /\ (deleted => deleted')
    BY <1>3 DEF CommitRename, CommitDeleteVault
  <2>. QED
    BY <2>1, MarkKept DEF Members
<1>4. CASE CommitInvite(r)
  <2> DEFINE t == req[r].target
  <2>1. /\ req[r] \in CallType /\ t \in User
        /\ member' = [member EXCEPT ![t] = [role |-> req[r].role, status |-> "pending", wrap |-> req[r].ver,
                                            seal |-> req[r].ver, by |-> req[r].user]]
        /\ knows' = knows \cup {t} /\ lapsed' = lapsed \ {t}
        /\ UNCHANGED <<vaultVars, stale>>
    BY <1>4 DEF CommitInvite, At, CallType, Unmarked
  <2>2. Members' = Members \cup {t}
    <3>1. member'[t] # NoRow
      BY <2>1 DEF NoRow
    <3>. QED
      BY <2>1, <3>1 DEF Members
  <2>. QED
    BY <2>1, <2>2, MarkKept
<1>5. CASE CommitAccept(r)
  <2> DEFINE u == req[r].user
  <2>1. /\ At(r, "accept", "written")
        /\ member' = [member EXCEPT ![u] =
             [@ EXCEPT !.status = "active", !.wrap = req[r].ver, !.seal = 0, !.by = NoUser]]
        /\ UNCHANGED <<vaultVars, knows, stale, lapsed>>
    BY <1>5 DEF CommitAccept, Unmarked
  <2>2. u \in Members /\ member[u] \in Row
    BY <2>1 DEF Holds, Members
  <2>3. member'[u] # NoRow
    BY <2>1, <2>2 DEF Row, NoRow, Members
  <2>4. Members' = Members
    BY <2>1, <2>2, <2>3 DEF Members
  <2>. QED
    BY <2>1, <2>4, MarkKept
<1>6. CASE CommitDecline(r) \/ CommitRemove(r) \/ CommitLeave(r)
  BY <1>6 DEF CommitDecline, CommitRemove, CommitLeave, RequireRotation, ExMembersMark
<1>7. CASE CommitSetRole(r)
  <2> DEFINE t == req[r].target
  <2>1. /\ t \in Members /\ member' = [member EXCEPT ![t].role = req[r].role]
        /\ NoteStanding(r) /\ UNCHANGED <<vaultVars, knows, lapsed>>
    BY <1>7 DEF CommitSetRole, Unmarked
  <2>2. member[t] \in Row
    BY <2>1 DEF Members
  <2>3. member'[t] # NoRow
    BY <2>1, <2>2 DEF Members, Row, NoRow
  <2>4. Members' = Members
    BY <2>1, <2>3 DEF Members
  <2>. QED
    BY <2>1, <2>4, MarkKept DEF NoteStanding
<1>8. CASE CommitTransfer(r)
  <2> DEFINE t == req[r].target
             u == req[r].user
  <2>1. /\ t \in Active
        /\ member' = [v \in User |->
              IF v = t THEN [member[v] EXCEPT !.role = "owner"]
              ELSE IF v = u /\ u \in Members THEN [member[v] EXCEPT !.role = "manage"]
              ELSE member[v]]
        /\ NoteStanding(r) /\ UNCHANGED <<keyRotationNeeded, deleted, knows, lapsed>>
    BY <1>8 DEF CommitTransfer
  <2>2. t \in Members
    BY <2>1 DEF Active, Members, NoRow
  <2>3. \A v \in Members : \A role : [member[v] EXCEPT !.role = role] # NoRow
    BY DEF Members, Row, NoRow
  <2>4. \A v \in User : member'[v] = NoRow <=> member[v] = NoRow
    BY <2>1, <2>2, <2>3 DEF Members
  <2>5. Members' = Members
    BY <2>4 DEF Members
  <2>. QED
    BY <2>1, <2>5, MarkKept DEF NoteStanding
<1>9. CASE CommitRotation(r)
  <2> DEFINE u == req[r].user
             ver == req[r].ver
  <2>1. /\ Sealing(r)
        /\ member' = [m \in User |->
              IF m = u THEN [member[m] EXCEPT !.wrap = ver]
              ELSE IF m \in req[r].sealed
                   THEN [member[m] EXCEPT !.seal = ver, !.by = u,
                           !.wrap = IF member[m].status = "pending" THEN ver ELSE member[m].wrap]
              ELSE member[m]]
        /\ knows' = {u} \cup req[r].sealed
    BY <1>9 DEF CommitRotation
  <2>2. {u} \cup req[r].sealed \subseteq Members
    BY <2>1 DEF Holds
  <2>3. ASSUME NEW m \in {u} \cup req[r].sealed PROVE member'[m] # NoRow
    <3>1. member[m] \in Row /\ m \in User
      BY <2>2 DEF Members
    <3>2. \/ member'[m] = [member[m] EXCEPT !.wrap = ver]
          \/ member'[m] = [member[m] EXCEPT !.seal = ver, !.by = u,
                             !.wrap = IF member[m].status = "pending" THEN ver ELSE member[m].wrap]
      BY <2>1, <3>1
    <3>. QED
      BY <3>1, <3>2 DEF Row, NoRow
  <2>4. knows' \subseteq Members'
    BY <2>1, <2>2, <2>3 DEF Members
  <2>. QED
    BY <2>4 DEF ExMembersMark
<1>10. CASE CommitDeleteAccount(r)
  <2> DEFINE u == req[r].user
             handing == req[r].at = "handing"
             drops == req[r].at = "dropping" \/ Heir(r) = u
             rows == IF drops THEN Members
                     ELSE { m \in Members : m = u \/ (member[m].status = "pending" /\ member[m].by = u) }
  <2>1. /\ req[r] \in CallType /\ req[r].op = "deleteAccount" /\ req[r].at \in {"leaving", "handing", "dropping"}
        /\ member' = [m \in User |-> IF m \in rows THEN NoRow ELSE member[m]]
        /\ deleted' = (deleted \/ drops)
        /\ keyRotationNeeded' = (keyRotationNeeded \/ (handing /\ u \in Active))
        /\ stale' = (stale \/ (rowLock[u] = r /\ vaultLock # r /\ (u \in Members \/ ownerId = u)))
        /\ lapsed' = IF u \in Active THEN lapsed ELSE lapsed \cup rows
        /\ knows' = knows
    BY <1>10 DEF CommitDeleteAccount, At
  <2>2. u \in User /\ rowLock[u] = r
    BY <2>1 DEF CallStands, CallType
  <2>3. Members' = Members \ rows
    BY <2>1 DEF Members
  <2>4. CASE drops
    BY <2>1, <2>4 DEF ExMembersMark
  <2>5. CASE ~drops /\ u \notin Active
    <3>1. lapsed' = lapsed \cup rows /\ rows \subseteq Members
      BY <2>1, <2>5
    <3> HIDE DEF rows, drops
    <3>2. Members \cup lapsed \subseteq Members' \cup lapsed'
      BY <2>3, <3>1
    <3>. QED
      BY <2>1, <3>2, MarkKept
  <2>6. CASE ~drops /\ u \in Active /\ handing
    BY <2>1, <2>6 DEF ExMembersMark
  <2>7. CASE ~drops /\ u \in Active /\ req[r].at = "leaving"
    <3>1. deleted \/ vaultLock # r
      BY <2>1, <2>7 DEF CallStands
    <3>2. u \in Members
      BY <2>7 DEF Active, Members, NoRow
    <3>3. deleted' \/ stale'
      BY <2>1, <2>2, <3>1, <3>2
    <3>. QED
      BY <3>3 DEF ExMembersMark
  <2>. QED
    BY <2>1, <2>4, <2>5, <2>6, <2>7
<1>. QED
  BY <1>1, <1>2, <1>3, <1>4, <1>5, <1>6, <1>7, <1>8, <1>9, <1>10 DEF Statement

(* Whoever could have opened the current key and is gone has left a mark,  *)
(* but for the invites that went with the account of an invitee, and       *)
(* unless a request decided on a role or status of its caller that had     *)
(* changed since it was read (sharing.ts requireRotation,                  *)
(* delete-account.ts).                                                     *)
THEOREM MarkLeft == Spec => []ExMembersMark
<1>1. ASSUME SharingInv, OwnerInv, ExMembersMark, [Next]_vars PROVE OwnerInv' /\ ExMembersMark'
  <2>1. CASE Next
    BY <1>1, <2>1, OwnerStep, MarkStep DEF Next
  <2>2. CASE UNCHANGED vars
    BY <1>1, <2>2 DEF vars, vaultVars, lockVars, historyVars, OwnerInv, OwnerStaysUnlessStale, CallStands,
                      Active, ActiveOwners, ExMembersMark, Members
  <2>. QED
    BY <1>1, <2>1, <2>2
<1>. QED
  BY <1>1, OwnerInit, MarkInit, SharingSafe, PTL DEF Spec
-------------------------------------------------------------------------------
(***************************************************************************)
(* Requests that take the locks in order don't wait in a circle.           *)
(***************************************************************************)
(* The requests that may hold a member's row lock.                         *)
HoldsRow(q) ==
  /\ req[q] # NoReq
  /\ \/ req[q].op \in {"accept", "decline"} /\ req[q].at = "written"
     \/ req[q].op = "rotate" /\ req[q].at = "sealing"
     \/ req[q].op = "deleteAccount" /\ req[q].at \in {"own", "leaving", "handing", "dropping"}

RowInv == \A u \in User, q \in Request : rowLock[u] = q => HoldsRow(q)

LEMMA RowInit == Init => RowInv
BY SharingAssumption DEF Init, RowInv

(* A request moves on, and takes a row only when it may hold one.          *)
LEMMA RowMove ==
  ASSUME SharingInv, RowInv, NEW r \in Request, NEW x, req' = [req EXCEPT ![r] = x],
         rowLock' = rowLock \/ \E u \in User : TakeRow(r, u),
         \/ HoldsRow(r)'
         \/ ~HoldsRow(r) /\ rowLock' = rowLock
  PROVE  RowInv'
<1>1. /\ req \in [Request -> CallType \cup {NoReq}] /\ rowLock \in [User -> Request \cup {NoRequest}]
  BY DEF SharingInv, TypeOK
<1>2. ASSUME NEW u \in User, NEW q \in Request, rowLock'[u] = q PROVE HoldsRow(q)'
  <2>1. CASE q = r
    BY <1>2, <2>1 DEF RowInv
  <2>2. CASE q # r
    <3>1. rowLock[u] = q
      BY <1>1, <1>2, <2>2 DEF TakeRow
    <3>2. req'[q] = req[q]
      BY <1>1, <2>2
    <3>. QED
      BY <3>1, <3>2 DEF RowInv, HoldsRow
  <2>. QED
    BY <2>1, <2>2
<1>. QED
  BY <1>2 DEF RowInv

LEMMA RowCommit ==
  ASSUME SharingInv, RowInv, NEW r \in Request, End(r)
  PROVE  RowInv'
<1>1. /\ req \in [Request -> CallType \cup {NoReq}] /\ rowLock \in [User -> Request \cup {NoRequest}]
  BY DEF SharingInv, TypeOK
<1>2. ASSUME NEW u \in User, NEW q \in Request, rowLock'[u] = q PROVE HoldsRow(q)'
  <2>1. rowLock[u] = q /\ q # r
    BY <1>1, <1>2, SharingAssumption DEF End
  <2>2. req'[q] = req[q]
    BY <1>1, <2>1 DEF End
  <2>. QED
    BY <2>1, <2>2 DEF RowInv, HoldsRow
<1>. QED
  BY <1>2 DEF RowInv

LEMMA RowStep ==
  ASSUME SharingInv, RowInv, NEW r \in Request, Ask(r) \/ Task(r) \/ Statement(r) \/ Abort(r)
  PROVE  RowInv'
<1> USE DEF lockVars
<1>. /\ TypeOK /\ Holds(r) /\ (req[r] # NoReq => req[r] \in CallType) /\ NoReq \notin CallType
     /\ req \in [Request -> CallType \cup {NoReq}]
  BY DEF SharingInv, TypeOK, NoReq, CallType
<1>1. CASE Ask(r) \/ Task(r)
  <2>1. PICK call : Start(r, call)
    BY <1>1, AsksStart DEF Starts
  <2>. QED
    BY <2>1, RowMove DEF Start, HoldsRow
<1>2. CASE LockVault(r) \/ CheckPut(r)
  <2>1. /\ rowLock' = rowLock /\ \E x : req' = [req EXCEPT ![r] = x]
        /\ req[r].at \in {"begun", "locked"}
    BY <1>2 DEF LockVault, CheckPut, Step, At
  <2>. QED
    BY <2>1, RowMove DEF HoldsRow
<1>3. CASE WriteAccept(r) \/ WriteDecline(r)
  <2> DEFINE x == [req[r] EXCEPT !.at = "written"]
  <2>1. /\ req' = [req EXCEPT ![r] = x] /\ req[r] \in CallType /\ req[r].op \in {"accept", "decline"}
        /\ TakeRow(r, req[r].user)
    BY <1>3 DEF WriteAccept, WriteDecline, Step, At
  <2>2. req[r].user \in User /\ x.op = req[r].op /\ x.at = "written" /\ x # NoReq /\ req'[r] = x
    BY <2>1 DEF CallType, NoReq
  <2>3. HoldsRow(r)'
    BY <2>1, <2>2 DEF HoldsRow
  <2>. QED
    BY <2>1, <2>2, <2>3, RowMove
<1>4. CASE CheckRotation(r)
  <2> DEFINE x == [req[r] EXCEPT !.at = "sealing", !.todo = req[r].others]
  <2>1. /\ req' = [req EXCEPT ![r] = x] /\ req[r] \in CallType /\ req[r].op = "rotate" /\ TakeRow(r, req[r].user)
    BY <1>4 DEF CheckRotation, At
  <2>2. req[r].user \in User /\ x.op = req[r].op /\ x.at = "sealing" /\ x # NoReq /\ req'[r] = x
    BY <2>1 DEF CallType, NoReq
  <2>3. HoldsRow(r)'
    BY <2>1, <2>2 DEF HoldsRow
  <2>. QED
    BY <2>1, <2>2, <2>3, RowMove
<1>5. CASE SealActive(r)
  <2>1. /\ req[r] \in CallType /\ req[r].op = "rotate" /\ req[r].at = "sealing" /\ req[r].todo \subseteq User
    BY <1>5 DEF SealActive, Sealing, At, CallType
  <2>2. PICK m \in req[r].todo :
          /\ \/ req' = [req EXCEPT ![r] = [req[r] EXCEPT !.half = m, !.sealed = req[r].sealed \cup {m}]]
             \/ req' = [req EXCEPT ![r] = [req[r] EXCEPT !.half = m]]
          /\ rowLock' = rowLock \/ TakeRow(r, m)
    BY <1>5 DEF SealActive
  <2> DEFINE x == [req[r] EXCEPT !.half = m, !.sealed = req[r].sealed \cup {m}]
             y == [req[r] EXCEPT !.half = m]
  <2>3. /\ x # NoReq /\ x.at = "sealing" /\ x.op = "rotate"
        /\ y # NoReq /\ y.at = "sealing" /\ y.op = "rotate"
    BY <2>1 DEF CallType, NoReq
  <2>4. HoldsRow(r)'
    BY <2>2, <2>3 DEF HoldsRow
  <2>. QED
    BY <2>1, <2>2, <2>4, RowMove
<1>6. CASE SealPending(r)
  <2> DEFINE m == req[r].half
             x == [req[r] EXCEPT !.half = NoUser, !.todo = req[r].todo \ {m}, !.sealed = req[r].sealed \cup {m}]
             y == [req[r] EXCEPT !.half = NoUser, !.todo = req[r].todo \ {m}]
  <2>1. /\ req[r] \in CallType /\ req[r].op = "rotate" /\ req[r].at = "sealing" /\ m \in User
    BY <1>6 DEF SealPending, Sealing, At, CallType
  <2>2. /\ req' = [req EXCEPT ![r] = x] \/ req' = [req EXCEPT ![r] = y]
        /\ rowLock' = rowLock \/ TakeRow(r, m)
    BY <1>6 DEF SealPending
  <2>3. /\ x # NoReq /\ x.at = "sealing" /\ x.op = "rotate"
        /\ y # NoReq /\ y.at = "sealing" /\ y.op = "rotate"
    BY <2>1 DEF CallType, NoReq
  <2>4. HoldsRow(r)'
    BY <2>2, <2>3 DEF HoldsRow
  <2>. QED
    BY <2>1, <2>2, <2>4, RowMove
<1>7. CASE LockOwn(r)
  <2>1. PICK at \in {"own", "leaving"} : Step(r, at)
    BY <1>7 DEF LockOwn
  <2> DEFINE x == [req[r] EXCEPT !.at = at]
  <2>2. /\ req[r] \in CallType /\ req[r].op = "deleteAccount" /\ TakeRow(r, req[r].user)
        /\ req' = [req EXCEPT ![r] = x]
    BY <1>7, <2>1 DEF LockOwn, At, Step
  <2>3. req[r].user \in User /\ x.op = req[r].op /\ x.at = at /\ x # NoReq /\ req'[r] = x
    BY <2>2 DEF CallType, NoReq
  <2>4. HoldsRow(r)'
    BY <2>2, <2>3 DEF HoldsRow
  <2>. QED
    BY <2>2, <2>3, <2>4, RowMove
<1>8. CASE DecideAccount(r)
  <2> DEFINE shared == ~deleted /\ (ownerId = req[r].user \/ req[r].user \in Active)
             owners == ActiveOwners \ {req[r].user}
             at == IF ~shared THEN "leaving" ELSE IF owners = {} THEN "dropping" ELSE "handing"
  <2>1. \E heir : req' = [req EXCEPT ![r] = [req[r] EXCEPT !.target = heir, !.at = at]]
    BY <1>8 DEF DecideAccount
  <2>5. at \in {"leaving", "dropping", "handing"}
    OBVIOUS
  <2> HIDE DEF at
  <2>6. PICK heir : req' = [req EXCEPT ![r] = [req[r] EXCEPT !.target = heir, !.at = at]]
    BY <2>1
  <2> DEFINE x == [req[r] EXCEPT !.target = heir, !.at = at]
  <2>2. /\ req[r] \in CallType /\ req[r].op = "deleteAccount" /\ rowLock' = rowLock
    BY <1>8 DEF DecideAccount, At
  <2>3. x.op = req[r].op /\ x.at = at /\ x # NoReq /\ req'[r] = x
    BY <2>2, <2>6 DEF CallType, NoReq
  <2>4. HoldsRow(r)'
    BY <2>2, <2>3, <2>5 DEF HoldsRow
  <2>. QED
    BY <2>2, <2>4, <2>6, RowMove
<1>9. CASE \/ CommitInvite(r) \/ CommitAccept(r) \/ CommitDecline(r) \/ CommitSetRole(r) \/ CommitRemove(r)
           \/ CommitLeave(r) \/ CommitTransfer(r) \/ CommitRotation(r) \/ CommitRename(r) \/ CommitDeleteVault(r)
           \/ CommitPut(r) \/ CommitDeleteAccount(r) \/ Abort(r)
  <2>1. End(r)
    BY <1>9 DEF CommitInvite, CommitAccept, CommitDecline, CommitSetRole, CommitRemove, CommitLeave,
                CommitTransfer, CommitRotation, CommitRename, CommitDeleteVault, CommitPut, CommitDeleteAccount, Abort
  <2>. QED
    BY <2>1, RowCommit
<1>. QED
  BY <1>1, <1>2, <1>3, <1>4, <1>5, <1>6, <1>7, <1>8, <1>9 DEF Statement

(* Who is waited for for a row, in order, has written all it writes, or    *)
(* holds the vault's lock.                                                 *)
LEMMA RowHolders ==
  ASSUME SharingInv, RowInv, NEW u \in User, NEW q \in Request, InOrder(q), rowLock[u] = q
  PROVE  At(q, "accept", "written") \/ vaultLock = q
<1>1. HoldsRow(q) /\ Holds(q)
  BY DEF RowInv, SharingInv
<1>. QED
  BY <1>1 DEF HoldsRow, InOrder, At, Holds, UnderLock

LEMMA RowsAreUsers ==
  ASSUME SharingInv, NEW r \in Request
  PROVE  RowsNext(r) \subseteq User
<1>1. req[r] # NoReq => req[r] \in CallType
  BY DEF SharingInv, TypeOK
<1>2. Sealing(r) => req[r].half \in req[r].todo \cup {NoUser}
  BY DEF SharingInv, Holds
<1>3. req[r] # NoReq =>
        /\ req[r].user \in User /\ req[r].target \in User /\ req[r].todo \subseteq User
        /\ req[r].half \in User \cup {NoUser}
  BY <1>1 DEF CallType
<1>. QED
  BY <1>3 DEF RowsNext, Members

(* Of any requests that take the locks in order one waits for none of the  *)
(* others: one that has written the one row it takes, or the one with the  *)
(* vault's lock (sharing.ts, delete-account.ts, "the order removeMember    *)
(* takes").                                                                *)
LEMMA NoCircle == SharingInv /\ RowInv => NoCircleInOrder
<1>. SUFFICES ASSUME SharingInv, RowInv, NEW S \in (SUBSET { r \in Request : InOrder(r) }) \ {{}}
              PROVE  \E r \in S : \A q \in S : ~WaitsFor(r, q)
  BY DEF NoCircleInOrder
<1>1. CASE \E r \in S : At(r, "accept", "written")
  <2>1. PICK r \in S : At(r, "accept", "written")
    BY <1>1
  <2>2. RowsNext(r) = {}
    BY <2>1 DEF RowsNext, At
  <2>3. ~VaultNext(r)
    BY <2>1 DEF VaultNext, At
  <2>. QED
    BY <2>2, <2>3 DEF WaitsFor
<1>2. ASSUME ~\E r \in S : At(r, "accept", "written"), NEW r \in S, NEW q \in S, WaitsFor(r, q)
      PROVE  vaultLock = q /\ q # r
  <2>1. CASE vaultLock = q
    BY <1>2, <2>1 DEF WaitsFor
  <2>2. CASE \E u \in RowsNext(r) : rowLock[u] = q
    BY <1>2, <2>2, RowHolders, RowsAreUsers DEF WaitsFor
  <2>. QED
    BY <1>2, <2>1, <2>2 DEF WaitsFor
<1>3. CASE ~\E r \in S : At(r, "accept", "written")
  <2>1. CASE vaultLock \in S
    BY <1>2, <1>3, <2>1
  <2>2. CASE vaultLock \notin S
    BY <1>2, <1>3, <2>2
  <2>. QED
    BY <2>1, <2>2
<1>. QED
  BY <1>1, <1>3

(* Requests wait for each other in a circle only where a declineInvite or  *)
(* an account deletion that found no vault to lock takes part (sharing.ts, *)
(* delete-account.ts).                                                     *)
THEOREM LocksInOrder == Spec => []NoCircleInOrder
<1>1. ASSUME SharingInv, RowInv, [Next]_vars PROVE RowInv'
  <2>1. CASE Next
    BY <1>1, <2>1, RowStep DEF Next
  <2>2. CASE UNCHANGED vars
    BY <1>1, <2>2 DEF vars, lockVars, RowInv, HoldsRow
  <2>. QED
    BY <1>1, <2>1, <2>2
<1>. QED
  BY <1>1, RowInit, NoCircle, SharingSafe, PTL DEF Spec
===============================================================================
