------------------------ MODULE AccountPassword_proofs ------------------------
(***************************************************************************)
(* Proofs about AccountPassword, for every number of devices, secrets and  *)
(* failures.                                                               *)
(***************************************************************************)
EXTENDS AccountPassword, TLAPS

(***************************************************************************)
(* Types: what a device is doing, and the requests it may still have out.  *)
(***************************************************************************)
Purpose == {"connect", "unlock", "confirm", "change"}

CheckedFlow == [at : {"checked"}, for : Purpose, password : Secret, cut : BOOLEAN]
ReadFlow == [at : {"read"}, for : Purpose, password : Secret, cut : BOOLEAN, wrap : Wrap, weak : BOOLEAN]
SaveFlow ==
  [at : {"save"}, for : Purpose, password : Secret, wrap : Wrap, weak : BOOLEAN, session : {"none", "live", "past"}]
FinishFlow == [at : {"finish"}, attempt : Nat]
ChangeFlow == [at : {"change", "confirm"}, to : Secret, attempt : Nat, proof : Secret, past : BOOLEAN]
StoreFlow == [at : {"store"}, to : Secret]
ProveFlow == [at : {"prove"}, here : BOOLEAN, secret : Secret, proof : Secret]
ResetFlow == [at : {"reset", "keep"}, attempt : Nat, here : BOOLEAN, secret : Secret, proof : Secret]

Step ==
  {"idle", "checked", "read", "save", "login", "finish", "change", "confirm", "store", "prove", "reset", "keep"}

FlowTyped(f) ==
  /\ f.at \in Step
  /\ f.at = "checked" => f \in CheckedFlow
  /\ f.at = "read" => f \in ReadFlow
  /\ f.at = "save" => f \in SaveFlow
  /\ f.at = "finish" => f \in FinishFlow
  /\ f.at \in {"change", "confirm"} => f \in ChangeFlow
  /\ f.at = "store" => f \in StoreFlow
  /\ f.at = "prove" => f \in ProveFlow
  /\ f.at \in {"reset", "keep"} => f \in ResetFlow

RekeyTyped(r) ==
  /\ r.at \in {"none", "wrap", "sent", "save"}
  /\ r.at = "wrap" => r \in [at : {"wrap"}, password : Secret]
  /\ r.at \in {"sent", "save"} => r \in [at : {"sent", "save"}, password : Secret, fresh : {TRUE}]

Request ==
  [kind : {"change", "reset"}, by : Device, attempt : Nat, typed : Secret, secret : Secret, proof : Secret,
   past : BOOLEAN]

SwapRecord == [secret : Secret, proof : Secret, past : BOOLEAN, was : Secret]

(* A login is under way; it is for f.for.                                  *)
Logging(f) == f.at \in {"checked", "read", "save"}

(* At the locked screen a device resets or unlocks; all else it does       *)
(* unlocked.                                                               *)
LockFits(d) ==
  /\ unlocked[d] # 0 => local[d] \in Wrap
  /\ flow[d].at \in {"login", "finish", "change", "confirm", "store"} => unlocked[d] # 0
  /\ Logging(flow[d]) => (flow[d].for = "unlock" <=> unlocked[d] = 0)
  /\ flow[d].at \in {"prove", "reset", "keep"} => unlocked[d] = 0
  /\ At(d, "finish") => local[d].pending # NoReset
  /\ flow[d].at \in {"prove", "reset", "keep"} /\ flow[d].here => local[d] \in Wrap

Shapes ==
  /\ local = [d \in Device |-> local[d]] /\ unlocked = [d \in Device |-> unlocked[d]]
  /\ session = [d \in Device |-> session[d]]
  /\ flow = [d \in Device |-> flow[d]] /\ rekey = [d \in Device |-> rekey[d]]

ServerTyped ==
  /\ record \in Secret /\ keySet \in KeySet
  /\ late \subseteq Request /\ shown \subseteq Secret
  /\ swaps \subseteq SwapRecord
  /\ told \in [Secret -> {"unmade", "making", "done", "failed", "unsure", "waits"}]

DeviceTyped(d) ==
  /\ local[d] \in Wrap \cup {NoProfile}
  /\ unlocked[d] \in {0} \cup Secret /\ session[d] \in {"none", "live", "past"}
  /\ unlocked[d] = 0 => session[d] = "none"
  /\ FlowTyped(flow[d]) /\ RekeyTyped(rekey[d]) /\ LockFits(d)

TypeInv == Shapes /\ ServerTyped /\ \A d \in Device : DeviceTyped(d)

(***************************************************************************)
(* A request whose key set is still active proves the secret in force,     *)
(* unless its session is past a swap: only a swap replaces the record or   *)
(* the recovery key, and makes a new key set.                              *)
(***************************************************************************)
RequestProves(r) ==
  /\ r.attempt <= keySet.id
  /\ r.attempt = keySet.id => r.past \/ r.proof = IF r.kind = "reset" THEN keySet.recovery ELSE record

FlowProves(d) ==
  /\ At(d, "finish") => RequestProves(PendingRequest(d))
  /\ At(d, "change") => RequestProves(ChangeRequest(d))
  /\ At(d, "reset") => RequestProves(ResetRequest(d))

(* A login no swap fell into.                                              *)
Fresh(f) ==
  \/ f.at \in {"checked", "read"} /\ ~f.cut
  \/ f.at = "save" /\ f.session = "live"

FreshProves(d) == Fresh(flow[d]) => flow[d].password = record

Proving ==
  /\ \A r \in late : RequestProves(r)
  /\ \A d \in Device : FlowProves(d) /\ FreshProves(d)
  /\ EachSwapProvesTheCurrent

(***************************************************************************)
(* A device with a session, or about to have one, has no reset waiting.    *)
(***************************************************************************)
NothingWaits(d) ==
  /\ session[d] # "none" \/ flow[d].at \in {"login", "change", "store", "confirm"} => local[d].pending = NoReset
  /\ Logging(flow[d]) /\ local[d] # NoProfile => local[d].pending = NoReset
  /\ flow[d].at \in {"read", "save"} => flow[d].wrap.pending = NoReset

Unencumbered == \A d \in Device : NothingWaits(d)

(***************************************************************************)
(* Until a rekey strays, a waiting reset and a request type the password   *)
(* they wrap, and a device whose session no swap came after holds the      *)
(* wraps of the server.                                                    *)
(***************************************************************************)
Waiting(d) == local[d] # NoProfile /\ local[d].pending # NoReset

LateTypes == \A r \in late : r.typed = r.secret

HereTypes(d) == Waiting(d) =>
  /\ local[d].password = local[d].pending.secret
  /\ unlocked[d] # 0 => unlocked[d] = local[d].pending.secret

LiveHasTheWraps(d) ==
  /\ flow[d].at \in {"login", "finish", "confirm", "store"} => session[d] = "none"
  /\ Logging(flow[d]) /\ flow[d].for # "change" => session[d] = "none"
  /\ Fresh(flow[d]) /\ flow[d].for = "change" => session[d] # "none"
  /\ ~stray /\ session[d] = "live" => local[d] = ServerWrap
  /\ ~stray /\ Fresh(flow[d]) /\ flow[d].at \in {"read", "save"} => flow[d].wrap = ServerWrap

OrderInv ==
  /\ ~stray => LateTypes /\ \A d \in Device : HereTypes(d)
  /\ RecordOpensTheKeySet
  /\ \A d \in Device : LiveHasTheWraps(d)

(***************************************************************************)
(* Secrets are made in order, so a reset is newer than the one it replaces.*)
(***************************************************************************)
Made(n) == told[n] # "unmade"
Swapped(n) == \E swap \in swaps : swap.secret = n

Confirming(d) == Logging(flow[d]) /\ flow[d].for = "confirm"
Changing(d) == flow[d].at \in {"change", "confirm", "store"} \/ Confirming(d)
Resetting(d) == flow[d].at \in {"prove", "reset", "keep"}
Making(d) == Changing(d) \/ Resetting(d)

(* The secret a device is making.                                          *)
InHand(d) ==
  IF Resetting(d) THEN flow[d].secret ELSE IF Logging(flow[d]) THEN flow[d].password ELSE flow[d].to

InOrder == \A m, n \in Secret : m <= n /\ Made(n) => Made(m)

HandsInOrder(d) ==
  /\ Waiting(d) => Made(local[d].pending.secret)
  /\ Making(d) => Made(InHand(d))
  /\ Resetting(d) /\ Waiting(d) => local[d].pending.secret < flow[d].secret
  /\ At(d, "keep") => Swapped(flow[d].secret)

KeptInv == InOrder /\ (\A d \in Device : HandsInOrder(d)) /\ ResetIsKept

(***************************************************************************)
(* Who has a secret in hand, and what its user was told.                   *)
(***************************************************************************)
Excepted(n) == n \in erred \cup denied \cup wiped

(* The secrets a password in use may be.                                   *)
Known == {n \in Secret : n = 1 \/ Swapped(n) \/ told[n] \in {"waits", "unsure"}}

Hand(d) == Making(d) =>
  /\ InHand(d) # 1 /\ told[InHand(d)] = "making"
  /\ flow[d].at \in {"change", "prove", "reset"} =>
       ~Swapped(InHand(d)) /\ \A r \in late : r.secret # InHand(d)
  /\ flow[d].at \in {"store", "keep"} \/ Confirming(d) => Swapped(InHand(d))

WaitsTold(d) == Waiting(d) => told[local[d].pending.secret] = "waits" /\ local[d].pending.secret \in shown

HandsApart == \A d, e \in Device : Making(d) /\ Making(e) /\ d # e => InHand(d) # InHand(e)

LateTold ==
  \A r \in late :
    /\ Made(r.secret) /\ (told[r.secret] = "failed" => Excepted(r.secret))
    /\ r.kind = "reset" => r.secret \in shown \cup wiped

ToldInv ==
  /\ told[1] = "done"
  /\ \A n \in Secret : Swapped(n) => Made(n)
  /\ \A d \in Device : Hand(d) /\ WaitsTold(d)
  /\ HandsApart /\ LateTold /\ ToldTruly

ServerKnown ==
  {record, keySet.password} \subseteq Known /\ \A r \in late : r.typed = r.secret \/ r.typed \in Known

DeviceKnown(d) ==
  /\ local[d] # NoProfile => local[d].password \in Known
  /\ unlocked[d] # 0 => unlocked[d] \in Known
  /\ rekey[d].at # "none" => rekey[d].password \in Known
  /\ Logging(flow[d]) => flow[d].password \in Known
  /\ flow[d].at \in {"read", "save"} => flow[d].wrap.password \in Known
  /\ flow[d].at \in {"change", "confirm"} => flow[d].proof \in Known

PasswordsKnown == ServerKnown /\ \A d \in Device : DeviceKnown(d)

KnowInv == ToldInv /\ PasswordsKnown /\ RecoveryKeyShown
-------------------------------------------------------------------------------
(***************************************************************************)
(* Steps: what device d does, and what that leaves of another device.      *)
(***************************************************************************)
UnlockStep(d) == UnlockHere(d) \/ Lock(d) \/ Crash(d)

LoginStep(d) ==
  \/ \E password \in Secret : UnlockByServer(d, password)
  \/ Login(d) \/ FreshLogin(d)
  \/ ReadKeys(d) \/ OpenSession(d) \/ DropLogin(d) \/ DropConnect(d)
  \/ SaveUnlock(d) \/ SaveLogin(d)

ConnectStep(d) == SendPending(d) \/ FinishPending(d) \/ BreakPending(d) \/ LosePending(d)

RekeyStep(d) == SendRekey(d) \/ CommitRekey(d) \/ SaveRekey(d)

ChangeStep(d) ==
  \/ \E n \in Secret : StartChange(d, n)
  \/ TakeChange(d) \/ RefuseChange(d) \/ BreakChange(d) \/ LoseChange(d)
  \/ StoreChange(d) \/ ConfirmChange(d) \/ SaveConfirm(d) \/ DropConfirm(d)

ResetStep(d) ==
  \/ \E n \in Secret, key \in shown : StartReset(d, n, key)
  \/ ProveReset(d) \/ TakeReset(d) \/ BreakReset(d) \/ LoseServerReset(d) \/ KeepReset(d) \/ StoreReset(d)

DeviceStep(d) ==
  \/ UnlockStep(d) \/ LoginStep(d) \/ ConnectStep(d)
  \/ RekeyStep(d) \/ ChangeStep(d) \/ ResetStep(d)

LEMMA Steps ==
  Next <=> (\E request \in late : ArriveLate(request)) \/ \E d \in Device : DeviceStep(d)
BY DEF Next, DeviceStep, UnlockStep, LoginStep, ConnectStep, RekeyStep, ChangeStep, ResetStep

(* A swap passes by another device: its session ends, or goes on past it.  *)
CutOff(e) ==
  \/ flow'[e] = RevokedFlow(flow[e]) /\ session'[e] = "none"
  \/ flow'[e] = PassedFlow(flow[e]) /\ session'[e] = Passed(session[e])

(* Another device does nothing itself.                                     *)
Apart(e) ==
  /\ local'[e] = local[e] /\ unlocked'[e] = unlocked[e] /\ rekey'[e] = rekey[e]
  /\ (flow'[e] = flow[e] /\ session'[e] = session[e]) \/ CutOff(e)

LEMMA LateFrame ==
  ASSUME Shapes, NEW request \in late, ArriveLate(request)
  PROVE  Shapes' /\ \A e \in Device : Apart(e)
BY DEF Shapes, ArriveLate, RevokeAll, Apart, CutOff

LEMMA Frame ==
  ASSUME Shapes, NEW d \in Device, DeviceStep(d)
  PROVE  Shapes' /\ \A e \in Device \ {d} : Apart(e)
<1>1. CASE UnlockStep(d)
  BY <1>1 DEF Shapes, Apart, UnlockStep, UnlockHere, Lock, Crash, End, Detached, serverVars, historyVars
<1>2. CASE LoginStep(d)
  BY <1>2 DEF Shapes, Apart, LoginStep, UnlockByServer, Login, FreshLogin, LogIn, ReadKeys, OpenSession, DropLogin,
    DropConnect, SaveUnlock, SaveLogin, SaveWraps, Attach, StartRekey, End, Detached, serverVars, historyVars
<1>3. CASE ConnectStep(d)
  BY <1>3 DEF Shapes, Apart, CutOff, ConnectStep, SendPending, FinishPending, BreakPending, LosePending, SwapOnly,
    RevokeAll, RevokeFlows, End, Detached, Refuse, Unsent, GiveUp, serverVars, historyVars
<1>4. CASE RekeyStep(d)
  BY <1>4 DEF Shapes, Apart, RekeyStep, SendRekey, CommitRekey, SaveRekey, serverVars, historyVars
<1>5. CASE ChangeStep(d)
  BY <1>5 DEF Shapes, Apart, CutOff, ChangeStep, StartChange, TakeChange, RefuseChange, BreakChange, LoseChange,
    StoreChange, ConfirmChange, SaveConfirm, DropConfirm, LogIn, SaveWraps, Attach, SwapOnly, RevokeAll,
    RevokeFlows, End, GiveUp, AfterNoAnswer, serverVars, historyVars
<1>6. CASE ResetStep(d)
  BY <1>6 DEF Shapes, Apart, CutOff, ResetStep, StartReset, ProveReset, TakeReset, BreakReset, LoseServerReset,
    KeepReset, StoreReset, SwapOnly, RevokeAll, RevokeFlows, End, GiveUp, StoreUnsent, serverVars, historyVars
<1> QED
  BY <1>1, <1>2, <1>3, <1>4, <1>5, <1>6 DEF DeviceStep
-------------------------------------------------------------------------------
(***************************************************************************)
(* Types.                                                                  *)
(***************************************************************************)
LEMMA InitTyped == Init => TypeInv
<1> SUFFICES ASSUME Init PROVE TypeInv
  OBVIOUS
<1>1. 1 \in Secret
  BY PasswordAssumption DEF Secret
<1>2. [password |-> 1, recovery |-> 1, pending |-> NoReset] \in Wrap
  BY <1>1 DEF Wrap
<1>3. Shapes
  BY DEF Init, Shapes
<1>4. ServerTyped
  BY <1>1, PasswordAssumption DEF Init, ServerTyped, KeySet
<1>5. ASSUME NEW d \in Device PROVE DeviceTyped(d)
  BY <1>2, <1>5 DEF Init, DeviceTyped, FlowTyped, Step, RekeyTyped, LockFits, Logging, At, Idle, NoRekey
<1> QED
  BY <1>3, <1>4, <1>5 DEF TypeInv

LEMMA LoginsTyped ==
  ASSUME NEW f, FlowTyped(f)
  PROVE  /\ f.at = "checked" => f \in CheckedFlow
         /\ f.at = "read" => f \in ReadFlow
         /\ f.at = "save" => f \in SaveFlow
         /\ Logging(f) => f.for \in Purpose /\ f.password \in Secret
         /\ f.at \in {"checked", "read"} => f.cut \in BOOLEAN
         /\ f.at \in {"read", "save"} => f.wrap \in Wrap /\ f.weak \in BOOLEAN
         /\ f.at = "save" => f.session \in {"none", "live", "past"}
BY DEF FlowTyped, Logging, CheckedFlow, ReadFlow, SaveFlow

(* A swap that passes by leaves what a device does, but for a login's      *)
(* session: it isn't fresh any more.                                       *)
LEMMA CutIsTyped ==
  ASSUME NEW f, FlowTyped(f), NEW g, g = RevokedFlow(f) \/ g = PassedFlow(f)
  PROVE  /\ FlowTyped(g) /\ g.at = f.at /\ ~Fresh(g)
         /\ ~Logging(f) => g = f
         /\ Logging(f) => g.for = f.for /\ g.password = f.password
         /\ f.at \in {"read", "save"} => g.wrap = f.wrap
<1>1. CASE f.at = "checked"
  <2>1. f \in CheckedFlow /\ g = [f EXCEPT !.cut = TRUE]
    BY <1>1, LoginsTyped DEF RevokedFlow, PassedFlow
  <2>2. g \in CheckedFlow /\ g.cut = TRUE /\ g.for = f.for /\ g.password = f.password /\ g.at = "checked"
    BY <2>1 DEF CheckedFlow
  <2> QED
    BY <1>1, <2>2 DEF FlowTyped, Step, Fresh, Logging
<1>2. CASE f.at = "read"
  <2>1. f \in ReadFlow /\ g = [f EXCEPT !.cut = TRUE]
    BY <1>2, LoginsTyped DEF RevokedFlow, PassedFlow
  <2>2. g \in ReadFlow /\ g.cut = TRUE /\ g.for = f.for /\ g.password = f.password /\ g.at = "read"
        /\ g.wrap = f.wrap
    BY <2>1 DEF ReadFlow
  <2> QED
    BY <1>2, <2>2 DEF FlowTyped, Step, Fresh, Logging
<1>3. CASE f.at = "save"
  <2>1. f \in SaveFlow /\ f.session \in {"none", "live", "past"}
    BY <1>3, LoginsTyped
  <2>2. PICK s \in {"none", "past"} : g = [f EXCEPT !.session = s]
    BY <1>3, <2>1 DEF RevokedFlow, PassedFlow, Passed
  <2>3. g \in SaveFlow /\ g.session \in {"none", "past"} /\ g.for = f.for /\ g.password = f.password
        /\ g.wrap = f.wrap /\ g.at = "save"
    BY <2>1, <2>2 DEF SaveFlow
  <2> QED
    BY <1>3, <2>3 DEF FlowTyped, Step, Fresh, Logging
<1>4. CASE ~Logging(f)
  BY <1>4 DEF Logging, RevokedFlow, PassedFlow, Fresh
<1> QED
  BY <1>1, <1>2, <1>3, <1>4 DEF Logging

(* What a device that does nothing itself keeps.                           *)
LEMMA ApartFlow ==
  ASSUME NEW e \in Device, DeviceTyped(e), Apart(e)
  PROVE  /\ FlowTyped(flow'[e]) /\ flow'[e].at = flow[e].at
         /\ ~Logging(flow[e]) => flow'[e] = flow[e]
         /\ Logging(flow[e]) => flow'[e].for = flow[e].for /\ flow'[e].password = flow[e].password
         /\ flow[e].at \in {"read", "save"} => flow'[e].wrap = flow[e].wrap
         /\ session'[e] \in {session[e], "none", "past"}
         /\ session[e] = "none" => session'[e] = "none"
         /\ CutOff(e) => ~Fresh(flow'[e]) /\ session'[e] # "live"
BY CutIsTyped DEF Apart, CutOff, DeviceTyped, Passed

LEMMA ApartTyped ==
  ASSUME NEW e \in Device, DeviceTyped(e), Apart(e)
  PROVE  DeviceTyped(e)'
<1>1. LockFits(e)'
  <2>1. flow'[e].at = flow[e].at /\ (~Logging(flow[e]) => flow'[e] = flow[e])
        /\ (Logging(flow[e]) => flow'[e].for = flow[e].for)
    BY ApartFlow
  <2> QED
    BY <2>1 DEF DeviceTyped, LockFits, Apart, At, Logging
<1> QED
  BY <1>1, ApartFlow DEF DeviceTyped, Apart

LEMMA Secrets == 1 \in Secret /\ \A n \in Secret : n \in Nat /\ n # 0
BY PasswordAssumption DEF Secret

(* What a device needs to know of itself between two steps of a flow.      *)
LEMMA InFlow ==
  ASSUME NEW d \in Device, DeviceTyped(d)
  PROVE  /\ unlocked[d] # 0 => unlocked[d] \in Secret /\ local[d] \in Wrap
         /\ flow[d].at \in {"login", "finish", "change", "confirm", "store"} =>
              unlocked[d] # 0 /\ unlocked[d] \in Secret /\ local[d] \in Wrap
         /\ flow[d].at \in {"prove", "reset", "keep"} => unlocked[d] = 0 /\ session[d] = "none"
         /\ At(d, "finish") => flow[d].attempt \in Nat /\ local[d].pending \in Reset
         /\ flow[d].at \in {"change", "confirm"} =>
              /\ flow[d].attempt \in Nat /\ flow[d].to \in Secret
              /\ flow[d].proof \in Secret /\ flow[d].past \in BOOLEAN
         /\ At(d, "store") => flow[d].to \in Secret
         /\ flow[d].at \in {"prove", "reset", "keep"} =>
              /\ flow[d].secret \in Secret /\ flow[d].proof \in Secret /\ flow[d].here \in BOOLEAN
              /\ flow[d].here => local[d] \in Wrap
         /\ flow[d].at \in {"reset", "keep"} => flow[d].attempt \in Nat
<1>1. /\ unlocked[d] # 0 => unlocked[d] \in Secret /\ local[d] \in Wrap
      /\ flow[d].at \in {"login", "finish", "change", "confirm", "store"} =>
              unlocked[d] # 0 /\ unlocked[d] \in Secret /\ local[d] \in Wrap
      /\ flow[d].at \in {"prove", "reset", "keep"} => unlocked[d] = 0 /\ session[d] = "none"
  BY DEF DeviceTyped, LockFits
<1>2. At(d, "finish") => flow[d].attempt \in Nat /\ local[d].pending \in Reset
  BY <1>1 DEF DeviceTyped, LockFits, FlowTyped, FinishFlow, At, Wrap
<1>3. flow[d].at \in {"change", "confirm"} =>
        /\ flow[d].attempt \in Nat /\ flow[d].to \in Secret
        /\ flow[d].proof \in Secret /\ flow[d].past \in BOOLEAN
  BY DEF DeviceTyped, FlowTyped, ChangeFlow
<1>4. At(d, "store") => flow[d].to \in Secret
  BY DEF DeviceTyped, FlowTyped, StoreFlow, At
<1>6. flow[d].at = "prove" =>
        flow[d].secret \in Secret /\ flow[d].proof \in Secret /\ flow[d].here \in BOOLEAN
  BY DEF DeviceTyped, FlowTyped, ProveFlow
<1>7. flow[d].at \in {"reset", "keep"} =>
        /\ flow[d].secret \in Secret /\ flow[d].proof \in Secret /\ flow[d].here \in BOOLEAN
        /\ flow[d].attempt \in Nat
  BY DEF DeviceTyped, FlowTyped, ResetFlow
<1>8. flow[d].at \in {"prove", "reset", "keep"} /\ flow[d].here => local[d] \in Wrap
  BY DEF DeviceTyped, LockFits
<1> QED
  BY <1>1, <1>2, <1>3, <1>4, <1>6, <1>7, <1>8

LEMMA RequestsTyped ==
  ASSUME NEW d \in Device, DeviceTyped(d)
  PROVE  /\ At(d, "finish") => PendingRequest(d) \in Request
         /\ At(d, "change") => ChangeRequest(d) \in Request
         /\ At(d, "reset") => ResetRequest(d) \in Request
         /\ InFlight(d) \subseteq Request
<1>1. At(d, "finish") => PendingRequest(d) \in Request
  BY InFlow DEF PendingRequest, Request, At, Reset
<1>2. At(d, "change") => ChangeRequest(d) \in Request
  BY InFlow DEF ChangeRequest, Request, At
<1>3. At(d, "reset") => ResetRequest(d) \in Request
  BY InFlow DEF ResetRequest, Request, At
<1> QED
  BY <1>1, <1>2, <1>3 DEF InFlight

LEMMA SwapTyped ==
  ASSUME ServerTyped, NEW request \in Request, Swap(request)
  PROVE  /\ record' \in Secret /\ keySet' \in KeySet
         /\ swaps' \subseteq SwapRecord
         /\ keySet'.id = keySet.id + 1 /\ keySet.id \in Nat /\ keySet.id = request.attempt
         /\ record' = request.typed /\ keySet'.password = request.secret
         /\ keySet'.recovery = IF request.kind = "reset" THEN request.secret ELSE keySet.recovery
<1>1. keySet.id \in Nat /\ keySet.recovery \in Secret
  BY DEF ServerTyped, KeySet
<1>2. request.typed \in Secret /\ request.secret \in Secret /\ request.by \in Device /\ request.proof \in Secret
      /\ request.past \in BOOLEAN
  BY DEF Request
<1>3. keySet' \in KeySet
  BY <1>1, <1>2 DEF Swap, KeySet
<1>4. [secret |-> request.secret, proof |-> request.proof, past |-> request.past,
       was |-> IF request.kind = "reset" THEN keySet.recovery ELSE record] \in SwapRecord
  BY <1>1, <1>2 DEF ServerTyped, SwapRecord
<1> QED
  BY <1>1, <1>2, <1>3, <1>4 DEF Swap, StillActive, ServerTyped

LEMMA RekeysTyped ==
  RekeyTyped(NoRekey) /\ \A password \in Secret : RekeyTyped([at |-> "wrap", password |-> password])
BY DEF RekeyTyped, NoRekey

LEMMA ServerWrapTyped == ServerTyped => ServerWrap \in Wrap
BY DEF ServerTyped, ServerWrap, Wrap, KeySet

LEMMA IdleTyped == FlowTyped(Idle) /\ ~Logging(Idle) /\ Idle.at = "idle"
BY DEF FlowTyped, Idle, Step, Logging
-------------------------------------------------------------------------------
(***************************************************************************)
(* What the steps of a login do to the device: it begins, goes on, is      *)
(* dropped, or is saved.                                                   *)
(***************************************************************************)
Begins(d) ==
  \E for \in {"unlock", "connect", "change"}, password \in Secret :
    /\ record = password
    /\ flow'[d] = [at |-> "checked", for |-> for, password |-> password, cut |-> FALSE]
    /\ local'[d] = local[d] /\ unlocked'[d] = unlocked[d] /\ rekey'[d] = rekey[d]
    /\ for = "unlock" => unlocked[d] = 0 /\ (local[d] # NoProfile => local[d].pending = NoReset)
    /\ for # "unlock" => unlocked[d] # 0
    /\ for = "connect" => At(d, "login") \/ local[d].pending = NoReset
    /\ session'[d] = IF for = "connect" THEN "none" ELSE session[d]
    /\ for = "change" => session[d] # "none"

GoesOn(d) ==
  /\ local'[d] = local[d] /\ unlocked'[d] = unlocked[d] /\ rekey'[d] = rekey[d] /\ session'[d] = session[d]
  /\ \/ /\ At(d, "checked")
        /\ flow'[d] = [at |-> "read", for |-> flow[d].for, password |-> flow[d].password, cut |-> flow[d].cut,
                       wrap |-> ServerWrap, weak |-> keySet.weak]
     \/ /\ At(d, "read")
        /\ flow'[d] = [at |-> "save", for |-> flow[d].for, password |-> flow[d].password,
                       wrap |-> flow[d].wrap, weak |-> flow[d].weak,
                       session |-> IF flow[d].cut THEN "past" ELSE "live"]

Drops(d) ==
  /\ local'[d] = local[d] /\ unlocked'[d] = unlocked[d] /\ rekey'[d] = rekey[d]
  /\ flow'[d] = Idle /\ session'[d] \in {session[d], "none"}

Saves(d) ==
  /\ At(d, "save") /\ flow'[d] = Idle /\ local'[d] = flow[d].wrap
  /\ \/ unlocked[d] = 0 /\ unlocked'[d] = 0 /\ session'[d] = session[d] /\ rekey'[d] = rekey[d]
     \/ /\ unlocked'[d] = flow[d].password \/ (unlocked[d] # 0 /\ unlocked'[d] = unlocked[d])
        /\ session'[d] = flow[d].session
        /\ rekey'[d] \in {rekey[d], [at |-> "wrap", password |-> flow[d].password]}

LoginDoes(d) == Begins(d) \/ GoesOn(d) \/ Drops(d) \/ Saves(d)

LEMMA LoginEffects ==
  ASSUME TypeInv, NEW d \in Device, LoginStep(d)
  PROVE  UNCHANGED <<serverVars, historyVars>> /\ LoginDoes(d)
<1>a. Shapes /\ DeviceTyped(d) /\ record \in Secret
  BY DEF TypeInv, ServerTyped
<1>1. ASSUME NEW password \in Secret, UnlockByServer(d, password)
      PROVE  UNCHANGED <<serverVars, historyVars>> /\ LoginDoes(d)
  BY <1>a, <1>1 DEF Shapes, UnlockByServer, LogIn, AsksServer, LoginDoes, Begins, serverVars, historyVars
<1>2. CASE Login(d)
  <2>1. unlocked[d] # 0 /\ unlocked[d] \in Secret
    BY <1>a, <1>2, InFlow DEF Login, Connects, At
  <2> QED
    BY <1>a, <1>2, <2>1 DEF Shapes, Login, LogIn, Connects, Detached, End, LoginDoes, Begins, Drops, serverVars,
      historyVars
<1>3. CASE FreshLogin(d)
  <2>1. unlocked[d] # 0 /\ session[d] # "none"
    BY <1>a, <1>3 DEF FreshLogin, Taken, DeviceTyped
  <2> QED
    BY <1>a, <1>3, <2>1 DEF Shapes, FreshLogin, LogIn, LoginDoes, Begins, serverVars, historyVars
<1>4. CASE ReadKeys(d) \/ OpenSession(d)
  BY <1>a, <1>4 DEF Shapes, ReadKeys, OpenSession, At, LoginDoes, GoesOn, serverVars, historyVars
<1>5. CASE DropLogin(d) \/ DropConnect(d)
  BY <1>a, <1>5 DEF Shapes, DropLogin, DropConnect, End, LoginDoes, Drops, serverVars, historyVars
<1>6. CASE SaveUnlock(d)
  <2>1. unlocked[d] = 0
    BY <1>a, <1>6 DEF SaveUnlock, LoggedIn, At, DeviceTyped, LockFits, Logging
  <2> QED
    BY <1>a, <1>6, <2>1 DEF Shapes, SaveUnlock, LoggedIn, SaveWraps, Attach, StartRekey, End, LoginDoes, Saves,
      serverVars, historyVars
<1>7. CASE SaveLogin(d)
  <2>1. unlocked[d] # 0
    BY <1>a, <1>7 DEF SaveLogin, LoggedIn, At, DeviceTyped, LockFits, Logging
  <2> QED
    BY <1>a, <1>7, <2>1 DEF Shapes, SaveLogin, LoggedIn, SaveWraps, Attach, StartRekey, End, LoginDoes, Saves,
      serverVars, historyVars
<1> QED
  BY <1>1, <1>2, <1>3, <1>4, <1>5, <1>6, <1>7 DEF LoginStep
-------------------------------------------------------------------------------
(***************************************************************************)
(* The steps of a device keep its types and the server's.                  *)
(***************************************************************************)
LEMMA LoginStepTyped ==
  ASSUME TypeInv, NEW d \in Device, LoginStep(d)
  PROVE  ServerTyped' /\ DeviceTyped(d)'
<1>a. Shapes /\ ServerTyped /\ DeviceTyped(d) /\ FlowTyped(flow[d])
  BY DEF TypeInv, DeviceTyped
<1>b. UNCHANGED <<serverVars, historyVars>> /\ LoginDoes(d)
  BY LoginEffects
<1>c. ServerTyped'
  BY <1>a, <1>b DEF ServerTyped, serverVars, historyVars
<1>1. CASE Begins(d)
  <2>1. PICK for \in {"unlock", "connect", "change"}, password \in Secret :
          /\ flow'[d] = [at |-> "checked", for |-> for, password |-> password, cut |-> FALSE]
          /\ local'[d] = local[d] /\ unlocked'[d] = unlocked[d] /\ rekey'[d] = rekey[d]
          /\ for = "unlock" <=> unlocked[d] = 0
          /\ session'[d] \in {session[d], "none"}
    BY <1>1 DEF Begins
  <2>2. flow'[d].at = "checked" /\ flow'[d].for = for /\ flow'[d] \in CheckedFlow
    BY <2>1 DEF CheckedFlow, Purpose
  <2>3. FlowTyped(flow'[d])
    BY <2>2 DEF FlowTyped, Step
  <2>4. LockFits(d)'
    BY <1>a, <2>1, <2>2 DEF DeviceTyped, LockFits, Logging, At
  <2> QED
    BY <1>a, <1>c, <2>1, <2>3, <2>4 DEF DeviceTyped
<1>2. CASE GoesOn(d)
  <2>1. FlowTyped(flow'[d]) /\ Logging(flow[d]) /\ Logging(flow'[d]) /\ flow'[d].for = flow[d].for
    <3>1. CASE At(d, "checked")
      <4>1. flow[d].for \in Purpose /\ flow[d].password \in Secret /\ flow[d].cut \in BOOLEAN
        BY <1>a, <3>1, LoginsTyped DEF At, Logging
      <4>2. flow'[d] \in ReadFlow /\ flow'[d].at = "read" /\ flow'[d].for = flow[d].for
        BY <1>a, <1>2, <3>1, <4>1, ServerWrapTyped DEF GoesOn, At, ReadFlow, ServerTyped, KeySet
      <4> QED
        BY <3>1, <4>2 DEF FlowTyped, Step, Logging, At
    <3>2. CASE At(d, "read")
      <4>1. flow[d].for \in Purpose /\ flow[d].password \in Secret /\ flow[d].wrap \in Wrap /\ flow[d].weak \in BOOLEAN
        BY <1>a, <3>2, LoginsTyped DEF At, Logging
      <4>2. flow'[d] \in SaveFlow /\ flow'[d].at = "save" /\ flow'[d].for = flow[d].for
        BY <1>a, <1>2, <3>2, <4>1 DEF GoesOn, At, SaveFlow
      <4> QED
        BY <3>2, <4>2 DEF FlowTyped, Step, Logging, At
    <3> QED
      BY <1>2, <3>1, <3>2 DEF GoesOn
  <2>2. LockFits(d)'
    BY <1>a, <1>2, <2>1 DEF DeviceTyped, LockFits, GoesOn, Logging, At
  <2> QED
    BY <1>a, <1>c, <1>2, <2>1, <2>2 DEF DeviceTyped, GoesOn
<1>3. CASE Drops(d)
  <2>1. LockFits(d)'
    BY <1>a, <1>3, IdleTyped DEF DeviceTyped, LockFits, Drops, At
  <2> QED
    BY <1>a, <1>c, <1>3, <2>1, IdleTyped DEF DeviceTyped, Drops
<1>4. CASE Saves(d)
  <2>1. flow[d].wrap \in Wrap /\ flow[d].password \in Secret /\ flow[d].session \in {"none", "live", "past"}
    BY <1>a, <1>4, LoginsTyped DEF Saves, At, Logging
  <2>2. local'[d] \in Wrap /\ unlocked'[d] \in {0} \cup Secret /\ session'[d] \in {"none", "live", "past"}
        /\ (unlocked'[d] = 0 => session'[d] = "none")
    BY <1>a, <1>4, <2>1, Secrets DEF DeviceTyped, Saves
  <2>3. RekeyTyped(rekey'[d])
    BY <1>a, <1>4, <2>1, RekeysTyped DEF DeviceTyped, Saves
  <2>4. LockFits(d)'
    BY <1>a, <1>4, <2>2, IdleTyped DEF DeviceTyped, LockFits, Saves, At
  <2> QED
    BY <1>c, <1>4, <2>2, <2>3, <2>4, IdleTyped DEF DeviceTyped, Saves
<1> QED
  BY <1>b, <1>1, <1>2, <1>3, <1>4 DEF LoginDoes
LEMMA UnlockStepTyped ==
  ASSUME TypeInv, NEW d \in Device, UnlockStep(d)
  PROVE  ServerTyped' /\ DeviceTyped(d)'
<1>a. Shapes /\ ServerTyped /\ DeviceTyped(d)
  BY DEF TypeInv
<1>1. CASE UnlockHere(d)
  <2>1. ServerTyped'
    BY <1>a, <1>1, InFlow DEF ServerTyped, UnlockHere, serverVars, historyVars
  <2>v. /\ flow[d] = Idle /\ local[d] \in Wrap /\ local[d].password \in Secret
        /\ local'[d] = local[d] /\ unlocked'[d] = local[d].password /\ session'[d] = session[d]
        /\ flow'[d] = flow[d] /\ rekey'[d] = rekey[d]
    BY <1>a, <1>1, Secrets, InFlow DEF At, UnlockHere, Wrap, Idle, serverVars, historyVars, Shapes, DeviceTyped
  <2>3. FlowTyped(flow'[d])
    BY <1>a, <2>v, InFlow DEF DeviceTyped, FlowTyped, Step, Idle, ServerTyped, KeySet, At
  <2>4. RekeyTyped(rekey'[d])
    BY <1>a, <2>v DEF DeviceTyped, RekeyTyped, NoRekey
  <2>5. local'[d] \in Wrap \cup {NoProfile} /\ unlocked'[d] \in {0} \cup Secret
        /\ session'[d] \in {"none", "live", "past"} /\ (unlocked'[d] = 0 => session'[d] = "none")
    BY <1>a, <2>v, Secrets, InFlow DEF DeviceTyped, Wrap, At, Idle
  <2>6. LockFits(d)'
    BY <1>a, <2>v, <2>5, Secrets, InFlow DEF DeviceTyped, LockFits, Logging, Wrap, At, Idle
  <2>2. DeviceTyped(d)'
    BY <2>3, <2>4, <2>5, <2>6 DEF DeviceTyped
  <2> QED
    BY <2>1, <2>2
<1>2. CASE Lock(d)
  <2>1. ServerTyped'
    BY <1>a, <1>2, InFlow DEF ServerTyped, Lock, serverVars, historyVars
  <2>v. /\ flow[d] = Idle
        /\ local'[d] = local[d] /\ unlocked'[d] = 0 /\ session'[d] = "none"
        /\ flow'[d] = flow[d] /\ rekey'[d] \in {rekey[d], NoRekey}
    BY <1>a, <1>2, Secrets, InFlow DEF At, Lock, Detached, NoRekey, Idle, serverVars, historyVars, Shapes
  <2>3. FlowTyped(flow'[d])
    BY <1>a, <2>v, InFlow DEF DeviceTyped, FlowTyped, Step, Idle, ServerTyped, KeySet, At
  <2>4. RekeyTyped(rekey'[d])
    BY <1>a, <2>v, RekeysTyped DEF DeviceTyped
  <2>5. local'[d] \in Wrap \cup {NoProfile} /\ unlocked'[d] \in {0} \cup Secret
        /\ session'[d] \in {"none", "live", "past"} /\ (unlocked'[d] = 0 => session'[d] = "none")
    BY <1>a, <2>v, Secrets, InFlow DEF DeviceTyped, Wrap, At, Idle
  <2>6. LockFits(d)'
    BY <1>a, <2>v, <2>5, Secrets, InFlow DEF DeviceTyped, LockFits, Logging, Wrap, At, Idle
  <2>2. DeviceTyped(d)'
    BY <2>3, <2>4, <2>5, <2>6 DEF DeviceTyped
  <2> QED
    BY <2>1, <2>2
<1>3. CASE Crash(d)
  <2>1. ServerTyped'
    BY <1>a, <1>3, RequestsTyped DEF ServerTyped, Crash
  <2>2. DeviceTyped(d)'
    BY <1>a, <1>3, Secrets, InFlow DEF DeviceTyped, LockFits, Logging, FlowTyped, Step, RekeyTyped, At, Crash, Fault, End,
    NoRekey, Idle, serverVars, historyVars, Shapes
  <2> QED
    BY <2>1, <2>2
<1> QED
  BY <1>1, <1>2, <1>3 DEF UnlockStep

LEMMA ConnectStepTyped ==
  ASSUME TypeInv, NEW d \in Device, ConnectStep(d)
  PROVE  ServerTyped' /\ DeviceTyped(d)'
<1>a. Shapes /\ ServerTyped /\ DeviceTyped(d)
  BY DEF TypeInv
<1>1. CASE SendPending(d)
  <2>1. ServerTyped'
    BY <1>a, <1>1, InFlow DEF ServerTyped, SendPending, Refuse, serverVars, historyVars
  <2>v. /\ unlocked[d] # 0 /\ unlocked'[d] = unlocked[d] /\ session'[d] = "none" /\ rekey'[d] = rekey[d]
        /\ \/ /\ flow'[d] = [at |-> "finish", attempt |-> keySet.id] /\ local'[d] = local[d]
              /\ local[d].pending # NoReset
           \/ flow'[d] = [at |-> "login"] /\ local'[d] = [local[d] EXCEPT !.pending = NoReset]
    BY <1>a, <1>1, Secrets, InFlow DEF At, SendPending, Connects, Detached, Refuse, Unsent, Proves, Idle, KeySet,
    Wrap, ServerTyped, serverVars, historyVars, Shapes
  <2>3. FlowTyped(flow'[d])
    BY <1>a, <2>v, InFlow DEF DeviceTyped, FlowTyped, Step, Idle, ServerTyped, KeySet, At, FinishFlow
  <2>4. RekeyTyped(rekey'[d])
    BY <1>a, <2>v DEF DeviceTyped, RekeyTyped, NoRekey
  <2>5. local'[d] \in Wrap \cup {NoProfile} /\ unlocked'[d] \in {0} \cup Secret
        /\ session'[d] \in {"none", "live", "past"} /\ (unlocked'[d] = 0 => session'[d] = "none")
    BY <1>a, <2>v, Secrets, InFlow DEF DeviceTyped, Wrap, At, Idle
  <2>6. LockFits(d)'
    BY <1>a, <2>v, <2>5, Secrets, InFlow DEF DeviceTyped, LockFits, Logging, Wrap, At, Idle
  <2>2. DeviceTyped(d)'
    BY <2>3, <2>4, <2>5, <2>6 DEF DeviceTyped
  <2> QED
    BY <2>1, <2>2
<1>2. CASE FinishPending(d)
  <2>1. ServerTyped'
    BY <1>a, <1>2, RequestsTyped, InFlow, SwapTyped DEF ServerTyped, FinishPending, StillActive
  <2>v. /\ At(d, "finish") /\ flow'[d] = [at |-> "login"] /\ unlocked'[d] = unlocked[d] /\ rekey'[d] = rekey[d]
        /\ session'[d] \in {session[d], "none"} /\ local'[d] = [local[d] EXCEPT !.pending = NoReset]
    BY <1>a, <1>2, Secrets, InFlow DEF At, FinishPending, Refuse, Unsent, RevokeAll, RevokeFlows, Wrap, serverVars, historyVars,
    Shapes
  <2>3. FlowTyped(flow'[d])
    BY <1>a, <2>v, InFlow DEF DeviceTyped, FlowTyped, Step, Idle, ServerTyped, KeySet, At
  <2>4. RekeyTyped(rekey'[d])
    BY <1>a, <2>v DEF DeviceTyped, RekeyTyped, NoRekey
  <2>5. local'[d] \in Wrap \cup {NoProfile} /\ unlocked'[d] \in {0} \cup Secret
        /\ session'[d] \in {"none", "live", "past"} /\ (unlocked'[d] = 0 => session'[d] = "none")
    BY <1>a, <2>v, Secrets, InFlow DEF DeviceTyped, Wrap, At, Idle
  <2>6. LockFits(d)'
    BY <1>a, <2>v, <2>5, Secrets, InFlow DEF DeviceTyped, LockFits, Logging, Wrap, At, Idle
  <2>2. DeviceTyped(d)'
    BY <2>3, <2>4, <2>5, <2>6 DEF DeviceTyped
  <2> QED
    BY <2>1, <2>2
<1>3. CASE LosePending(d)
  <2>1. ServerTyped'
    BY <1>a, <1>3, RequestsTyped, InFlow DEF ServerTyped, LosePending, GiveUp, Fault
  <2>2. DeviceTyped(d)'
    BY <1>a, <1>3, Secrets, InFlow DEF DeviceTyped, LockFits, Logging, FlowTyped, Step, RekeyTyped, At, LosePending, End,
    Idle, serverVars, historyVars, Shapes
  <2> QED
    BY <2>1, <2>2
<1>4. CASE BreakPending(d)
  <2>1. ServerTyped'
    BY <1>a, <1>4, RequestsTyped, SwapTyped DEF ServerTyped, BreakPending, SwapOnly
  <2>v. /\ At(d, "finish") /\ flow'[d] = Idle /\ local'[d] = local[d] /\ unlocked'[d] = unlocked[d]
        /\ session'[d] = Passed(session[d]) /\ rekey'[d] = rekey[d]
    BY <1>a, <1>4 DEF Shapes, BreakPending, SwapOnly
  <2>2. LockFits(d)'
    BY <1>a, <2>v, IdleTyped DEF DeviceTyped, LockFits, At
  <2> QED
    BY <1>a, <2>1, <2>v, <2>2, IdleTyped DEF DeviceTyped, Passed
<1> QED
  BY <1>1, <1>2, <1>3, <1>4 DEF ConnectStep

LEMMA RekeyStepTyped ==
  ASSUME TypeInv, NEW d \in Device, RekeyStep(d)
  PROVE  ServerTyped' /\ DeviceTyped(d)'
<1>a. Shapes /\ ServerTyped /\ DeviceTyped(d)
  BY DEF TypeInv
<1>1. CASE SendRekey(d)
  <2>1. ServerTyped'
    BY <1>a, <1>1, InFlow DEF ServerTyped, SendRekey, serverVars, historyVars
  <2>2. DeviceTyped(d)'
    BY <1>a, <1>1, Secrets, InFlow DEF DeviceTyped, LockFits, Logging, FlowTyped, Step, RekeyTyped, At, SendRekey,
    MayRekey, Taken, NoRekey, serverVars, historyVars, Shapes
  <2> QED
    BY <2>1, <2>2
<1>2. CASE CommitRekey(d)
  <2>1. ServerTyped'
    <3>1. rekey[d].password \in Secret
      BY <1>a, <1>2 DEF CommitRekey, DeviceTyped, RekeyTyped
    <3>2. keySet' = [keySet EXCEPT !.id = keySet.id + 1, !.password = rekey[d].password, !.weak = FALSE]
      BY <1>2 DEF CommitRekey
    <3>3. keySet \in KeySet /\ keySet.id + 1 \in Nat \ {0}
      BY <1>a DEF ServerTyped, KeySet
    <3>4. keySet' \in KeySet
      BY <3>1, <3>2, <3>3 DEF KeySet
    <3> QED
      BY <1>a, <1>2, <3>4 DEF ServerTyped, CommitRekey
  <2>2. DeviceTyped(d)'
    BY <1>a, <1>2, Secrets, InFlow DEF DeviceTyped, LockFits, Logging, FlowTyped, Step, RekeyTyped, At, CommitRekey,
    serverVars, historyVars, Shapes
  <2> QED
    BY <2>1, <2>2
<1>3. CASE SaveRekey(d)
  <2>1. ServerTyped'
    BY <1>a, <1>3, InFlow DEF ServerTyped, SaveRekey, serverVars, historyVars
  <2>v. /\ unlocked'[d] = unlocked[d] /\ session'[d] = session[d] /\ flow'[d] = flow[d] /\ rekey'[d] = NoRekey
        /\ \/ local'[d] = local[d]
           \/ /\ local[d] \in Wrap /\ rekey[d].password \in Secret
              /\ local'[d] = [local[d] EXCEPT !.password = rekey[d].password]
    BY <1>a, <1>3, Secrets, InFlow DEF At, SaveRekey, NoRekey, Wrap, serverVars, historyVars, Shapes,
    DeviceTyped, RekeyTyped
  <2>3. FlowTyped(flow'[d])
    BY <1>a, <2>v, InFlow DEF DeviceTyped, FlowTyped, Step, Idle, ServerTyped, KeySet, At
  <2>4. RekeyTyped(rekey'[d])
    BY <1>a, <2>v DEF DeviceTyped, RekeyTyped, NoRekey
  <2>5. local'[d] \in Wrap \cup {NoProfile} /\ unlocked'[d] \in {0} \cup Secret
        /\ session'[d] \in {"none", "live", "past"} /\ (unlocked'[d] = 0 => session'[d] = "none")
    BY <1>a, <2>v, Secrets, InFlow DEF DeviceTyped, Wrap, At, Idle
  <2>6. LockFits(d)'
    BY <1>a, <2>v, <2>5, Secrets, InFlow DEF DeviceTyped, LockFits, Logging, Wrap, At, Idle
  <2>2. DeviceTyped(d)'
    BY <2>3, <2>4, <2>5, <2>6 DEF DeviceTyped
  <2> QED
    BY <2>1, <2>2
<1> QED
  BY <1>1, <1>2, <1>3 DEF RekeyStep

LEMMA ChangeStepTyped ==
  ASSUME TypeInv, NEW d \in Device, ChangeStep(d)
  PROVE  ServerTyped' /\ DeviceTyped(d)'
<1>a. Shapes /\ ServerTyped /\ DeviceTyped(d) /\ FlowTyped(flow[d])
  BY DEF TypeInv, DeviceTyped
<1>1. ASSUME NEW n \in Secret, StartChange(d, n)
     PROVE  ServerTyped' /\ DeviceTyped(d)'
  <2>1. ServerTyped'
    BY <1>a, <1>1 DEF ServerTyped, StartChange, Tell, serverVars
  <2>2. /\ At(d, "save") /\ flow[d].for = "change" /\ unlocked[d] # 0
        /\ flow[d].password \in Secret /\ flow[d].session \in {"none", "live", "past"}
    BY <1>a, <1>1, LoginsTyped DEF StartChange, LoggedIn, At, Logging, DeviceTyped, LockFits
  <2>3. /\ local'[d] = local[d] /\ unlocked'[d] = unlocked[d] /\ rekey'[d] = rekey[d]
        /\ session'[d] \in {"none", "live", "past"}
        /\ \/ flow'[d] = [at |-> "change", to |-> n, attempt |-> keySet.id, proof |-> flow[d].password,
                          past |-> flow[d].session = "past"]
           \/ flow'[d] = Idle
    BY <1>a, <1>1, <2>2 DEF Shapes, StartChange, End
  <2>4. CASE flow'[d] = [at |-> "change", to |-> n, attempt |-> keySet.id, proof |-> flow[d].password,
                         past |-> flow[d].session = "past"]
    <3>1. flow'[d] \in ChangeFlow /\ flow'[d].at = "change"
      BY <1>a, <1>1, <2>2, <2>4 DEF ChangeFlow, ServerTyped, KeySet
    <3>2. FlowTyped(flow'[d])
      BY <3>1 DEF FlowTyped, Step
    <3>3. LockFits(d)'
      BY <1>a, <2>2, <2>3, <3>1 DEF DeviceTyped, LockFits, Logging, At
    <3> QED
      BY <1>a, <2>1, <2>2, <2>3, <3>2, <3>3 DEF DeviceTyped
  <2>5. CASE flow'[d] = Idle
    <3>1. LockFits(d)'
      BY <1>a, <2>3, <2>5, IdleTyped DEF DeviceTyped, LockFits, At
    <3> QED
      BY <1>a, <2>1, <2>2, <2>3, <2>5, <3>1, IdleTyped DEF DeviceTyped
  <2> QED
    BY <2>3, <2>4, <2>5
<1>2. CASE TakeChange(d)
  <2>1. ServerTyped'
    BY <1>a, <1>2, RequestsTyped, SwapTyped DEF ServerTyped, TakeChange
  <2>2. /\ flow[d].to \in Secret /\ unlocked[d] # 0
        /\ flow'[d] = [at |-> "store", to |-> flow[d].to] /\ session'[d] = "none"
        /\ local'[d] = local[d] /\ unlocked'[d] = unlocked[d] /\ rekey'[d] = rekey[d]
    BY <1>a, <1>2, InFlow DEF Shapes, TakeChange, RevokeAll, RevokeFlows, At
  <2>3. flow'[d].at = "store" /\ flow'[d] \in StoreFlow
    BY <2>2 DEF StoreFlow
  <2>4. FlowTyped(flow'[d]) /\ LockFits(d)'
    BY <1>a, <2>2, <2>3 DEF FlowTyped, Step, DeviceTyped, LockFits, Logging, At
  <2> QED
    BY <1>a, <2>1, <2>2, <2>4 DEF DeviceTyped
<1>3. CASE RefuseChange(d) \/ BreakChange(d)
  <2>1. ServerTyped'
    <3>1. CASE RefuseChange(d)
      BY <1>a, <3>1, InFlow DEF ServerTyped, RefuseChange, Tell, serverVars, At
    <3>2. CASE BreakChange(d)
      BY <1>a, <3>2, RequestsTyped, SwapTyped DEF ServerTyped, BreakChange, SwapOnly, Tell
    <3> QED
      BY <1>3, <3>1, <3>2
  <2>2. /\ unlocked[d] # 0 /\ flow'[d] = Idle /\ session'[d] \in {session[d], "past"}
        /\ local'[d] = local[d] /\ unlocked'[d] = unlocked[d] /\ rekey'[d] = rekey[d]
    BY <1>a, <1>3, InFlow DEF Shapes, RefuseChange, BreakChange, SwapOnly, Passed, End, At
  <2>3. LockFits(d)'
    BY <1>a, <2>2, IdleTyped DEF DeviceTyped, LockFits, At
  <2> QED
    BY <1>a, <2>1, <2>2, <2>3, IdleTyped DEF DeviceTyped
<1>4. CASE LoseChange(d)
  <2>1. ServerTyped'
    BY <1>a, <1>4, RequestsTyped DEF ServerTyped, LoseChange, GiveUp, AfterNoAnswer
  <2>2. /\ At(d, "change") /\ flow[d] \in ChangeFlow /\ unlocked[d] # 0
        /\ flow'[d] = [flow[d] EXCEPT !.at = "confirm"] /\ session'[d] = "none"
        /\ local'[d] = local[d] /\ unlocked'[d] = unlocked[d] /\ rekey'[d] = rekey[d]
    BY <1>a, <1>4, InFlow DEF Shapes, LoseChange, AfterNoAnswer, At, FlowTyped
  <2>3. flow'[d].at = "confirm" /\ flow'[d] \in ChangeFlow
    BY <2>2 DEF ChangeFlow
  <2>4. FlowTyped(flow'[d]) /\ LockFits(d)'
    BY <1>a, <2>2, <2>3 DEF FlowTyped, Step, DeviceTyped, LockFits, Logging, At
  <2> QED
    BY <1>a, <2>1, <2>2, <2>4 DEF DeviceTyped
<1>5. CASE StoreChange(d)
  <2>1. ServerTyped'
    BY <1>a, <1>5, InFlow DEF ServerTyped, StoreChange, Tell, serverVars, At
  <2>2. /\ At(d, "store") /\ flow'[d] = Idle /\ session'[d] = session[d] /\ rekey'[d] = rekey[d]
        /\ \/ local'[d] = local[d] /\ unlocked'[d] = unlocked[d]
           \/ local'[d] = [local[d] EXCEPT !.password = flow[d].to] /\ unlocked'[d] = flow[d].to
    BY <1>a, <1>5 DEF At, StoreChange, End, Shapes
  <2>3. local'[d] \in Wrap /\ unlocked'[d] \in Secret
    BY <1>a, <2>2, InFlow DEF At, Wrap
  <2>4. LockFits(d)'
    BY <1>a, <2>2, <2>3, IdleTyped, Secrets DEF DeviceTyped, LockFits, At
  <2> QED
    BY <1>a, <2>1, <2>2, <2>3, <2>4, IdleTyped, Secrets DEF DeviceTyped
<1>6. CASE ConfirmChange(d)
  <2>1. ServerTyped'
    BY <1>a, <1>6, InFlow DEF ServerTyped, ConfirmChange, Tell, serverVars, At
  <2>2. /\ unlocked[d] # 0 /\ local[d] \in Wrap /\ local'[d] = local[d] /\ session'[d] = session[d]
        /\ rekey'[d] = rekey[d] /\ flow[d].to \in Secret /\ flow[d].proof \in Secret
        /\ \/ /\ unlocked'[d] = unlocked[d]
              /\ flow'[d] = [at |-> "checked", for |-> "confirm", password |-> flow[d].to, cut |-> FALSE]
           \/ unlocked'[d] = flow[d].proof /\ flow'[d] = Idle
    BY <1>a, <1>6, InFlow DEF Shapes, ConfirmChange, LogIn, End, At
  <2>3. CASE unlocked'[d] = unlocked[d]
             /\ flow'[d] = [at |-> "checked", for |-> "confirm", password |-> flow[d].to, cut |-> FALSE]
    <3>1. flow'[d].at = "checked" /\ flow'[d].for = "confirm" /\ flow'[d] \in CheckedFlow
      BY <2>2, <2>3 DEF CheckedFlow, Purpose
    <3>2. FlowTyped(flow'[d]) /\ LockFits(d)'
      BY <1>a, <2>2, <2>3, <3>1 DEF FlowTyped, Step, DeviceTyped, LockFits, Logging, At
    <3> QED
      BY <1>a, <2>1, <2>2, <2>3, <3>2 DEF DeviceTyped
  <2>4. CASE unlocked'[d] = flow[d].proof /\ flow'[d] = Idle
    <3>1. LockFits(d)'
      BY <2>2, <2>4, IdleTyped, Secrets DEF LockFits, At
    <3> QED
      BY <1>a, <2>1, <2>2, <2>4, <3>1, IdleTyped, Secrets DEF DeviceTyped
  <2> QED
    BY <2>2, <2>3, <2>4
<1>7. CASE SaveConfirm(d)
  <2>1. At(d, "save") /\ flow[d].wrap \in Wrap /\ flow[d].password \in Secret
        /\ flow[d].session \in {"none", "live", "past"}
    BY <1>a, <1>7, LoginsTyped DEF SaveConfirm, LoggedIn, At, Logging
  <2>2. ServerTyped'
    BY <1>a, <1>7, <2>1 DEF ServerTyped, SaveConfirm, Tell, serverVars
  <2>3. local'[d] = flow[d].wrap /\ unlocked'[d] = flow[d].password /\ session'[d] = flow[d].session
        /\ rekey'[d] = rekey[d] /\ flow'[d] = Idle
    BY <1>a, <1>7 DEF Shapes, SaveConfirm, SaveWraps, Attach, End
  <2>4. LockFits(d)'
    BY <2>1, <2>3, IdleTyped, Secrets DEF LockFits, At
  <2> QED
    BY <1>a, <2>1, <2>2, <2>3, <2>4, IdleTyped, Secrets DEF DeviceTyped
<1>8. CASE DropConfirm(d)
  <2>1. Tested(flow[d]) \in Secret /\ unlocked[d] # 0 /\ local[d] \in Wrap
    <3>1. CASE At(d, "confirm")
      BY <1>a, <3>1, InFlow DEF Tested, At
    <3>2. CASE flow[d].at \in {"checked", "read", "save"} /\ flow[d].for = "confirm"
      BY <1>a, <3>2, LoginsTyped, InFlow DEF Tested, Logging, DeviceTyped, LockFits
    <3> QED
      BY <1>8, <3>1, <3>2 DEF DropConfirm
  <2>2. ServerTyped'
    BY <1>a, <1>8, <2>1 DEF ServerTyped, DropConfirm, Tell, serverVars
  <2>3. local'[d] = local[d] /\ unlocked'[d] = Tested(flow[d]) /\ session'[d] = session[d]
        /\ rekey'[d] = rekey[d] /\ flow'[d] = Idle
    BY <1>a, <1>8 DEF Shapes, DropConfirm, End
  <2>4. LockFits(d)'
    BY <2>1, <2>3, IdleTyped, Secrets DEF LockFits, At
  <2> QED
    BY <1>a, <2>1, <2>2, <2>3, <2>4, IdleTyped, Secrets DEF DeviceTyped
<1> QED
  BY <1>1, <1>2, <1>3, <1>4, <1>5, <1>6, <1>7, <1>8 DEF ChangeStep

LEMMA ResetStepTyped ==
  ASSUME TypeInv, NEW d \in Device, ResetStep(d)
  PROVE  ServerTyped' /\ DeviceTyped(d)'
<1>a. Shapes /\ ServerTyped /\ DeviceTyped(d)
  BY DEF TypeInv
<1>1. ASSUME NEW n \in Secret, NEW key \in shown, StartReset(d, n, key)
     PROVE  ServerTyped' /\ DeviceTyped(d)'
  <2>1. ServerTyped'
    BY <1>a, <1>1, InFlow DEF ServerTyped, StartReset, Tell, serverVars, historyVars
  <2>v. /\ flow[d] = Idle /\ unlocked[d] = 0 /\ local'[d] = local[d] /\ unlocked'[d] = unlocked[d]
        /\ session'[d] = session[d] /\ rekey'[d] = rekey[d]
        /\ \/ /\ local[d] \in Wrap /\ ProofOf(d, key) \in Secret
              /\ flow'[d] = [at |-> "prove", here |-> TRUE, secret |-> n, proof |-> ProofOf(d, key)]
           \/ key \in Secret /\ flow'[d] = [at |-> "prove", here |-> FALSE, secret |-> n, proof |-> key]
    BY <1>a, <1>1, Secrets, InFlow DEF At, StartReset, OpensHere, ProofOf, Idle, Wrap, Reset, serverVars,
    historyVars, Shapes, DeviceTyped, ServerTyped
  <2>3. FlowTyped(flow'[d])
    <3>1. PICK here \in BOOLEAN, proof \in Secret :
            flow'[d] = [at |-> "prove", here |-> here, secret |-> n, proof |-> proof]
      BY <2>v
    <3>2. flow'[d] \in ProveFlow /\ flow'[d].at = "prove"
      BY <1>1, <3>1 DEF ProveFlow
    <3> QED
      BY <3>2 DEF FlowTyped, Step
  <2>4. RekeyTyped(rekey'[d])
    BY <1>a, <2>v DEF DeviceTyped, RekeyTyped, NoRekey
  <2>5. local'[d] \in Wrap \cup {NoProfile} /\ unlocked'[d] \in {0} \cup Secret
        /\ session'[d] \in {"none", "live", "past"} /\ (unlocked'[d] = 0 => session'[d] = "none")
    BY <1>a, <2>v, Secrets, InFlow DEF DeviceTyped, Wrap, At, Idle
  <2>6. LockFits(d)'
    BY <1>a, <2>v, <2>5, Secrets, InFlow DEF DeviceTyped, LockFits, Logging, Wrap, At, Idle
  <2>2. DeviceTyped(d)'
    BY <2>3, <2>4, <2>5, <2>6 DEF DeviceTyped
  <2> QED
    BY <2>1, <2>2
<1>2. CASE ProveReset(d)
  <2>1. ServerTyped'
    BY <1>a, <1>2, InFlow DEF ServerTyped, ProveReset, Tell, serverVars, historyVars, At
  <2>v. /\ At(d, "prove") /\ local'[d] = local[d] /\ unlocked'[d] = unlocked[d]
        /\ session'[d] = session[d] /\ rekey'[d] = rekey[d]
        /\ \/ flow'[d] = Idle
           \/ flow'[d] = [at |-> "reset", attempt |-> keySet.id, here |-> flow[d].here,
                          secret |-> flow[d].secret, proof |-> flow[d].proof]
    BY <1>a, <1>2, Secrets, InFlow DEF At, ProveReset, End, Idle, KeySet, ServerTyped, serverVars, historyVars,
    Shapes
  <2>3. FlowTyped(flow'[d])
    BY <1>a, <2>v, InFlow DEF DeviceTyped, FlowTyped, Step, Idle, ServerTyped, KeySet, At, ResetFlow
  <2>4. RekeyTyped(rekey'[d])
    BY <1>a, <2>v DEF DeviceTyped, RekeyTyped, NoRekey
  <2>5. local'[d] \in Wrap \cup {NoProfile} /\ unlocked'[d] \in {0} \cup Secret
        /\ session'[d] \in {"none", "live", "past"} /\ (unlocked'[d] = 0 => session'[d] = "none")
    BY <1>a, <2>v, Secrets, InFlow DEF DeviceTyped, Wrap, At, Idle
  <2>6. LockFits(d)'
    BY <1>a, <2>v, <2>5, Secrets, InFlow DEF DeviceTyped, LockFits, Logging, Wrap, At, Idle
  <2>2. DeviceTyped(d)'
    BY <2>3, <2>4, <2>5, <2>6 DEF DeviceTyped
  <2> QED
    BY <2>1, <2>2
<1>3. CASE TakeReset(d)
  <2>1. ServerTyped'
    BY <1>a, <1>3, RequestsTyped, InFlow, SwapTyped DEF ServerTyped, TakeReset, Tell, At
  <2>v. /\ At(d, "reset") /\ local'[d] = local[d] /\ unlocked'[d] = unlocked[d]
        /\ session'[d] \in {session[d], "none"} /\ rekey'[d] = rekey[d]
        /\ flow'[d] \in {Idle, [flow[d] EXCEPT !.at = "keep"]}
    BY <1>a, <1>3, Secrets, InFlow DEF At, TakeReset, RevokeAll, RevokeFlows, End, Idle, serverVars, historyVars, Shapes
  <2>3. FlowTyped(flow'[d])
    BY <1>a, <2>v, InFlow DEF DeviceTyped, FlowTyped, Step, Idle, ServerTyped, KeySet, At, ResetFlow
  <2>4. RekeyTyped(rekey'[d])
    BY <1>a, <2>v DEF DeviceTyped, RekeyTyped, NoRekey
  <2>5. local'[d] \in Wrap \cup {NoProfile} /\ unlocked'[d] \in {0} \cup Secret
        /\ session'[d] \in {"none", "live", "past"} /\ (unlocked'[d] = 0 => session'[d] = "none")
    BY <1>a, <2>v, Secrets, InFlow DEF DeviceTyped, Wrap, At, Idle
  <2>6. LockFits(d)'
    <3>1. CASE flow'[d] = Idle
      BY <1>a, <2>v, <3>1 DEF DeviceTyped, LockFits, Logging, At, Idle
    <3>2. CASE flow'[d] = [flow[d] EXCEPT !.at = "keep"]
      <4>1. flow'[d].at = "keep" /\ flow'[d].here = flow[d].here
        BY <1>a, <2>v, <3>2 DEF DeviceTyped, FlowTyped, ResetFlow, At
      <4> QED
        BY <1>a, <2>v, <4>1 DEF DeviceTyped, LockFits, Logging, At
    <3> QED
      BY <2>v, <3>1, <3>2
  <2>2. DeviceTyped(d)'
    BY <2>3, <2>4, <2>5, <2>6 DEF DeviceTyped
  <2> QED
    BY <2>1, <2>2
<1>4. CASE LoseServerReset(d)
  <2>1. ServerTyped'
    BY <1>a, <1>4, RequestsTyped, InFlow DEF ServerTyped, LoseServerReset, GiveUp, Tell, At
  <2>2. DeviceTyped(d)'
    BY <1>a, <1>4, Secrets, InFlow DEF DeviceTyped, LockFits, Logging, FlowTyped, Step, RekeyTyped, At, LoseServerReset,
    End, Idle, serverVars, historyVars, Shapes
  <2> QED
    BY <2>1, <2>2
<1>5. CASE KeepReset(d)
  <2>1. ServerTyped'
    BY <1>a, <1>5, RequestsTyped, InFlow DEF ServerTyped, KeepReset, GiveUp, Tell, StoreUnsent, At
  <2>2. DeviceTyped(d)'
    BY <1>a, <1>5, Secrets, InFlow DEF DeviceTyped, LockFits, Logging, FlowTyped, Step, RekeyTyped, At, KeepReset,
    StoreUnsent, End, Idle, Wrap, Reset, serverVars, historyVars, Shapes
  <2> QED
    BY <2>1, <2>2
<1>6. CASE StoreReset(d)
  <2>1. ServerTyped'
    BY <1>a, <1>6, InFlow DEF ServerTyped, StoreReset, Tell, serverVars, historyVars, At
  <2>v. /\ At(d, "keep") /\ flow'[d] = Idle /\ unlocked'[d] = unlocked[d]
        /\ session'[d] = session[d] /\ rekey'[d] = rekey[d]
        /\ \/ local'[d] \in {local[d], NoProfile}
           \/ local'[d] = [password |-> flow[d].secret, recovery |-> flow[d].secret, pending |-> NoReset]
    BY <1>a, <1>6, Secrets, InFlow DEF At, StoreReset, End, Idle, Wrap, serverVars, historyVars, Shapes
  <2>3. FlowTyped(flow'[d])
    BY <1>a, <2>v, InFlow DEF DeviceTyped, FlowTyped, Step, Idle, ServerTyped, KeySet, At
  <2>4. RekeyTyped(rekey'[d])
    BY <1>a, <2>v DEF DeviceTyped, RekeyTyped, NoRekey
  <2>5. local'[d] \in Wrap \cup {NoProfile} /\ unlocked'[d] \in {0} \cup Secret
        /\ session'[d] \in {"none", "live", "past"} /\ (unlocked'[d] = 0 => session'[d] = "none")
    BY <1>a, <2>v, Secrets, InFlow DEF DeviceTyped, Wrap, At, Idle
  <2>6. LockFits(d)'
    BY <1>a, <2>v, <2>5, Secrets, InFlow DEF DeviceTyped, LockFits, Logging, Wrap, At, Idle
  <2>2. DeviceTyped(d)'
    BY <2>3, <2>4, <2>5, <2>6 DEF DeviceTyped
  <2> QED
    BY <2>1, <2>2
<1>7. CASE BreakReset(d)
  <2>1. At(d, "reset") /\ flow[d].secret \in Secret /\ flow[d].proof \in Secret /\ unlocked[d] = 0
    BY <1>a, <1>7, InFlow DEF BreakReset, At
  <2>2. ServerTyped'
    BY <1>a, <1>7, <2>1, RequestsTyped, SwapTyped DEF ServerTyped, BreakReset, SwapOnly, StoreUnsent, Tell
  <2>3. /\ flow'[d] = Idle /\ unlocked'[d] = unlocked[d] /\ session'[d] = "none" /\ rekey'[d] = rekey[d]
        /\ \/ local'[d] = local[d]
           \/ local'[d] = [password |-> flow[d].secret, recovery |-> flow[d].secret,
                           pending |-> [secret |-> flow[d].secret, proof |-> flow[d].proof]]
    BY <1>a, <1>7, <2>1 DEF Shapes, DeviceTyped, BreakReset, SwapOnly, StoreUnsent, Passed
  <2>4. local'[d] \in Wrap \cup {NoProfile}
    BY <1>a, <2>1, <2>3 DEF DeviceTyped, Wrap, Reset
  <2>5. LockFits(d)'
    BY <2>1, <2>3, IdleTyped DEF LockFits, At
  <2> QED
    BY <1>a, <2>1, <2>2, <2>3, <2>4, <2>5, IdleTyped DEF DeviceTyped
<1> QED
  BY <1>1, <1>2, <1>3, <1>4, <1>5, <1>6, <1>7 DEF ResetStep

LEMMA TypedStep == TypeInv /\ [Next]_vars => TypeInv'
<1>1. ASSUME TypeInv, NEW request \in late, ArriveLate(request) PROVE TypeInv'
  <2>1. Shapes' /\ \A e \in Device : Apart(e)
    BY <1>1, LateFrame DEF TypeInv
  <2>2. request \in Request
    BY <1>1 DEF TypeInv, ServerTyped
  <2>3. ServerTyped'
    BY <1>1, <2>2, SwapTyped DEF TypeInv, ServerTyped, ArriveLate
  <2> QED
    BY <1>1, <2>1, <2>3, ApartTyped DEF TypeInv
<1>2. ASSUME TypeInv, NEW d \in Device, DeviceStep(d) PROVE TypeInv'
  <2>1. Shapes' /\ \A e \in Device \ {d} : Apart(e)
    BY <1>2, Frame DEF TypeInv
  <2>2. ServerTyped' /\ DeviceTyped(d)'
    BY <1>2, UnlockStepTyped, LoginStepTyped, ConnectStepTyped, RekeyStepTyped, ChangeStepTyped, ResetStepTyped
    DEF DeviceStep
  <2> QED
    BY <1>2, <2>1, <2>2, ApartTyped DEF TypeInv
<1>3. TypeInv /\ UNCHANGED vars => TypeInv'
  BY DEF TypeInv, Shapes, ServerTyped, DeviceTyped, LockFits, At, vars, serverVars, deviceVars, historyVars
<1> QED
  BY <1>1, <1>2, <1>3, Steps

LEMMA AlwaysTyped == Spec => []TypeInv
BY InitTyped, TypedStep, PTL DEF Spec
-------------------------------------------------------------------------------
(***************************************************************************)
(* Each swap proves the secret that is in force.                           *)
(***************************************************************************)
(* What the server compares an attempt with: a new key set, or the same    *)
(* secrets.                                                                *)
Renews == keySet'.id = keySet.id + 1 \/ UNCHANGED <<record, keySet>>

(* A swap passes by every other device; only a rekey changes the key set   *)
(* besides.                                                                *)
LEMMA SwapsCutOff ==
  ASSUME Shapes, NEW d \in Device, DeviceStep(d)
  PROVE  \/ \A e \in Device \ {d} : CutOff(e)
         \/ UNCHANGED <<record, keySet>> \/ (CommitRekey(d) /\ record' = record)
<1>1. CASE UnlockStep(d) \/ LoginStep(d)
  BY <1>1 DEF UnlockStep, UnlockHere, Lock, Crash, LoginStep, UnlockByServer, Login, FreshLogin, ReadKeys,
    OpenSession, DropLogin, DropConnect, SaveUnlock, SaveLogin, serverVars
<1>2. CASE ConnectStep(d)
  BY <1>2 DEF CutOff, ConnectStep, SendPending, FinishPending, BreakPending, LosePending, SwapOnly, RevokeAll,
    RevokeFlows, serverVars
<1>3. CASE RekeyStep(d)
  BY <1>3 DEF RekeyStep, SendRekey, CommitRekey, SaveRekey, serverVars
<1>4. CASE ChangeStep(d)
  BY <1>4 DEF CutOff, ChangeStep, StartChange, TakeChange, RefuseChange, BreakChange, LoseChange, StoreChange,
    ConfirmChange, SaveConfirm, DropConfirm, SwapOnly, RevokeAll, RevokeFlows, serverVars
<1>5. CASE ResetStep(d)
  BY <1>5 DEF CutOff, ResetStep, StartReset, ProveReset, TakeReset, BreakReset, LoseServerReset, KeepReset,
    StoreReset, SwapOnly, RevokeAll, RevokeFlows, serverVars
<1> QED
  BY <1>1, <1>2, <1>3, <1>4, <1>5 DEF DeviceStep

LEMMA ProvesOn ==
  ASSUME ServerTyped, Renews, NEW r, r.attempt \in Nat, RequestProves(r)
  PROVE  /\ r.attempt <= keySet'.id
         /\ r.attempt = keySet'.id => r.past \/ r.proof = IF r.kind = "reset" THEN keySet'.recovery ELSE record'
BY DEF ServerTyped, KeySet, Renews, RequestProves

(* A swap by a request that proves what is in force.                       *)
LEMMA SwapProves ==
  ASSUME ServerTyped, NEW r \in Request, RequestProves(r), Swap(r), EachSwapProvesTheCurrent
  PROVE  EachSwapProvesTheCurrent' /\ Renews
<1>1. r.past \/ r.proof = IF r.kind = "reset" THEN keySet.recovery ELSE record
  BY DEF RequestProves, Swap, StillActive
<1>2. EachSwapProvesTheCurrent'
  BY <1>1 DEF Swap, EachSwapProvesTheCurrent
<1> QED
  BY <1>2, SwapTyped DEF Renews

(* The request a device has out, unless it just began it, is the same one. *)
LEMMA FlowProvesOn ==
  ASSUME ServerTyped, Renews, NEW e \in Device, DeviceTyped(e), FlowProves(e),
         flow'[e] = flow[e] \/ flow'[e].at \notin {"finish", "change", "reset"},
         local'[e].pending = local[e].pending, unlocked'[e] = unlocked[e]
  PROVE  FlowProves(e)'
<1>1. CASE flow'[e] = flow[e]
  <2>1. ASSUME At(e, "finish") PROVE RequestProves(PendingRequest(e))'
    <3>1. PendingRequest(e)' = PendingRequest(e) /\ PendingRequest(e).attempt \in Nat
      BY <1>1, <2>1, InFlow DEF PendingRequest
    <3> QED
      BY <2>1, <3>1, ProvesOn DEF FlowProves, RequestProves
  <2>2. ASSUME At(e, "change") PROVE RequestProves(ChangeRequest(e))'
    <3>1. ChangeRequest(e)' = ChangeRequest(e) /\ ChangeRequest(e).attempt \in Nat
      BY <1>1, <2>2, InFlow DEF ChangeRequest, At
    <3> QED
      BY <2>2, <3>1, ProvesOn DEF FlowProves, RequestProves
  <2>3. ASSUME At(e, "reset") PROVE RequestProves(ResetRequest(e))'
    <3>1. ResetRequest(e)' = ResetRequest(e) /\ ResetRequest(e).attempt \in Nat
      BY <1>1, <2>3, InFlow DEF ResetRequest, At
    <3> QED
      BY <2>3, <3>1, ProvesOn DEF FlowProves, RequestProves
  <2> QED
    BY <1>1, <2>1, <2>2, <2>3 DEF FlowProves, At
<1>2. CASE flow'[e].at \notin {"finish", "change", "reset"}
  BY <1>2 DEF FlowProves, At
<1> QED
  BY <1>1, <1>2

LEMMA ApartProves ==
  ASSUME ServerTyped, Renews, NEW e \in Device, DeviceTyped(e), FlowProves(e), Apart(e)
  PROVE  FlowProves(e)'
<1>1. flow'[e] = flow[e] \/ flow'[e].at \notin {"finish", "change", "reset"}
  BY ApartFlow DEF Logging
<1> QED
  BY <1>1, FlowProvesOn DEF Apart

LEMMA ApartFresh ==
  ASSUME NEW e \in Device, DeviceTyped(e), FreshProves(e), Apart(e), CutOff(e) \/ record' = record
  PROVE  FreshProves(e)'
<1>1. CASE CutOff(e)
  BY <1>1, ApartFlow DEF FreshProves
<1>2. CASE ~CutOff(e)
  <2>1. flow'[e] = flow[e] /\ record' = record
    BY <1>2 DEF Apart
  <2> QED
    BY <2>1 DEF FreshProves, Fresh
<1> QED
  BY <1>1, <1>2

LEMMA InitProves == Init => Proving
BY DEF Init, Proving, FlowProves, FreshProves, Fresh, EachSwapProvesTheCurrent, At, Idle

(* What the steps of a device do to the server.                            *)
ServerProves == Renews /\ EachSwapProvesTheCurrent' /\ \A r \in late' : RequestProves(r)'

(* A request given up on proves what it did before.                        *)
LEMMA GivenUpProves ==
  ASSUME Proving, UNCHANGED <<record, keySet, swaps>>, \A r \in late' : r \in late \/ RequestProves(r)
  PROVE  ServerProves
BY DEF Proving, ServerProves, Renews, EachSwapProvesTheCurrent, RequestProves

LEMMA SameServerProves ==
  Proving /\ UNCHANGED serverVars /\ UNCHANGED swaps => ServerProves
BY GivenUpProves DEF serverVars

LEMMA SwappedServerProves ==
  ASSUME TypeInv, Proving, NEW r \in Request, RequestProves(r), Swap(r), late' \subseteq late
  PROVE  ServerProves
<1>1. Renews /\ EachSwapProvesTheCurrent'
  BY SwapProves DEF Proving, TypeInv
<1>2. ASSUME NEW q \in late' PROVE RequestProves(q)'
  BY <1>1, <1>2, ProvesOn DEF Proving, TypeInv, ServerTyped, Request, RequestProves
<1> QED
  BY <1>1, <1>2 DEF ServerProves

LEMMA IdleProves ==
  ASSUME NEW d \in Device, flow'[d].at \notin {"finish", "change", "reset"}, ~Logging(flow'[d])
  PROVE  FlowProves(d)' /\ FreshProves(d)'
BY DEF FlowProves, FreshProves, Fresh, Logging, At

LEMMA UnlockStepProves ==
  ASSUME TypeInv, Proving, NEW d \in Device, UnlockStep(d)
  PROVE  ServerProves /\ FlowProves(d)' /\ FreshProves(d)'
<1>1. flow'[d].at = "idle"
  BY DEF TypeInv, Shapes, UnlockStep, UnlockHere, Lock, Crash, End, Idle
<1>2. CASE UnlockHere(d) \/ Lock(d)
  <2>1. UNCHANGED serverVars /\ UNCHANGED swaps
    BY <1>2 DEF UnlockHere, Lock, historyVars
  <2> QED
    BY <1>1, <2>1, SameServerProves, IdleProves DEF Logging
<1>3. CASE Crash(d)
  <2>1. \A r \in InFlight(d) : RequestProves(r)
    BY DEF Proving, FlowProves, InFlight
  <2>2. UNCHANGED <<record, keySet, swaps>> /\ \A r \in late' : r \in late \/ RequestProves(r)
    BY <1>3, <2>1 DEF Crash
  <2> QED
    BY <1>1, <2>2, GivenUpProves, IdleProves DEF Logging
<1> QED
  BY <1>2, <1>3 DEF UnlockStep

LEMMA LoginStepProves ==
  ASSUME TypeInv, Proving, NEW d \in Device, LoginStep(d)
  PROVE  ServerProves /\ FlowProves(d)' /\ FreshProves(d)'
<1>a. FlowTyped(flow[d]) /\ FreshProves(d)
  BY DEF TypeInv, DeviceTyped, Proving
<1>b. UNCHANGED <<serverVars, historyVars>> /\ LoginDoes(d)
  BY LoginEffects
<1>c. ServerProves /\ record' = record
  BY <1>b, SameServerProves DEF serverVars, historyVars
<1>1. CASE Begins(d)
  BY <1>c, <1>1 DEF Begins, FlowProves, FreshProves, At
<1>2. CASE GoesOn(d)
  <2>1. flow'[d].at \in {"read", "save"} /\ flow'[d].password = flow[d].password
    BY <1>2 DEF GoesOn
  <2>2. Fresh(flow'[d]) => Fresh(flow[d])
    BY <1>2 DEF GoesOn, Fresh, At
  <2> QED
    BY <1>a, <1>c, <2>1, <2>2 DEF FlowProves, FreshProves, At
<1>3. CASE Drops(d) \/ Saves(d)
  BY <1>c, <1>3, IdleTyped, IdleProves DEF Drops, Saves
<1> QED
  BY <1>b, <1>1, <1>2, <1>3 DEF LoginDoes

LEMMA ConnectStepProves ==
  ASSUME TypeInv, Proving, NEW d \in Device, ConnectStep(d)
  PROVE  ServerProves /\ FlowProves(d)' /\ FreshProves(d)'
<1>a. Shapes /\ ServerTyped /\ DeviceTyped(d) /\ FlowProves(d)
  BY DEF TypeInv, Proving
<1>1. CASE SendPending(d)
  <2>1. ServerProves
    BY <1>1, SameServerProves DEF SendPending
  <2>3. flow'[d].at \in {"finish", "login"}
    BY <1>a, <1>1 DEF SendPending, Refuse, Shapes
  <2>4. FreshProves(d)'
    BY <2>3 DEF FreshProves, Fresh
  <2>2. CASE At(d, "finish")'
    <3>1. /\ flow'[d] = [at |-> "finish", attempt |-> keySet.id] /\ keySet' = keySet
          /\ local'[d] = local[d] /\ local[d].pending.proof = keySet.recovery
      BY <1>a, <1>1, <2>2 DEF SendPending, Refuse, Proves, At, Shapes, serverVars
    <3>2. /\ PendingRequest(d)'.attempt = keySet'.id /\ PendingRequest(d)'.kind = "reset"
          /\ PendingRequest(d)'.proof = keySet'.recovery /\ keySet'.id \in Nat
      BY <1>a, <3>1 DEF PendingRequest, ServerTyped, KeySet
    <3> QED
      BY <2>1, <2>2, <2>4, <3>2 DEF FlowProves, RequestProves, At
  <2> QED
    BY <2>1, <2>2, <2>3, <2>4 DEF FlowProves, At
<1>2. CASE FinishPending(d)
  <2>1. FlowProves(d)' /\ FreshProves(d)'
    <3>1. flow'[d].at = "login"
      BY <1>a, <1>2 DEF FinishPending, RevokeFlows, Refuse, Shapes
    <3> QED
      BY <3>1, IdleProves DEF Logging
  <2>2. CASE Swap(PendingRequest(d))
    BY <1>a, <1>2, <2>1, <2>2, RequestsTyped, SwappedServerProves DEF FinishPending, FlowProves
  <2>3. CASE UNCHANGED <<record, keySet, swaps>>
    BY <1>2, <2>1, <2>3, SameServerProves DEF FinishPending, serverVars
  <2> QED
    BY <1>2, <2>2, <2>3 DEF FinishPending
<1>3. CASE BreakPending(d) \/ LosePending(d)
  <2>1. FlowProves(d)' /\ FreshProves(d)'
    <3>1. flow'[d] = Idle
      BY <1>a, <1>3 DEF BreakPending, SwapOnly, LosePending, End, Shapes
    <3> QED
      BY <3>1, IdleTyped, IdleProves
  <2>2. CASE BreakPending(d)
    BY <1>a, <2>1, <2>2, RequestsTyped, SwappedServerProves DEF BreakPending, SwapOnly, FlowProves
  <2>3. CASE LosePending(d)
    BY <1>a, <2>1, <2>3, GivenUpProves DEF LosePending, GiveUp, FlowProves
  <2> QED
    BY <1>3, <2>2, <2>3
<1> QED
  BY <1>1, <1>2, <1>3 DEF ConnectStep

LEMMA RekeyStepProves ==
  ASSUME TypeInv, Proving, NEW d \in Device, RekeyStep(d)
  PROVE  ServerProves /\ FlowProves(d)' /\ FreshProves(d)'
<1>a. Shapes /\ ServerTyped /\ DeviceTyped(d) /\ FlowProves(d) /\ FreshProves(d)
  BY DEF TypeInv, Proving
<1>1. flow'[d] = flow[d] /\ unlocked'[d] = unlocked[d] /\ local'[d].pending = local[d].pending /\ record' = record
  BY <1>a DEF RekeyStep, SendRekey, CommitRekey, SaveRekey, Shapes, DeviceTyped, Wrap, serverVars
<1>2. ServerProves
  <2>1. CASE CommitRekey(d)
    <3>1. keySet'.id = keySet.id + 1 /\ Renews
      BY <1>a, <2>1 DEF CommitRekey, ServerTyped, KeySet, Renews
    <3>2. ASSUME NEW q \in late' PROVE RequestProves(q)'
      BY <1>a, <2>1, <3>1, <3>2, ProvesOn DEF CommitRekey, Proving, ServerTyped, Request, RequestProves
    <3> QED
      BY <2>1, <3>1, <3>2 DEF ServerProves, CommitRekey, Proving, EachSwapProvesTheCurrent
  <2>2. CASE SendRekey(d) \/ SaveRekey(d)
    BY <2>2, SameServerProves DEF SendRekey, SaveRekey, historyVars
  <2> QED
    BY <2>1, <2>2 DEF RekeyStep
<1>3. FreshProves(d)'
  BY <1>a, <1>1 DEF FreshProves, Fresh
<1> QED
  BY <1>a, <1>1, <1>2, <1>3, FlowProvesOn DEF ServerProves

LEMMA ChangeStepProves ==
  ASSUME TypeInv, Proving, NEW d \in Device, ChangeStep(d)
  PROVE  ServerProves /\ FlowProves(d)' /\ FreshProves(d)'
<1>a. Shapes /\ ServerTyped /\ DeviceTyped(d) /\ FlowTyped(flow[d]) /\ FlowProves(d) /\ FreshProves(d)
  BY DEF TypeInv, Proving, DeviceTyped
<1>1. ASSUME NEW n \in Secret, StartChange(d, n)
      PROVE  ServerProves /\ FlowProves(d)' /\ FreshProves(d)'
  <2>1. ServerProves
    BY <1>1, SameServerProves DEF StartChange
  <2>2. CASE Taken(flow[d].session)
    <3>1. /\ flow'[d] = [at |-> "change", to |-> n, attempt |-> keySet.id, proof |-> flow[d].password,
                         past |-> flow[d].session = "past"]
          /\ At(d, "save") /\ record' = record /\ keySet' = keySet
      BY <1>a, <1>1, <2>2 DEF StartChange, LoggedIn, Shapes, serverVars
    <3>2. flow[d].session = "past" \/ flow[d].password = record
      BY <1>a, <2>2, <3>1 DEF Taken, FreshProves, Fresh, At
    <3>3. /\ ChangeRequest(d)'.attempt = keySet'.id /\ ChangeRequest(d)'.kind = "change"
          /\ ChangeRequest(d)'.proof = flow[d].password /\ keySet'.id \in Nat
      BY <1>a, <3>1 DEF ChangeRequest, ServerTyped, KeySet
    <3>p. ASSUME flow[d].session = "past" PROVE ChangeRequest(d)'.past
      <4>1. flow'[d].past = (flow[d].session = "past")
        BY <3>1
      <4>2. ChangeRequest(d)'.past = flow'[d].past
        BY DEF ChangeRequest
      <4>3. flow'[d].past
        BY <3>p, <4>1
      <4> QED
        BY <4>2, <4>3, Zenon
    <3>4. RequestProves(ChangeRequest(d))'
      BY <3>1, <3>2, <3>3, <3>p DEF RequestProves
    <3> QED
      BY <2>1, <3>1, <3>4 DEF FlowProves, FreshProves, Fresh, At
  <2>3. CASE ~Taken(flow[d].session)
    <3>1. flow'[d] = Idle
      BY <1>a, <1>1, <2>3 DEF StartChange, End, Shapes
    <3> QED
      BY <2>1, <3>1, IdleTyped, IdleProves
  <2> QED
    BY <2>2, <2>3
<1>2. CASE TakeChange(d) \/ BreakChange(d)
  <2>1. FlowProves(d)' /\ FreshProves(d)'
    <3>1. flow'[d].at \in {"store", "idle"}
      BY <1>a, <1>2, IdleTyped DEF TakeChange, RevokeFlows, BreakChange, SwapOnly, Shapes
    <3> QED
      BY <3>1, IdleProves DEF Logging
  <2> QED
    BY <1>a, <1>2, <2>1, RequestsTyped, SwappedServerProves DEF TakeChange, BreakChange, SwapOnly, FlowProves
<1>3. CASE LoseChange(d)
  <2>1. flow'[d].at = "confirm"
    BY <1>a, <1>3 DEF LoseChange, AfterNoAnswer, Shapes, FlowTyped, ChangeFlow, At
  <2>2. FlowProves(d)' /\ FreshProves(d)'
    BY <2>1, IdleProves DEF Logging
  <2> QED
    BY <1>a, <1>3, <2>2, GivenUpProves DEF LoseChange, GiveUp, FlowProves
<1>4. CASE ConfirmChange(d) /\ flow'[d].at = "checked"
  <2>1. flow'[d] = [at |-> "checked", for |-> "confirm", password |-> flow[d].to, cut |-> FALSE]
        /\ record = flow[d].to /\ record' = record
    BY <1>a, <1>4, IdleTyped DEF ConfirmChange, LogIn, End, Shapes, serverVars
  <2> QED
    BY <1>4, <2>1, SameServerProves DEF ConfirmChange, FlowProves, FreshProves, At
<1>5. CASE RefuseChange(d) \/ StoreChange(d) \/ (ConfirmChange(d) /\ flow'[d].at # "checked")
           \/ SaveConfirm(d) \/ DropConfirm(d)
  <2>1. flow'[d] = Idle
    BY <1>a, <1>5 DEF RefuseChange, StoreChange, ConfirmChange, LogIn, SaveConfirm, DropConfirm, End, Shapes
  <2> QED
    BY <1>5, <2>1, SameServerProves, IdleTyped, IdleProves DEF RefuseChange, StoreChange, ConfirmChange,
      SaveConfirm, DropConfirm
<1> QED
  BY <1>1, <1>2, <1>3, <1>4, <1>5 DEF ChangeStep

LEMMA ResetStepProves ==
  ASSUME TypeInv, Proving, NEW d \in Device, ResetStep(d)
  PROVE  ServerProves /\ FlowProves(d)' /\ FreshProves(d)'
<1>a. Shapes /\ ServerTyped /\ DeviceTyped(d) /\ FlowProves(d)
  BY DEF TypeInv, Proving
<1>1. ASSUME NEW n \in Secret, NEW key \in shown, StartReset(d, n, key)
      PROVE  ServerProves /\ FlowProves(d)' /\ FreshProves(d)'
  <2>1. flow'[d].at = "prove"
    BY <1>a, <1>1 DEF StartReset, Shapes
  <2> QED
    BY <1>1, <2>1, SameServerProves, IdleProves DEF StartReset, Logging
<1>2. CASE ProveReset(d)
  <2>1. ServerProves
    BY <1>2, SameServerProves DEF ProveReset
  <2>2. CASE Proves(flow[d].proof)
    <3>1. flow'[d] = [at |-> "reset", attempt |-> keySet.id, here |-> flow[d].here,
                      secret |-> flow[d].secret, proof |-> flow[d].proof]
      BY <1>a, <1>2, <2>2 DEF ProveReset, Shapes
    <3>2. /\ ResetRequest(d)'.attempt = keySet'.id /\ ResetRequest(d)'.kind = "reset"
          /\ ResetRequest(d)'.proof = keySet'.recovery /\ keySet'.id \in Nat
      BY <1>a, <1>2, <2>2, <3>1 DEF ProveReset, Proves, ResetRequest, serverVars, ServerTyped, KeySet
    <3> QED
      BY <2>1, <3>1, <3>2 DEF FlowProves, RequestProves, FreshProves, Fresh, At
  <2>3. CASE ~Proves(flow[d].proof)
    <3>1. flow'[d] = Idle
      BY <1>a, <1>2, <2>3 DEF ProveReset, End, Shapes
    <3> QED
      BY <2>1, <3>1, IdleTyped, IdleProves
  <2> QED
    BY <2>2, <2>3
<1>3. CASE TakeReset(d)
  <2>1. flow'[d].at \in {"keep", "idle"}
    BY <1>a, <1>3 DEF TakeReset, RevokeFlows, End, Idle, Shapes, DeviceTyped, FlowTyped, ResetFlow, At
  <2>4. FlowProves(d)' /\ FreshProves(d)'
    BY <2>1, IdleProves DEF Logging
  <2>2. CASE Swap(ResetRequest(d))
    BY <1>a, <1>3, <2>4, <2>2, RequestsTyped, SwappedServerProves DEF TakeReset, FlowProves
  <2>3. CASE UNCHANGED <<record, keySet, swaps>>
    BY <1>3, <2>4, <2>3, SameServerProves DEF TakeReset, serverVars
  <2> QED
    BY <1>3, <2>2, <2>3 DEF TakeReset
<1>4. CASE BreakReset(d) \/ LoseServerReset(d) \/ KeepReset(d) \/ StoreReset(d)
  <2>1. FlowProves(d)' /\ FreshProves(d)'
    <3>1. flow'[d] = Idle
      BY <1>a, <1>4 DEF BreakReset, SwapOnly, LoseServerReset, KeepReset, StoreReset, End, Shapes
    <3> QED
      BY <3>1, IdleTyped, IdleProves
  <2>2. CASE BreakReset(d)
    BY <1>a, <2>1, <2>2, RequestsTyped, SwappedServerProves DEF BreakReset, SwapOnly, FlowProves
  <2>3. CASE LoseServerReset(d) \/ (KeepReset(d) /\ At(d, "reset"))
    BY <1>a, <2>1, <2>3, GivenUpProves DEF LoseServerReset, KeepReset, GiveUp, FlowProves
  <2>4. CASE (KeepReset(d) /\ ~At(d, "reset")) \/ StoreReset(d)
    BY <2>1, <2>4, SameServerProves DEF KeepReset, StoreReset, serverVars
  <2> QED
    BY <1>4, <2>2, <2>3, <2>4
<1> QED
  BY <1>1, <1>2, <1>3, <1>4 DEF ResetStep

LEMMA ProvingStep == TypeInv /\ Proving /\ [Next]_vars => Proving'
<1>1. ASSUME TypeInv, Proving, NEW request \in late, ArriveLate(request) PROVE Proving'
  <2>1. \A e \in Device : Apart(e) /\ CutOff(e)
    BY <1>1, LateFrame DEF TypeInv, ArriveLate, RevokeAll, CutOff
  <2>2. request \in Request /\ RequestProves(request)
    BY <1>1 DEF TypeInv, ServerTyped, Proving
  <2>3. ServerProves
    BY <1>1, <2>2, SwappedServerProves DEF ArriveLate
  <2> QED
    BY <1>1, <2>1, <2>3, ApartProves, ApartFresh DEF TypeInv, Proving, ServerProves
<1>2. ASSUME TypeInv, Proving, NEW d \in Device, DeviceStep(d) PROVE Proving'
  <2>1. \A e \in Device \ {d} : Apart(e) /\ (CutOff(e) \/ record' = record)
    BY <1>2, Frame, SwapsCutOff DEF TypeInv
  <2>2. ServerProves /\ FlowProves(d)' /\ FreshProves(d)'
    BY <1>2, UnlockStepProves, LoginStepProves, ConnectStepProves, RekeyStepProves, ChangeStepProves,
      ResetStepProves DEF DeviceStep
  <2> QED
    BY <1>2, <2>1, <2>2, ApartProves, ApartFresh DEF TypeInv, Proving, ServerProves
<1>3. TypeInv /\ Proving /\ UNCHANGED vars => Proving'
  <2> SUFFICES ASSUME TypeInv, Proving, UNCHANGED vars PROVE Proving'
    OBVIOUS
  <2>1. ServerProves
    BY SameServerProves DEF vars, serverVars, historyVars
  <2>2. \A d \in Device : Apart(d) /\ record' = record
    BY DEF vars, serverVars, deviceVars, Apart
  <2> QED
    BY <2>1, <2>2, ApartProves, ApartFresh DEF TypeInv, Proving, ServerProves
<1> QED
  BY <1>1, <1>2, <1>3, Steps

(* A swap lands only with the secret it replaces: of two password changes  *)
(* or resets that began under the same key set, the server takes one       *)
(* (finishPasswordChange, finishRecovery), however late the other arrives. *)
(* A change proves the record its login was checked against, unless its    *)
(* session is past a swap.                                                 *)
THEOREM SwapsProve == Spec => []EachSwapProvesTheCurrent
<1>1. Proving => EachSwapProvesTheCurrent
  BY DEF Proving
<1>2. Spec => []Proving
  BY AlwaysTyped, InitProves, ProvingStep, PTL DEF Spec
<1> QED
  BY <1>1, <1>2, PTL
-------------------------------------------------------------------------------
(***************************************************************************)
(* A device with a session has no reset to send.                           *)
(***************************************************************************)
LEMMA InitUnencumbered == Init => Unencumbered
BY DEF Init, Unencumbered, NothingWaits, Logging, At, Idle

LEMMA ApartUnencumbered ==
  ASSUME NEW e \in Device, DeviceTyped(e), NothingWaits(e), Apart(e)
  PROVE  NothingWaits(e)'
<1>1. /\ flow'[e].at = flow[e].at
      /\ flow[e].at \in {"read", "save"} => flow'[e].wrap = flow[e].wrap
      /\ session[e] = "none" => session'[e] = "none"
  BY ApartFlow
<1> QED
  BY <1>1 DEF Apart, NothingWaits, Logging

LEMMA ServerWrapWaitsNot == ServerWrap.pending = NoReset
BY DEF ServerWrap

(* A password change runs where no reset waits.                            *)
LEMMA ChangeWaitsNot ==
  ASSUME TypeInv, NEW d \in Device, NothingWaits(d), ChangeStep(d)
  PROVE  /\ local[d] \in Wrap /\ local[d].pending = NoReset /\ unlocked[d] # 0
         /\ local'[d] \in Wrap /\ local'[d].pending = NoReset
<1>a. Shapes /\ DeviceTyped(d) /\ FlowTyped(flow[d])
  BY DEF TypeInv, DeviceTyped
<1>1. /\ unlocked[d] # 0 /\ local[d] \in Wrap
      /\ session[d] # "none" \/ flow[d].at \in {"change", "store", "confirm"} \/ Logging(flow[d])
  <2>1. CASE flow[d].at \in {"change", "confirm", "store"}
    BY <1>a, <2>1, InFlow
  <2>2. CASE Logging(flow[d]) /\ flow[d].for # "unlock"
    BY <1>a, <2>2 DEF DeviceTyped, LockFits
  <2>3. flow[d].at \in {"change", "confirm", "store"} \/ (Logging(flow[d]) /\ flow[d].for # "unlock")
    BY DEF ChangeStep, StartChange, TakeChange, RefuseChange, BreakChange, LoseChange, StoreChange, ConfirmChange,
      SaveConfirm, DropConfirm, LoggedIn, Logging, At
  <2> QED
    BY <2>1, <2>2, <2>3
<1>2. local[d].pending = NoReset
  BY <1>1, PasswordAssumption DEF NothingWaits
<1>3. CASE local' = local
  BY <1>1, <1>2, <1>3
<1>4. CASE StoreChange(d)
  <2>1. flow[d].to \in Secret /\ (local'[d] = local[d] \/ local'[d] = [local[d] EXCEPT !.password = flow[d].to])
    BY <1>a, <1>4, InFlow DEF StoreChange, Shapes, At
  <2> QED
    BY <1>1, <1>2, <2>1 DEF Wrap
<1>5. CASE SaveConfirm(d)
  <2>1. local'[d] = flow[d].wrap /\ At(d, "save") /\ flow[d].wrap \in Wrap
    BY <1>a, <1>5, LoginsTyped DEF SaveConfirm, SaveWraps, LoggedIn, Shapes, At
  <2> QED
    BY <1>1, <1>2, <2>1 DEF NothingWaits, At
<1> QED
  BY <1>3, <1>4, <1>5 DEF ChangeStep, StartChange, TakeChange, RefuseChange, BreakChange, LoseChange, ConfirmChange,
    DropConfirm

LEMMA DeviceUnencumbered ==
  ASSUME TypeInv, NEW d \in Device, NothingWaits(d), DeviceStep(d)
  PROVE  NothingWaits(d)'
<1>a. Shapes /\ ServerTyped /\ DeviceTyped(d) /\ FlowTyped(flow[d])
  BY DEF TypeInv, DeviceTyped
<1>1. CASE UnlockStep(d)
  BY <1>a, <1>1 DEF Shapes, DeviceTyped, NothingWaits, UnlockStep, UnlockHere, Lock, Crash, Detached, End, Idle, At,
    Logging, serverVars, historyVars
<1>2. CASE LoginStep(d)
  <2>0. LoginDoes(d)
    BY <1>2, LoginEffects
  <2>1. CASE Begins(d)
    BY <1>a, <2>1, InFlow DEF Begins, NothingWaits, Logging, DeviceTyped, At
  <2>2. CASE GoesOn(d)
    BY <2>2, ServerWrapWaitsNot DEF GoesOn, NothingWaits, Logging, At
  <2>3. CASE Drops(d)
    BY <1>a, <2>3, IdleTyped DEF Drops, NothingWaits
  <2>4. CASE Saves(d)
    BY <1>a, <2>4, IdleTyped DEF Saves, NothingWaits, At
  <2> QED
    BY <2>0, <2>1, <2>2, <2>3, <2>4 DEF LoginDoes
<1>3. CASE ConnectStep(d)
  <2>1. CASE SendPending(d) \/ FinishPending(d)
    BY <1>a, <2>1, InFlow DEF Shapes, NothingWaits, SendPending, FinishPending, Connects, Refuse, Unsent, RevokeAll,
      RevokeFlows, Detached, At, Logging, Wrap, Idle
  <2>2. CASE BreakPending(d) \/ LosePending(d)
    BY <1>a, <2>2, IdleTyped DEF Shapes, NothingWaits, BreakPending, SwapOnly, Passed, LosePending, End
  <2> QED
    BY <1>3, <2>1, <2>2 DEF ConnectStep
<1>4. CASE RekeyStep(d)
  BY <1>a, <1>4 DEF Shapes, DeviceTyped, Wrap, NothingWaits, RekeyStep, SendRekey, CommitRekey, SaveRekey, At,
    Logging, serverVars, historyVars
<1>5. CASE ChangeStep(d)
  <2>1. local'[d].pending = NoReset
    BY <1>5, ChangeWaitsNot
  <2>2. flow'[d].at \notin {"read", "save"}
    BY <1>a, <1>5, IdleTyped DEF ChangeStep, StartChange, TakeChange, RefuseChange, BreakChange, LoseChange,
      StoreChange, ConfirmChange, SaveConfirm, DropConfirm, LogIn, SwapOnly, RevokeFlows, AfterNoAnswer, End,
      Shapes, FlowTyped, ChangeFlow, At
  <2> QED
    BY <2>1, <2>2 DEF NothingWaits
<1>6. CASE ResetStep(d)
  <2>1. session'[d] = "none"
    BY <1>a, <1>6, InFlow DEF DeviceTyped, Shapes, ResetStep, StartReset, ProveReset, TakeReset, BreakReset,
      LoseServerReset, KeepReset, StoreReset, SwapOnly, RevokeAll, Passed, At
  <2>2. flow'[d].at \in {"idle", "prove", "reset", "keep"}
    BY <1>a, <1>6, IdleTyped DEF Shapes, ResetStep, StartReset, ProveReset, TakeReset, BreakReset, LoseServerReset,
      KeepReset, StoreReset, SwapOnly, RevokeFlows, End, At, FlowTyped, ResetFlow
  <2> QED
    BY <2>1, <2>2 DEF NothingWaits, Logging, At
<1> QED
  BY <1>1, <1>2, <1>3, <1>4, <1>5, <1>6 DEF DeviceStep

LEMMA UnencumberedStep == TypeInv /\ Unencumbered /\ [Next]_vars => Unencumbered'
<1>1. ASSUME TypeInv, Unencumbered, NEW request \in late, ArriveLate(request) PROVE Unencumbered'
  BY <1>1, LateFrame, ApartUnencumbered DEF TypeInv, Unencumbered
<1>2. ASSUME TypeInv, Unencumbered, NEW d \in Device, DeviceStep(d) PROVE Unencumbered'
  BY <1>2, Frame, DeviceUnencumbered, ApartUnencumbered DEF TypeInv, Unencumbered
<1>3. TypeInv /\ Unencumbered /\ UNCHANGED vars => Unencumbered'
  BY DEF Unencumbered, NothingWaits, At, vars, deviceVars
<1> QED
  BY <1>1, <1>2, <1>3, Steps

LEMMA AlwaysUnencumbered == Spec => []Unencumbered
BY AlwaysTyped, InitUnencumbered, UnencumberedStep, PTL DEF Spec
-------------------------------------------------------------------------------
(***************************************************************************)
(* What the steps of a change and of a login do to the secret in hand.     *)
(***************************************************************************)
ChangeHands(d) ==
  \/ \E n \in Secret : /\ Makes(n) /\ Tell(n, "making") /\ ~Making(d)
                       /\ At(d, "change")' /\ Changing(d)' /\ InHand(d)' = n
  \/ told' = told /\ flow'[d] = Idle /\ ~Making(d)
  \/ told' = told /\ Changing(d) /\ Changing(d)' /\ InHand(d)' = InHand(d)
  \/ /\ Changing(d) /\ flow'[d] = Idle
     /\ \E what \in {"failed", "done", "unsure"} : Tell(InHand(d), what)

LEMMA HandsTyped ==
  ASSUME NEW d \in Device, DeviceTyped(d)
  PROVE  /\ Making(d) => InHand(d) \in Secret
         /\ Changing(d) => ~Resetting(d) /\ unlocked[d] # 0
         /\ Confirming(d) => InHand(d) = flow[d].password
         /\ flow[d].at \in {"change", "confirm", "store"} => Changing(d) /\ InHand(d) = flow[d].to
         /\ Resetting(d) => InHand(d) = flow[d].secret
<1>1. FlowTyped(flow[d]) /\ LockFits(d)
  BY DEF DeviceTyped
<1>2. CASE Resetting(d)
  BY <1>1, <1>2, InFlow DEF Making, Changing, Confirming, InHand, Resetting, Logging
<1>3. CASE Confirming(d)
  BY <1>1, <1>3, LoginsTyped DEF Making, Changing, Confirming, InHand, Resetting, Logging, LockFits
<1>4. CASE flow[d].at \in {"change", "confirm", "store"}
  BY <1>1, <1>4, InFlow DEF Making, Changing, Confirming, InHand, Resetting, Logging, At
<1> QED
  BY <1>2, <1>3, <1>4 DEF Making, Changing

LEMMA ChangeInHand ==
  ASSUME TypeInv, NEW d \in Device, ChangeStep(d)
  PROVE  ChangeHands(d)
<1>a. Shapes /\ DeviceTyped(d) /\ FlowTyped(flow[d])
  BY DEF TypeInv, DeviceTyped
<1>1. ASSUME NEW n \in Secret, StartChange(d, n) PROVE ChangeHands(d)
  <2>1. ~Making(d)
    BY <1>1 DEF StartChange, LoggedIn, At, Making, Changing, Confirming, Resetting
  <2>2. CASE Taken(flow[d].session)
    <3>1. flow'[d].at = "change" /\ flow'[d].to = n /\ Makes(n) /\ Tell(n, "making")
      BY <1>a, <1>1, <2>2 DEF StartChange, Shapes
    <3> QED
      BY <2>1, <3>1 DEF ChangeHands, Changing, InHand, Resetting, Logging, At
  <2>3. CASE ~Taken(flow[d].session)
    BY <1>a, <1>1, <2>1, <2>3 DEF StartChange, End, Shapes, ChangeHands
  <2> QED
    BY <2>2, <2>3
<1>2. CASE TakeChange(d) \/ LoseChange(d)
  <2>1. At(d, "change") /\ told' = told /\ flow[d] \in ChangeFlow
    BY <1>a, <1>2 DEF TakeChange, LoseChange, AfterNoAnswer, FlowTyped, At
  <2>2. flow'[d].at \in {"store", "confirm"} /\ flow'[d].to = flow[d].to
    BY <1>a, <1>2, <2>1 DEF TakeChange, RevokeFlows, LoseChange, AfterNoAnswer, Shapes, ChangeFlow
  <2> QED
    BY <2>1, <2>2 DEF ChangeHands, Changing, InHand, Resetting, Logging, At
<1>3. CASE ConfirmChange(d)
  <2>1. At(d, "confirm") /\ Changing(d) /\ InHand(d) = flow[d].to
    BY <1>3 DEF ConfirmChange, Changing, InHand, Resetting, Logging, At
  <2>2. \/ /\ told' = told
           /\ flow'[d] = [at |-> "checked", for |-> "confirm", password |-> flow[d].to, cut |-> FALSE]
        \/ Tell(flow[d].to, "failed") /\ flow'[d] = Idle
    BY <1>a, <1>3 DEF ConfirmChange, LogIn, End, Shapes
  <2>3. CASE flow'[d] = [at |-> "checked", for |-> "confirm", password |-> flow[d].to, cut |-> FALSE]
             /\ told' = told
    BY <2>1, <2>3 DEF ChangeHands, Changing, Confirming, InHand, Resetting, Logging
  <2> QED
    BY <2>1, <2>2, <2>3 DEF ChangeHands
<1>4. CASE RefuseChange(d) \/ BreakChange(d) \/ StoreChange(d) \/ SaveConfirm(d) \/ DropConfirm(d)
  <2>1. /\ Changing(d) /\ flow'[d] = Idle
        /\ \E what \in {"failed", "done", "unsure"} : Tell(InHand(d), what)
    <3>1. CASE RefuseChange(d) \/ BreakChange(d) \/ StoreChange(d)
      BY <1>a, <3>1 DEF RefuseChange, BreakChange, SwapOnly, StoreChange, End, Shapes, Changing, InHand, Resetting,
        Logging, At
    <3>2. CASE SaveConfirm(d)
      BY <1>a, <3>2 DEF SaveConfirm, LoggedIn, End, Shapes, Changing, Confirming, InHand, Resetting, Logging, At
    <3>3. CASE DropConfirm(d)
      BY <1>a, <3>3 DEF DropConfirm, Tested, End, Shapes, Changing, Confirming, InHand, Resetting, Logging, At
    <3> QED
      BY <1>4, <3>1, <3>2, <3>3
  <2> QED
    BY <2>1 DEF ChangeHands
<1> QED
  BY <1>1, <1>2, <1>3, <1>4 DEF ChangeStep

(* A login of a change goes on with the password it tests.                 *)
LEMMA LoginInHand ==
  ASSUME TypeInv, NEW d \in Device, LoginStep(d)
  PROVE  ~Making(d)' \/ (Confirming(d) /\ Confirming(d)' /\ InHand(d)' = InHand(d))
<1>0. LoginDoes(d)
  BY LoginEffects
<1>1. CASE Begins(d)
  BY <1>1 DEF Begins, Making, Changing, Confirming, Resetting
<1>2. CASE GoesOn(d)
  <2>1. /\ flow[d].at \in {"checked", "read"} /\ flow'[d].at \in {"read", "save"}
        /\ flow'[d].for = flow[d].for /\ flow'[d].password = flow[d].password
    BY <1>2 DEF GoesOn, At
  <2> QED
    BY <2>1 DEF Making, Changing, Confirming, InHand, Resetting, Logging
<1>3. CASE Drops(d) \/ Saves(d)
  BY <1>3 DEF Drops, Saves, Idle, Making, Changing, Confirming, Resetting, Logging
<1> QED
  BY <1>0, <1>1, <1>2, <1>3 DEF LoginDoes

(* What another device has in hand stays.                                  *)
LEMMA ApartInHand ==
  ASSUME NEW e \in Device, DeviceTyped(e), Apart(e)
  PROVE  /\ flow'[e].at = flow[e].at
         /\ Making(e)' <=> Making(e)
         /\ Changing(e)' <=> Changing(e)
         /\ Resetting(e)' <=> Resetting(e)
         /\ Confirming(e)' <=> Confirming(e)
         /\ Making(e) => InHand(e)' = InHand(e)
<1>1. /\ flow'[e].at = flow[e].at
      /\ ~Logging(flow[e]) => flow'[e] = flow[e]
      /\ Logging(flow[e]) => flow'[e].for = flow[e].for /\ flow'[e].password = flow[e].password
  BY ApartFlow
<1>2. Logging(flow'[e]) <=> Logging(flow[e])
  BY <1>1 DEF Logging
<1>3. (Confirming(e)' <=> Confirming(e)) /\ (Resetting(e)' <=> Resetting(e))
  BY <1>1, <1>2 DEF Confirming, Resetting
<1>4. (Changing(e)' <=> Changing(e)) /\ (Making(e)' <=> Making(e))
  BY <1>1, <1>3 DEF Changing, Making
<1>5. InHand(e)' = InHand(e)
  BY <1>1 DEF InHand, Resetting, Logging
<1> QED
  BY <1>1, <1>3, <1>4, <1>5
-------------------------------------------------------------------------------
(***************************************************************************)
(* A reset is kept until the server has it, refuses it, or gets a newer    *)
(* one.                                                                    *)
(***************************************************************************)
(* What is told is about a secret made before, or made now as the next.    *)
Tells ==
  \/ told' = told
  \/ \E n \in Secret : \E what \in {"making", "done", "failed", "unsure", "waits"} :
       (Made(n) \/ Makes(n)) /\ Tell(n, what)

LEMMA TellsInOrder ==
  ASSUME ServerTyped, InOrder, Tells
  PROVE  InOrder' /\ \A n \in Secret : Made(n) => Made(n)'
<1>1. CASE told' = told
  BY <1>1 DEF InOrder, Made
<1>2. ASSUME NEW n \in Secret, NEW what \in {"making", "done", "failed", "unsure", "waits"},
             Made(n) \/ Makes(n), Tell(n, what)
      PROVE  InOrder' /\ \A m \in Secret : Made(m) => Made(m)'
  <2>1. \A m \in Secret : Made(m)' <=> m = n \/ Made(m)
    BY <1>2 DEF Tell, Made, ServerTyped
  <2>2. \A m \in Secret : m <= n => m = n \/ Made(m)
    BY <1>2, Secrets DEF Makes, InOrder, Made
  <2>3. \A m \in Secret : Made(m) => m <= n \/ \A k \in Secret : k <= m => Made(k)
    BY DEF InOrder
  <2> QED
    BY <2>1, <2>2, <2>3 DEF InOrder
<1> QED
  BY <1>1, <1>2 DEF Tells

(* The next secret is newer than any made so far.                          *)
LEMMA NextIsNewer ==
  ASSUME InOrder, NEW n \in Secret, Makes(n), NEW m \in Secret, Made(m)
  PROVE  m < n
BY Secrets DEF Makes, InOrder, Made

LEMMA HistoryGrows ==
  ASSUME NEW d \in Device, DeviceStep(d)
  PROVE  swaps \subseteq swaps' /\ refused \subseteq refused'
<1>1. CASE UnlockStep(d) \/ RekeyStep(d)
  BY <1>1 DEF UnlockStep, UnlockHere, Lock, Crash, RekeyStep, SendRekey, CommitRekey, SaveRekey, historyVars
<1>2. CASE LoginStep(d)
  BY <1>2 DEF LoginStep, UnlockByServer, Login, FreshLogin, ReadKeys, OpenSession, DropLogin, DropConnect, SaveUnlock,
    SaveLogin, historyVars
<1>3. CASE ConnectStep(d)
  BY <1>3 DEF ConnectStep, SendPending, FinishPending, BreakPending, LosePending, SwapOnly, Refuse, Swap
<1>4. CASE ChangeStep(d)
  BY <1>4 DEF ChangeStep, StartChange, TakeChange, RefuseChange, BreakChange, LoseChange, StoreChange,
    ConfirmChange, SaveConfirm, DropConfirm, SwapOnly, Swap
<1>5. CASE ResetStep(d)
  BY <1>5 DEF ResetStep, StartReset, ProveReset, TakeReset, BreakReset, LoseServerReset, KeepReset, StoreReset,
    SwapOnly, Swap
<1> QED
  BY <1>1, <1>2, <1>3, <1>4, <1>5 DEF DeviceStep

(* Where the reset that waits on d is after a step of d.                   *)
Cover(n) ==
  \/ \E swap \in swaps : swap.secret >= n
  \/ \E r \in refused : r.secret >= n

PendingKept(d) ==
  \A n \in Secret : Waiting(d) /\ local[d].pending.secret >= n =>
    (Waiting(d)' /\ local'[d].pending.secret >= n) \/ Cover(n)'

(* A reset begins to wait on the device that stores it.                    *)
WaitsHere(d) ==
  \A n \in Secret : told'[n] = "waits" =>
    told[n] = "waits" \/ (Waiting(d)' /\ local'[d].pending.secret = n)

StepKeeps(d) == Tells /\ WaitsHere(d) /\ PendingKept(d) /\ HandsInOrder(d)'

LEMMA SwapAdds ==
  ASSUME NEW request, Swap(request)
  PROVE  \E swap \in swaps' : swap.secret = request.secret
<1> DEFINE new == [secret |-> request.secret, proof |-> request.proof, past |-> request.past,
                   was |-> IF request.kind = "reset" THEN keySet.recovery ELSE record]
<1>1. new \in swaps'
  BY DEF Swap
<1>2. new.secret = request.secret
  OBVIOUS
<1> QED
  BY <1>1, <1>2

LEMMA RefuseAdds ==
  ASSUME NEW d \in Device, Refuse(d)
  PROVE  \E r \in refused' : r.secret = local[d].pending.secret
<1> DEFINE new == [secret |-> local[d].pending.secret, here |-> keySet.by = d, found |-> keySet.recovery]
<1>1. new \in refused'
  BY DEF Refuse
<1>2. new.secret = local[d].pending.secret
  OBVIOUS
<1> QED
  BY <1>1, <1>2

LEMMA WaitingTyped ==
  ASSUME NEW d \in Device, DeviceTyped(d), Waiting(d)
  PROVE  local[d] \in Wrap /\ local[d].pending \in Reset /\ local[d].pending.secret \in Secret
         /\ local[d].pending.secret \in Nat
BY Secrets DEF DeviceTyped, Waiting, Wrap, Reset

LEMMA SamePending ==
  ASSUME NEW d \in Device, DeviceTyped(d), Waiting(d)' <=> Waiting(d), local'[d].pending = local[d].pending
  PROVE  PendingKept(d)
BY WaitingTyped DEF PendingKept

LEMMA SwappedGrows == \A n \in Secret : swaps \subseteq swaps' /\ Swapped(n) => Swapped(n)'
BY DEF Swapped

LEMMA ApartInOrder ==
  ASSUME ServerTyped, NEW e \in Device, DeviceTyped(e), HandsInOrder(e), Apart(e), InOrder, Tells, swaps \subseteq swaps'
  PROVE  HandsInOrder(e)'
<1>1. /\ flow'[e].at = flow[e].at
      /\ Making(e)' <=> Making(e)
      /\ Resetting(e)' <=> Resetting(e)
      /\ Making(e) => InHand(e)' = InHand(e) /\ InHand(e) \in Secret
      /\ Resetting(e) => flow'[e] = flow[e] /\ flow[e].secret \in Secret
  BY ApartInHand, ApartFlow, HandsTyped, InFlow DEF Resetting, Logging
<1>2. local'[e] = local[e] /\ (Waiting(e)' <=> Waiting(e))
  BY DEF Apart, Waiting
<1>3. \A n \in Secret : (told[n] # "unmade" => told'[n] # "unmade") /\ (Swapped(n) => Swapped(n)')
  BY TellsInOrder, SwappedGrows DEF Made
<1>4. Waiting(e) => local[e].pending.secret \in Secret
  BY WaitingTyped
<1>5. Making(e)' => Made(InHand(e))'
  BY <1>1, <1>3 DEF HandsInOrder, Made
<1>6. Waiting(e)' => Made(local[e].pending.secret)'
  BY <1>2, <1>3, <1>4 DEF HandsInOrder, Made
<1>7. At(e, "keep")' => Swapped(flow[e].secret)'
  <2>1. ASSUME At(e, "keep")' PROVE Swapped(flow[e].secret)'
    <3>1. At(e, "keep") /\ flow'[e] = flow[e] /\ flow[e].secret \in Secret
      BY <1>1, <2>1 DEF Resetting, At
    <3>2. Swapped(flow[e].secret)
      BY <3>1 DEF HandsInOrder
    <3> QED
      BY <3>1, <3>2 DEF Swapped
  <2> QED
    BY <2>1
<1>8. Resetting(e)' /\ Waiting(e)' => local'[e].pending.secret < flow'[e].secret
  BY <1>1, <1>2 DEF HandsInOrder
<1> QED
  BY <1>5, <1>6, <1>7, <1>8 DEF HandsInOrder

LEMMA UnlockStepKeeps ==
  ASSUME TypeInv, KeptInv, Unencumbered, NEW d \in Device, UnlockStep(d)
  PROVE  StepKeeps(d)
<1>a. Shapes /\ ServerTyped /\ DeviceTyped(d) /\ HandsInOrder(d)
  BY DEF TypeInv, KeptInv
<1>1. told' = told /\ flow'[d].at = "idle" /\ local' = local
  BY <1>a DEF UnlockStep, UnlockHere, Lock, Crash, historyVars, Shapes, End, Idle
<1> QED
  BY <1>a, <1>1, SamePending DEF StepKeeps, Tells, WaitsHere, HandsInOrder, Making, Changing, Confirming, Resetting,
    Logging, Waiting, Made, At

LEMMA LoginStepKeeps ==
  ASSUME TypeInv, KeptInv, Unencumbered, NEW d \in Device, LoginStep(d)
  PROVE  StepKeeps(d)
<1>a. Shapes /\ ServerTyped /\ DeviceTyped(d) /\ HandsInOrder(d) /\ NothingWaits(d)
  BY DEF TypeInv, KeptInv, Unencumbered
<1>b. UNCHANGED historyVars /\ LoginDoes(d)
  BY LoginEffects
<1>1. ~Making(d)' \/ (Making(d) /\ InHand(d)' = InHand(d) /\ ~Resetting(d)')
  BY LoginInHand DEF Making, Changing, Confirming, Resetting, Logging
<1>2. told' = told /\ (Making(d)' => Made(InHand(d))')
  <2>1. told' = told
    BY <1>b DEF historyVars
  <2>2. Making(d)' => Made(InHand(d)) /\ InHand(d)' = InHand(d)
    BY <1>a, <1>1 DEF HandsInOrder
  <2> QED
    BY <2>1, <2>2 DEF Made
<1>3. PendingKept(d) /\ (Waiting(d)' => Made(local[d].pending.secret)')
  <2>1. CASE local'[d] = local[d]
    BY <1>a, <1>2, <2>1, SamePending DEF Waiting, HandsInOrder, Made
  <2>2. CASE Saves(d)
    BY <1>a, <2>2 DEF Saves, NothingWaits, Logging, Waiting, PendingKept, At
  <2> QED
    BY <1>b, <2>1, <2>2 DEF LoginDoes, Begins, GoesOn, Drops
<1>4. ~Resetting(d)' /\ ~At(d, "keep")'
  <2>1. ~Resetting(d)'
    BY <1>1 DEF Making
  <2> QED
    BY <2>1 DEF Resetting, At
<1> QED
  BY <1>2, <1>3, <1>4 DEF StepKeeps, Tells, WaitsHere, HandsInOrder

LEMMA RekeyStepKeeps ==
  ASSUME TypeInv, KeptInv, Unencumbered, NEW d \in Device, RekeyStep(d)
  PROVE  StepKeeps(d)
<1>a. Shapes /\ ServerTyped /\ DeviceTyped(d) /\ HandsInOrder(d)
  BY DEF TypeInv, KeptInv
<1>1. told' = told /\ flow'[d] = flow[d] /\ swaps' = swaps
  BY DEF RekeyStep, SendRekey, CommitRekey, SaveRekey, historyVars
<1>2. local'[d].pending = local[d].pending /\ (local[d] # NoProfile <=> local'[d] # NoProfile)
  <2>1. CASE local' = local
    BY <2>1
  <2>2. CASE local[d] # NoProfile /\ local' = [local EXCEPT ![d].password = rekey[d].password]
    <3>1. rekey[d].at = "save" => rekey[d].password \in Secret
      BY <1>a DEF DeviceTyped, RekeyTyped
    <3>3. local[d] \in Wrap /\ local'[d] = [local[d] EXCEPT !.password = rekey[d].password]
      BY <1>a, <2>2 DEF DeviceTyped, Shapes
    <3>4. CASE rekey[d].at = "save"
      BY <3>1, <3>3, <3>4, <2>2, PasswordAssumption DEF Wrap
    <3>5. CASE rekey[d].at # "save"
      BY <3>5 DEF RekeyStep, SendRekey, CommitRekey, SaveRekey
    <3> QED
      BY <3>4, <3>5
  <2> QED
    BY <2>1, <2>2 DEF RekeyStep, SendRekey, CommitRekey, SaveRekey
<1>3. Waiting(d)' <=> Waiting(d)
  BY <1>2 DEF Waiting
<1>4. (Making(d)' <=> Making(d)) /\ (Resetting(d)' <=> Resetting(d)) /\ InHand(d)' = InHand(d)
  BY <1>1 DEF Making, Changing, Confirming, Resetting, InHand, Logging
<1> QED
  BY <1>a, <1>1, <1>2, <1>3, <1>4, SamePending DEF StepKeeps, Tells, WaitsHere, HandsInOrder, Made, Swapped, At

LEMMA ConnectStepKeeps ==
  ASSUME TypeInv, KeptInv, Unencumbered, NEW d \in Device, ConnectStep(d)
  PROVE  StepKeeps(d)
<1>a. Shapes /\ ServerTyped /\ DeviceTyped(d) /\ HandsInOrder(d)
  BY DEF TypeInv, KeptInv
<1>1. told' = told /\ flow'[d].at \in {"idle", "login", "finish"}
  BY <1>a DEF ConnectStep, SendPending, FinishPending, BreakPending, LosePending, SwapOnly, RevokeFlows, Refuse,
    Shapes, End, Idle
<1>2. PendingKept(d) /\ (Waiting(d)' => Waiting(d) /\ local'[d].pending = local[d].pending)
  <2>1. CASE local' = local
    BY <1>a, <2>1, SamePending DEF Waiting
  <2>2. CASE local' = Unsent(d) /\ local[d] \in Wrap
    <3>1. ~Waiting(d)'
      BY <1>a, <2>2 DEF Unsent, Waiting, Shapes, Wrap
    <3>2. CASE Refuse(d)
      <4>1. \E r \in refused' : r.secret = local[d].pending.secret
        BY <3>2, RefuseAdds
      <4> QED
        BY <3>1, <4>1, Secrets DEF PendingKept, Cover
    <3>3. CASE Swap(PendingRequest(d))
      <4>1. \E swap \in swaps' : swap.secret = local[d].pending.secret
        BY <3>3, SwapAdds DEF PendingRequest
      <4> QED
        BY <3>1, <4>1, Secrets DEF PendingKept, Cover
    <3>4. CASE local' = local
      BY <1>a, <3>1, <3>4 DEF PendingKept, Waiting
    <3> QED
      BY <3>2, <3>3, <3>4 DEF ConnectStep, SendPending, FinishPending, BreakPending, LosePending
  <2>4. SendPending(d) \/ FinishPending(d) => local[d] \in Wrap
    BY <1>a, InFlow DEF SendPending, FinishPending, Connects, At
  <2> QED
    BY <2>1, <2>2, <2>4 DEF ConnectStep, SendPending, FinishPending, BreakPending, LosePending, Refuse
<1>3. Waiting(d)' => Made(local'[d].pending.secret)
  BY <1>a, <1>2 DEF HandsInOrder
<1> QED
  BY <1>1, <1>2, <1>3 DEF StepKeeps, Tells, WaitsHere, HandsInOrder, Making, Changing, Confirming, Resetting, Logging,
    Made, At

LEMMA ChangeStepKeeps ==
  ASSUME TypeInv, KeptInv, Unencumbered, NEW d \in Device, ChangeStep(d)
  PROVE  StepKeeps(d)
<1>a. ServerTyped /\ DeviceTyped(d) /\ HandsInOrder(d) /\ NothingWaits(d) /\ InOrder
  BY DEF TypeInv, KeptInv, Unencumbered
<1>b. ~Waiting(d) /\ ~Waiting(d)'
  BY <1>a, ChangeWaitsNot DEF Waiting
<1>c. (Making(d) => InHand(d) \in Secret /\ Made(InHand(d))) /\ (Changing(d) => Making(d))
  BY <1>a, HandsTyped DEF HandsInOrder, Making
<1>1. ASSUME NEW n \in Secret, Makes(n), Tell(n, "making"), At(d, "change")', InHand(d)' = n
      PROVE  StepKeeps(d)
  <2>1. Tells /\ WaitsHere(d) /\ Made(n)'
    BY <1>a, <1>1 DEF Tells, WaitsHere, Tell, Made, ServerTyped
  <2>2. Made(InHand(d))'
    BY <1>1, <2>1 DEF Made
  <2> QED
    BY <1>b, <1>1, <2>1, <2>2 DEF StepKeeps, PendingKept, HandsInOrder, Resetting, At
<1>2. CASE told' = told /\ flow'[d] = Idle
  BY <1>b, <1>2 DEF StepKeeps, Tells, WaitsHere, PendingKept, HandsInOrder, Making, Changing, Confirming, Resetting,
    Logging, Idle, At
<1>3. CASE told' = told /\ Changing(d) /\ Changing(d)' /\ InHand(d)' = InHand(d)
  <2>1. Made(InHand(d))' /\ ~Resetting(d)' /\ ~At(d, "keep")'
    BY <1>c, <1>3 DEF Made, Changing, Confirming, Resetting, Logging, At
  <2> QED
    BY <1>b, <1>3, <2>1 DEF StepKeeps, Tells, WaitsHere, PendingKept, HandsInOrder
<1>4. ASSUME Changing(d), flow'[d] = Idle, NEW what \in {"failed", "done", "unsure"}, Tell(InHand(d), what)
      PROVE  StepKeeps(d)
  <2>1. Tells /\ WaitsHere(d)
    BY <1>a, <1>c, <1>4 DEF Tells, WaitsHere, Tell, ServerTyped
  <2> QED
    BY <1>b, <1>4, <2>1 DEF StepKeeps, PendingKept, HandsInOrder, Making, Changing, Confirming, Resetting, Logging,
      Idle, At
<1> QED
  BY <1>1, <1>2, <1>3, <1>4, ChangeInHand DEF ChangeHands
(* The secret of a reset under way is in hand.                             *)
LEMMA ResetInHand ==
  ASSUME NEW d \in Device, DeviceTyped(d)
  PROVE  /\ Resetting(d) => Making(d) /\ InHand(d) = flow[d].secret /\ flow[d].secret \in Secret
         /\ flow'[d].at \in {"prove", "reset", "keep"} =>
              Making(d)' /\ Resetting(d)' /\ (InHand(d) = flow[d].secret)'
         /\ flow'[d].at = "idle" => ~Making(d)' /\ ~Resetting(d)'
BY InFlow DEF Resetting, Making, Changing, Confirming, Logging, InHand

(* A step of a reset after which the secret in hand is n.                  *)
LEMMA StillInHand ==
  ASSUME ServerTyped, InOrder, Tells, NEW d \in Device, DeviceTyped(d),
         NEW n \in Secret, Made(n) \/ Made(n)',
         flow'[d].at \in {"idle", "prove", "reset", "keep"},
         flow'[d].at # "idle" => flow'[d].secret = n,
         flow'[d].at # "idle" /\ Waiting(d)' => local'[d].pending.secret < n,
         Waiting(d)' => \E m \in Secret : (Made(m) \/ Made(m)') /\ local'[d].pending.secret = m,
         flow'[d].at = "keep" => Swapped(n)'
  PROVE  HandsInOrder(d)'
<1>1. \A m \in Secret : told[m] # "unmade" => told'[m] # "unmade"
  BY TellsInOrder DEF Made
<1>2. Waiting(d)' => Made(local[d].pending.secret)'
  BY <1>1 DEF Made
<1>3. CASE flow'[d].at = "idle"
  BY <1>2, <1>3, ResetInHand DEF HandsInOrder, At
<1>4. CASE flow'[d].at \in {"prove", "reset", "keep"}
  <2>1. Making(d)' /\ Resetting(d)' /\ InHand(d)' = n /\ told'[n] # "unmade"
    BY <1>1, <1>4, ResetInHand DEF Made
  <2>2. Made(InHand(d))'
    BY <2>1 DEF Made
  <2>3. At(d, "keep")' => Swapped(flow[d].secret)'
    BY <1>4 DEF Swapped, At
  <2> QED
    BY <1>2, <1>4, <2>1, <2>2, <2>3 DEF HandsInOrder
<1> QED
  BY <1>3, <1>4

(* A reset that starts to wait is the one in hand, newer than what waited. *)
LEMMA UnsentWaits ==
  ASSUME TypeInv, KeptInv, NEW d \in Device, Resetting(d), flow[d].here, StoreUnsent(d), flow'[d] = Idle
  PROVE  StepKeeps(d)
<1>a. Shapes /\ ServerTyped /\ DeviceTyped(d) /\ HandsInOrder(d) /\ InOrder
  BY DEF TypeInv, KeptInv
<1>1. flow[d].secret \in Secret /\ flow[d].proof \in Secret /\ flow[d].secret \in Nat /\ Made(flow[d].secret)
  BY <1>a, ResetInHand, InFlow, Secrets DEF HandsInOrder, Resetting
<1>2. Tell(flow[d].secret, "waits")
  BY DEF StoreUnsent
<1>3. Waiting(d)' /\ local'[d].pending.secret = flow[d].secret
  <2>1. local'[d] = [password |-> flow[d].secret, recovery |-> flow[d].secret,
                     pending |-> [secret |-> flow[d].secret, proof |-> flow[d].proof]]
    BY <1>a DEF StoreUnsent, Shapes
  <2>2. local'[d] \in Wrap /\ local'[d].pending \in Reset
    BY <1>1, <2>1 DEF Wrap, Reset
  <2> QED
    BY <2>1, <2>2, PasswordAssumption DEF Waiting
<1>4. Tells /\ WaitsHere(d)
  BY <1>a, <1>1, <1>2, <1>3 DEF Tells, WaitsHere, Tell, ServerTyped
<1>5. PendingKept(d)
  BY <1>a, <1>1, <1>3, WaitingTyped, Secrets DEF PendingKept, HandsInOrder
<1>6. HandsInOrder(d)'
  BY <1>a, <1>1, <1>3, <1>4, StillInHand DEF Idle
<1> QED
  BY <1>4, <1>5, <1>6 DEF StepKeeps

LEMMA ResetStepKeeps ==
  ASSUME TypeInv, KeptInv, Unencumbered, NEW d \in Device, ResetStep(d)
  PROVE  StepKeeps(d)
<1>a. Shapes /\ ServerTyped /\ DeviceTyped(d) /\ HandsInOrder(d) /\ InOrder
  BY DEF TypeInv, KeptInv
<1>b. Waiting(d) => local[d].pending.secret \in Secret /\ Made(local[d].pending.secret)
  BY <1>a, WaitingTyped DEF HandsInOrder
<1>1. ASSUME NEW n \in Secret, NEW key \in shown, StartReset(d, n, key) PROVE StepKeeps(d)
  <2>1. Tells /\ WaitsHere(d)
    BY <1>a, <1>1 DEF StartReset, Tells, WaitsHere, Tell, ServerTyped
  <2>2. local' = local /\ flow'[d].at = "prove" /\ flow'[d].secret = n /\ Made(n)'
    BY <1>a, <1>1 DEF StartReset, Shapes, Tell, Made, ServerTyped
  <2>3. Waiting(d) => local[d].pending.secret < n
    BY <1>a, <1>b, <1>1, NextIsNewer DEF StartReset
  <2>4. PendingKept(d)
    BY <1>a, <2>2, SamePending DEF Waiting
  <2>5. HandsInOrder(d)'
    BY <1>a, <1>b, <2>1, <2>2, <2>3, StillInHand DEF Waiting
  <2> QED
    BY <2>1, <2>4, <2>5 DEF StepKeeps
<1>2. CASE ProveReset(d) \/ TakeReset(d) \/ LoseServerReset(d) \/ (BreakReset(d) /\ ~flow[d].here)
  <2>1. Resetting(d) /\ flow[d].secret \in Secret /\ Made(flow[d].secret) /\ local' = local
    BY <1>a, <1>2, ResetInHand DEF ProveReset, TakeReset, LoseServerReset, BreakReset, HandsInOrder, Resetting, At
  <2>2. told' = told \/ Tell(flow[d].secret, "failed")
    BY <1>2 DEF ProveReset, TakeReset, LoseServerReset, BreakReset
  <2>3. Tells /\ WaitsHere(d)
    BY <1>a, <2>1, <2>2 DEF Tells, WaitsHere, Tell, ServerTyped
  <2>4. /\ flow'[d].at \in {"idle", "reset", "keep"}
        /\ flow'[d].at # "idle" => flow'[d].secret = flow[d].secret
        /\ flow'[d].at = "keep" => Swapped(flow[d].secret)'
    <3>1. CASE ProveReset(d)
      BY <1>a, <3>1 DEF ProveReset, End, Idle, Shapes
    <3>2. CASE TakeReset(d)
      <4>1. CASE Swap(ResetRequest(d)) /\ flow'[d] = [flow[d] EXCEPT !.at = "keep"]
        <5>1. flow'[d].at = "keep" /\ flow'[d].secret = flow[d].secret
          BY <1>a, <3>2, <4>1 DEF TakeReset, DeviceTyped, FlowTyped, ResetFlow, At
        <5>2. \E swap \in swaps' : swap.secret = flow[d].secret
          BY <4>1, SwapAdds DEF ResetRequest
        <5> QED
          BY <5>1, <5>2 DEF Swapped
      <4>2. CASE flow'[d] = Idle
        BY <4>2 DEF Idle
      <4> QED
        BY <1>a, <3>2, <4>1, <4>2 DEF TakeReset, RevokeFlows, End, Shapes
    <3>3. CASE LoseServerReset(d) \/ BreakReset(d)
      BY <1>a, <3>3 DEF LoseServerReset, BreakReset, SwapOnly, End, Idle, Shapes
    <3> QED
      BY <1>2, <3>1, <3>2, <3>3
  <2>5. HandsInOrder(d)'
    <3>1. Waiting(d)' => Waiting(d) /\ local'[d].pending.secret = local[d].pending.secret
      BY <2>1 DEF Waiting
    <3>2. Waiting(d) => local[d].pending.secret < flow[d].secret
      BY <1>a, <2>1 DEF HandsInOrder
    <3> QED
      BY <1>a, <1>b, <2>1, <2>3, <2>4, <3>1, <3>2, StillInHand
  <2>6. PendingKept(d)
    BY <1>a, <2>1, SamePending DEF Waiting
  <2> QED
    BY <2>3, <2>5, <2>6 DEF StepKeeps
<1>3. CASE KeepReset(d) \/ (BreakReset(d) /\ flow[d].here)
  BY <1>a, <1>3, UnsentWaits DEF KeepReset, BreakReset, SwapOnly, End, Shapes, Resetting, At
<1>4. CASE StoreReset(d)
  <2>1. Resetting(d) /\ flow[d].secret \in Secret /\ flow[d].secret \in Nat /\ Made(flow[d].secret)
        /\ Swapped(flow[d].secret)
    BY <1>a, <1>4, ResetInHand, Secrets DEF StoreReset, HandsInOrder, Resetting, At
  <2>2. PICK what \in {"done", "failed"} : Tell(flow[d].secret, what)
    BY <1>4 DEF StoreReset
  <2>3. Tells /\ WaitsHere(d)
    BY <1>a, <2>1, <2>2 DEF Tells, WaitsHere, Tell, ServerTyped
  <2>4. local'[d] = local[d] \/ ~Waiting(d)'
    BY <1>a, <1>4 DEF StoreReset, Waiting, Shapes
  <2>5. swaps' = swaps
    BY <1>4 DEF StoreReset
  <2>6. \A n \in Secret : Waiting(d) /\ local[d].pending.secret >= n => Cover(n)'
    BY <1>a, <2>1, <2>5, WaitingTyped, Secrets DEF HandsInOrder, Cover, Swapped
  <2>7. flow'[d].at = "idle"
    BY <1>a, <1>4 DEF StoreReset, End, Idle, Shapes
  <2>8. HandsInOrder(d)'
    <3>1. Waiting(d)' => Waiting(d) /\ local'[d].pending.secret = local[d].pending.secret
      BY <2>4 DEF Waiting
    <3> QED
      BY <1>a, <1>b, <2>1, <2>3, <2>7, <3>1, StillInHand
  <2> QED
    BY <2>3, <2>6, <2>8 DEF StepKeeps, PendingKept
<1> QED
  BY <1>1, <1>2, <1>3, <1>4 DEF ResetStep

LEMMA KeptOn ==
  ASSUME ResetIsKept, NEW d \in Device, swaps \subseteq swaps', refused \subseteq refused',
         WaitsHere(d), PendingKept(d), \A e \in Device \ {d} : local'[e] = local[e]
  PROVE  ResetIsKept'
<1> SUFFICES ASSUME NEW n \in Secret, told'[n] = "waits"
             PROVE  (\E e \in Device : Waiting(e)' /\ local'[e].pending.secret >= n) \/ Cover(n)'
  BY DEF ResetIsKept, Waiting, Cover
<1>2. CASE told[n] # "waits"
  BY <1>2, Secrets DEF WaitsHere
<1>3. CASE Cover(n)
  BY <1>3 DEF Cover
<1>4. ASSUME NEW e \in Device, Waiting(e), local[e].pending.secret >= n
      PROVE  (\E f \in Device : Waiting(f)' /\ local'[f].pending.secret >= n) \/ Cover(n)'
  <2>1. CASE e # d
    BY <1>4, <2>1 DEF Waiting
  <2>2. CASE e = d
    BY <1>4, <2>2 DEF PendingKept
  <2> QED
    BY <2>1, <2>2
<1> QED
  BY <1>2, <1>3, <1>4 DEF ResetIsKept, Waiting, Cover

LEMMA InitKept == Init => KeptInv
BY Secrets DEF Init, KeptInv, InOrder, HandsInOrder, ResetIsKept, Made, Waiting, Making, Changing, Confirming,
  Resetting, Logging, Idle, At

LEMMA KeptStep == TypeInv /\ Unencumbered /\ KeptInv /\ [Next]_vars => KeptInv'
<1>1. ASSUME TypeInv, KeptInv, NEW request \in late, ArriveLate(request) PROVE KeptInv'
  <2>1. \A e \in Device : Apart(e)
    BY <1>1, LateFrame DEF TypeInv
  <2>2. told' = told /\ local' = local /\ refused' = refused /\ swaps \subseteq swaps'
    BY <1>1 DEF ArriveLate, Swap
  <2>3. Tells
    BY <2>2 DEF Tells
  <2>4. ResetIsKept'
    BY <1>1, <2>2 DEF KeptInv, ResetIsKept
  <2> QED
    BY <1>1, <2>1, <2>2, <2>3, <2>4, ApartInOrder, TellsInOrder DEF TypeInv, KeptInv
<1>2. ASSUME TypeInv, Unencumbered, KeptInv, NEW d \in Device,
             DeviceStep(d)
      PROVE  KeptInv'
  <2>1. \A e \in Device \ {d} : Apart(e)
    BY <1>2, Frame DEF TypeInv
  <2>2. StepKeeps(d)
    BY <1>2, UnlockStepKeeps, LoginStepKeeps, ConnectStepKeeps, RekeyStepKeeps, ChangeStepKeeps, ResetStepKeeps
    DEF DeviceStep
  <2>3. swaps \subseteq swaps' /\ refused \subseteq refused'
    BY <1>2, HistoryGrows
  <2>5. ResetIsKept'
    BY <1>2, <2>1, <2>2, <2>3, KeptOn DEF KeptInv, StepKeeps, Apart
  <2> QED
    BY <1>2, <2>1, <2>2, <2>3, <2>5, ApartInOrder, TellsInOrder DEF TypeInv, KeptInv, StepKeeps
<1>3. KeptInv /\ UNCHANGED vars => KeptInv'
  BY DEF KeptInv, InOrder, HandsInOrder, ResetIsKept, Made, Swapped, Waiting, Making, Changing, Confirming,
    Resetting, InHand, Logging, At, vars, serverVars, deviceVars, historyVars
<1> QED
  BY <1>1, <1>2, <1>3, Steps

(* A reset that works on its device stays until the server has it or       *)
(* refuses it, or a newer one takes its place: no unlock, login, rekey or  *)
(* password change drops it (unlockLocal, useConnectServer,                *)
(* recoverOnDevice).                                                       *)
THEOREM ResetKept == Spec => []ResetIsKept
<1>1. KeptInv => ResetIsKept
  BY DEF KeptInv
<1>2. Spec => []KeptInv
  BY AlwaysTyped, AlwaysUnencumbered, InitKept, KeptStep, PTL DEF Spec
<1> QED
  BY <1>1, <1>2, PTL
-------------------------------------------------------------------------------
(***************************************************************************)
(* The keys are in order on the server and on the devices.                 *)
(***************************************************************************)
LEMMA InitOrder == Init => OrderInv
BY DEF Init, OrderInv, LateTypes, HereTypes, LiveHasTheWraps, RecordOpensTheKeySet, Waiting, Fresh, Logging, Idle, At

(* What a step does on the server; no swap means the same wraps there.     *)
ServerOrder == ~stray' => ~stray /\ LateTypes' /\ record' = keySet'.password

SameWraps == ~stray' => ~stray /\ ServerWrap' = ServerWrap

LEMMA ApartOrder ==
  ASSUME NEW e \in Device, DeviceTyped(e), Apart(e), LiveHasTheWraps(e), SameWraps \/ CutOff(e)
  PROVE  LiveHasTheWraps(e)'
<1>1. /\ flow'[e].at = flow[e].at /\ (Logging(flow'[e]) <=> Logging(flow[e]))
      /\ Logging(flow[e]) => flow'[e].for = flow[e].for
      /\ session[e] = "none" => session'[e] = "none"
  BY ApartFlow DEF Logging
<1>2. CASE CutOff(e)
  <2>1. ~Fresh(flow'[e]) /\ session'[e] # "live"
    BY <1>2, ApartFlow
  <2> QED
    BY <1>1, <2>1 DEF LiveHasTheWraps
<1>3. CASE SameWraps /\ flow'[e] = flow[e] /\ session'[e] = session[e]
  BY <1>3 DEF Apart, LiveHasTheWraps, SameWraps
<1> QED
  BY <1>2, <1>3 DEF Apart

(* A request in flight types the password it wraps.                        *)
LEMMA InFlightTypes ==
  ASSUME TypeInv, OrderInv, NEW d \in Device
  PROVE  /\ At(d, "finish") => /\ PendingRequest(d) \in Request
                               /\ ~stray => PendingRequest(d).typed = PendingRequest(d).secret
         /\ At(d, "change") => ChangeRequest(d) \in Request /\ ChangeRequest(d).typed = ChangeRequest(d).secret
         /\ At(d, "reset") => ResetRequest(d) \in Request /\ ResetRequest(d).typed = ResetRequest(d).secret
         /\ ~stray => \A r \in InFlight(d) : r.typed = r.secret
<1>a. DeviceTyped(d) /\ (~stray => HereTypes(d))
  BY DEF TypeInv, OrderInv
<1>1. At(d, "finish") => /\ PendingRequest(d) \in Request
                         /\ ~stray => PendingRequest(d).typed = PendingRequest(d).secret
  <2>1. At(d, "finish") => local[d] \in Wrap /\ local[d].pending # NoReset /\ unlocked[d] # 0
    BY <1>a, InFlow DEF DeviceTyped, LockFits, At
  <2> QED
    BY <1>a, <2>1, RequestsTyped, PasswordAssumption DEF HereTypes, Waiting, PendingRequest
<1>2. At(d, "change") => ChangeRequest(d) \in Request /\ ChangeRequest(d).typed = ChangeRequest(d).secret
  BY <1>a, RequestsTyped DEF ChangeRequest
<1>3. At(d, "reset") => ResetRequest(d) \in Request /\ ResetRequest(d).typed = ResetRequest(d).secret
  BY <1>a, RequestsTyped DEF ResetRequest
<1> QED
  BY <1>1, <1>2, <1>3 DEF InFlight

(* A step without a swap; some requests may be given up on.                *)
LEMMA SameServerOrder ==
  ASSUME OrderInv, UNCHANGED <<record, keySet>>, stray' = stray, \A r \in late' : r \in late \/ r.typed = r.secret
  PROVE  ServerOrder /\ SameWraps
BY DEF OrderInv, ServerOrder, RecordOpensTheKeySet, LateTypes, SameWraps, ServerWrap

LEMMA SwapOrder ==
  ASSUME OrderInv, ServerTyped, NEW request \in Request, Swap(request), stray' = stray, late' \subseteq late,
         ~stray => request.typed = request.secret
  PROVE  ServerOrder
BY SwapTyped DEF OrderInv, ServerOrder, LateTypes

StepOrder(d) ==
  /\ ServerOrder
  /\ SameWraps \/ \A e \in Device \ {d} : CutOff(e)
  /\ ~stray' => HereTypes(d)'
  /\ LiveHasTheWraps(d)'

(* A device without a login whose session didn't become live.              *)
LEMMA QuietOrder ==
  ASSUME NEW d \in Device, LiveHasTheWraps(d), ~Logging(flow'[d]),
         flow'[d].at \in {"login", "finish", "confirm", "store"} => session'[d] = "none",
         \/ session'[d] # "live"
         \/ SameWraps /\ session'[d] = session[d] /\ local'[d] = local[d]
  PROVE  LiveHasTheWraps(d)'
BY DEF LiveHasTheWraps, SameWraps, Fresh, Logging

LEMMA UnlockStepOrder ==
  ASSUME TypeInv, OrderInv, NEW d \in Device, UnlockStep(d)
  PROVE  StepOrder(d)
<1>a. Shapes /\ ServerTyped /\ DeviceTyped(d) /\ LiveHasTheWraps(d) /\ (~stray => HereTypes(d))
  BY DEF TypeInv, OrderInv
<1>1. stray' = stray /\ flow'[d].at = "idle" /\ ~Logging(flow'[d]) /\ local'[d] = local[d] /\ session'[d] = "none"
  BY <1>a DEF UnlockStep, UnlockHere, Lock, Crash, Detached, End, Shapes, historyVars, DeviceTyped, Idle, Logging
<1>2. CASE stray
  BY <1>a, <1>1, <1>2, QuietOrder DEF StepOrder, ServerOrder, SameWraps
<1>3. CASE ~stray
  <2>1. \A r \in late' : r \in late \/ r.typed = r.secret
    BY <1>3, InFlightTypes DEF UnlockStep, UnlockHere, Lock, Crash, serverVars
  <2>2. ServerOrder /\ SameWraps
    BY <1>1, <2>1, SameServerOrder DEF UnlockStep, UnlockHere, Lock, Crash, serverVars
  <2>3. unlocked'[d] = 0 \/ (unlocked'[d] = local[d].password /\ unlocked[d] = 0)
    BY <1>a DEF UnlockStep, UnlockHere, Lock, Crash, Shapes
  <2>4. HereTypes(d)'
    BY <1>a, <1>1, <1>3, <2>3 DEF HereTypes, Waiting
  <2> QED
    BY <1>a, <1>1, <2>2, <2>4, QuietOrder DEF StepOrder
<1> QED
  BY <1>2, <1>3

LEMMA LoginStepOrder ==
  ASSUME TypeInv, Unencumbered, OrderInv, NEW d \in Device, LoginStep(d)
  PROVE  StepOrder(d)
<1>a. /\ Shapes /\ ServerTyped /\ DeviceTyped(d) /\ LiveHasTheWraps(d) /\ (~stray => HereTypes(d))
      /\ NothingWaits(d)
  BY DEF TypeInv, OrderInv, Unencumbered
<1>b. UNCHANGED <<serverVars, historyVars>> /\ LoginDoes(d)
  BY LoginEffects
<1>c. ServerOrder /\ SameWraps /\ ServerWrap' = ServerWrap /\ stray' = stray
  BY <1>b, SameServerOrder DEF serverVars, historyVars, ServerWrap
<1>h. local'[d] = local[d] /\ unlocked'[d] = unlocked[d] => (~stray' => HereTypes(d)')
  BY <1>a, <1>c DEF HereTypes, Waiting
<1>1. CASE Begins(d)
  <2>1. PICK for \in {"unlock", "connect", "change"} :
          /\ \E password : flow'[d] = [at |-> "checked", for |-> for, password |-> password, cut |-> FALSE]
          /\ local'[d] = local[d] /\ unlocked'[d] = unlocked[d]
          /\ for = "unlock" => unlocked[d] = 0
          /\ session'[d] = IF for = "connect" THEN "none" ELSE session[d]
          /\ for = "change" => session[d] # "none"
    BY <1>1 DEF Begins
  <2>2. flow'[d].at = "checked" /\ flow'[d].for = for
    BY <2>1
  <2>3. for # "change" => session'[d] = "none"
    BY <1>a, <2>1 DEF DeviceTyped
  <2>4. LiveHasTheWraps(d)'
    BY <1>a, <1>c, <2>1, <2>2, <2>3 DEF LiveHasTheWraps, Logging
  <2> QED
    BY <1>c, <1>h, <2>1, <2>4 DEF StepOrder
<1>2. CASE GoesOn(d)
  <2>1. /\ Logging(flow[d]) /\ Logging(flow'[d]) /\ flow'[d].for = flow[d].for
        /\ flow'[d].at \in {"read", "save"}
    BY <1>2 DEF GoesOn, Logging, At
  <2>2. Fresh(flow'[d]) => Fresh(flow[d])
    BY <1>2 DEF GoesOn, Fresh, At
  <2>3. ~stray /\ Fresh(flow'[d]) => flow'[d].wrap = ServerWrap
    BY <1>a, <1>2, <2>2 DEF GoesOn, LiveHasTheWraps, At
  <2>4. LiveHasTheWraps(d)'
    BY <1>a, <1>2, <1>c, <2>1, <2>2, <2>3 DEF GoesOn, LiveHasTheWraps
  <2> QED
    BY <1>c, <1>h, <1>2, <2>4 DEF StepOrder, GoesOn
<1>3. CASE Drops(d)
  <2>1. LiveHasTheWraps(d)'
    BY <1>a, <1>c, <1>3, IdleTyped, QuietOrder DEF Drops
  <2> QED
    BY <1>c, <1>h, <1>3, <2>1 DEF StepOrder, Drops
<1>4. CASE Saves(d)
  <2>1. ~Waiting(d)'
    BY <1>a, <1>4 DEF Saves, NothingWaits, Waiting, At
  <2>2. session'[d] = "live" => Fresh(flow[d])
    BY <1>a, <1>4 DEF Saves, Fresh, DeviceTyped, At
  <2>3. ~stray /\ session'[d] = "live" => local'[d] = ServerWrap
    BY <1>a, <1>4, <2>2 DEF Saves, LiveHasTheWraps, At
  <2>4. LiveHasTheWraps(d)'
    BY <1>c, <1>4, <2>3, IdleTyped DEF Saves, LiveHasTheWraps, Fresh
  <2> QED
    BY <1>c, <2>1, <2>4 DEF StepOrder, HereTypes
<1> QED
  BY <1>b, <1>1, <1>2, <1>3, <1>4 DEF LoginDoes

LEMMA ConnectStepOrder ==
  ASSUME TypeInv, Unencumbered, OrderInv, NEW d \in Device, ConnectStep(d)
  PROVE  StepOrder(d)
<1>a. /\ Shapes /\ ServerTyped /\ DeviceTyped(d) /\ LiveHasTheWraps(d) /\ (~stray => HereTypes(d))
      /\ NothingWaits(d)
  BY DEF TypeInv, OrderInv, Unencumbered
<1>b. stray' = stray
  BY DEF ConnectStep, SendPending, FinishPending, BreakPending, LosePending
<1>k. local'[d] = local[d] /\ unlocked'[d] = unlocked[d] => (~stray' => HereTypes(d)')
  BY <1>a, <1>b DEF HereTypes, Waiting
<1>l. LiveHasTheWraps(d)'
  <2>1. session'[d] = "none"
    BY <1>a DEF ConnectStep, SendPending, FinishPending, BreakPending, LosePending, Detached, RevokeAll, SwapOnly,
      Passed, Shapes, LiveHasTheWraps, At
  <2>2. ~Logging(flow'[d])
    BY <1>a DEF ConnectStep, SendPending, FinishPending, BreakPending, LosePending, Refuse, RevokeFlows, SwapOnly,
      End, Idle, Shapes, Logging
  <2> QED
    BY <1>a, <2>1, <2>2, QuietOrder
<1>u. Refuse(d) \/ local' = Unsent(d) => (local[d] \in Wrap => ~Waiting(d)')
  BY <1>a DEF Refuse, Unsent, Shapes, Wrap, Waiting
<1>1. CASE SendPending(d)
  <2>1. local[d] \in Wrap
    BY <1>a, <1>1, InFlow DEF SendPending, Connects
  <2>2. ~stray' => HereTypes(d)'
    BY <1>k, <1>u, <1>1, <2>1 DEF SendPending, HereTypes
  <2> QED
    BY <1>b, <1>l, <1>1, <2>2, SameServerOrder DEF SendPending, StepOrder, serverVars
<1>2. CASE FinishPending(d)
  <2>1. local[d] \in Wrap
    BY <1>a, <1>2, InFlow DEF FinishPending, At
  <2>2. ~stray' => HereTypes(d)'
    BY <1>u, <1>2, <2>1 DEF FinishPending, HereTypes
  <2>3. CASE Swap(PendingRequest(d)) /\ RevokeAll /\ RevokeFlows(d, [at |-> "login"])
    <3>1. ServerOrder
      BY <1>a, <1>b, <1>2, <2>3, InFlightTypes, SwapOrder DEF FinishPending
    <3>2. \A e \in Device \ {d} : CutOff(e)
      BY <2>3 DEF RevokeAll, RevokeFlows, CutOff
    <3> QED
      BY <1>l, <2>2, <3>1, <3>2 DEF StepOrder
  <2>4. CASE UNCHANGED <<record, keySet>>
    BY <1>b, <1>l, <1>2, <2>2, <2>4, SameServerOrder DEF FinishPending, StepOrder
  <2> QED
    BY <1>2, <2>3, <2>4 DEF FinishPending
<1>3. CASE BreakPending(d)
  <2>1. ServerOrder
    BY <1>a, <1>b, <1>3, InFlightTypes, SwapOrder DEF BreakPending, SwapOnly
  <2>2. \A e \in Device \ {d} : CutOff(e)
    BY <1>3 DEF BreakPending, SwapOnly, CutOff
  <2> QED
    BY <1>k, <1>l, <1>3, <2>1, <2>2 DEF BreakPending, StepOrder
<1>4. CASE LosePending(d)
  <2>1. ServerOrder /\ SameWraps
    <3>1. CASE ~stray
      BY <1>b, <1>4, <3>1, InFlightTypes, SameServerOrder DEF LosePending, GiveUp
    <3> QED
      BY <1>b, <3>1 DEF ServerOrder, SameWraps
  <2> QED
    BY <1>k, <1>l, <1>4, <2>1 DEF LosePending, StepOrder
<1> QED
  BY <1>1, <1>2, <1>3, <1>4 DEF ConnectStep

LEMMA RekeyStepOrder ==
  ASSUME TypeInv, OrderInv, NEW d \in Device, RekeyStep(d)
  PROVE  StepOrder(d)
<1>a. Shapes /\ ServerTyped /\ DeviceTyped(d) /\ LiveHasTheWraps(d) /\ (~stray => HereTypes(d))
  BY DEF TypeInv, OrderInv
<1>1. flow'[d] = flow[d] /\ session'[d] = session[d] /\ unlocked'[d] = unlocked[d]
  BY DEF RekeyStep, SendRekey, CommitRekey, SaveRekey
<1>o. SameWraps /\ (~stray' => local'[d] = local[d]) => LiveHasTheWraps(d)' /\ (~stray' => HereTypes(d)')
  BY <1>a, <1>1 DEF SameWraps, LiveHasTheWraps, HereTypes, Waiting
<1>2. CASE SendRekey(d)
  BY <1>o, <1>2, SameServerOrder DEF SendRekey, historyVars, serverVars, StepOrder
<1>3. CASE CommitRekey(d)
  <2>1. rekey[d].fresh /\ keySet' = [keySet EXCEPT !.id = keySet.id + 1, !.password = rekey[d].password, !.weak = FALSE]
    BY <1>a, <1>3 DEF CommitRekey, DeviceTyped, RekeyTyped
  <2>2. keySet \in KeySet
    BY <1>a DEF ServerTyped
  <2>3. ~stray' => ~stray /\ rekey[d].password = record /\ record = keySet.password
    BY <1>3, <2>1 DEF CommitRekey, OrderInv, RecordOpensTheKeySet
  <2>4. ~stray' => keySet'.password = keySet.password /\ keySet'.recovery = keySet.recovery
    BY <2>1, <2>2, <2>3 DEF KeySet
  <2>5. ServerOrder /\ SameWraps
    BY <1>3, <2>3, <2>4 DEF CommitRekey, ServerOrder, OrderInv, LateTypes, SameWraps, ServerWrap
  <2> QED
    BY <1>o, <1>3, <2>5 DEF CommitRekey, StepOrder
<1>4. CASE SaveRekey(d)
  <2>1. ~stray' => ~stray /\ local'[d] = local[d]
    <3>1. CASE local[d] # NoProfile /\ local' = [local EXCEPT ![d].password = rekey[d].password]
               /\ stray' = (stray \/ local[d].password # rekey[d].password)
      <4>1. local[d] \in Wrap /\ local'[d] = [local[d] EXCEPT !.password = rekey[d].password]
        BY <1>a, <3>1 DEF DeviceTyped, Shapes
      <4> QED
        BY <3>1, <4>1 DEF Wrap
    <3>2. CASE UNCHANGED <<local, stray>>
      BY <3>2
    <3> QED
      BY <1>4, <3>1, <3>2 DEF SaveRekey
  <2>2. ServerOrder /\ SameWraps
    BY <1>4, <2>1 DEF SaveRekey, serverVars, ServerOrder, OrderInv, RecordOpensTheKeySet, LateTypes, SameWraps,
      ServerWrap
  <2> QED
    BY <1>o, <2>1, <2>2 DEF StepOrder
<1> QED
  BY <1>2, <1>3, <1>4 DEF RekeyStep

LEMMA ChangeStepOrder ==
  ASSUME TypeInv, Unencumbered, OrderInv, NEW d \in Device, ChangeStep(d)
  PROVE  StepOrder(d)
<1>a. /\ Shapes /\ ServerTyped /\ DeviceTyped(d) /\ LiveHasTheWraps(d) /\ FlowTyped(flow[d]) /\ NothingWaits(d)
  BY DEF TypeInv, OrderInv, Unencumbered, DeviceTyped
<1>b. stray' = stray
  BY DEF ChangeStep, StartChange, TakeChange, RefuseChange, BreakChange, LoseChange, StoreChange, ConfirmChange,
    SaveConfirm, DropConfirm
<1>h. HereTypes(d)'
  BY <1>a, ChangeWaitsNot DEF HereTypes, Waiting
<1>1. ASSUME NEW n \in Secret, StartChange(d, n) PROVE StepOrder(d)
  <2>1. flow'[d].at \in {"change", "idle"} /\ ~Logging(flow'[d]) /\ local'[d] = local[d]
    BY <1>a, <1>1 DEF StartChange, End, Idle, Shapes, Logging
  <2>2. ServerOrder /\ SameWraps
    BY <1>1, SameServerOrder DEF StartChange, serverVars
  <2>3. session'[d] = "live" => Fresh(flow[d]) /\ flow[d].for = "change" /\ session[d] # "past"
    BY <1>a, <1>1 DEF StartChange, LoggedIn, Fresh, Shapes, At
  <2>4. session'[d] = "live" => session'[d] = session[d]
    BY <1>a, <2>3 DEF DeviceTyped, LiveHasTheWraps
  <2> QED
    BY <1>a, <1>h, <2>1, <2>2, <2>4, QuietOrder DEF StepOrder
<1>2. CASE TakeChange(d)
  <2>1. flow'[d].at = "store" /\ session'[d] = "none" /\ ~Logging(flow'[d])
    BY <1>a, <1>2 DEF TakeChange, RevokeAll, RevokeFlows, Logging
  <2>2. ServerOrder
    BY <1>a, <1>b, <1>2, InFlightTypes, SwapOrder DEF TakeChange
  <2>3. \A e \in Device \ {d} : CutOff(e)
    BY <1>2 DEF TakeChange, RevokeAll, RevokeFlows, CutOff
  <2> QED
    BY <1>a, <1>h, <2>1, <2>2, <2>3, QuietOrder DEF StepOrder
<1>3. CASE BreakChange(d)
  <2>1. flow'[d].at = "idle" /\ ~Logging(flow'[d]) /\ session'[d] # "live"
    BY <1>a, <1>3 DEF BreakChange, SwapOnly, Passed, Idle, Logging
  <2>2. ServerOrder
    BY <1>a, <1>b, <1>3, InFlightTypes, SwapOrder DEF BreakChange, SwapOnly
  <2>3. \A e \in Device \ {d} : CutOff(e)
    BY <1>3 DEF BreakChange, SwapOnly, CutOff
  <2> QED
    BY <1>a, <1>h, <2>1, <2>2, <2>3, QuietOrder DEF StepOrder
<1>4. CASE LoseChange(d)
  <2>1. flow'[d].at = "confirm" /\ session'[d] = "none" /\ ~Logging(flow'[d])
    BY <1>a, <1>4 DEF LoseChange, AfterNoAnswer, Shapes, FlowTyped, ChangeFlow, Logging, At
  <2>2. ServerOrder /\ SameWraps
    BY <1>b, <1>4, InFlightTypes, SameServerOrder DEF LoseChange, GiveUp
  <2> QED
    BY <1>a, <1>h, <2>1, <2>2, QuietOrder DEF StepOrder
<1>5. CASE RefuseChange(d) \/ StoreChange(d) \/ DropConfirm(d)
  <2>1. flow'[d].at = "idle" /\ ~Logging(flow'[d]) /\ session'[d] = session[d]
    BY <1>a, <1>5 DEF RefuseChange, StoreChange, DropConfirm, End, Idle, Shapes, Logging
  <2>2. ServerOrder /\ SameWraps
    BY <1>5, SameServerOrder DEF RefuseChange, StoreChange, DropConfirm, serverVars
  <2>3. session'[d] = "none" \/ local'[d] = local[d]
    BY <1>a, <1>5 DEF RefuseChange, StoreChange, DropConfirm, LiveHasTheWraps, At
  <2> QED
    BY <1>a, <1>h, <2>1, <2>2, <2>3, QuietOrder DEF StepOrder
<1>6. CASE ConfirmChange(d)
  <2>1. /\ session'[d] = "none"
        /\ \/ flow'[d] = Idle
           \/ flow'[d] = [at |-> "checked", for |-> "confirm", password |-> flow[d].to, cut |-> FALSE]
    BY <1>a, <1>6 DEF ConfirmChange, LogIn, End, Shapes, LiveHasTheWraps, At
  <2>2. ServerOrder /\ SameWraps
    BY <1>6, SameServerOrder DEF ConfirmChange, serverVars
  <2>3. LiveHasTheWraps(d)'
    BY <2>1 DEF LiveHasTheWraps, Fresh, Logging, Idle
  <2> QED
    BY <1>h, <2>2, <2>3 DEF StepOrder
<1>7. CASE SaveConfirm(d)
  <2>1. flow'[d].at = "idle" /\ ~Logging(flow'[d]) /\ local'[d] = flow[d].wrap /\ session'[d] = flow[d].session
    BY <1>a, <1>7 DEF SaveConfirm, SaveWraps, Attach, End, Idle, Shapes, Logging
  <2>2. ServerOrder /\ SameWraps /\ ServerWrap' = ServerWrap
    BY <1>7, SameServerOrder DEF SaveConfirm, serverVars, ServerWrap
  <2>3. ~stray /\ session'[d] = "live" => local'[d] = ServerWrap
    BY <1>a, <1>7, <2>1 DEF SaveConfirm, LoggedIn, LiveHasTheWraps, Fresh, At
  <2>4. LiveHasTheWraps(d)'
    BY <1>b, <2>1, <2>2, <2>3 DEF LiveHasTheWraps, Fresh
  <2> QED
    BY <1>h, <2>2, <2>4 DEF StepOrder
<1> QED
  BY <1>1, <1>2, <1>3, <1>4, <1>5, <1>6, <1>7 DEF ChangeStep

LEMMA ResetStepOrder ==
  ASSUME TypeInv, OrderInv, NEW d \in Device, ResetStep(d)
  PROVE  StepOrder(d)
<1>a. Shapes /\ ServerTyped /\ DeviceTyped(d) /\ FlowTyped(flow[d]) /\ LiveHasTheWraps(d) /\ (~stray => HereTypes(d))
  BY DEF TypeInv, OrderInv, DeviceTyped
<1>b. stray' = stray /\ unlocked' = unlocked
  BY DEF ResetStep, StartReset, ProveReset, TakeReset, BreakReset, LoseServerReset, KeepReset, StoreReset
<1>l. LiveHasTheWraps(d)'
  <2>1. flow'[d].at \in {"idle", "prove", "reset", "keep"}
    BY <1>a, IdleTyped DEF Shapes, ResetStep, StartReset, ProveReset, TakeReset, BreakReset, LoseServerReset,
      KeepReset, StoreReset, SwapOnly, RevokeFlows, End, At, FlowTyped, ResetFlow
  <2>2. session'[d] = "none"
    BY <1>a, InFlow DEF DeviceTyped, ResetStep, StartReset, ProveReset, TakeReset, BreakReset, LoseServerReset,
      KeepReset, StoreReset, SwapOnly, RevokeAll, Passed, At
  <2> QED
    BY <1>a, <2>1, <2>2, QuietOrder DEF Logging
<1>k. local' = local => (~stray' => HereTypes(d)')
  BY <1>a, <1>b DEF HereTypes, Waiting
<1>w. flow[d].at \in {"prove", "reset"} /\ flow[d].here /\ StoreUnsent(d) => HereTypes(d)'
  <2> SUFFICES ASSUME flow[d].at \in {"prove", "reset"}, flow[d].here, StoreUnsent(d) PROVE HereTypes(d)'
    OBVIOUS
  <2>1. unlocked'[d] = 0 /\ local'[d] = [password |-> flow[d].secret, recovery |-> flow[d].secret,
                                         pending |-> [secret |-> flow[d].secret, proof |-> flow[d].proof]]
    BY <1>a, <1>b, InFlow DEF StoreUnsent, Shapes
  <2> QED
    BY <2>1 DEF HereTypes
<1>1. ASSUME NEW n \in Secret, NEW key \in shown, StartReset(d, n, key) PROVE StepOrder(d)
  BY <1>l, <1>k, <1>1, SameServerOrder DEF StartReset, StepOrder, serverVars
<1>2. CASE ProveReset(d)
  BY <1>l, <1>k, <1>2, SameServerOrder DEF ProveReset, StepOrder, serverVars
<1>3. CASE TakeReset(d)
  <2>1. CASE Swap(ResetRequest(d)) /\ RevokeAll /\ RevokeFlows(d, [flow[d] EXCEPT !.at = "keep"])
    <3>1. ServerOrder
      BY <1>a, <1>b, <1>3, <2>1, InFlightTypes, SwapOrder DEF TakeReset
    <3>2. \A e \in Device \ {d} : CutOff(e)
      BY <2>1 DEF RevokeAll, RevokeFlows, CutOff
    <3> QED
      BY <1>l, <1>k, <1>3, <3>1, <3>2 DEF TakeReset, StepOrder
  <2>2. CASE UNCHANGED <<record, keySet>>
    BY <1>l, <1>k, <1>3, <2>2, SameServerOrder DEF TakeReset, StepOrder
  <2> QED
    BY <1>3, <2>1, <2>2 DEF TakeReset
<1>4. CASE BreakReset(d)
  <2>1. ServerOrder
    BY <1>a, <1>b, <1>4, InFlightTypes, SwapOrder DEF BreakReset, SwapOnly
  <2>2. \A e \in Device \ {d} : CutOff(e)
    BY <1>4 DEF BreakReset, SwapOnly, CutOff
  <2>3. ~stray' => HereTypes(d)'
    BY <1>k, <1>w, <1>4 DEF BreakReset, At
  <2> QED
    BY <1>l, <2>1, <2>2, <2>3 DEF StepOrder
<1>5. CASE LoseServerReset(d)
  BY <1>l, <1>k, <1>5, InFlightTypes, SameServerOrder DEF LoseServerReset, GiveUp, StepOrder
<1>6. CASE KeepReset(d)
  <2>1. \A r \in late' : r \in late \/ r.typed = r.secret
    BY <1>6, InFlightTypes DEF KeepReset, GiveUp
  <2>2. ServerOrder /\ SameWraps
    BY <1>b, <1>6, <2>1, SameServerOrder DEF KeepReset
  <2> QED
    BY <1>l, <1>w, <1>6, <2>2 DEF KeepReset, StepOrder
<1>7. CASE StoreReset(d)
  <2>1. ServerOrder /\ SameWraps
    BY <1>7, SameServerOrder DEF StoreReset, serverVars
  <2>2. local'[d] = local[d] \/ ~Waiting(d)'
    BY <1>a, <1>7 DEF StoreReset, Waiting, Shapes
  <2> QED
    BY <1>a, <1>b, <1>l, <2>1, <2>2 DEF StepOrder, HereTypes, Waiting
<1> QED
  BY <1>1, <1>2, <1>3, <1>4, <1>5, <1>6, <1>7 DEF ResetStep

LEMMA OrderStep == TypeInv /\ Unencumbered /\ OrderInv /\ [Next]_vars => OrderInv'
<1>1. ASSUME TypeInv, OrderInv, NEW request \in late, ArriveLate(request) PROVE OrderInv'
  <2>1. \A e \in Device : Apart(e) /\ CutOff(e)
    BY <1>1, LateFrame DEF TypeInv, ArriveLate, RevokeAll, CutOff
  <2>2. request \in Request /\ (~stray => request.typed = request.secret)
    BY <1>1 DEF TypeInv, ServerTyped, OrderInv, LateTypes
  <2>3. ServerOrder /\ stray' = stray
    BY <1>1, <2>2, SwapOrder DEF TypeInv, ArriveLate
  <2>4. \A e \in Device : LiveHasTheWraps(e)'
    BY <1>1, <2>1, ApartOrder DEF TypeInv, OrderInv
  <2>5. ~stray' => \A e \in Device : HereTypes(e)'
    BY <1>1, <2>1, <2>3 DEF OrderInv, HereTypes, Waiting, Apart
  <2> QED
    BY <2>3, <2>4, <2>5 DEF OrderInv, ServerOrder, RecordOpensTheKeySet
<1>2. ASSUME TypeInv, Unencumbered, OrderInv, NEW d \in Device, DeviceStep(d) PROVE OrderInv'
  <2>1. \A e \in Device \ {d} : Apart(e)
    BY <1>2, Frame DEF TypeInv
  <2>2. StepOrder(d)
    BY <1>2, UnlockStepOrder, LoginStepOrder, ConnectStepOrder, RekeyStepOrder, ChangeStepOrder, ResetStepOrder
      DEF DeviceStep
  <2>3. \A e \in Device : LiveHasTheWraps(e)'
    BY <1>2, <2>1, <2>2, ApartOrder DEF TypeInv, OrderInv, StepOrder
  <2>4. ~stray' => \A e \in Device : HereTypes(e)'
    BY <1>2, <2>1, <2>2 DEF OrderInv, StepOrder, ServerOrder, HereTypes, Waiting, Apart
  <2> QED
    BY <2>2, <2>3, <2>4 DEF OrderInv, StepOrder, ServerOrder, RecordOpensTheKeySet
<1>3. OrderInv /\ UNCHANGED vars => OrderInv'
  BY DEF OrderInv, RecordOpensTheKeySet, LateTypes, HereTypes, LiveHasTheWraps, Waiting, ServerWrap, At,
    vars, serverVars, deviceVars, historyVars
<1> QED
  BY <1>1, <1>2, <1>3, Steps

(* The account's keys are in order on the server and on every device whose *)
(* session no swap came after: whatever logins, changes, resets and rekeys *)
(* run side by side, step by step, the password that logs in opens the     *)
(* account key, unless a rekey strays (finishLogin, finishPasswordChange,  *)
(* finishRecovery, rekeyPasswordKeys, attach). Not said of the sessions    *)
(* past a swap: of a login the swap fell into after its check, or of a     *)
(* swap whose revocation failed.                                           *)
THEOREM Ordered == Spec => []KeysInOrder
<1>1. TypeInv /\ OrderInv => KeysInOrder
  <2> SUFFICES ASSUME TypeInv, OrderInv PROVE KeysInOrder
    OBVIOUS
  <2>1. local = [d \in Device |-> local[d]] /\ \A d \in Device : local[d] \in Wrap \cup {NoProfile}
    BY DEF TypeInv, Shapes, DeviceTyped
  <2>2. unlocked = [d \in Device |-> unlocked[d]] /\ \A d \in Device : unlocked[d] \in {0} \cup Secret
    BY DEF TypeInv, Shapes, DeviceTyped
  <2>3. session = [d \in Device |-> session[d]] /\ \A d \in Device : session[d] \in {"none", "live", "past"}
    BY DEF TypeInv, Shapes, DeviceTyped
  <2>4. TypeOK
    BY <2>1, <2>2, <2>3 DEF TypeInv, ServerTyped, DeviceTyped, TypeOK
  <2>5. LiveIsCurrent
    BY DEF OrderInv, RecordOpensTheKeySet, LiveHasTheWraps, LiveIsCurrent
  <2> QED
    BY <2>4, <2>5 DEF OrderInv, KeysInOrder
<1>2. Spec => [](TypeInv /\ OrderInv)
  BY AlwaysTyped, AlwaysUnencumbered, InitOrder, OrderStep, PTL DEF Spec
<1> QED
  BY <1>1, <1>2, PTL
-------------------------------------------------------------------------------
(***************************************************************************)
(* What the users are told of their secrets.                               *)
(***************************************************************************)
(* A step of d tells of the secret it has in hand, or takes up the next.   *)
TellsOwn(d) ==
  \/ told' = told
  \/ \E n \in Secret : told[n] = "unmade" /\ Tell(n, "making")
  \/ Making(d) /\ \E what \in {"done", "failed", "unsure", "waits"} : Tell(InHand(d), what)

(* Or of the reset that waits on it: these are the secrets it may send.    *)
Its(d, n) == told[n] = "waits" \/ (Making(d) /\ n = InHand(d))

SwapsOwn(d) == swaps \subseteq swaps' /\ \A n \in Secret : Swapped(n)' => Swapped(n) \/ Its(d, n)

SendsOwn(d) ==
  \A r \in late' : r \in late \/
    (r \in Request /\ Its(d, r.secret) /\ (r.kind = "reset" => r.secret \in (shown \cup wiped)'))

HoldsOwn(d) ==
  /\ Making(d)' => (Making(d) /\ InHand(d)' = InHand(d)) \/ told[InHand(d)'] = "unmade"
  /\ Hand(d)' /\ WaitsTold(d)'

(* Failed means never, or an exception; done means swapped.                *)
TellsRight ==
  \A n \in Secret :
    /\ told'[n] = "failed" /\ told[n] # "failed" =>
         Excepted(n)' \/ (~Swapped(n)' /\ \A r \in late' : r.secret # n)
    /\ told'[n] = "done" /\ told[n] # "done" => Swapped(n)'

HistoryKept ==
  shown \subseteq shown' /\ wiped \subseteq wiped' /\ erred \subseteq erred' /\ denied \subseteq denied'

StepTells(d) == TellsOwn(d) /\ SwapsOwn(d) /\ SendsOwn(d) /\ HoldsOwn(d) /\ TellsRight /\ HistoryKept

(* Only a secret in hand or a fresh one is told of.                        *)
LEMMA ToldOthers ==
  ASSUME TypeInv, ToldInv, NEW d \in Device, TellsOwn(d), NEW n \in Secret,
         told[n] \notin {"making", "unmade"} \/ (told[n] = "making" /\ ~(Making(d) /\ n = InHand(d)))
  PROVE  told'[n] = told[n]
<1>1. Making(d) => told[InHand(d)] = "making"
  BY DEF ToldInv, Hand
<1> QED
  BY <1>1 DEF TypeInv, ServerTyped, TellsOwn, Tell

LEMMA OthersHold ==
  ASSUME TypeInv, ToldInv, NEW d \in Device, NEW e \in Device, d # e, Apart(e),
         TellsOwn(d), SwapsOwn(d), SendsOwn(d), HistoryKept
  PROVE  /\ Hand(e)' /\ WaitsTold(e)'
         /\ (Making(e)' <=> Making(e)) /\ (Making(e) => InHand(e)' = InHand(e))
<1>a. DeviceTyped(e) /\ Hand(e) /\ WaitsTold(e)
  BY DEF TypeInv, ToldInv
<1>2. flow'[e].at = flow[e].at /\ (Making(e)' <=> Making(e)) /\ (Confirming(e)' <=> Confirming(e))
  BY <1>a, ApartInHand
<1>3. Making(e) => InHand(e)' = InHand(e) /\ InHand(e) \in Secret
  BY <1>a, ApartInHand, HandsTyped
<1>4. ASSUME Making(e) PROVE Hand(e)'
  <2>1. PICK n \in Secret : n = InHand(e) /\ InHand(e)' = n
    BY <1>3, <1>4
  <2>2. told[n] = "making" /\ n # 1 /\ ~Its(d, n)
    BY <1>a, <1>4, <2>1 DEF Hand, Its, ToldInv, HandsApart
  <2>3. told'[n] = "making"
    BY <2>2, ToldOthers DEF Its
  <2>4. Swapped(n)' <=> Swapped(n)
    BY <2>2, SwappedGrows DEF SwapsOwn
  <2>5. (\A r \in late : r.secret # n) => \A r \in late' : r.secret # n
    BY <2>2 DEF SendsOwn
  <2> QED
    BY <1>a, <1>2, <1>4, <2>1, <2>2, <2>3, <2>4, <2>5 DEF Hand, Swapped
<1>5. WaitsTold(e)'
  <2>1. local'[e] = local[e] /\ (Waiting(e)' <=> Waiting(e))
    BY DEF Apart, Waiting
  <2>2. Waiting(e) => told'[local[e].pending.secret] = "waits"
    BY <1>a, WaitingTyped, ToldOthers DEF WaitsTold
  <2> QED
    BY <1>a, <2>1, <2>2 DEF WaitsTold, HistoryKept
<1> QED
  BY <1>2, <1>3, <1>4, <1>5 DEF Hand

LEMMA ToldOn ==
  ASSUME TypeInv, ToldInv, NEW d \in Device, StepTells(d), \A e \in Device \ {d} : Apart(e)
  PROVE  ToldInv'
<1>u. TellsOwn(d) /\ SwapsOwn(d) /\ SendsOwn(d) /\ HoldsOwn(d) /\ TellsRight /\ HistoryKept
  BY DEF StepTells
<1>0. \A n \in Secret : Excepted(n) => Excepted(n)'
  BY <1>u DEF Excepted, HistoryKept
<1>m. \A n \in Secret : Made(n) => Made(n)'
  BY <1>u DEF TellsOwn, Tell, Made, TypeInv, ServerTyped
<1>1. told'[1] = "done"
  BY <1>u, Secrets, ToldOthers DEF ToldInv
<1>2. \A n \in Secret : Swapped(n)' => Made(n)'
  BY <1>u, <1>m DEF SwapsOwn, Its, ToldInv, Made, Hand
<1>3. \A e \in Device : Hand(e)' /\ WaitsTold(e)'
  BY <1>u, OthersHold DEF HoldsOwn
<1>4. HandsApart'
  <2> SUFFICES ASSUME NEW e \in Device, NEW f \in Device, Making(e)', Making(f)', e # f
               PROVE  InHand(e)' # InHand(f)'
    BY DEF HandsApart
  <2>1. \A g \in Device \ {d} : Making(g)' => Making(g) /\ InHand(g)' = InHand(g) /\ told[InHand(g)] = "making"
    BY <1>u, OthersHold DEF ToldInv, Hand
  <2>2. Making(d)' => (Making(d) /\ InHand(d)' = InHand(d)) \/ told[InHand(d)'] = "unmade"
    BY <1>u DEF HoldsOwn
  <2> QED
    BY <2>1, <2>2 DEF ToldInv, HandsApart
<1>5. LateTold'
  <2> SUFFICES ASSUME NEW r \in late'
               PROVE  /\ Made(r.secret)' /\ (told'[r.secret] = "failed" => Excepted(r.secret)')
                      /\ r.kind = "reset" => r.secret \in (shown \cup wiped)'
    BY DEF LateTold
  <2>1. PICK n \in Secret : n = r.secret
    BY <1>u DEF SendsOwn, TypeInv, ServerTyped, Request
  <2>2. Made(n) /\ (told[n] = "failed" => Excepted(n)) /\ (r.kind = "reset" => n \in (shown \cup wiped)')
    BY <1>u, <2>1 DEF SendsOwn, ToldInv, LateTold, Its, Made, Hand, HistoryKept
  <2>3. told'[n] = "failed" => Excepted(n)'
    BY <1>u, <1>0, <2>1, <2>2 DEF TellsRight
  <2> QED
    BY <1>m, <2>1, <2>2, <2>3 DEF Made, Excepted
<1>6. ToldTruly'
  <2> SUFFICES ASSUME NEW n \in Secret, n # 1
               PROVE  /\ told'[n] = "failed" => ~Swapped(n)' \/ Excepted(n)'
                      /\ told'[n] = "done" => Swapped(n)'
    BY DEF ToldTruly, Swapped, Excepted
  <2>1. CASE told[n] = "failed"
    <3>1. told'[n] = "failed" /\ ~Its(d, n)
      BY <1>u, <2>1, ToldOthers DEF Its, ToldInv, Hand
    <3>2. ~Swapped(n) \/ Excepted(n)
      BY <2>1 DEF ToldInv, ToldTruly, Swapped, Excepted
    <3> QED
      BY <1>u, <1>0, <3>1, <3>2 DEF SwapsOwn
  <2>2. CASE told[n] = "done"
    <3>1. told'[n] = "done" /\ Swapped(n)
      BY <1>u, <2>2, ToldOthers DEF ToldInv, ToldTruly, Swapped
    <3> QED
      BY <1>u, <3>1, SwappedGrows DEF SwapsOwn
  <2>3. CASE told[n] \notin {"failed", "done"}
    BY <1>u, <2>3 DEF TellsRight
  <2> QED
    BY <2>1, <2>2, <2>3
<1> QED
  BY <1>1, <1>2, <1>3, <1>4, <1>5, <1>6 DEF ToldInv

(* Steps that tell nothing, swap nothing and send nothing.                 *)
LEMMA TellsNothing ==
  ASSUME ToldInv, NEW d \in Device, told' = told, UNCHANGED <<swaps, late>>, HistoryKept, HoldsOwn(d)
  PROVE  StepTells(d)
BY DEF StepTells, TellsOwn, SwapsOwn, SendsOwn, TellsRight, Swapped

LEMMA SwapsOne ==
  ASSUME NEW d \in Device, NEW request, Swap(request), Its(d, request.secret)
  PROVE  SwapsOwn(d) /\ \A n \in Secret : n = request.secret => Swapped(n)'
<1> DEFINE new == [secret |-> request.secret, proof |-> request.proof, past |-> request.past,
                   was |-> IF request.kind = "reset" THEN keySet.recovery ELSE record]
<1>1. swaps' = swaps \cup {new} /\ new.secret = request.secret
  BY DEF Swap
<1> QED
  BY <1>1 DEF SwapsOwn, Swapped

LEMMA UnlockStepTells ==
  ASSUME TypeInv, ToldInv, NEW d \in Device, UnlockStep(d)
  PROVE  StepTells(d)
<1>a. Shapes /\ DeviceTyped(d) /\ WaitsTold(d) /\ Hand(d)
  BY DEF TypeInv, ToldInv
<1>1. flow'[d].at = "idle" \/ (flow'[d] = flow[d] /\ flow[d].at = "idle")
  BY <1>a DEF Shapes, UnlockStep, UnlockHere, Lock, Crash, End, Idle
<1>2. told' = told /\ swaps' = swaps /\ local' = local /\ HistoryKept
  BY DEF UnlockStep, UnlockHere, Lock, Crash, serverVars, historyVars, HistoryKept
<1>3. HoldsOwn(d)
  BY <1>a, <1>1, <1>2 DEF HoldsOwn, Hand, WaitsTold, Waiting, Making, Changing, Confirming, Resetting, Logging,
    HistoryKept
<1>4. CASE UNCHANGED late
  BY <1>2, <1>3, <1>4, TellsNothing
<1>5. CASE Crash(d)
  <2>1. ASSUME NEW r \in InFlight(d)
        PROVE  r \in Request /\ Its(d, r.secret) /\ (r.kind = "reset" => r.secret \in (shown \cup wiped)')
    <3>0. r \in Request
      BY <1>a, RequestsTyped
    <3>1. CASE At(d, "finish")
      <4>1. r = PendingRequest(d) /\ Waiting(d)
        BY <1>a, <2>1, <3>1, InFlow, PasswordAssumption DEF InFlight, DeviceTyped, LockFits, Waiting, At
      <4> QED
        BY <1>a, <1>2, <3>0, <4>1 DEF PendingRequest, WaitsTold, Its, HistoryKept
    <3>2. CASE At(d, "change")
      <4>1. r = ChangeRequest(d) /\ Making(d) /\ InHand(d) = flow[d].to
        BY <1>a, <2>1, <3>2, HandsTyped DEF InFlight, Making, At
      <4> QED
        BY <3>0, <4>1 DEF ChangeRequest, Its
    <3>3. CASE At(d, "reset")
      <4>1. r = ResetRequest(d) /\ Making(d) /\ InHand(d) = flow[d].secret /\ flow[d] \in ResetFlow
        BY <1>a, <2>1, <3>3 DEF InFlight, Making, Resetting, InHand, DeviceTyped, FlowTyped, At
      <4>2. "secret" \in DOMAIN flow[d]
        BY <4>1 DEF ResetFlow
      <4>3. flow[d].secret \in wiped'
        BY <1>5, <4>2 DEF Crash
      <4> QED
        BY <3>0, <4>1, <4>3 DEF ResetRequest, Its
    <3> QED
      BY <2>1, <3>1, <3>2, <3>3 DEF InFlight
  <2>2. SendsOwn(d)
    BY <1>5, <2>1 DEF SendsOwn, Crash
  <2> QED
    BY <1>2, <1>3, <2>2 DEF StepTells, TellsOwn, SwapsOwn, TellsRight, Swapped
<1> QED
  BY <1>4, <1>5 DEF UnlockStep, UnlockHere, Lock, serverVars

LEMMA LoginStepTells ==
  ASSUME TypeInv, Unencumbered, ToldInv, NEW d \in Device, LoginStep(d)
  PROVE  StepTells(d)
<1>a. Shapes /\ DeviceTyped(d) /\ WaitsTold(d) /\ Hand(d) /\ NothingWaits(d)
  BY DEF TypeInv, ToldInv, Unencumbered
<1>b. LoginDoes(d) /\ told' = told /\ UNCHANGED <<swaps, late>> /\ HistoryKept
  BY LoginEffects DEF serverVars, historyVars, HistoryKept
<1>1. local'[d] = local[d] \/ ~Waiting(d)'
  BY <1>a, <1>b DEF LoginDoes, Begins, GoesOn, Drops, Saves, NothingWaits, Waiting, At
<1>2. WaitsTold(d)'
  BY <1>a, <1>b, <1>1 DEF WaitsTold, Waiting, HistoryKept
<1>3. Making(d)' => Making(d) /\ InHand(d)' = InHand(d) /\ Confirming(d) /\ Confirming(d)'
  BY LoginInHand DEF Making, Changing
<1>4. Hand(d)'
  <2> SUFFICES ASSUME Making(d)' PROVE Hand(d)'
    BY DEF Hand
  <2>1. Swapped(InHand(d)) /\ InHand(d) # 1 /\ told[InHand(d)] = "making"
    BY <1>a, <1>3 DEF Hand
  <2>2. Swapped(InHand(d))'
    BY <1>b, <1>3, <2>1 DEF Swapped
  <2>3. flow'[d].at \notin {"change", "prove", "reset"}
    BY <1>3 DEF Confirming, Logging
  <2> QED
    BY <1>b, <1>3, <2>1, <2>2, <2>3 DEF Hand
<1> QED
  BY <1>b, <1>2, <1>3, <1>4, TellsNothing DEF HoldsOwn

LEMMA RekeyStepTells ==
  ASSUME TypeInv, ToldInv, NEW d \in Device, RekeyStep(d)
  PROVE  StepTells(d)
<1>a. Shapes /\ DeviceTyped(d) /\ WaitsTold(d) /\ Hand(d)
  BY DEF TypeInv, ToldInv
<1>1. flow' = flow /\ told' = told /\ UNCHANGED <<swaps, late>> /\ HistoryKept
  BY DEF RekeyStep, SendRekey, CommitRekey, SaveRekey, serverVars, historyVars, HistoryKept
<1>2. local'[d].pending = local[d].pending /\ (Waiting(d)' => Waiting(d))
  <2>1. CASE local' = local
    BY <2>1 DEF Waiting
  <2>2. CASE local[d] # NoProfile /\ local' = [local EXCEPT ![d].password = rekey[d].password]
    <3>1. local[d] \in Wrap /\ local'[d] = [local[d] EXCEPT !.password = rekey[d].password]
      BY <1>a, <2>2 DEF DeviceTyped, Shapes
    <3>2. local'[d].pending = local[d].pending
      BY <3>1 DEF Wrap
    <3> QED
      BY <2>2, <3>2 DEF Waiting
  <2> QED
    BY <2>1, <2>2 DEF RekeyStep, SendRekey, CommitRekey, SaveRekey
<1>3. HoldsOwn(d)
  BY <1>a, <1>1, <1>2 DEF HoldsOwn, Hand, WaitsTold, Making, Changing, Confirming, Resetting, Logging, InHand, Swapped,
    HistoryKept
<1> QED
  BY <1>1, <1>3, TellsNothing

LEMMA ConnectStepTells ==
  ASSUME TypeInv, ToldInv, NEW d \in Device, ConnectStep(d)
  PROVE  StepTells(d)
<1>a. Shapes /\ DeviceTyped(d) /\ WaitsTold(d) /\ ServerTyped
  BY DEF TypeInv, ToldInv
<1>1. told' = told /\ HistoryKept /\ flow'[d].at \in {"idle", "login", "finish"}
  BY <1>a DEF ConnectStep, SendPending, FinishPending, BreakPending, LosePending, Refuse, SwapOnly, RevokeFlows,
    Shapes, End, Idle, HistoryKept
<1>2. ~Making(d)'
  BY <1>1 DEF Making, Changing, Confirming, Resetting, Logging
<1>3. Waiting(d)' => Waiting(d) /\ local'[d].pending = local[d].pending
  <2>1. SendPending(d) \/ FinishPending(d) => local[d] \in Wrap
    BY <1>a, InFlow DEF SendPending, FinishPending, Connects, At
  <2> QED
    BY <1>a, <2>1 DEF ConnectStep, SendPending, FinishPending, BreakPending, LosePending, Refuse, Unsent,
      Waiting, Shapes, Wrap
<1>4. At(d, "finish") => PendingRequest(d) \in Request /\ Its(d, PendingRequest(d).secret)
                         /\ PendingRequest(d).secret \in shown
  <2>1. At(d, "finish") => Waiting(d)
    BY <1>a, InFlow, PasswordAssumption DEF DeviceTyped, LockFits, Waiting, At
  <2> QED
    BY <1>a, <2>1, RequestsTyped DEF WaitsTold, Its, PendingRequest
<1>5. HoldsOwn(d)
  BY <1>a, <1>1, <1>2, <1>3 DEF HoldsOwn, Hand, WaitsTold, HistoryKept
<1>6. CASE SendPending(d)
  BY <1>1, <1>5, <1>6, TellsNothing DEF SendPending, serverVars
<1>7. CASE FinishPending(d) \/ BreakPending(d)
  <2>1. late' = late /\ At(d, "finish")
    BY <1>7 DEF FinishPending, BreakPending
  <2>2. CASE Swap(PendingRequest(d))
    BY <1>1, <1>4, <1>5, <2>1, <2>2, SwapsOne DEF StepTells, TellsOwn, SendsOwn, TellsRight
  <2>3. CASE swaps' = swaps
    BY <1>1, <1>5, <2>1, <2>3, TellsNothing
  <2> QED
    BY <1>7, <2>2, <2>3 DEF FinishPending, BreakPending, SwapOnly
<1>8. CASE LosePending(d)
  <2>1. late' = late \cup {PendingRequest(d)} /\ swaps' = swaps /\ At(d, "finish")
    BY <1>8 DEF LosePending, GiveUp
  <2> QED
    BY <1>1, <1>4, <1>5, <2>1 DEF StepTells, TellsOwn, SwapsOwn, SendsOwn, TellsRight, Swapped, HistoryKept
<1> QED
  BY <1>6, <1>7, <1>8 DEF ConnectStep

LEMMA ChangeStepTells ==
  ASSUME TypeInv, Unencumbered, ToldInv, PasswordsKnown, NEW d \in Device, ChangeStep(d)
  PROVE  StepTells(d)
<1>a. Shapes /\ DeviceTyped(d) /\ FlowTyped(flow[d]) /\ ServerTyped /\ Hand(d) /\ NothingWaits(d)
  BY DEF TypeInv, ToldInv, Unencumbered, DeviceTyped
<1>h. WaitsTold(d)' /\ HistoryKept
  BY <1>a, ChangeWaitsNot DEF WaitsTold, Waiting, ChangeStep, StartChange, TakeChange, RefuseChange, BreakChange,
    LoseChange, StoreChange, ConfirmChange, SaveConfirm, DropConfirm, SwapOnly, HistoryKept
<1>i. ~Making(d) /\ flow'[d] = Idle => HoldsOwn(d)
  BY <1>h DEF HoldsOwn, Hand, Making, Changing, Confirming, Resetting, Logging, Idle
<1>1. ASSUME NEW n \in Secret, StartChange(d, n) PROVE StepTells(d)
  <2>0. UNCHANGED <<swaps, late>>
    BY <1>1 DEF StartChange, serverVars
  <2>1. CASE told' = told /\ End(d)
    <3>1. ~Making(d) /\ flow'[d] = Idle
      BY <1>a, <1>1, <2>1 DEF StartChange, LoggedIn, End, Shapes, At, Making, Changing, Confirming, Resetting
    <3> QED
      BY <1>h, <1>i, <2>0, <2>1, <3>1, TellsNothing
  <2>2. CASE Makes(n) /\ Tell(n, "making") /\ flow'[d].at = "change" /\ flow'[d].to = n
    <3>1. told[n] = "unmade" /\ told' = [told EXCEPT ![n] = "making"] /\ n # 1
      BY <2>2 DEF Makes, Tell, ToldInv
    <3>2. ~Swapped(n) /\ \A r \in late : r.secret # n
      BY <3>1 DEF ToldInv, LateTold, Made
    <3>3. InHand(d)' = n /\ ~Confirming(d)'
      BY <2>2 DEF Resetting, Confirming, Logging, InHand
    <3>4. HoldsOwn(d)
      BY <1>a, <1>h, <2>0, <2>2, <3>1, <3>2, <3>3 DEF HoldsOwn, Hand, Swapped, ServerTyped
    <3> QED
      BY <1>a, <1>h, <2>0, <3>1, <3>4
        DEF StepTells, TellsOwn, Tell, SwapsOwn, SendsOwn, TellsRight, Swapped, ServerTyped
  <2> QED
    BY <1>a, <1>1, <2>1, <2>2 DEF StartChange, Shapes
<1>b. ASSUME Changing(d)
      PROVE  /\ Making(d) /\ InHand(d) \in Secret /\ InHand(d) # 1
             /\ told[InHand(d)] = "making" /\ Its(d, InHand(d))
  BY <1>a, <1>b, HandsTyped DEF Making, Hand, Its
<1>c. flow[d].at \in {"change", "confirm", "store"} => Changing(d) /\ InHand(d) = flow[d].to
  BY <1>a, HandsTyped
<1>r. At(d, "change") => ChangeRequest(d) \in Request /\ ChangeRequest(d).secret = InHand(d)
                         /\ ChangeRequest(d).kind = "change"
  BY <1>a, <1>c, RequestsTyped DEF ChangeRequest, At
<1>2. CASE TakeChange(d)
  <2>1. flow'[d].at = "store" /\ flow'[d].to = flow[d].to /\ told' = told /\ late' = late /\ At(d, "change")
    BY <1>a, <1>2 DEF TakeChange, RevokeFlows
  <2>2. SwapsOwn(d) /\ \A n \in Secret : n = InHand(d) => Swapped(n)'
    BY <1>b, <1>c, <1>r, <1>2, <2>1, SwapsOne DEF TakeChange, At
  <2>3. InHand(d)' = InHand(d) /\ ~Confirming(d)' /\ Changing(d)
    BY <1>c, <2>1 DEF Resetting, Confirming, Logging, InHand, At
  <2>4. Swapped(InHand(d))'
    BY <1>b, <2>2, <2>3 DEF Swapped
  <2>5. HoldsOwn(d)
    BY <1>b, <1>h, <2>1, <2>3, <2>4 DEF HoldsOwn, Hand
  <2> QED
    BY <1>h, <2>1, <2>2, <2>5 DEF StepTells, TellsOwn, SendsOwn, TellsRight
<1>3. CASE LoseChange(d)
  <2>1. flow'[d] = [flow[d] EXCEPT !.at = "confirm"] /\ told' = told /\ swaps' = swaps
        /\ late' = late \cup {ChangeRequest(d)} /\ At(d, "change")
    BY <1>a, <1>3 DEF LoseChange, AfterNoAnswer, GiveUp, Shapes
  <2>2. flow'[d].at = "confirm" /\ flow'[d].to = flow[d].to
    BY <1>a, <2>1 DEF FlowTyped, ChangeFlow, At
  <2>3. InHand(d)' = InHand(d) /\ ~Confirming(d)' /\ Changing(d)
    BY <1>c, <2>1, <2>2 DEF Resetting, Confirming, Logging, InHand, At
  <2>4. HoldsOwn(d)
    BY <1>b, <1>h, <2>1, <2>2, <2>3 DEF HoldsOwn, Hand
  <2> QED
    BY <1>b, <1>h, <1>r, <2>1, <2>3, <2>4 DEF StepTells, TellsOwn, SwapsOwn, SendsOwn, TellsRight, Swapped
<1>4. ASSUME Changing(d), flow'[d] = Idle, late' = late, SwapsOwn(d),
             NEW what \in {"done", "failed", "unsure"}, Tell(InHand(d), what),
             \A n \in Secret : n = InHand(d) =>
               /\ what = "failed" => Excepted(n)' \/ (~Swapped(n)' /\ \A r \in late : r.secret # n)
               /\ what = "done" => Swapped(n)'
      PROVE  StepTells(d)
  <2>1. HoldsOwn(d)
    BY <1>h, <1>4 DEF HoldsOwn, Hand, Making, Changing, Confirming, Resetting, Logging, Idle
  <2>2. TellsOwn(d)
    BY <1>b, <1>4 DEF TellsOwn
  <2>3. \A n \in Secret : told'[n] = IF n = InHand(d) THEN what ELSE told[n]
    BY <1>a, <1>b, <1>4 DEF Tell, ServerTyped
  <2>4. TellsRight
    BY <1>4, <2>3 DEF TellsRight
  <2> QED
    BY <1>h, <1>4, <2>1, <2>2, <2>4 DEF StepTells, SendsOwn
<1>s. swaps' = swaps => SwapsOwn(d) /\ \A n \in Secret : Swapped(n)' <=> Swapped(n)
  BY DEF SwapsOwn, Swapped
<1>5. CASE RefuseChange(d)
  <2>1. flow'[d] = Idle /\ late' = late /\ swaps' = swaps /\ Tell(InHand(d), "failed") /\ At(d, "change") /\ Changing(d)
    BY <1>a, <1>c, <1>5 DEF RefuseChange, End, Shapes, serverVars, At
  <2>2. ~Swapped(InHand(d)) /\ \A r \in late : r.secret # InHand(d)
    BY <1>a, <1>b, <2>1 DEF Hand, At
  <2> QED
    BY <1>s, <1>4, <2>1, <2>2
<1>6. CASE BreakChange(d)
  <2>1. /\ flow'[d] = Idle /\ late' = late /\ Tell(InHand(d), "failed") /\ At(d, "change") /\ Changing(d)
        /\ ChangeRequest(d).secret \in erred'
    BY <1>a, <1>c, <1>6 DEF BreakChange, SwapOnly, At
  <2>2. SwapsOwn(d)
    BY <1>b, <1>r, <1>6, <2>1, SwapsOne DEF BreakChange, SwapOnly
  <2>3. \A n \in Secret : n = InHand(d) => Excepted(n)'
    BY <1>r, <2>1 DEF Excepted
  <2> QED
    BY <1>4, <2>1, <2>2, <2>3
<1>7. CASE StoreChange(d)
  <2>1. flow'[d] = Idle /\ late' = late /\ swaps' = swaps /\ At(d, "store") /\ Changing(d)
    BY <1>a, <1>c, <1>7 DEF StoreChange, End, Shapes, serverVars, At
  <2>2. Swapped(InHand(d))
    BY <1>a, <1>b, <2>1 DEF Hand, At
  <2>3. PICK what \in {"done", "failed"} :
          Tell(InHand(d), what) /\ (what = "failed" => InHand(d) \in erred')
    BY <1>c, <1>7 DEF StoreChange, At
  <2>4. \A n \in Secret : n = InHand(d) => (what = "failed" => Excepted(n)')
    BY <2>3 DEF Excepted
  <2> QED
    BY <1>s, <1>4, <2>1, <2>2, <2>3, <2>4
<1>8. CASE ConfirmChange(d)
  <2>1. late' = late /\ swaps' = swaps /\ At(d, "confirm") /\ Changing(d) /\ InHand(d) = flow[d].to
    BY <1>c, <1>8 DEF ConfirmChange, serverVars, At
  <2>2. CASE LogIn(d, "confirm", flow[d].to) /\ told' = told
    <3>1. flow'[d] = [at |-> "checked", for |-> "confirm", password |-> flow[d].to, cut |-> FALSE]
          /\ record = InHand(d)
      BY <1>a, <2>1, <2>2 DEF LogIn, Shapes
    <3>2. Swapped(InHand(d))
      BY <1>b, <2>1, <3>1 DEF PasswordsKnown, ServerKnown, Known
    <3>3. InHand(d)' = InHand(d) /\ Confirming(d)' /\ flow'[d].at = "checked"
      BY <2>1, <3>1 DEF Resetting, Confirming, Logging, InHand
    <3>4. Swapped(InHand(d))'
      BY <2>1, <3>2, <3>3 DEF Swapped
    <3>5. HoldsOwn(d)
      BY <1>b, <1>h, <2>1, <2>2, <3>3, <3>4 DEF HoldsOwn, Hand
    <3> QED
      BY <1>h, <2>1, <2>2, <3>5, TellsNothing
  <2>3. CASE Tell(flow[d].to, "failed") /\ flow[d].to \in denied' /\ End(d)
    <3>1. flow'[d] = Idle
      BY <1>a, <2>3 DEF End, Shapes
    <3>2. \A n \in Secret : n = InHand(d) => Excepted(n)'
      BY <2>1, <2>3 DEF Excepted
    <3> QED
      BY <1>s, <1>4, <2>1, <2>3, <3>1, <3>2
  <2> QED
    BY <1>8, <2>2, <2>3 DEF ConfirmChange
<1>9. CASE SaveConfirm(d)
  <2>1. /\ flow'[d] = Idle /\ late' = late /\ swaps' = swaps /\ Confirming(d)
        /\ Tell(flow[d].password, "done")
    BY <1>a, <1>9 DEF SaveConfirm, LoggedIn, Confirming, Logging, End, Shapes, serverVars, At
  <2>2. Changing(d) /\ InHand(d) = flow[d].password
    BY <1>a, <2>1, HandsTyped DEF Changing
  <2>3. Swapped(InHand(d))
    BY <1>a, <1>b, <2>1, <2>2 DEF Hand
  <2> QED
    BY <1>s, <1>4, <2>1, <2>2, <2>3
<1>10. CASE DropConfirm(d)
  <2>1. Changing(d) /\ InHand(d) = Tested(flow[d])
    BY <1>a, <1>10, HandsTyped DEF DropConfirm, Tested, Changing, Confirming, Logging, At
  <2>2. flow'[d] = Idle /\ late' = late /\ swaps' = swaps /\ Tell(InHand(d), "unsure")
    BY <1>a, <1>10, <2>1 DEF DropConfirm, End, Shapes, serverVars
  <2> QED
    BY <1>s, <1>4, <2>1, <2>2
<1> QED
  BY <1>1, <1>2, <1>3, <1>5, <1>6, <1>7, <1>8, <1>9, <1>10 DEF ChangeStep

LEMMA ResetStepTells ==
  ASSUME TypeInv, ToldInv, NEW d \in Device, ResetStep(d)
  PROVE  StepTells(d)
<1>a. Shapes /\ DeviceTyped(d) /\ ServerTyped /\ Hand(d) /\ WaitsTold(d)
  BY DEF TypeInv, ToldInv
<1>h. HistoryKept
  BY DEF ResetStep, StartReset, ProveReset, TakeReset, BreakReset, LoseServerReset, KeepReset, StoreReset, StoreUnsent,
    SwapOnly, HistoryKept
(* The reset that waits still waits, unless the step stores another one.   *)
<1>w. TellsOwn(d) /\ (local'[d] = local[d] \/ ~Waiting(d)') => WaitsTold(d)'
  <2> SUFFICES ASSUME TellsOwn(d), local'[d] = local[d], Waiting(d)' PROVE WaitsTold(d)'
    BY DEF WaitsTold
  <2>1. Waiting(d) /\ told[local[d].pending.secret] = "waits" /\ local[d].pending.secret \in shown
    BY <1>a DEF WaitsTold, Waiting
  <2>2. told'[local[d].pending.secret] = "waits"
    BY <1>a, <2>1, WaitingTyped, ToldOthers
  <2> QED
    BY <1>h, <2>1, <2>2 DEF WaitsTold, HistoryKept
<1>s. swaps' = swaps => SwapsOwn(d) /\ \A n \in Secret : Swapped(n)' <=> Swapped(n)
  BY DEF SwapsOwn, Swapped
<1>1. ASSUME NEW n \in Secret, NEW key \in shown, StartReset(d, n, key) PROVE StepTells(d)
  <2>1. told[n] = "unmade" /\ told' = [told EXCEPT ![n] = "making"] /\ n # 1
    BY <1>1 DEF StartReset, Makes, Tell, ToldInv
  <2>2. flow'[d].at = "prove" /\ flow'[d].secret = n /\ UNCHANGED <<swaps, late, local>>
    BY <1>a, <1>1 DEF StartReset, Shapes, serverVars
  <2>3. ~Swapped(n) /\ \A r \in late : r.secret # n
    BY <2>1 DEF ToldInv, LateTold, Made
  <2>4. ~Confirming(d)' /\ InHand(d)' = n
    BY <2>2 DEF Confirming, Logging, Resetting, InHand
  <2>5. TellsOwn(d)
    BY <2>1 DEF TellsOwn, Tell
  <2>6. HoldsOwn(d)
    BY <1>a, <1>w, <2>1, <2>2, <2>3, <2>4, <2>5 DEF HoldsOwn, Hand, Swapped, ServerTyped
  <2> QED
    BY <1>a, <1>h, <1>s, <2>1, <2>2, <2>5, <2>6 DEF StepTells, SendsOwn, TellsRight, ServerTyped
<1>b. ASSUME Resetting(d)
      PROVE  /\ Making(d) /\ InHand(d) = flow[d].secret /\ flow[d].secret \in Secret
             /\ flow[d].secret # 1 /\ told[flow[d].secret] = "making" /\ Its(d, flow[d].secret)
  BY <1>a, <1>b, ResetInHand DEF Hand, Its
<1>r. At(d, "reset") => ResetRequest(d) \in Request /\ ResetRequest(d).secret = flow[d].secret
  BY <1>a, RequestsTyped DEF ResetRequest
(* A step that ends the reset and tells of it.                             *)
<1>2. ASSUME Resetting(d), flow'[d] = Idle, SendsOwn(d), SwapsOwn(d), WaitsTold(d)',
             NEW what \in {"done", "failed", "waits"}, Tell(flow[d].secret, what),
             \A n \in Secret : n = flow[d].secret =>
               /\ what = "failed" => Excepted(n)' \/ (~Swapped(n)' /\ \A r \in late' : r.secret # n)
               /\ what = "done" => Swapped(n)'
      PROVE  StepTells(d)
  <2>1. HoldsOwn(d)
    BY <1>2 DEF HoldsOwn, Hand, Making, Changing, Confirming, Resetting, Logging, Idle
  <2>2. TellsOwn(d)
    BY <1>b, <1>2 DEF TellsOwn
  <2>3. \A n \in Secret : told'[n] = IF n = flow[d].secret THEN what ELSE told[n]
    BY <1>a, <1>b, <1>2 DEF Tell, ServerTyped
  <2>4. TellsRight
    BY <1>2, <2>3 DEF TellsRight
  <2> QED
    BY <1>h, <1>2, <2>1, <2>2, <2>4 DEF StepTells
<1>t. ASSUME Resetting(d), NEW what \in {"done", "failed", "waits"}, Tell(flow[d].secret, what) PROVE TellsOwn(d)
  BY <1>b, <1>t DEF TellsOwn
(* The server or the check refuses it.                                     *)
<1>f. ASSUME flow[d].at \in {"prove", "reset"}, End(d), Tell(flow[d].secret, "failed"), UNCHANGED <<swaps, late, local>>
      PROVE  StepTells(d)
  <2>1. Resetting(d) /\ flow'[d] = Idle
    BY <1>a, <1>f DEF Resetting, End, Shapes
  <2>2. ~Swapped(flow[d].secret) /\ \A r \in late : r.secret # flow[d].secret
    BY <1>a, <1>b, <1>f, <2>1 DEF Hand
  <2>3. SendsOwn(d)
    BY <1>f DEF SendsOwn
  <2>4. WaitsTold(d)'
    BY <1>f, <1>t, <1>w, <2>1
  <2> QED
    BY <1>f, <1>s, <1>2, <2>1, <2>2, <2>3, <2>4
<1>3. CASE ProveReset(d)
  <2>1. CASE Proves(flow[d].proof)
    <3>1. /\ flow'[d].at = "reset" /\ flow'[d].secret = flow[d].secret
          /\ told' = told /\ UNCHANGED <<swaps, late, local>> /\ At(d, "prove")
      BY <1>a, <1>3, <2>1 DEF ProveReset, Shapes, serverVars
    <3>2. Resetting(d) /\ ~Confirming(d)' /\ InHand(d)' = flow[d].secret
      BY <3>1 DEF Resetting, Confirming, Logging, InHand, At
    <3>3. TellsOwn(d)
      BY <3>1 DEF TellsOwn
    <3>4. HoldsOwn(d)
      BY <1>a, <1>b, <1>w, <3>1, <3>2, <3>3 DEF HoldsOwn, Hand, Swapped, At
    <3> QED
      BY <1>h, <3>1, <3>4, TellsNothing
  <2>2. CASE ~Proves(flow[d].proof)
    BY <1>3, <1>f, <2>2 DEF ProveReset, At, serverVars
  <2> QED
    BY <2>1, <2>2
<1>4. CASE TakeReset(d)
  <2>1. CASE Swap(ResetRequest(d)) /\ told' = told /\ flow'[d] = [flow[d] EXCEPT !.at = "keep"]
    <3>1. flow'[d].at = "keep" /\ flow'[d].secret = flow[d].secret /\ At(d, "reset") /\ UNCHANGED <<late, local>>
      BY <1>a, <1>4, <2>1 DEF TakeReset, DeviceTyped, FlowTyped, ResetFlow, At
    <3>2. Resetting(d) /\ ~Confirming(d)' /\ InHand(d)' = flow[d].secret
      BY <3>1 DEF Resetting, Confirming, Logging, InHand, At
    <3>3. SwapsOwn(d) /\ \A n \in Secret : n = flow[d].secret => Swapped(n)'
      BY <1>b, <1>r, <2>1, <3>1, <3>2, SwapsOne
    <3>4. TellsOwn(d)
      BY <2>1 DEF TellsOwn
    <3>5. Swapped(InHand(d))'
      BY <1>b, <3>2, <3>3 DEF Swapped
    <3>6. HoldsOwn(d)
      BY <1>b, <1>w, <2>1, <3>1, <3>2, <3>4, <3>5 DEF HoldsOwn, Hand
    <3> QED
      BY <1>h, <2>1, <3>1, <3>3, <3>4, <3>6 DEF StepTells, SendsOwn, TellsRight
  <2>2. CASE End(d) /\ Tell(flow[d].secret, "failed") /\ swaps' = swaps
    BY <1>4, <1>f, <2>2 DEF TakeReset, At
  <2> QED
    BY <1>a, <1>4, <2>1, <2>2 DEF TakeReset, RevokeFlows, Shapes
<1>5. CASE LoseServerReset(d)
  <2>1. /\ Resetting(d) /\ flow'[d] = Idle /\ late' = late \cup {ResetRequest(d)} /\ UNCHANGED <<swaps, local>>
        /\ Tell(flow[d].secret, "failed") /\ At(d, "reset") /\ flow[d].secret \in wiped'
    BY <1>a, <1>5 DEF LoseServerReset, GiveUp, End, Shapes, Resetting, At
  <2>2. SendsOwn(d)
    BY <1>b, <1>r, <2>1 DEF SendsOwn
  <2>3. WaitsTold(d)'
    BY <1>t, <1>w, <2>1
  <2>4. \A n \in Secret : n = flow[d].secret => Excepted(n)'
    BY <2>1 DEF Excepted
  <2> QED
    BY <1>s, <1>2, <2>1, <2>2, <2>3, <2>4
<1>6. CASE KeepReset(d)
  <2>1. /\ Resetting(d) /\ flow'[d] = Idle /\ swaps' = swaps
        /\ late' = late \/ (At(d, "reset") /\ late' = late \cup {ResetRequest(d)})
        /\ Tell(flow[d].secret, "waits") /\ flow[d].secret \in shown'
        /\ local'[d].pending.secret = flow[d].secret
    BY <1>a, <1>6 DEF KeepReset, StoreUnsent, GiveUp, End, Shapes, Resetting, At
  <2>2. SendsOwn(d)
    BY <1>b, <1>r, <2>1 DEF SendsOwn
  <2>3. told'[flow[d].secret] = "waits"
    BY <1>a, <1>b, <2>1 DEF Tell, ServerTyped
  <2>4. WaitsTold(d)'
    BY <2>1, <2>3 DEF WaitsTold
  <2> QED
    BY <1>s, <1>2, <2>1, <2>2, <2>4
<1>8. CASE BreakReset(d)
  <2>1. Resetting(d) /\ flow'[d] = Idle /\ late' = late /\ At(d, "reset")
    BY <1>a, <1>8 DEF BreakReset, SwapOnly, Resetting, At
  <2>2. SendsOwn(d)
    BY <2>1 DEF SendsOwn
  <2>3. SwapsOwn(d)
    BY <1>b, <1>r, <1>8, <2>1, SwapsOne DEF BreakReset, SwapOnly
  <2>4. CASE StoreUnsent(d)
    <3>1. Tell(flow[d].secret, "waits") /\ flow[d].secret \in shown' /\ local'[d].pending.secret = flow[d].secret
      BY <1>a, <2>4 DEF StoreUnsent, Shapes
    <3>2. told'[flow[d].secret] = "waits"
      BY <1>a, <1>b, <2>1, <3>1 DEF Tell, ServerTyped
    <3>3. WaitsTold(d)'
      BY <3>1, <3>2 DEF WaitsTold
    <3> QED
      BY <1>2, <2>1, <2>2, <2>3, <3>1, <3>3
  <2>5. CASE Tell(flow[d].secret, "failed") /\ flow[d].secret \in wiped' /\ local' = local
    <3>1. WaitsTold(d)'
      BY <1>t, <1>w, <2>1, <2>5
    <3>2. \A n \in Secret : n = flow[d].secret => Excepted(n)'
      BY <2>5 DEF Excepted
    <3> QED
      BY <1>2, <2>1, <2>2, <2>3, <2>5, <3>1, <3>2
  <2> QED
    BY <1>8, <2>4, <2>5 DEF BreakReset
<1>7. CASE StoreReset(d)
  <2>1. /\ Resetting(d) /\ flow'[d] = Idle /\ UNCHANGED <<swaps, late>> /\ At(d, "keep")
        /\ local'[d] = local[d] \/ ~Waiting(d)'
    BY <1>a, <1>7 DEF StoreReset, End, Shapes, Resetting, Waiting, serverVars, At
  <2>2. PICK what \in {"done", "failed"} :
          Tell(flow[d].secret, what) /\ (what = "failed" => flow[d].secret \in wiped')
    BY <1>7 DEF StoreReset
  <2>3. WaitsTold(d)'
    BY <1>t, <1>w, <2>1, <2>2
  <2>4. \A n \in Secret : n = flow[d].secret => (what = "failed" => Excepted(n)') /\ Swapped(n)'
    BY <1>a, <1>b, <1>s, <2>1, <2>2 DEF Excepted, Hand, At
  <2>5. SendsOwn(d)
    BY <2>1 DEF SendsOwn
  <2> QED
    BY <1>s, <1>2, <2>1, <2>2, <2>3, <2>4, <2>5
<1> QED
  BY <1>1, <1>3, <1>4, <1>5, <1>6, <1>7, <1>8 DEF ResetStep

(* The passwords in use stay known.                                        *)
LEMMA KnownGrows ==
  ASSUME TypeInv, ToldInv, NEW d \in Device, TellsOwn(d), SwapsOwn(d)
  PROVE  Known \subseteq Known'
BY ToldOthers, SwappedGrows DEF Known, SwapsOwn

LEMMA SwapKnown ==
  ASSUME ServerTyped, ServerKnown, Known \subseteq Known', NEW request \in Request, Swap(request), late' \subseteq late,
         request.typed = request.secret \/ request.typed \in Known
  PROVE  ServerKnown'
<1>1. request.secret \in Secret /\ request.secret \in Known'
  <2>1. \E swap \in swaps' : swap.secret = request.secret
    BY SwapAdds
  <2> QED
    BY <2>1 DEF Request, Known, Swapped
<1>2. record' \in Known' /\ keySet'.password \in Known'
  BY <1>1, SwapTyped
<1> QED
  BY <1>2 DEF ServerKnown

LEMMA SameServerKnown ==
  ASSUME ServerKnown, Known \subseteq Known', UNCHANGED <<record, keySet>>,
         \A r \in late' : r \in late \/ r.typed = r.secret \/ r.typed \in Known
  PROVE  ServerKnown'
BY DEF ServerKnown

LEMMA ApartKnown ==
  ASSUME NEW e \in Device, DeviceTyped(e), DeviceKnown(e), Apart(e), Known \subseteq Known'
  PROVE  DeviceKnown(e)'
<1>1. /\ flow'[e].at = flow[e].at /\ (~Logging(flow[e]) => flow'[e] = flow[e])
      /\ Logging(flow[e]) => flow'[e].password = flow[e].password
      /\ flow[e].at \in {"read", "save"} => flow'[e].wrap = flow[e].wrap
  BY ApartFlow
<1> QED
  BY <1>1 DEF Apart, DeviceKnown, Logging

LEMMA ServerWrapKnown == ServerKnown => ServerWrap.password \in Known
BY DEF ServerKnown, ServerWrap

LEMMA InFlightKnown ==
  ASSUME NEW d \in Device, DeviceTyped(d), DeviceKnown(d)
  PROVE  /\ At(d, "finish") => PendingRequest(d) \in Request /\ PendingRequest(d).typed \in Known
         /\ At(d, "change") => ChangeRequest(d) \in Request /\ ChangeRequest(d).typed = ChangeRequest(d).secret
         /\ At(d, "reset") => ResetRequest(d) \in Request /\ ResetRequest(d).typed = ResetRequest(d).secret
         /\ \A r \in InFlight(d) : r.typed = r.secret \/ r.typed \in Known
<1>1. At(d, "finish") => PendingRequest(d) \in Request /\ PendingRequest(d).typed \in Known
  BY InFlow, RequestsTyped DEF PendingRequest, DeviceKnown, At
<1>2. At(d, "change") => ChangeRequest(d) \in Request /\ ChangeRequest(d).typed = ChangeRequest(d).secret
  BY RequestsTyped DEF ChangeRequest
<1>3. At(d, "reset") => ResetRequest(d) \in Request /\ ResetRequest(d).typed = ResetRequest(d).secret
  BY RequestsTyped DEF ResetRequest
<1> QED
  BY <1>1, <1>2, <1>3 DEF InFlight

LEMMA UnlockStepKnows ==
  ASSUME TypeInv, PasswordsKnown, NEW d \in Device, UnlockStep(d), Known \subseteq Known'
  PROVE  ServerKnown' /\ DeviceKnown(d)'
<1>a. Shapes /\ DeviceTyped(d) /\ DeviceKnown(d) /\ ServerKnown
  BY DEF TypeInv, PasswordsKnown
<1>1. ServerKnown'
  BY <1>a, InFlightKnown, SameServerKnown DEF UnlockStep, UnlockHere, Lock, Crash, serverVars
<1>2. flow'[d].at = "idle"
  BY <1>a DEF Shapes, UnlockStep, UnlockHere, Lock, Crash, End, Idle
<1>3. /\ local'[d] = local[d]
      /\ unlocked'[d] = 0 \/ (unlocked'[d] = local[d].password /\ local[d] # NoProfile)
      /\ rekey'[d] \in {rekey[d], NoRekey}
  BY <1>a DEF Shapes, UnlockStep, UnlockHere, Lock, Crash
<1> QED
  BY <1>a, <1>1, <1>2, <1>3 DEF DeviceKnown, NoRekey, Logging

LEMMA LoginStepKnows ==
  ASSUME TypeInv, PasswordsKnown, NEW d \in Device, LoginStep(d), Known \subseteq Known'
  PROVE  ServerKnown' /\ DeviceKnown(d)'
<1>a. Shapes /\ DeviceTyped(d) /\ DeviceKnown(d) /\ ServerKnown
  BY DEF TypeInv, PasswordsKnown
<1>b. UNCHANGED serverVars /\ LoginDoes(d)
  BY LoginEffects
<1>1. ServerKnown'
  BY <1>a, <1>b, SameServerKnown DEF serverVars
<1>2. CASE Begins(d)
  <2>1. /\ flow'[d].at = "checked" /\ flow'[d].password = record
        /\ local'[d] = local[d] /\ unlocked'[d] = unlocked[d] /\ rekey'[d] = rekey[d]
    BY <1>2 DEF Begins
  <2> QED
    BY <1>a, <1>1, <2>1 DEF DeviceKnown, ServerKnown
<1>3. CASE GoesOn(d)
  <2>1. flow'[d].at \in {"read", "save"} /\ flow'[d].password \in Known
    BY <1>a, <1>3 DEF GoesOn, DeviceKnown, Logging, At
  <2>2. flow'[d].wrap.password \in Known
    BY <1>a, <1>3, ServerWrapKnown DEF GoesOn, DeviceKnown, At
  <2> QED
    BY <1>a, <1>1, <1>3, <2>1, <2>2 DEF DeviceKnown, GoesOn
<1>4. CASE Drops(d)
  BY <1>a, <1>1, <1>4, IdleTyped DEF DeviceKnown, Drops
<1>5. CASE Saves(d)
  <2>1. flow[d].wrap.password \in Known /\ flow[d].password \in Known
    BY <1>a, <1>5 DEF Saves, DeviceKnown, Logging, At
  <2>2. /\ flow'[d] = Idle /\ local'[d] = flow[d].wrap
        /\ unlocked'[d] # 0 => unlocked'[d] \in Known
        /\ rekey'[d] \in {rekey[d], [at |-> "wrap", password |-> flow[d].password]}
    BY <1>a, <1>5, <2>1 DEF Saves, DeviceKnown
  <2> QED
    BY <1>a, <1>1, <2>1, <2>2, IdleTyped DEF DeviceKnown
<1> QED
  BY <1>1, <1>b, <1>2, <1>3, <1>4, <1>5 DEF LoginDoes

LEMMA ConnectStepKnows ==
  ASSUME TypeInv, PasswordsKnown, NEW d \in Device, ConnectStep(d), Known \subseteq Known'
  PROVE  ServerKnown' /\ DeviceKnown(d)'
<1>a. Shapes /\ ServerTyped /\ DeviceTyped(d) /\ DeviceKnown(d) /\ ServerKnown
  BY DEF TypeInv, PasswordsKnown
<1>1. ServerKnown'
  <2>1. CASE (FinishPending(d) /\ Swap(PendingRequest(d))) \/ BreakPending(d)
    BY <1>a, <2>1, InFlightKnown, SwapKnown DEF FinishPending, BreakPending, SwapOnly
  <2>2. CASE LosePending(d)
    BY <1>a, <2>2, InFlightKnown, SameServerKnown DEF LosePending, GiveUp
  <2>3. CASE UNCHANGED serverVars
    BY <1>a, <2>3, SameServerKnown DEF serverVars
  <2> QED
    BY <2>1, <2>2, <2>3 DEF ConnectStep, SendPending, FinishPending, serverVars
<1>2. unlocked'[d] = unlocked[d] /\ rekey'[d] = rekey[d]
  BY DEF ConnectStep, SendPending, FinishPending, BreakPending, LosePending
<1>3. local'[d] # NoProfile => local'[d].password \in Known
  <2>1. CASE local' = local
    BY <1>a, <2>1 DEF DeviceKnown
  <2>2. CASE local[d] \in Wrap /\ local' = Unsent(d)
    <3>1. local'[d].password = local[d].password
      BY <1>a, <2>2 DEF Unsent, Shapes, Wrap
    <3> QED
      BY <1>a, <2>2, <3>1, PasswordAssumption DEF DeviceKnown
  <2>3. SendPending(d) \/ FinishPending(d) => local[d] \in Wrap
    BY <1>a, InFlow DEF SendPending, FinishPending, Connects, At
  <2> QED
    BY <2>1, <2>2, <2>3 DEF ConnectStep, SendPending, FinishPending, BreakPending, LosePending, Refuse
<1>4. flow'[d].at \in {"idle", "login", "finish"}
  BY <1>a DEF ConnectStep, SendPending, FinishPending, BreakPending, LosePending, Refuse, SwapOnly, RevokeFlows, End,
    Idle, Shapes
<1> QED
  BY <1>a, <1>1, <1>2, <1>3, <1>4 DEF DeviceKnown, Logging

LEMMA RekeyStepKnows ==
  ASSUME TypeInv, PasswordsKnown, NEW d \in Device, RekeyStep(d), Known \subseteq Known'
  PROVE  ServerKnown' /\ DeviceKnown(d)'
<1>a. Shapes /\ ServerTyped /\ DeviceTyped(d) /\ DeviceKnown(d) /\ ServerKnown
  BY DEF TypeInv, PasswordsKnown
<1>1. UNCHANGED <<record, late, unlocked, flow>>
  BY DEF RekeyStep, SendRekey, CommitRekey, SaveRekey, serverVars
<1>2. keySet'.password \in {keySet.password, rekey[d].password}
      /\ (keySet'.password # keySet.password => rekey[d].at = "sent")
  BY <1>a DEF RekeyStep, SendRekey, CommitRekey, SaveRekey, serverVars, ServerTyped, KeySet
<1>3. ServerKnown'
  BY <1>a, <1>1, <1>2 DEF ServerKnown, DeviceKnown
<1>4. rekey'[d].at # "none" => rekey[d].at # "none" /\ rekey'[d].password = rekey[d].password
  <2>1. CASE SendRekey(d) \/ SaveRekey(d)
    BY <1>a, <2>1 DEF SendRekey, SaveRekey, NoRekey, Shapes
  <2>2. CASE CommitRekey(d)
    BY <1>a, <2>2 DEF CommitRekey, Shapes, DeviceTyped, RekeyTyped
  <2> QED
    BY <2>1, <2>2 DEF RekeyStep
<1>5. local'[d] # NoProfile =>
        \/ local'[d] = local[d]
        \/ rekey[d].at # "none" /\ local'[d].password = rekey[d].password
  <2>1. CASE local' = local
    BY <2>1
  <2>2. CASE local[d] # NoProfile /\ local' = [local EXCEPT ![d].password = rekey[d].password] /\ rekey[d].at = "save"
    <3>1. local[d] \in Wrap /\ local'[d] = [local[d] EXCEPT !.password = rekey[d].password]
      BY <1>a, <2>2 DEF DeviceTyped, Shapes
    <3> QED
      BY <2>2, <3>1 DEF Wrap
  <2> QED
    BY <2>1, <2>2 DEF RekeyStep, SendRekey, CommitRekey, SaveRekey
<1> QED
  BY <1>a, <1>1, <1>3, <1>4, <1>5 DEF DeviceKnown, Logging

LEMMA ChangeStepKnows ==
  ASSUME TypeInv, ToldInv, PasswordsKnown, NEW d \in Device, ChangeStep(d), Known \subseteq Known'
  PROVE  ServerKnown' /\ DeviceKnown(d)'
<1>a. Shapes /\ ServerTyped /\ DeviceTyped(d) /\ FlowTyped(flow[d]) /\ DeviceKnown(d) /\ ServerKnown /\ Hand(d)
  BY DEF TypeInv, ToldInv, PasswordsKnown, DeviceTyped
<1>1. ServerKnown'
  <2>1. CASE TakeChange(d) \/ BreakChange(d)
    BY <1>a, <2>1, InFlightKnown, SwapKnown DEF TakeChange, BreakChange, SwapOnly
  <2>2. CASE LoseChange(d)
    BY <1>a, <2>2, InFlightKnown, SameServerKnown DEF LoseChange, GiveUp
  <2>3. CASE UNCHANGED serverVars
    BY <1>a, <2>3, SameServerKnown DEF serverVars
  <2> QED
    BY <2>1, <2>2, <2>3 DEF ChangeStep, StartChange, RefuseChange, StoreChange, ConfirmChange, SaveConfirm, DropConfirm
<1>2. rekey'[d] = rekey[d]
  BY DEF ChangeStep, StartChange, TakeChange, RefuseChange, BreakChange, LoseChange, StoreChange, ConfirmChange,
    SaveConfirm, DropConfirm
<1>3. /\ flow'[d].at \in {"change", "store", "confirm", "idle", "checked"}
      /\ flow'[d].at \in {"change", "confirm"} => flow'[d].proof \in Known
      /\ flow'[d].at = "checked" => flow'[d].password \in Known
  <2>1. ASSUME NEW n \in Secret, StartChange(d, n)
        PROVE  \/ flow'[d].at = "idle"
               \/ flow'[d].at = "change" /\ flow'[d].proof \in Known
    BY <1>a, <2>1 DEF StartChange, LoggedIn, End, Idle, Shapes, DeviceKnown, Logging, At
  <2>2. CASE TakeChange(d)
    BY <1>a, <2>2 DEF TakeChange, RevokeFlows
  <2>3. CASE LoseChange(d)
    <3>1. flow[d] \in ChangeFlow /\ flow'[d] = [flow[d] EXCEPT !.at = "confirm"] /\ flow[d].proof \in Known
      BY <1>a, <2>3 DEF LoseChange, AfterNoAnswer, FlowTyped, Shapes, DeviceKnown, At
    <3>2. flow'[d].at = "confirm" /\ flow'[d].proof = flow[d].proof
      BY <3>1 DEF ChangeFlow
    <3> QED
      BY <3>1, <3>2
  <2>4. CASE ConfirmChange(d)
    <3>1. \/ flow'[d].at = "idle"
          \/ flow'[d].at = "checked" /\ flow'[d].password = record
      BY <1>a, <2>4 DEF ConfirmChange, LogIn, End, Idle, Shapes
    <3> QED
      BY <1>a, <3>1 DEF ServerKnown
  <2>5. CASE flow'[d].at = "idle"
    BY <2>5
  <2>6. RefuseChange(d) \/ BreakChange(d) \/ StoreChange(d) \/ SaveConfirm(d) \/ DropConfirm(d) => flow'[d].at = "idle"
    BY <1>a DEF RefuseChange, BreakChange, SwapOnly, StoreChange, SaveConfirm, DropConfirm, End, Idle, Shapes
  <2> QED
    BY <2>1, <2>2, <2>3, <2>4, <2>5, <2>6 DEF ChangeStep
<1>4. /\ unlocked'[d] # 0 => unlocked'[d] \in Known'
      /\ local'[d] # NoProfile => local'[d].password \in Known'
  <2>1. CASE UNCHANGED <<local, unlocked>>
    BY <1>a, <2>1 DEF DeviceKnown
  <2>2. CASE StoreChange(d) /\ local' = [local EXCEPT ![d].password = flow[d].to]
                           /\ unlocked' = [unlocked EXCEPT ![d] = flow[d].to]
    <3>1. local[d] \in Wrap /\ flow[d].to \in Secret /\ InHand(d) = flow[d].to /\ Making(d)
      BY <1>a, <2>2, InFlow, HandsTyped DEF StoreChange, Making, At
    <3>2. Swapped(flow[d].to)
      BY <1>a, <2>2, <3>1 DEF StoreChange, Hand, At
    <3>3. local'[d].password = flow[d].to /\ unlocked'[d] = flow[d].to
      BY <1>a, <2>2, <3>1 DEF Shapes, Wrap
    <3> QED
      BY <3>1, <3>2, <3>3 DEF Known
  <2>3. CASE ConfirmChange(d)
    <3>1. local' = local /\ unlocked'[d] \in {unlocked[d], flow[d].proof} /\ flow[d].proof \in Known
      BY <1>a, <2>3 DEF ConfirmChange, Shapes, DeviceKnown, At
    <3> QED
      BY <1>a, <3>1 DEF DeviceKnown
  <2>4. CASE SaveConfirm(d)
    <3>1. local'[d] = flow[d].wrap /\ unlocked'[d] = flow[d].password
      BY <1>a, <2>4 DEF SaveConfirm, SaveWraps, Shapes
    <3>2. flow[d].wrap.password \in Known /\ flow[d].password \in Known
      BY <1>a, <2>4 DEF SaveConfirm, LoggedIn, DeviceKnown, Logging, At
    <3> QED
      BY <3>1, <3>2
  <2>5. CASE DropConfirm(d)
    <3>1. Changing(d) /\ InHand(d) = Tested(flow[d])
      BY <1>a, <2>5, HandsTyped DEF DropConfirm, Tested, Changing, Confirming, Logging, At
    <3>2. InHand(d) \in Secret
      BY <1>a, <3>1, HandsTyped DEF Making
    <3>3. local' = local /\ unlocked'[d] = InHand(d) /\ told'[InHand(d)] = "unsure"
      BY <1>a, <2>5, <3>1, <3>2 DEF DropConfirm, Shapes, Tell, ServerTyped
    <3> QED
      BY <1>a, <3>2, <3>3 DEF DeviceKnown, Known
  <2> QED
    BY <2>1, <2>2, <2>3, <2>4, <2>5 DEF ChangeStep, StartChange, TakeChange, RefuseChange, BreakChange, LoseChange,
      StoreChange
<1> QED
  BY <1>a, <1>1, <1>2, <1>3, <1>4 DEF DeviceKnown, Logging

LEMMA ResetStepKnows ==
  ASSUME TypeInv, ToldInv, PasswordsKnown, NEW d \in Device, ResetStep(d), Known \subseteq Known'
  PROVE  ServerKnown' /\ DeviceKnown(d)'
<1>a. Shapes /\ ServerTyped /\ DeviceTyped(d) /\ FlowTyped(flow[d]) /\ DeviceKnown(d) /\ ServerKnown /\ Hand(d)
  BY DEF TypeInv, ToldInv, PasswordsKnown, DeviceTyped
<1>1. ServerKnown'
  <2>1. CASE (TakeReset(d) /\ Swap(ResetRequest(d))) \/ BreakReset(d)
    BY <1>a, <2>1, InFlightKnown, SwapKnown DEF TakeReset, BreakReset, SwapOnly
  <2>2. CASE LoseServerReset(d) \/ (KeepReset(d) /\ At(d, "reset"))
    BY <1>a, <2>2, InFlightKnown, SameServerKnown DEF LoseServerReset, KeepReset, GiveUp
  <2>3. CASE UNCHANGED serverVars
    BY <1>a, <2>3, SameServerKnown DEF serverVars
  <2> QED
    BY <2>1, <2>2, <2>3 DEF ResetStep, StartReset, ProveReset, TakeReset, KeepReset, StoreReset, serverVars
<1>2. rekey'[d] = rekey[d] /\ unlocked'[d] = unlocked[d]
  BY DEF ResetStep, StartReset, ProveReset, TakeReset, BreakReset, LoseServerReset, KeepReset, StoreReset
<1>3. flow'[d].at \in {"idle", "prove", "reset", "keep"}
  BY <1>a, IdleTyped DEF Shapes, ResetStep, StartReset, ProveReset, TakeReset, BreakReset, LoseServerReset, KeepReset,
    StoreReset, SwapOnly, RevokeFlows, End, At, FlowTyped, ResetFlow
<1>4. local'[d] # NoProfile => local'[d].password \in Known'
  <2>1. CASE local'[d] \in {local[d], NoProfile}
    BY <1>a, <2>1 DEF DeviceKnown
  <2>2. CASE StoreUnsent(d) /\ flow[d].at \in {"prove", "reset"}
    <3>1. flow[d].secret \in Secret /\ told'[flow[d].secret] = "waits" /\ local'[d].password = flow[d].secret
      BY <1>a, <2>2, InFlow DEF StoreUnsent, Tell, Shapes, ServerTyped
    <3> QED
      BY <3>1 DEF Known
  <2>3. CASE StoreReset(d) /\ local'[d].password = flow[d].secret
    <3>1. flow[d].secret \in Secret /\ Swapped(flow[d].secret)
      BY <1>a, <2>3, ResetInHand DEF StoreReset, Hand, Resetting, At
    <3> QED
      BY <2>3, <3>1 DEF Known
  <2> QED
    BY <1>a, <2>1, <2>2, <2>3 DEF ResetStep, StartReset, ProveReset, TakeReset, BreakReset, LoseServerReset, KeepReset,
      StoreReset, Shapes, At
<1> QED
  BY <1>a, <1>1, <1>2, <1>3, <1>4 DEF DeviceKnown, Logging


(* The recovery key in force stays shown: the step's key is shown or       *)
(* wiped, or still in the device's hand.                                   *)
KeptKey(d) == At(d, "keep") /\ flow[d].secret = keySet.recovery

Shows(d) ==
  \/ (keySet.recovery \in shown \cup wiped)' \/ KeptKey(d)'
  \/ /\ keySet'.recovery = keySet.recovery
     /\ KeptKey(d) => KeptKey(d)' \/ flow[d].secret \in (shown \cup wiped)'

LEMMA ApartKeeps ==
  ASSUME NEW e \in Device, DeviceTyped(e), Apart(e), At(e, "keep")
  PROVE  flow'[e] = flow[e]
BY ApartFlow DEF Logging, At

LEMMA ShownOn ==
  ASSUME TypeInv, RecoveryKeyShown, NEW d \in Device, Shows(d), HistoryKept, \A e \in Device \ {d} : Apart(e)
  PROVE  RecoveryKeyShown'
<1>1. \A e \in Device \ {d} : keySet'.recovery = keySet.recovery /\ KeptKey(e) => KeptKey(e)'
  BY ApartKeeps DEF TypeInv, KeptKey, At
<1>2. CASE (keySet.recovery \in shown \cup wiped)' \/ KeptKey(d)'
  BY <1>2 DEF RecoveryKeyShown, KeptKey
<1>3. CASE keySet'.recovery = keySet.recovery /\ (KeptKey(d) => KeptKey(d)' \/ flow[d].secret \in (shown \cup wiped)')
  <2>1. CASE keySet.recovery \in shown \cup wiped
    BY <1>3, <2>1 DEF HistoryKept, RecoveryKeyShown
  <2>2. ASSUME NEW e \in Device, KeptKey(e) PROVE RecoveryKeyShown'
    BY <1>1, <1>3, <2>2 DEF RecoveryKeyShown, KeptKey
  <2> QED
    BY <2>1, <2>2 DEF RecoveryKeyShown, KeptKey
<1> QED
  BY <1>2, <1>3 DEF Shows

LEMMA UnlockStepShows ==
  ASSUME TypeInv, NEW d \in Device, UnlockStep(d)
  PROVE  Shows(d)
<1>1. UNCHANGED keySet
  BY DEF UnlockStep, UnlockHere, Lock, Crash, serverVars
<1>2. CASE Crash(d) /\ KeptKey(d)
  <2>1. flow[d] \in ResetFlow
    BY <1>2 DEF KeptKey, At, TypeInv, DeviceTyped, FlowTyped
  <2>2. "secret" \in DOMAIN flow[d]
    BY <2>1 DEF ResetFlow
  <2> QED
    BY <1>1, <1>2, <2>2 DEF Crash, Shows
<1>3. CASE Crash(d) /\ ~KeptKey(d)
  BY <1>1, <1>3 DEF Shows
<1>4. CASE UNCHANGED flow
  BY <1>1, <1>4 DEF Shows, KeptKey, At
<1>5. CASE ~At(d, "keep")
  BY <1>1, <1>5 DEF Shows, KeptKey
<1> QED
  BY <1>2, <1>3, <1>4, <1>5 DEF UnlockStep, UnlockHere, Lock, Idle, At

LEMMA LoginStepShows ==
  ASSUME TypeInv, NEW d \in Device, LoginStep(d)
  PROVE  Shows(d)
<1>1. UNCHANGED keySet
  BY LoginEffects DEF serverVars
<1>2. ~At(d, "keep")
  BY DEF LoginStep, UnlockByServer, Login, FreshLogin, ReadKeys, OpenSession, DropLogin, DropConnect, SaveUnlock,
    SaveLogin, LoggedIn, Connects, Idle, At
<1> QED
  BY <1>1, <1>2 DEF Shows, KeptKey

LEMMA ConnectStepShows ==
  ASSUME TypeInv, ToldInv, NEW d \in Device, ConnectStep(d)
  PROVE  Shows(d)
<1>a. ServerTyped /\ DeviceTyped(d) /\ WaitsTold(d)
  BY DEF TypeInv, ToldInv
<1>1. ~At(d, "keep")
  BY DEF ConnectStep, SendPending, FinishPending, BreakPending, LosePending, Connects, Idle, At
<1>2. CASE (FinishPending(d) /\ Swap(PendingRequest(d))) \/ BreakPending(d)
  <2>1. keySet'.recovery = local[d].pending.secret
    BY <1>a, <1>2, SwapTyped, RequestsTyped DEF FinishPending, BreakPending, SwapOnly, PendingRequest
  <2>2. Waiting(d)
    BY <1>a, <1>2, InFlow, PasswordAssumption DEF FinishPending, BreakPending, At, Waiting, DeviceTyped, LockFits
  <2> QED
    BY <1>a, <1>2, <2>1, <2>2 DEF WaitsTold, Shows, FinishPending, BreakPending
<1>3. CASE UNCHANGED keySet
  BY <1>1, <1>3 DEF Shows, KeptKey
<1> QED
  BY <1>2, <1>3 DEF ConnectStep, SendPending, FinishPending, LosePending, serverVars

LEMMA RekeyStepShows ==
  ASSUME TypeInv, NEW d \in Device, RekeyStep(d)
  PROVE  Shows(d)
<1>1. UNCHANGED flow
  BY DEF RekeyStep, SendRekey, CommitRekey, SaveRekey
<1>2. keySet'.recovery = keySet.recovery
  BY DEF RekeyStep, SendRekey, CommitRekey, SaveRekey, serverVars, TypeInv, ServerTyped, KeySet
<1> QED
  BY <1>1, <1>2 DEF Shows, KeptKey, At

LEMMA ChangeStepShows ==
  ASSUME TypeInv, NEW d \in Device, ChangeStep(d)
  PROVE  Shows(d)
<1>1. ~At(d, "keep")
  BY DEF ChangeStep, StartChange, TakeChange, RefuseChange, BreakChange, LoseChange, StoreChange, ConfirmChange,
    SaveConfirm, DropConfirm, LoggedIn, At
<1>2. CASE TakeChange(d) \/ BreakChange(d)
  BY <1>1, <1>2 DEF TakeChange, BreakChange, SwapOnly, Swap, ChangeRequest, Shows, KeptKey
<1>3. CASE UNCHANGED keySet
  BY <1>1, <1>3 DEF Shows, KeptKey
<1> QED
  BY <1>2, <1>3 DEF ChangeStep, StartChange, RefuseChange, LoseChange, StoreChange, ConfirmChange, SaveConfirm,
    DropConfirm, serverVars

LEMMA ResetStepShows ==
  ASSUME TypeInv, NEW d \in Device, ResetStep(d)
  PROVE  Shows(d)
<1>a. Shapes /\ DeviceTyped(d)
  BY DEF TypeInv
<1>1. CASE TakeReset(d) /\ Swap(ResetRequest(d))
  <2>1. keySet'.recovery = flow[d].secret
    BY <1>1 DEF Swap, ResetRequest
  <2>2. flow[d] \in ResetFlow /\ flow'[d] = [flow[d] EXCEPT !.at = "keep"]
    BY <1>a, <1>1 DEF TakeReset, RevokeFlows, At, DeviceTyped, FlowTyped, Swap, Shapes, StillActive, ResetRequest
  <2>3. flow'[d].at = "keep" /\ flow'[d].secret = flow[d].secret
    BY <2>2 DEF ResetFlow
  <2> QED
    BY <2>1, <2>3 DEF Shows, KeptKey, At
<1>2. CASE BreakReset(d)
  <2>1. keySet'.recovery = flow[d].secret
    BY <1>2 DEF BreakReset, SwapOnly, Swap, ResetRequest
  <2>2. flow[d].secret \in (shown \cup wiped)'
    BY <1>2 DEF BreakReset, StoreUnsent
  <2> QED
    BY <2>1, <2>2 DEF Shows
<1>3. CASE StoreReset(d)
  BY <1>3 DEF StoreReset, serverVars, Shows
<1>4. CASE UNCHANGED keySet /\ ~At(d, "keep")
  BY <1>4 DEF Shows, KeptKey
<1>5. TakeReset(d) => Swap(ResetRequest(d)) \/ UNCHANGED keySet
  BY DEF TakeReset
<1>6. ~StoreReset(d) => ~At(d, "keep")
  BY DEF ResetStep, StartReset, ProveReset, TakeReset, BreakReset, LoseServerReset, KeepReset, Idle, At
<1>7. ~StoreReset(d) /\ ~TakeReset(d) /\ ~BreakReset(d) => UNCHANGED keySet
  BY DEF ResetStep, StartReset, ProveReset, LoseServerReset, KeepReset, serverVars
<1> QED
  BY <1>1, <1>2, <1>3, <1>4, <1>5, <1>6, <1>7

(* A request that arrives late keeps all of it: nobody has its secret in   *)
(* hand any more, but to try whether it arrived.                           *)
LEMMA LateTells ==
  ASSUME TypeInv, ToldInv, NEW request \in late, ArriveLate(request), \A e \in Device : Apart(e)
  PROVE  ToldInv' /\ Known \subseteq Known'
<1>1. /\ UNCHANGED <<told, local, shown, wiped, erred, denied>> /\ late' \subseteq late
      /\ swaps \subseteq swaps' /\ Swap(request)
  BY DEF ArriveLate, Swap
<1>2. PICK s \in Secret : s = request.secret
  BY DEF TypeInv, ServerTyped, Request
<1>3. Made(s) /\ (told[s] = "failed" => Excepted(s))
  BY <1>2 DEF ToldInv, LateTold
<1>4. \A n \in Secret : Swapped(n)' => Swapped(n) \/ n = s
  <2> DEFINE new == [secret |-> request.secret, proof |-> request.proof, past |-> request.past,
                     was |-> IF request.kind = "reset" THEN keySet.recovery ELSE record]
  <2>1. swaps' = swaps \cup {new} /\ new.secret = s
    BY <1>1, <1>2 DEF Swap
  <2> QED
    BY <2>1 DEF Swapped
<1>5. \A n \in Secret : Swapped(n) => Swapped(n)'
  BY <1>1 DEF Swapped
<1>6. ASSUME NEW e \in Device
      PROVE  /\ Hand(e)' /\ WaitsTold(e)'
             /\ (Making(e)' <=> Making(e)) /\ (Making(e) => InHand(e)' = InHand(e))
  <2>a. DeviceTyped(e) /\ Hand(e) /\ WaitsTold(e)
    BY DEF TypeInv, ToldInv
  <2>1. flow'[e].at = flow[e].at /\ (Making(e)' <=> Making(e)) /\ (Confirming(e)' <=> Confirming(e))
    BY <2>a, ApartInHand
  <2>2. Making(e) => InHand(e)' = InHand(e) /\ InHand(e) \in Secret
    BY <2>a, ApartInHand, HandsTyped
  <2>3. ASSUME Making(e) PROVE Hand(e)'
    <3>1. PICK n \in Secret : n = InHand(e) /\ InHand(e)' = n
      BY <2>2, <2>3
    <3>2. n # 1 /\ told'[n] = "making"
      BY <1>1, <2>a, <2>3, <3>1 DEF Hand
    <3>3. flow[e].at \in {"change", "prove", "reset"} => ~Swapped(n) /\ n # s /\ \A r \in late : r.secret # n
      BY <1>2, <2>a, <2>3, <3>1 DEF Hand
    <3>4. flow[e].at \in {"store", "keep"} \/ Confirming(e) => Swapped(n)
      BY <2>a, <2>3, <3>1 DEF Hand
    <3>5. flow[e].at \in {"change", "prove", "reset"} => ~Swapped(n)' /\ \A r \in late' : r.secret # n
      BY <1>1, <1>4, <3>3
    <3> QED
      BY <1>5, <2>1, <3>1, <3>2, <3>4, <3>5 DEF Hand, Swapped
  <2>4. WaitsTold(e)'
    BY <1>1, <2>a DEF WaitsTold, Waiting
  <2> QED
    BY <2>1, <2>2, <2>3, <2>4 DEF Hand
<1>7. told'[1] = "done" /\ \A n \in Secret : Swapped(n)' => Made(n)'
  BY <1>1, <1>3, <1>4 DEF ToldInv, Made
<1>8. HandsApart'
  BY <1>6 DEF HandsApart, ToldInv
<1>9. LateTold'
  BY <1>1 DEF LateTold, ToldInv, Made, Excepted
<1>10. ToldTruly'
  <2>1. ASSUME NEW n \in Secret, n # 1
        PROVE  /\ told'[n] = "failed" => ~Swapped(n)' \/ Excepted(n)'
               /\ told'[n] = "done" => Swapped(n)'
    <3>1. told[n] = "failed" => ~Swapped(n) \/ Excepted(n)
      BY <2>1 DEF ToldInv, ToldTruly, Swapped, Excepted
    <3>2. told[n] = "done" => Swapped(n)
      BY <2>1 DEF ToldInv, ToldTruly, Swapped
    <3> QED
      BY <1>1, <1>3, <1>4, <1>5, <3>1, <3>2 DEF Excepted
  <2> QED
    BY <2>1 DEF ToldTruly, Swapped, Excepted
<1>11. Known \subseteq Known'
  BY <1>1, <1>5 DEF Known
<1> QED
  BY <1>6, <1>7, <1>8, <1>9, <1>10, <1>11 DEF ToldInv

LEMMA InitKnows == Init => KnowInv
<1> SUFFICES ASSUME Init PROVE KnowInv
  OBVIOUS
<1>1. 1 \in Secret /\ told[1] = "done" /\ swaps = {} /\ late = {} /\ \A n \in Secret : n # 1 => told[n] = "unmade"
  BY Secrets DEF Init
<1>2. \A d \in Device : flow[d] = Idle /\ rekey[d] = NoRekey /\ unlocked[d] = 0
        /\ local[d].password = 1 /\ local[d].pending = NoReset
  BY DEF Init
<1>3. \A d \in Device : ~Making(d) /\ ~Logging(flow[d])
  BY <1>2 DEF Making, Changing, Confirming, Resetting, Logging, Idle
<1>4. ToldInv
  BY <1>1, <1>2, <1>3 DEF ToldInv, Swapped, Hand, WaitsTold, Waiting, HandsApart, LateTold, ToldTruly
<1>5. PasswordsKnown
  BY <1>1, <1>2, <1>3 DEF Init, PasswordsKnown, ServerKnown, DeviceKnown, Known, Idle, NoRekey
<1>6. RecoveryKeyShown
  BY DEF Init, RecoveryKeyShown
<1> QED
  BY <1>4, <1>5, <1>6 DEF KnowInv

LEMMA KnowStep == TypeInv /\ Unencumbered /\ KnowInv /\ [Next]_vars => KnowInv'
<1>1. ASSUME TypeInv, KnowInv, NEW request \in late, ArriveLate(request) PROVE KnowInv'
  <2>1. \A e \in Device : Apart(e)
    BY <1>1, LateFrame DEF TypeInv
  <2>2. ToldInv' /\ Known \subseteq Known'
    BY <1>1, <2>1, LateTells DEF KnowInv
  <2>3. request \in Request /\ Swap(request) /\ late' \subseteq late
        /\ (request.typed = request.secret \/ request.typed \in Known)
    BY <1>1 DEF ArriveLate, TypeInv, ServerTyped, KnowInv, PasswordsKnown, ServerKnown
  <2>4. ServerKnown'
    BY <1>1, <2>2, <2>3, SwapKnown DEF TypeInv, KnowInv, PasswordsKnown
  <2>5. \A e \in Device : DeviceKnown(e)'
    BY <1>1, <2>1, <2>2, ApartKnown DEF TypeInv, KnowInv, PasswordsKnown
  <2>6. keySet'.recovery = keySet.recovery \/ keySet'.recovery \in (shown \cup wiped)'
    BY <1>1, <2>3, SwapTyped DEF TypeInv, KnowInv, ToldInv, LateTold, ArriveLate, Request
  <2>7. RecoveryKeyShown'
    <3>1. \A e \in Device : keySet'.recovery = keySet.recovery /\ KeptKey(e) => KeptKey(e)'
      BY <1>1, <2>1, ApartKeeps DEF TypeInv, KeptKey, At
    <3>2. UNCHANGED <<shown, wiped>>
      BY <1>1 DEF ArriveLate
    <3> QED
      BY <1>1, <2>6, <3>1, <3>2 DEF KnowInv, RecoveryKeyShown, KeptKey
  <2> QED
    BY <2>2, <2>4, <2>5, <2>7 DEF KnowInv, PasswordsKnown
<1>2. ASSUME TypeInv, Unencumbered, KnowInv, NEW d \in Device, DeviceStep(d) PROVE KnowInv'
  <2>a. ToldInv /\ PasswordsKnown /\ RecoveryKeyShown
    BY <1>2 DEF KnowInv
  <2>1. \A e \in Device \ {d} : Apart(e)
    BY <1>2, Frame DEF TypeInv
  <2>2. StepTells(d)
    BY <1>2, <2>a, UnlockStepTells, LoginStepTells, ConnectStepTells, RekeyStepTells, ChangeStepTells,
      ResetStepTells DEF DeviceStep
  <2>3. ToldInv'
    BY <1>2, <2>a, <2>1, <2>2, ToldOn
  <2>4. Known \subseteq Known'
    BY <1>2, <2>a, <2>2, KnownGrows DEF StepTells
  <2>5. ServerKnown' /\ DeviceKnown(d)'
    BY <1>2, <2>a, <2>4, UnlockStepKnows, LoginStepKnows, ConnectStepKnows, RekeyStepKnows, ChangeStepKnows,
      ResetStepKnows DEF DeviceStep
  <2>6. \A e \in Device \ {d} : DeviceKnown(e)'
    BY <1>2, <2>a, <2>1, <2>4, ApartKnown DEF TypeInv, PasswordsKnown
  <2>7. Shows(d)
    BY <1>2, <2>a, UnlockStepShows, LoginStepShows, ConnectStepShows, RekeyStepShows, ChangeStepShows,
      ResetStepShows DEF DeviceStep
  <2>8. RecoveryKeyShown'
    BY <1>2, <2>a, <2>1, <2>2, <2>7, ShownOn DEF StepTells
  <2> QED
    BY <2>3, <2>5, <2>6, <2>8 DEF KnowInv, PasswordsKnown
<1>3. KnowInv /\ UNCHANGED vars => KnowInv'
  BY DEF KnowInv, ToldInv, PasswordsKnown, RecoveryKeyShown, Swapped, Made, Hand, WaitsTold, Waiting, HandsApart,
    LateTold, ToldTruly, Making, Changing, Confirming, Resetting, Logging, InHand, Excepted, ServerKnown, DeviceKnown,
    Known, At, vars, serverVars, deviceVars, historyVars
<1> QED
  BY <1>1, <1>2, <1>3, Steps

(* Who is told a change or reset failed keeps the old secret, who is told  *)
(* it worked has the new one, and the recovery key in force was shown, up  *)
(* to the exceptions the properties name (changePassword, recoverAccount,  *)
(* recoverOnDevice).                                                       *)
THEOREM Told == Spec => []UsersKnow
<1>1. KnowInv => UsersKnow
  BY DEF KnowInv, ToldInv, UsersKnow
<1>2. Spec => []KnowInv
  BY AlwaysTyped, AlwaysUnencumbered, InitKnows, KnowStep, PTL DEF Spec
<1> QED
  BY <1>1, <1>2, PTL
===============================================================================
