--------------------------- MODULE AccountPassword ---------------------------
(***************************************************************************)
(* The master password and the recovery key of one account: what the       *)
(* server holds (user/router.ts, auth/recovery-router.ts), what each       *)
(* device keeps of it, and the flows that change both: the password        *)
(* change, the reset with the recovery key (on a device, offline too, or   *)
(* by the server), connecting, and the Argon2 rekey behind a login.        *)
(*                                                                         *)
(* The account key never changes, so a wrap is known by the password or    *)
(* recovery key it opens with. A change or a reset makes secret number n:  *)
(* password n and, for a reset, recovery key n. The account starts with    *)
(* password 1 and recovery key 1; its password wrap may be below the       *)
(* Argon2 floor (weak).                                                    *)
(***************************************************************************)
EXTENDS Naturals, FiniteSets

CONSTANTS
  Device,
  MaxSecrets,   \* bound on the secrets made, the first one included
  MaxFaults,    \* bound on lost answers, crashes and failures after the server's commit
  NoProfile, NoReset, Nobody

VARIABLES
  (* Server: *)
  record,     \* the password that logs in (OPAQUE registration record)
  keySet,     \* the active key set
  late,       \* requests nobody waits for any more
  (* Devices: *)
  local,      \* key material of the profile on the device
  unlocked,   \* the password the device connects with, 0 when locked
  session,    \* its server session: none that is taken, "live" or "past" (Taken)
  flow,       \* what the device is doing
  rekey,      \* the rekey in its background
  (* History: *)
  swaps,      \* each swap of the record: what it proved, what it replaced
  told,       \* what the user was told of each secret
  shown,      \* recovery keys the user was shown
  wiped,      \* recovery keys nobody was shown: wiped, or lost in a crash
  refused,    \* resets that waited on a device and were refused
  erred,      \* secrets whose request failed, or did not revoke, after the commit
  denied,     \* changes told failed after a login with them was denied
  stray,      \* a rekey wrote over a newer password
  spent

serverVars  == <<record, keySet, late>>
deviceVars  == <<local, unlocked, session, flow, rekey>>
historyVars == <<swaps, told, shown, wiped, refused, erred, denied, stray, spent>>
vars == <<serverVars, deviceVars, historyVars>>

Secret == 1..MaxSecrets

(* A reset that waits for the server, and the key material of a profile.   *)
Reset == [secret : Secret, proof : Secret]
Wrap == [password : Secret, recovery : Secret, pending : Reset \cup {NoReset}]

ASSUME PasswordAssumption ==
  /\ MaxSecrets \in Nat \ {0} /\ MaxFaults \in Nat
  /\ NoProfile \notin Wrap /\ NoReset \notin Reset

Idle == [at |-> "idle"]
NoRekey == [at |-> "none"]

Init ==
  /\ record = 1
  /\ keySet \in [id : {1}, password : {1}, recovery : {1}, weak : BOOLEAN, by : {Nobody}]
  /\ late = {}
  /\ local = [d \in Device |-> [password |-> 1, recovery |-> 1, pending |-> NoReset]]
  /\ unlocked = [d \in Device |-> 0]
  /\ session = [d \in Device |-> "none"]
  /\ flow = [d \in Device |-> Idle]
  /\ rekey = [d \in Device |-> NoRekey]
  /\ swaps = {}
  /\ told = [n \in Secret |-> IF n = 1 THEN "done" ELSE "unmade"]
  /\ shown = {1} /\ wiped = {} /\ refused = {} /\ erred = {} /\ denied = {}
  /\ stray = FALSE
  /\ spent = 0

Fault == spent < MaxFaults /\ spent' = spent + 1

At(d, step) == flow[d].at = step
End(d) == flow' = [flow EXCEPT ![d] = Idle]
Tell(n, what) == told' = [told EXCEPT ![n] = what]

(* A fresh password, and the recovery key that goes with it in a reset.    *)
Makes(n) == told[n] = "unmade" /\ \A m \in Secret : told[m] = "unmade" => n <= m
-------------------------------------------------------------------------------
(***************************************************************************)
(* Server: the swaps.                                                      *)
(***************************************************************************)
(* A session the server takes: "live", or "past" a swap that its device    *)
(* has not stored the wraps of.                                            *)
Taken(s) == s \in {"live", "past"}

(* Faulty: the attempt's key set isn't compared with the active one.       *)
AnySet(attempt) == TRUE

(* The key set is still the one of when the attempt began.                 *)
StillActive(attempt) == keySet.id = attempt

(* A reset's recovery key is the one whose verifier the server holds.      *)
Proves(recovery) == keySet.recovery = recovery

(* finishPasswordChange and finishRecovery: record and key set together.   *)
Swap(request) ==
  LET reset == request.kind = "reset" IN
  /\ StillActive(request.attempt)
  /\ record' = request.typed
  /\ keySet' = [id |-> keySet.id + 1, password |-> request.secret, weak |-> FALSE, by |-> request.by,
                recovery |-> IF reset THEN request.secret ELSE keySet.recovery]
  /\ swaps' = swaps \cup {[secret |-> request.secret, proof |-> request.proof, past |-> request.past,
                           was |-> IF reset THEN keySet.recovery ELSE record]}

(* Faulty: a login under way and its session are missed.                   *)
HeldFlow(f) == f

(* revokeUserSessions: every session ends, also one a login is saving; a   *)
(* login under way is cut off.                                             *)
RevokedFlow(f) ==
  IF f.at \in {"checked", "read"} THEN [f EXCEPT !.cut = TRUE]
  ELSE IF f.at = "save" THEN [f EXCEPT !.session = "none"] ELSE f

RevokeAll == session' = [d \in Device |-> "none"]
RevokeFlows(d, next) == flow' = [e \in Device |-> IF e = d THEN next ELSE RevokedFlow(flow[e])]

(* It fails after the commit: an error, and every session goes on, past    *)
(* the swap.                                                               *)
Passed(s) == IF s = "live" THEN "past" ELSE s
PassedFlow(f) ==
  IF f.at \in {"checked", "read"} THEN [f EXCEPT !.cut = TRUE]
  ELSE IF f.at = "save" THEN [f EXCEPT !.session = Passed(@)] ELSE f

SwapOnly(d, request) ==
  /\ Fault
  /\ Swap(request)
  /\ erred' = erred \cup {request.secret}
  /\ session' = [e \in Device |-> Passed(session[e])]
  /\ flow' = [e \in Device |-> IF e = d THEN Idle ELSE PassedFlow(flow[e])]

GiveUp(request) ==
  /\ Fault
  /\ late' = late \cup {request}

(* A request given up on is handled after all, or never.                   *)
ArriveLate(request) ==
  /\ request \in late
  /\ late' = late \ {request}
  /\ Swap(request)
  /\ RevokeAll
  /\ flow' = [d \in Device |-> RevokedFlow(flow[d])]
  /\ UNCHANGED <<local, unlocked, rekey, told, shown, wiped, refused, erred, denied, stray, spent>>
-------------------------------------------------------------------------------
(***************************************************************************)
(* A login: finishLogin checks the cut-off, reads the keys and stores the  *)
(* session in three steps; the device saves what it is answered.           *)
(***************************************************************************)
ServerWrap == [password |-> keySet.password, recovery |-> keySet.recovery, pending |-> NoReset]

(* startLogin, and the check: the password is the record's, no cut-off     *)
(* came since the record was read.                                         *)
LogIn(d, for, password) ==
  /\ record = password
  /\ flow' = [flow EXCEPT ![d] = [at |-> "checked", for |-> for, password |-> password, cut |-> FALSE]]

(* loginKeys.                                                              *)
ReadKeys(d) ==
  /\ At(d, "checked")
  /\ flow' = [flow EXCEPT ![d] = [at |-> "read", for |-> @.for, password |-> @.password, cut |-> @.cut,
                                  wrap |-> ServerWrap, weak |-> keySet.weak]]
  /\ UNCHANGED <<serverVars, local, unlocked, session, rekey, historyVars>>

(* setSession: stamped now, so a cut-off since the check passes it by.     *)
OpenSession(d) ==
  /\ At(d, "read")
  /\ flow' = [flow EXCEPT ![d] = [at |-> "save", for |-> @.for, password |-> @.password,
                                  wrap |-> @.wrap, weak |-> @.weak,
                                  session |-> IF @.cut THEN "past" ELSE "live"]]
  /\ UNCHANGED <<serverVars, local, unlocked, session, rekey, historyVars>>

LoggedIn(d, for) == At(d, "save") /\ flow[d].for = for

(* attachServer, with the session the login answered.                      *)
Attach(d) == session' = [session EXCEPT ![d] = flow[d].session]
Detached(d) == session' = [session EXCEPT ![d] = "none"]

(* setAccountKeyMaterial of a login: both wraps, and no reset waits.       *)
SaveWraps(d) == local' = [local EXCEPT ![d] = flow[d].wrap]

(* rekeyIfBelowFloor, after a login with the typed password.               *)
StartRekey(d) ==
  rekey' = IF flow[d].weak /\ rekey[d] = NoRekey
           THEN [rekey EXCEPT ![d] = [at |-> "wrap", password |-> flow[d].password]]
           ELSE rekey

(* Unreachable, throttled, cancelled, or denied at the cut-off: the next   *)
(* try starts over. (A change's own test of its new password: DropConfirm.)*)
DropLogin(d) ==
  /\ flow[d].at \in {"checked", "read", "save"}
  /\ flow[d].for # "confirm"
  /\ End(d)
  /\ UNCHANGED <<serverVars, local, unlocked, session, rekey, historyVars>>
-------------------------------------------------------------------------------
(***************************************************************************)
(* Unlocking and locking.                                                  *)
(***************************************************************************)
(* unlockLocal, with a password that opens the wrap on the device.         *)
UnlockHere(d) ==
  /\ flow[d] = Idle /\ unlocked[d] = 0 /\ local[d] # NoProfile
  /\ unlocked' = [unlocked EXCEPT ![d] = local[d].password]
  /\ UNCHANGED <<serverVars, local, session, flow, rekey, historyVars>>

(* Faulty: a login replaces a reset that waits for the server.             *)
AsksServerAlways(d, password) == local[d] # NoProfile => local[d].password # password

(* unlockLocal, unlockByEmail: the server decides on a password that opens *)
(* nothing here, unless a reset waits on the device.                       *)
AsksServer(d, password) ==
  local[d] # NoProfile => local[d].password # password /\ local[d].pending = NoReset

(* loginUser.                                                              *)
UnlockByServer(d, password) ==
  /\ flow[d] = Idle /\ unlocked[d] = 0
  /\ AsksServer(d, password)
  /\ LogIn(d, "unlock", password)
  /\ UNCHANGED <<serverVars, local, unlocked, session, rekey, historyVars>>

(* unlock: the profile takes the server's wraps, before the password is    *)
(* tried on them.                                                          *)
SaveUnlock(d) ==
  /\ LoggedIn(d, "unlock")
  /\ SaveWraps(d)
  /\ IF flow[d].wrap.password = flow[d].password
     THEN /\ unlocked' = [unlocked EXCEPT ![d] = flow[d].password]
          /\ Attach(d)
          /\ StartRekey(d)
     ELSE UNCHANGED <<unlocked, session, rekey>>
  /\ End(d)
  /\ UNCHANGED <<serverVars, historyVars>>

(* Lock and sign-out; the session is gone with the account key.            *)
Lock(d) ==
  /\ flow[d] = Idle /\ unlocked[d] # 0
  /\ unlocked' = [unlocked EXCEPT ![d] = 0]
  /\ Detached(d)
  /\ rekey' = IF rekey[d].at = "wrap" THEN [rekey EXCEPT ![d] = NoRekey] ELSE rekey
  /\ UNCHANGED <<serverVars, local, flow, historyVars>>

-------------------------------------------------------------------------------
(***************************************************************************)
(* useConnectServer: a reset that waits goes first, then the login.        *)
(***************************************************************************)
(* A connect begins where the device is unlocked and its session is over.  *)
Connects(d) == flow[d] = Idle /\ unlocked[d] # 0 /\ ~Taken(session[d])

Unsent(d) == [local EXCEPT ![d].pending = NoReset]

(* finishPendingReset ends: the reset is forgotten, the login follows.     *)
Refuse(d) ==
  /\ refused' = refused \cup {[secret |-> local[d].pending.secret,
                              here |-> keySet.by = d, found |-> keySet.recovery]}
  /\ local' = Unsent(d)
  /\ flow' = [flow EXCEPT ![d] = [at |-> "login"]]

(* startRecovery.                                                          *)
SendPending(d) ==
  /\ Connects(d) /\ Detached(d)
  /\ local[d].pending # NoReset
  /\ IF Proves(local[d].pending.proof)
     THEN /\ flow' = [flow EXCEPT ![d] = [at |-> "finish", attempt |-> keySet.id]]
          /\ UNCHANGED <<local, refused>>
     ELSE Refuse(d)
  /\ UNCHANGED <<serverVars, unlocked, rekey, swaps, told, shown, wiped, erred, denied, stray, spent>>

PendingRequest(d) ==
  [kind |-> "reset", by |-> d, attempt |-> flow[d].attempt, typed |-> unlocked[d],
   secret |-> local[d].pending.secret, proof |-> local[d].pending.proof, past |-> FALSE]

(* finishRecovery, answered.                                               *)
FinishPending(d) ==
  /\ At(d, "finish")
  /\ \/ /\ Swap(PendingRequest(d))
        /\ local' = Unsent(d)
        /\ RevokeAll
        /\ RevokeFlows(d, [at |-> "login"])
        /\ UNCHANGED refused
     \/ /\ ~StillActive(flow[d].attempt)
        /\ Refuse(d)
        /\ UNCHANGED <<record, keySet, session, swaps>>
  /\ UNCHANGED <<late, unlocked, rekey, told, shown, wiped, erred, denied, stray, spent>>

(* revokeUserSessions fails after the commit: to the device the server is  *)
(* unreachable, the reset stays for the next connect.                      *)
BreakPending(d) ==
  /\ At(d, "finish")
  /\ SwapOnly(d, PendingRequest(d))
  /\ UNCHANGED <<late, local, unlocked, rekey, told, shown, wiped, refused, denied, stray>>

(* No answer: likewise.                                                    *)
LosePending(d) ==
  /\ At(d, "finish")
  /\ GiveUp(PendingRequest(d))
  /\ End(d)
  /\ UNCHANGED <<record, keySet, local, unlocked, session, rekey, swaps, told, shown, wiped, refused, erred, denied, stray>>

(* The login: its session is held back until the key material is stored.   *)
Login(d) ==
  /\ At(d, "login") \/ (Connects(d) /\ local[d].pending = NoReset)
  /\ Detached(d)
  /\ \/ LogIn(d, "connect", unlocked[d])
     \/ record # unlocked[d] /\ End(d)
  /\ UNCHANGED <<serverVars, local, unlocked, rekey, historyVars>>

(* attach: saveAccount, attachServer.                                      *)
SaveLogin(d) ==
  /\ LoggedIn(d, "connect")
  /\ SaveWraps(d)
  /\ Attach(d)
  /\ StartRekey(d)
  /\ End(d)
  /\ UNCHANGED <<serverVars, unlocked, historyVars>>

(* Unreachable, throttled, cancelled: the next connect starts over.        *)
DropConnect(d) ==
  /\ At(d, "login")
  /\ End(d)
  /\ UNCHANGED <<serverVars, local, unlocked, session, rekey, historyVars>>
-------------------------------------------------------------------------------
(***************************************************************************)
(* The rekey.                                                              *)
(***************************************************************************)
(* Faulty: no session is asked for.                                        *)
AlwaysMay(d) == TRUE

(* freshAuthProcedure.                                                     *)
MayRekey(d) == Taken(session[d])

(* rekeyPasswordKeys is called and passes the session check, or is refused.*)
SendRekey(d) ==
  /\ rekey[d].at = "wrap"
  /\ rekey' = [rekey EXCEPT ![d] =
       IF MayRekey(d)
       THEN [at |-> "sent", password |-> rekey[d].password, fresh |-> Taken(session[d])]
       ELSE NoRekey]
  /\ UNCHANGED <<serverVars, local, unlocked, session, flow, historyVars>>

(* rekeyPasswordKeys' transaction: whatever key set is active takes the    *)
(* new wrap.                                                               *)
CommitRekey(d) ==
  /\ rekey[d].at = "sent"
  /\ keySet' = [keySet EXCEPT !.id = @ + 1, !.password = rekey[d].password, !.weak = FALSE]
  /\ stray' = (stray \/ (rekey[d].fresh /\ rekey[d].password # record))
  /\ rekey' = [rekey EXCEPT ![d].at = "save"]
  /\ UNCHANGED <<record, late, local, unlocked, session, flow, swaps, told, shown, wiped, refused, erred, denied, spent>>

(* saveAccount with the new wrap, whatever the device holds by now; or the *)
(* answer was lost.                                                        *)
SaveRekey(d) ==
  /\ rekey[d].at = "save"
  /\ rekey' = [rekey EXCEPT ![d] = NoRekey]
  /\ \/ /\ local[d] # NoProfile
        /\ local' = [local EXCEPT ![d].password = rekey[d].password]
        /\ stray' = (stray \/ local[d].password # rekey[d].password)
     \/ UNCHANGED <<local, stray>>
  /\ UNCHANGED <<serverVars, unlocked, session, flow, swaps, told, shown, wiped, refused, erred, denied, spent>>
-------------------------------------------------------------------------------
(***************************************************************************)
(* The password change.                                                    *)
(***************************************************************************)
(* freshLogin with the current password, whichever opened the device.      *)
FreshLogin(d) ==
  /\ flow[d] = Idle /\ Taken(session[d])
  /\ LogIn(d, "change", record)
  /\ UNCHANGED <<serverVars, local, unlocked, session, rekey, historyVars>>

(* Its session replaces the one before, with the wraps as they are; then   *)
(* startPasswordChange, which a session that ended is refused.             *)
StartChange(d, n) ==
  /\ LoggedIn(d, "change")
  /\ session' = [session EXCEPT ![d] = IF flow[d].session = "live" /\ @ = "past" THEN "past" ELSE flow[d].session]
  /\ \/ /\ Taken(flow[d].session)
        /\ Makes(n) /\ Tell(n, "making")
        /\ flow' = [flow EXCEPT ![d] = [at |-> "change", to |-> n, attempt |-> keySet.id,
                                        proof |-> @.password, past |-> @.session = "past"]]
     \/ ~Taken(flow[d].session) /\ End(d) /\ UNCHANGED told
  /\ UNCHANGED <<serverVars, local, unlocked, rekey, swaps, shown, wiped, refused, erred, denied, stray, spent>>

ChangeRequest(d) ==
  [kind |-> "change", by |-> d, attempt |-> flow[d].attempt, typed |-> flow[d].to,
   secret |-> flow[d].to, proof |-> flow[d].proof, past |-> flow[d].past]

(* finishPasswordChange.                                                   *)
TakeChange(d) ==
  /\ At(d, "change") /\ Taken(session[d])
  /\ Swap(ChangeRequest(d))
  /\ RevokeAll
  /\ RevokeFlows(d, [at |-> "store", to |-> flow[d].to])
  /\ UNCHANGED <<late, local, unlocked, rekey, told, shown, wiped, refused, erred, denied, stray, spent>>

(* Its session is over, or the key set changed meanwhile.                  *)
RefuseChange(d) ==
  /\ At(d, "change")
  /\ ~Taken(session[d]) \/ ~StillActive(flow[d].attempt)
  /\ Tell(flow[d].to, "failed")
  /\ End(d)
  /\ UNCHANGED <<serverVars, local, unlocked, session, rekey, swaps, shown, wiped, refused, erred, denied, stray, spent>>

(* revokeUserSessions fails after the commit: answered with an error.      *)
BreakChange(d) ==
  /\ At(d, "change") /\ Taken(session[d])
  /\ SwapOnly(d, ChangeRequest(d))
  /\ Tell(flow[d].to, "failed")
  /\ UNCHANGED <<late, local, unlocked, rekey, shown, wiped, refused, denied, stray>>

(* changePassword: no answer to the change leaves it to a login.           *)
AfterNoAnswer(d) ==
  /\ flow' = [flow EXCEPT ![d].at = "confirm"]
  /\ UNCHANGED told

LoseChange(d) ==
  /\ At(d, "change")
  /\ GiveUp(ChangeRequest(d))
  /\ session' = [session EXCEPT ![d] = "none"]
  /\ AfterNoAnswer(d)
  /\ UNCHANGED <<record, keySet, local, unlocked, rekey, swaps, shown, wiped, refused, erred, denied, stray>>

(* saveAccount after the swap, then the new password reconnects; or the    *)
(* store fails.                                                            *)
StoreChange(d) ==
  /\ At(d, "store")
  /\ \/ /\ local' = [local EXCEPT ![d].password = flow[d].to]
        /\ unlocked' = [unlocked EXCEPT ![d] = flow[d].to]
        /\ Tell(flow[d].to, "done")
        /\ UNCHANGED <<erred, spent>>
     \/ /\ Fault
        /\ Tell(flow[d].to, "failed")
        /\ erred' = erred \cup {flow[d].to}
        /\ UNCHANGED <<local, unlocked>>
  /\ End(d)
  /\ UNCHANGED <<serverVars, session, rekey, swaps, shown, wiped, refused, denied, stray>>

(* confirmChange: a login with the new password tells; denied, the device  *)
(* goes back to the current one.                                           *)
ConfirmChange(d) ==
  /\ At(d, "confirm")
  /\ LET n == flow[d].to IN
     \/ LogIn(d, "confirm", n) /\ UNCHANGED <<unlocked, told, denied>>
     \/ /\ record # n
        /\ Tell(n, "failed")
        /\ denied' = denied \cup {n}
        /\ unlocked' = [unlocked EXCEPT ![d] = flow[d].proof]
        /\ End(d)
  /\ UNCHANGED <<serverVars, local, session, rekey, swaps, shown, wiped, refused, erred, stray, spent>>

SaveConfirm(d) ==
  /\ LoggedIn(d, "confirm")
  /\ SaveWraps(d)
  /\ Attach(d)
  /\ unlocked' = [unlocked EXCEPT ![d] = flow[d].password]
  /\ Tell(flow[d].password, "done")
  /\ End(d)
  /\ UNCHANGED <<serverVars, rekey, swaps, shown, wiped, refused, erred, denied, stray, spent>>

(* The new password, of a change whose answer a login is to tell.          *)
Tested(f) == IF f.at = "confirm" THEN f.to ELSE f.password

(* No login came through: the user is left unsure, with the new password.  *)
DropConfirm(d) ==
  /\ \/ At(d, "confirm")
     \/ flow[d].at \in {"checked", "read", "save"} /\ flow[d].for = "confirm"
  /\ Tell(Tested(flow[d]), "unsure")
  /\ unlocked' = [unlocked EXCEPT ![d] = Tested(flow[d])]
  /\ End(d)
  /\ UNCHANGED <<serverVars, local, session, rekey, swaps, shown, wiped, refused, erred, denied, stray, spent>>
-------------------------------------------------------------------------------
(***************************************************************************)
(* The reset with the recovery key, at the locked screen.                  *)
(***************************************************************************)
(* The key opens the recovery wrap on the device.                          *)
OpensHere(d, key) == local[d] # NoProfile /\ local[d].recovery = key

(* recoverLinkedVault: what the server still knows proves the reset.       *)
ProofOf(d, key) == IF local[d].pending # NoReset THEN local[d].pending.proof ELSE key

(* recover: on the device when the key opens its wrap, else by the server. *)
StartReset(d, n, key) ==
  /\ flow[d] = Idle /\ unlocked[d] = 0
  /\ key \in shown
  /\ Makes(n) /\ Tell(n, "making")
  /\ flow' = [flow EXCEPT ![d] =
       IF OpensHere(d, key)
       THEN [at |-> "prove", here |-> TRUE, secret |-> n, proof |-> ProofOf(d, key)]
       ELSE [at |-> "prove", here |-> FALSE, secret |-> n, proof |-> key]]
  /\ UNCHANGED <<serverVars, local, unlocked, session, rekey, swaps, shown, wiped, refused, erred, denied, stray, spent>>

(* startRecovery.                                                          *)
ProveReset(d) ==
  /\ At(d, "prove")
  /\ IF Proves(flow[d].proof)
     THEN /\ flow' = [flow EXCEPT ![d] = [at |-> "reset", attempt |-> keySet.id, here |-> @.here,
                                          secret |-> @.secret, proof |-> @.proof]]
          /\ UNCHANGED told
     ELSE /\ Tell(flow[d].secret, "failed")
          /\ End(d)
  /\ UNCHANGED <<serverVars, local, unlocked, session, rekey, swaps, shown, wiped, refused, erred, denied, stray, spent>>

ResetRequest(d) ==
  [kind |-> "reset", by |-> d, attempt |-> flow[d].attempt, typed |-> flow[d].secret,
   secret |-> flow[d].secret, proof |-> flow[d].proof, past |-> FALSE]

(* finishRecovery, answered.                                               *)
TakeReset(d) ==
  /\ At(d, "reset")
  /\ \/ /\ Swap(ResetRequest(d))
        /\ RevokeAll
        /\ RevokeFlows(d, [flow[d] EXCEPT !.at = "keep"])
        /\ UNCHANGED told
     \/ /\ ~StillActive(flow[d].attempt)
        /\ Tell(flow[d].secret, "failed")
        /\ End(d)
        /\ UNCHANGED <<record, keySet, session, swaps>>
  /\ UNCHANGED <<late, local, unlocked, rekey, shown, wiped, refused, erred, denied, stray, spent>>

(* recoverAccount: no answer wipes the new key.                            *)
LoseServerReset(d) ==
  /\ At(d, "reset") /\ ~flow[d].here
  /\ GiveUp(ResetRequest(d))
  /\ wiped' = wiped \cup {flow[d].secret}
  /\ Tell(flow[d].secret, "failed")
  /\ End(d)
  /\ UNCHANGED <<record, keySet, local, unlocked, session, rekey, swaps, shown, refused, erred, denied, stray>>

(* Faulty: an unreachable server fails the reset on the device as well.    *)
StoreUnsentNot(d) == Tell(flow[d].secret, "failed") /\ UNCHANGED <<local, shown>>

(* setLinkedRecovery: the reset works on this device and waits for the     *)
(* server; its key is shown.                                               *)
StoreUnsent(d) ==
  LET f == flow[d] IN
  /\ local' = [local EXCEPT ![d] = [password |-> f.secret, recovery |-> f.secret,
                                    pending |-> [secret |-> f.secret, proof |-> f.proof]]]
  /\ shown' = shown \cup {f.secret}
  /\ Tell(f.secret, "waits")

(* recoverOnDevice: offline, unreachable, or no answer.                    *)
KeepReset(d) ==
  /\ flow[d].at \in {"prove", "reset"} /\ flow[d].here
  /\ IF At(d, "reset") THEN GiveUp(ResetRequest(d)) ELSE UNCHANGED <<late, spent>>
  /\ StoreUnsent(d)
  /\ End(d)
  /\ UNCHANGED <<record, keySet, unlocked, session, rekey, swaps, wiped, refused, erred, denied, stray>>

(* revokeUserSessions fails after the commit: recoverOnDevice takes that   *)
(* for no answer, recoverAccount wipes the new key.                        *)
BreakReset(d) ==
  /\ At(d, "reset")
  /\ SwapOnly(d, ResetRequest(d))
  /\ \/ flow[d].here /\ StoreUnsent(d) /\ UNCHANGED wiped
     \/ /\ ~flow[d].here
        /\ wiped' = wiped \cup {flow[d].secret}
        /\ Tell(flow[d].secret, "failed")
        /\ UNCHANGED <<local, shown>>
  /\ UNCHANGED <<late, unlocked, rekey, refused, denied, stray>>

(* The server took it: the device stores it and shows the key; or can't    *)
(* store it, and wipes the key. Reset by the server, the profile goes,     *)
(* unless it has changes to send.                                          *)
StoreReset(d) ==
  /\ At(d, "keep")
  /\ LET f == flow[d] IN
     \/ /\ Tell(f.secret, "done")
        /\ shown' = shown \cup {f.secret}
        /\ \/ f.here /\ local' = [local EXCEPT ![d] = [password |-> f.secret, recovery |-> f.secret, pending |-> NoReset]]
           \/ ~f.here /\ local' = [local EXCEPT ![d] = NoProfile]
           \/ ~f.here /\ UNCHANGED local
        /\ UNCHANGED <<wiped, erred, spent>>
     \/ /\ f.here /\ Fault
        /\ Tell(f.secret, "failed")
        /\ wiped' = wiped \cup {f.secret}
        /\ erred' = erred \cup {f.secret}
        /\ UNCHANGED <<shown, local>>
  /\ End(d)
  /\ UNCHANGED <<serverVars, unlocked, session, rekey, swaps, refused, denied, stray>>
-------------------------------------------------------------------------------
InFlight(d) ==
  CASE At(d, "finish") -> {PendingRequest(d)}
    [] At(d, "change") -> {ChangeRequest(d)}
    [] At(d, "reset") -> {ResetRequest(d)}
    [] OTHER -> {}

(* The app is killed: what it was doing is forgotten, the key of a reset   *)
(* it was making is lost; its request may still be handled.                *)
Crash(d) ==
  /\ flow[d] # Idle \/ rekey[d] # NoRekey
  /\ Fault
  /\ late' = late \cup InFlight(d)
  /\ wiped' = IF "secret" \in DOMAIN flow[d] THEN wiped \cup {flow[d].secret} ELSE wiped
  /\ unlocked' = [unlocked EXCEPT ![d] = 0]
  /\ session' = [session EXCEPT ![d] = "none"]
  /\ rekey' = [rekey EXCEPT ![d] = NoRekey]
  /\ End(d)
  /\ UNCHANGED <<record, keySet, local, swaps, told, shown, refused, erred, denied, stray>>
-------------------------------------------------------------------------------
Next ==
  \/ \E request \in late : ArriveLate(request)
  \/ \E d \in Device :
       \/ ReadKeys(d) \/ OpenSession(d) \/ DropLogin(d)
       \/ UnlockHere(d) \/ Lock(d) \/ Crash(d)
       \/ \E password \in Secret : UnlockByServer(d, password)
       \/ SaveUnlock(d)
       \/ SendPending(d) \/ FinishPending(d) \/ BreakPending(d) \/ LosePending(d)
       \/ Login(d) \/ SaveLogin(d) \/ DropConnect(d)
       \/ SendRekey(d) \/ CommitRekey(d) \/ SaveRekey(d)
       \/ FreshLogin(d) \/ \E n \in Secret : StartChange(d, n)
       \/ TakeChange(d) \/ RefuseChange(d) \/ BreakChange(d) \/ LoseChange(d)
       \/ StoreChange(d) \/ ConfirmChange(d) \/ SaveConfirm(d) \/ DropConfirm(d)
       \/ \E n \in Secret, key \in shown : StartReset(d, n, key)
       \/ ProveReset(d) \/ TakeReset(d) \/ BreakReset(d) \/ LoseServerReset(d) \/ KeepReset(d)
       \/ StoreReset(d)

Spec == Init /\ [][Next]_vars
-------------------------------------------------------------------------------
(***************************************************************************)
(* Properties.                                                             *)
(***************************************************************************)
KeySet == [id : Nat \ {0}, password : Secret, recovery : Secret, weak : BOOLEAN, by : Device \cup {Nobody}]

(* The type of what the server and the devices store: a key set has a      *)
(* password wrap and a recovery wrap, whatever flow made it.               *)
TypeOK ==
  /\ record \in Secret /\ keySet \in KeySet
  /\ local \in [Device -> Wrap \cup {NoProfile}]
  /\ unlocked \in [Device -> {0} \cup Secret]
  /\ session \in [Device -> {"none", "live", "past"}]
  /\ \A d \in Device : unlocked[d] = 0 => session[d] = "none"

(* A swap is made by who proves the secret that is in force when it lands: *)
(* a change started under a password that was replaced meanwhile, or a     *)
(* second reset by the same recovery key, never lands                      *)
(* (finishPasswordChange, finishRecovery). Exempt is the change under a    *)
(* session past a swap (see ChangeProvesTheCurrent).                       *)
EachSwapProvesTheCurrent == \A swap \in swaps : swap.past \/ swap.proof = swap.was

(* user/router.ts asks a change for "a fresh OPAQUE login with the current *)
(* password". A login that passed its check before a swap is fresh to it,  *)
(* with the password before.                                               *)
ChangeProvesTheCurrent == \A swap \in swaps : swap.proof = swap.was

(* The password that logs in also opens the account key, in spite of       *)
(* concurrent changes, resets and rekeys; a rekey that passed the session  *)
(* check before a change, or has a session past one, may write over it     *)
(* (rekeyPasswordKeys).                                                    *)
RecordOpensTheKeySet == stray \/ record = keySet.password

(* A device whose session the server still takes, and that isn't busy,     *)
(* keeps the account's current wraps and has no reset left to send (attach,*)
(* revokeUserSessions). Exempt are the sessions past a swap: of a login    *)
(* that passed its check before the swap and stored its session after      *)
(* (OpenSession), or of a swap that failed to revoke (SwapOnly).           *)
LiveIsCurrent ==
  \A d \in Device :
    session[d] = "live" /\ flow[d] = Idle /\ rekey[d] = NoRekey /\ ~stray =>
      local[d] = ServerWrap /\ keySet.password = record

(* The account's keys are in order on the server and on every device it    *)
(* still takes (user/router.ts, use-connect-server.ts).                    *)
KeysInOrder ==
  /\ TypeOK
  /\ RecordOpensTheKeySet
  /\ LiveIsCurrent

(* A user who is told a change or reset failed keeps the old secret, and   *)
(* one who is told it worked has the new one; the exceptions are a failure *)
(* after the commit and a request that arrives after the login that tested *)
(* for it (confirmChange, recoverOnDevice), and the wiped keys of          *)
(* recoverAccount.                                                         *)
ToldTruly ==
  \A n \in Secret \ {1} :
    LET swapped == \E swap \in swaps : swap.secret = n IN
    /\ told[n] = "failed" => ~swapped \/ n \in erred \cup denied \cup wiped
    /\ told[n] = "done" => swapped

(* The recovery key in force is one the user was shown, unless the reset   *)
(* by the server got no answer, or the device failed just then             *)
(* (recoverOnDevice keeps an unanswered reset).                            *)
RecoveryKeyShown ==
  \/ keySet.recovery \in shown \cup wiped
  \/ \E d \in Device : At(d, "keep") /\ flow[d].secret = keySet.recovery

(* What users of changePassword, recoverAccount and recoverOnDevice are    *)
(* told of their new secrets, and shown of the recovery key, is what       *)
(* holds, up to the exceptions named above.                                *)
UsersKnow == ToldTruly /\ RecoveryKeyShown

(* A reset that works on its device is kept until the server has it or     *)
(* refuses it, or a newer reset there takes its place: an old password     *)
(* typed at the device doesn't undo it (unlockLocal).                      *)
ResetIsKept ==
  \A n \in Secret : told[n] = "waits" =>
    \/ \E d \in Device : local[d] # NoProfile /\ local[d].pending # NoReset /\ local[d].pending.secret >= n
    \/ \E swap \in swaps : swap.secret >= n
    \/ \E r \in refused : r.secret >= n

(* use-connect-server.ts says a refused reset was overtaken by another     *)
(* device or had gone through itself. The second reset of a device, proved *)
(* like its first one, is refused for a third reason.                      *)
RefusedAsOvertaken ==
  \A r \in refused : r.here => r.secret = r.found
===============================================================================
