------------------------------- MODULE Sessions -------------------------------
(***************************************************************************)
(* The sessions of one account on the server: how logins (password, device *)
(* credential, second factor) make them and how sign-outs, revocations and *)
(* the password change end them (auth/login-router.ts, session-router.ts,  *)
(* util/redis-utils.ts, user/router.ts). Handlers interleave between any   *)
(* two of their calls to Redis or the database.                            *)
(***************************************************************************)
EXTENDS Naturals, FiniteSets

CONSTANTS
  Login,       \* logins that may be started
  Handler,     \* requests with a session that may run at a time
  Check,       \* second-factor requests that may run at a time
  Code,        \* codes that are right once (TOTP steps, backup codes)
  MaxSessions, \* bound on the session ids handed out
  MaxClock,    \* bound on the clock (ms)
  MaxTries,    \* SECOND_FACTOR_MAX_ATTEMPTS
  MaxRequests, \* bound on the requests made with a session
  MaxExpiries, \* bound on the TTLs that run out
  NoRow, Nobody, Wrong

ASSUME SessionsAssumption ==
  /\ {MaxSessions, MaxClock, MaxTries, MaxRequests, MaxExpiries} \subseteq Nat
  /\ MaxSessions >= 1 /\ MaxClock >= 2
  /\ Wrong \notin Code /\ Nobody \notin Login

VARIABLES
  (* Redis: *)
  row,        \* session:<id>
  index,      \* usersessions:<user>
  signedOut,  \* signedout:<id>
  epoch,      \* sessionepoch:<user>, 0 when there is none
  challenge,  \* login2fa:<id> of a login: 0 when there is none, else tries + 1
  (* Database: *)
  password,   \* version of the registration record
  credential, \* the device credential of the one device that registers one
  totp,       \* two-factor is on
  used,       \* codes used
  (* Requests: *)
  now, login, handler, check,
  (* History: *)
  born,       \* session ids handed out
  holders,    \* sessions the credential was registered by or linked to
  slipped,    \* logins past their last check when every session was revoked
  missed,     \* a session was ended while its credential was being registered or linked
  entered,    \* logins completed with a code: login, code, session
  compared,   \* codes compared for each login
  asked, expired

redisVars    == <<row, index, signedOut, epoch, challenge>>
databaseVars == <<password, credential, totp, used>>
historyVars  == <<born, holders, slipped, missed, entered, compared, asked, expired>>
vars == <<redisVars, databaseVars, now, login, handler, check, historyVars>>

Session == 1..MaxSessions
Idle == [at |-> "idle"]
Over == [at |-> "over"]

(* One device is signed in; two-factor is off until it turns it on.        *)
Init ==
  /\ row = [s \in Session |-> IF s = 1 THEN [since |-> 1, version |-> 1, by |-> Nobody,
                                             device |-> FALSE, keyed |-> FALSE] ELSE NoRow]
  /\ index = {1} /\ signedOut = {} /\ epoch = 0
  /\ challenge = [l \in Login |-> 0]
  /\ password = 1 /\ credential = "none" /\ totp = FALSE /\ used = {}
  /\ now = 2
  /\ login = [l \in Login |-> Idle]
  /\ handler = [h \in Handler |-> Idle]
  /\ check = [c \in Check |-> Idle]
  /\ born = 1 /\ holders = {} /\ slipped = {} /\ missed = FALSE /\ entered = {}
  /\ compared = [l \in Login |-> 0]
  /\ asked = 0 /\ expired = 0

Tick ==
  /\ now < MaxClock
  /\ now' = now + 1
  /\ UNCHANGED <<redisVars, databaseVars, login, handler, check, historyVars>>
-------------------------------------------------------------------------------
(***************************************************************************)
(* Session rows (redis-utils.ts).                                          *)
(***************************************************************************)
(* Faulty: the ms of the cut-off is still live.                            *)
LiveAtCut(since) == since >= epoch

(* isLive, the cut-off's half.                                             *)
AfterCut(since) == since > epoch

Live(s) == row[s] # NoRow /\ AfterCut(row[s].since)

(* setSession: row and index entry in one MULTI.                           *)
NewSession(l) ==
  /\ born < MaxSessions
  /\ born' = born + 1
  /\ row' = [row EXCEPT ![born + 1] =
       [since |-> now, version |-> login[l].version, by |-> l,
        device |-> login[l].device, keyed |-> login[l].device]]
  /\ index' = index \cup {born + 1}
  /\ holders' = IF login[l].device THEN holders \cup {born + 1} ELSE holders

(* deleteSession.                                                          *)
DeleteSession(s) ==
  /\ row' = [row EXCEPT ![s] = NoRow]
  /\ index' = index \ {s}

(* signOutSessions: rows, marks and index entries in one MULTI.            *)
SignOut(ids) ==
  /\ row' = [s \in Session |-> IF s \in ids THEN NoRow ELSE row[s]]
  /\ signedOut' = signedOut \cup ids
  /\ index' = index \ ids

(* isLoginRevoked.                                                         *)
LoginRevoked(since) == epoch # 0 /\ since <= epoch

(* The row's TTL runs out; its index entry stays.                          *)
Expires == expired < MaxExpiries /\ expired' = expired + 1

Expire(s) ==
  /\ row[s] # NoRow /\ Expires
  /\ row' = [row EXCEPT ![s] = NoRow]
  /\ UNCHANGED <<index, signedOut, epoch, challenge, databaseVars, now, login, handler, check,
                 born, holders, slipped, missed, entered, compared, asked>>

(* getSession of a session from before the cut-off.                        *)
Refuse(s) ==
  /\ row[s] # NoRow /\ ~Live(s)
  /\ DeleteSession(s)
  /\ UNCHANGED <<signedOut, epoch, challenge, databaseVars, now, login, handler, check, historyVars>>

(* listUserSessions: dead entries go.  One step for all it reads, as what  *)
(* is dead stays dead.                                                     *)
ListSessions ==
  /\ \E s \in index : ~Live(s)
  /\ index' = {s \in index : Live(s)}
  /\ UNCHANGED <<row, signedOut, epoch, challenge, databaseVars, now, login, handler, check, historyVars>>
-------------------------------------------------------------------------------
(***************************************************************************)
(* Logins (login-router.ts).                                               *)
(***************************************************************************)
UNCHANGEDButLogin == UNCHANGED <<redisVars, databaseVars, now, handler, check, historyVars>>

(* startLogin takes the time, before the read: a password change committed *)
(* after it still revokes ...                                              *)
StartLogin(l) ==
  /\ login[l] = Idle
  /\ login' = [login EXCEPT ![l] = [at |-> "start", since |-> now]]
  /\ UNCHANGEDButLogin

(* ... reads the registration record, and stores the attempt.              *)
ReadRecord(l) ==
  /\ login[l].at = "start"
  /\ login' = [login EXCEPT ![l] = [at |-> "attempt", since |-> @.since, version |-> password, device |-> FALSE]]
  /\ UNCHANGEDButLogin

(* startDeviceLogin.                                                       *)
StartDeviceLogin(l) ==
  /\ login[l] = Idle /\ credential = "here"
  /\ login' = [login EXCEPT ![l] = [at |-> "attempt", since |-> now, version |-> password, device |-> TRUE]]
  /\ UNCHANGEDButLogin

(* finishLogin and finishDeviceLogin: the attempt is taken; not one from   *)
(* before the last revocation, nor with a credential that is gone.         *)
FinishLogin(l) ==
  /\ login[l].at = "attempt"
  /\ login' = [login EXCEPT ![l] =
       IF LoginRevoked(@.since) \/ (@.device /\ credential # "here") THEN Over
       ELSE [@ EXCEPT !.at = IF login[l].device THEN "verified" ELSE "checked"]]
  /\ UNCHANGEDButLogin

(* finishDeviceLogin's compare-and-swap: no deleted credential.            *)
CountDeviceLogin(l) ==
  /\ login[l].at = "verified"
  /\ login' = [login EXCEPT ![l] = IF credential = "here" THEN [@ EXCEPT !.at = "checked"] ELSE Over]
  /\ UNCHANGEDButLogin

(* completeLogin: a challenge with two-factor on, else a session.          *)
CompleteLogin(l) ==
  /\ login[l].at = "checked"
  /\ IF totp
     THEN /\ challenge' = [challenge EXCEPT ![l] = 1]
          /\ login' = [login EXCEPT ![l].at = "challenge"]
          /\ UNCHANGED <<row, index, born, holders>>
     ELSE /\ NewSession(l)
          /\ login' = [login EXCEPT ![l] = Over]
          /\ UNCHANGED challenge
  /\ UNCHANGED <<signedOut, epoch, databaseVars, now, handler, check, slipped, missed, entered, compared, asked, expired>>
-------------------------------------------------------------------------------
(***************************************************************************)
(* verifySecondFactor.                                                     *)
(***************************************************************************)
UNCHANGEDButCheck == UNCHANGED <<row, index, signedOut, epoch, password, credential, totp, now, login, handler,
                                born, holders, slipped, missed, entered, asked>>

(* A step above lastUsedStep, a backup code without usedAt.                *)
Unused(code) == code \in Code \ used

Exists(l) == challenge[l] # 0

(* The challenge is still there, and the tries aren't used up.  They count *)
(* before the code is checked (COUNT_ATTEMPT_SCRIPT).                      *)
TryCode(c, l, code) ==
  /\ check[c] = Idle /\ Exists(l)
  /\ IF challenge[l] > MaxTries
     THEN challenge' = [challenge EXCEPT ![l] = 0] /\ UNCHANGED check
     ELSE /\ challenge' = [challenge EXCEPT ![l] = @ + 1]
          /\ check' = [check EXCEPT ![c] = [at |-> "counted", of |-> l, code |-> code, tries |-> challenge[l]]]
  /\ UNCHANGED <<used, compared, expired>> /\ UNCHANGEDButCheck

(* A challenge from before the last revocation is dead. Else the code is   *)
(* checked (checkSecondFactor): the step is claimed, the backup code marked*)
(* used. The two calls are one step, the wait after them is kept.          *)
CheckCode(c) ==
  LET l == check[c].of IN
  /\ check[c].at = "counted"
  /\ IF LoginRevoked(login[l].since)
     THEN UNCHANGED <<compared, used>> /\ challenge' = [challenge EXCEPT ![l] = 0] /\ check' = [check EXCEPT ![c] = Idle]
     ELSE /\ compared' = [compared EXCEPT ![l] = @ + 1]
          /\ IF totp /\ Unused(check[c].code)
             THEN /\ used' = used \cup {check[c].code}
                  /\ check' = [check EXCEPT ![c].at = "right"]
                  /\ UNCHANGED challenge
             ELSE /\ check' = [check EXCEPT ![c] = Idle]
                  /\ challenge' = IF check[c].tries >= MaxTries THEN [challenge EXCEPT ![l] = 0] ELSE challenge
                  /\ UNCHANGED used
  /\ UNCHANGED expired /\ UNCHANGEDButCheck

(* Faulty: the challenge isn't taken, only dropped.                        *)
TakesAny(l) == TRUE

(* takeSecondFactorChallenge: true for the one caller that deleted it.     *)
Takes(l) == challenge[l] # 0

(* One request ends the challenge and gets the session.                    *)
Enter(c) ==
  LET l == check[c].of IN
  /\ check[c].at = "right"
  /\ IF Takes(l)
     THEN /\ NewSession(l)
          /\ entered' = entered \cup {[by |-> l, code |-> check[c].code, session |-> born + 1]}
          /\ challenge' = [challenge EXCEPT ![l] = 0]
     ELSE UNCHANGED <<row, index, born, holders, entered, challenge>>
  /\ check' = [check EXCEPT ![c] = Idle]
  /\ UNCHANGED <<signedOut, epoch, databaseVars, now, login, handler, slipped, missed, compared, asked, expired>>

(* The challenge's TTL runs out.                                           *)
ExpireChallenge(l) ==
  /\ challenge[l] # 0 /\ Expires
  /\ challenge' = [challenge EXCEPT ![l] = 0]
  /\ UNCHANGED <<check, used, compared>> /\ UNCHANGEDButCheck
-------------------------------------------------------------------------------
(***************************************************************************)
(* Requests made with a session. The session is checked when they start    *)
(* (verifySignedRequest).                                                  *)
(***************************************************************************)
Starts(h, s) ==
  /\ handler[h] = Idle /\ Live(s)
  /\ asked < MaxRequests /\ asked' = asked + 1

Goes(h, step) == handler' = [handler EXCEPT ![h].at = step]
Ends(h) == handler' = [handler EXCEPT ![h] = Idle]
At(h, step) == handler[h].at = step

(* touchSession, started by every request and not waited for.              *)
Touch(h, s) ==
  /\ Starts(h, s)
  /\ handler' = [handler EXCEPT ![h] = [at |-> "touch", of |-> s]]
  /\ UNCHANGED <<redisVars, databaseVars, now, login, check, born, holders, slipped, missed, entered, compared, expired>>

(* Faulty: without XX a session revoked meanwhile is listed again.         *)
ListedAgain(s) == index \cup {s}

(* ZADD XX.                                                                *)
ListedStill(s) == index

Touched(h) ==
  /\ At(h, "touch")
  /\ index' = ListedStill(handler[h].of)
  /\ Ends(h)
  /\ UNCHANGED <<row, signedOut, epoch, challenge, databaseVars, now, login, check, historyVars>>

Logout(h, s) ==
  /\ Starts(h, s)
  /\ DeleteSession(s)
  /\ UNCHANGED <<signedOut, epoch, challenge, databaseVars, now, login, handler, check,
                 born, holders, slipped, missed, entered, compared, expired>>

(* confirmTotp, disableTotp.                                               *)
SwitchTotp(h, s) ==
  /\ Starts(h, s) /\ ~row[s].device
  /\ totp' = ~totp
  /\ UNCHANGED <<redisVars, password, credential, used, now, login, handler, check,
                 born, holders, slipped, missed, entered, compared, expired>>
-------------------------------------------------------------------------------
(* The device credential of the session's device (user/router.ts).         *)
UNCHANGEDButLink == UNCHANGED <<index, signedOut, epoch, challenge, password, totp, used, now, login, check,
                               born, slipped, entered, compared, expired>>

(* registerDeviceCredential.                                               *)
StartRegister(h, s) ==
  /\ Starts(h, s) /\ ~row[s].device /\ credential = "none"
  /\ handler' = [handler EXCEPT ![h] = [at |-> "insert", of |-> s]]
  /\ UNCHANGED <<row, credential, holders, missed>> /\ UNCHANGEDButLink

InsertCredential(h) ==
  /\ At(h, "insert")
  /\ IF credential = "none"
     THEN /\ credential' = "here" /\ holders' = holders \cup {handler[h].of}
          /\ missed' = (missed \/ ~Live(handler[h].of) \/ row[handler[h].of].version # password)
          /\ Goes(h, "link")
     ELSE Ends(h) /\ UNCHANGED <<credential, holders, missed>>
  /\ UNCHANGED <<row, asked>> /\ UNCHANGEDButLink

(* linkDeviceCredential.                                                   *)
StartLink(h, s) ==
  /\ Starts(h, s) /\ credential = "here" /\ ~row[s].keyed
  /\ handler' = [handler EXCEPT ![h] = [at |-> "link", of |-> s]]
  /\ UNCHANGED <<row, credential, holders, missed>> /\ UNCHANGEDButLink

(* linkSessionCredential reads the row ...                                 *)
ReadLink(h) ==
  /\ At(h, "link")
  /\ IF row[handler[h].of] = NoRow
     THEN Ends(h)
     ELSE handler' = [handler EXCEPT ![h] = [at |-> "set", of |-> @.of, copy |-> row[@.of]]]
  /\ UNCHANGED <<row, credential, holders, missed, asked>> /\ UNCHANGEDButLink

(* Faulty: without XX the row of an ended session comes back.              *)
SetAnyway(s, copy) == [row EXCEPT ![s] = [copy EXCEPT !.keyed = TRUE]]

(* SET XX.                                                                 *)
SetIfThere(s, copy) == IF row[s] = NoRow THEN row ELSE [row EXCEPT ![s] = [copy EXCEPT !.keyed = TRUE]]

(* ... and writes it with the credential.                                  *)
WriteLink(h) ==
  /\ At(h, "set")
  /\ row' = SetIfThere(handler[h].of, handler[h].copy)
  /\ holders' = IF row[handler[h].of] = NoRow THEN holders ELSE holders \cup {handler[h].of}
  /\ Ends(h)
  /\ UNCHANGED <<credential, missed, asked>> /\ UNCHANGEDButLink

Gone == IF credential = "here" THEN "gone" ELSE credential

(* The credential of a session that is being ended may be linked to it     *)
(* only now, or its row with the link may just have expired.               *)
Linking(ids) ==
  \/ \E h \in Handler : handler[h].at \in {"link", "set"} /\ handler[h].of \in ids
  \/ \E s \in ids : row[s] = NoRow
-------------------------------------------------------------------------------
UNCHANGEDButRevoke == UNCHANGED <<challenge, totp, used, now, login, check, born, holders, entered, compared, expired>>

(* session.revoke: the session's credential is read, the session signed    *)
(* out, the credential deleted.                                            *)
StartRevoke(h, s, target) ==
  /\ Starts(h, s) /\ target \in index \ {s}
  /\ handler' = [handler EXCEPT ![h] =
       [at |-> "revoke", target |-> target, keyed |-> row[target] # NoRow /\ row[target].keyed]]
  /\ UNCHANGED <<row, index, signedOut, epoch, password, credential, slipped, missed>> /\ UNCHANGEDButRevoke

RevokeOne(h) ==
  LET target == handler[h].target IN
  /\ At(h, "revoke")
  /\ IF target \in index
     THEN /\ SignOut({target})
          /\ missed' = (missed \/ (~handler[h].keyed /\ (Linking({target}) \/ row[target].keyed)))
          /\ IF handler[h].keyed THEN Goes(h, "forget") ELSE Ends(h)
     ELSE Ends(h) /\ UNCHANGED <<row, index, signedOut, missed>>
  /\ UNCHANGED <<epoch, password, credential, slipped, asked>> /\ UNCHANGEDButRevoke

(* Faulty: the device's credential is kept.                                *)
KeepCredential(h) ==
  /\ At(h, "forget")
  /\ Ends(h)
  /\ UNCHANGED <<row, index, signedOut, epoch, password, credential, slipped, missed, asked>> /\ UNCHANGEDButRevoke

ForgetCredential(h) ==
  /\ At(h, "forget")
  /\ credential' = Gone
  /\ Ends(h)
  /\ UNCHANGED <<row, index, signedOut, epoch, password, slipped, missed, asked>> /\ UNCHANGEDButRevoke

(* session.revokeOthers: the others, then every credential but its own.    *)
StartRevokeOthers(h, s) ==
  /\ Starts(h, s)
  /\ handler' = [handler EXCEPT ![h] = [at |-> "others", of |-> s, ids |-> index \ {s}]]
  /\ UNCHANGED <<row, index, signedOut, epoch, password, credential, slipped, missed>> /\ UNCHANGEDButRevoke

RevokeOthers(h) ==
  /\ At(h, "others")
  /\ SignOut(handler[h].ids)
  /\ Goes(h, "keep")
  /\ UNCHANGED <<epoch, password, credential, slipped, missed, asked>> /\ UNCHANGEDButRevoke

KeepOwnCredential(h) ==
  LET own == row[handler[h].of] IN
  /\ At(h, "keep")
  /\ credential' = IF own # NoRow /\ own.keyed THEN credential ELSE Gone
  /\ Ends(h)
  /\ UNCHANGED <<row, index, signedOut, epoch, password, slipped, missed, asked>> /\ UNCHANGEDButRevoke

(* finishPasswordChange's transaction, then revokeUserSessions: the ids,   *)
(* the cut-off, the sign-outs, its own session.                            *)
ChangePassword(h, s) ==
  /\ Starts(h, s) /\ ~row[s].device /\ password = 1
  /\ password' = 2
  /\ credential' = Gone
  /\ handler' = [handler EXCEPT ![h] = [at |-> "ids", of |-> s]]
  /\ UNCHANGED <<row, index, signedOut, epoch, slipped, missed>> /\ UNCHANGEDButRevoke

ReadIds(h) ==
  /\ At(h, "ids")
  /\ handler' = [handler EXCEPT ![h] = [at |-> "cut", of |-> @.of, ids |-> index \ {@.of}]]
  /\ UNCHANGED <<row, index, signedOut, epoch, password, credential, slipped, missed, asked>> /\ UNCHANGEDButRevoke

(* Logins that passed their last look at the cut-off.                      *)
PastTheCheck ==
  {l \in Login : login[l].at \in {"verified", "checked"}}
    \cup {check[c].of : c \in {d \in Check : check[d].at = "right"}}

Cut(h) ==
  /\ At(h, "cut")
  /\ epoch' = now
  /\ slipped' = slipped \cup PastTheCheck
  /\ Goes(h, "out")
  /\ UNCHANGED <<row, index, signedOut, password, credential, missed, asked>> /\ UNCHANGEDButRevoke

SignOutAll(h) ==
  /\ At(h, "out")
  /\ SignOut(handler[h].ids)
  /\ missed' = (missed \/ credential = "here")
  /\ Goes(h, "own")
  /\ UNCHANGED <<epoch, password, credential, slipped, asked>> /\ UNCHANGEDButRevoke

EndOwn(h) ==
  /\ At(h, "own")
  /\ DeleteSession(handler[h].of)
  /\ Ends(h)
  /\ UNCHANGED <<signedOut, epoch, password, credential, slipped, missed, asked>> /\ UNCHANGEDButRevoke
-------------------------------------------------------------------------------
Next ==
  \/ Tick \/ ListSessions
  \/ \E s \in Session : Expire(s) \/ Refuse(s)
  \/ \E l \in Login :
       \/ StartLogin(l) \/ ReadRecord(l) \/ StartDeviceLogin(l) \/ FinishLogin(l)
       \/ CountDeviceLogin(l) \/ CompleteLogin(l) \/ ExpireChallenge(l)
  \/ \E c \in Check :
       \/ \E l \in Login, code \in Code \cup {Wrong} : TryCode(c, l, code)
       \/ CheckCode(c) \/ Enter(c)
  \/ \E h \in Handler :
       \/ \E s \in Session :
            \/ Touch(h, s) \/ Logout(h, s) \/ SwitchTotp(h, s)
            \/ StartRegister(h, s) \/ StartLink(h, s)
            \/ \E target \in Session : StartRevoke(h, s, target)
            \/ StartRevokeOthers(h, s) \/ ChangePassword(h, s)
       \/ Touched(h) \/ InsertCredential(h) \/ ReadLink(h) \/ WriteLink(h)
       \/ RevokeOne(h) \/ ForgetCredential(h) \/ RevokeOthers(h) \/ KeepOwnCredential(h)
       \/ ReadIds(h) \/ Cut(h) \/ SignOutAll(h) \/ EndOwn(h)

Spec == Init /\ [][Next]_vars
-------------------------------------------------------------------------------
(***************************************************************************)
(* Properties.                                                             *)
(***************************************************************************)
Row == [since : 1..MaxClock, version : {1, 2}, by : Login \cup {Nobody}, device : BOOLEAN, keyed : BOOLEAN]

(* What Redis and the database hold; a challenge exists only for a login   *)
(* that waits for its code.                                                *)
TypeOK ==
  /\ row \in [Session -> Row \cup {NoRow}]
  /\ index \subseteq 1..born /\ signedOut \subseteq 1..born
  /\ epoch \in 0..now /\ now \in 1..MaxClock
  /\ \A l \in Login : challenge[l] \in 0..(MaxTries + 1) /\ (challenge[l] # 0 => login[l].at = "challenge")
  /\ credential \in {"none", "here", "gone"} /\ used \subseteq Code

(* A session ended from elsewhere stays ended: nothing that read it before *)
(* writes its row or lists it again (linkSessionCredential, touchSession). *)
EndedStaysEnded == \A s \in signedOut : row[s] = NoRow /\ s \notin index

(* Every session that works can be found to be ended (setSession).         *)
LiveIsListed == \A s \in Session : Live(s) => s \in index

Changing == \E h \in Handler : handler[h].at \in {"ids", "cut", "out", "own"}

(* After a password change no session from a login with the old password   *)
(* works, whatever logins ran meanwhile, except one past its last check    *)
(* when the cut-off was written (finishLogin, revokeUserSessions).         *)
OldPasswordIsOut ==
  ~Changing => \A s \in Session : Live(s) => row[s].version = password \/ row[s].by \in slipped

(* A device signed out by session.revoke can't log in with its credential, *)
(* except when the credential was being linked, or the session had just    *)
(* expired.                                                                *)
RevokedDeviceIsOut ==
  (credential = "here" /\ \A h \in Handler : handler[h].at \notin {"forget", "others", "keep"}) =>
    missed \/ ~(holders \subseteq signedOut)

(* One code and one challenge get one session, however many requests with  *)
(* them run at a time (checkSecondFactor, takeSecondFactorChallenge).      *)
CodesEnterOnce ==
  \A a, b \in entered : a.by = b.by \/ a.code = b.code => a.session = b.session

(* No more codes are compared for a challenge than its cap, also in        *)
(* parallel (countSecondFactorAttempt).                                    *)
TriesAreCapped == \A l \in Login : compared[l] <= MaxTries

(* Parallel codes and tries (checkSecondFactor): one session per code and  *)
(* challenge, and no more tries than the cap.                              *)
CodesCount == CodesEnterOnce /\ TriesAreCapped

(* redis-utils.ts, isLoginRevoked: a login that ran against the old        *)
(* password must not create a session.                                     *)
OldPasswordNeverEnters ==
  ~Changing => \A s \in Session : Live(s) => row[s].version = password

(* user/router.ts: linked to this session, so revoking it removes the      *)
(* credential too.                                                         *)
RevokeTakesTheCredential ==
  (credential = "here" /\ \A h \in Handler : handler[h].at \notin {"forget", "others", "keep"}) =>
    ~(holders \subseteq signedOut)
===============================================================================
