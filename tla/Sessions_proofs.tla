---------------------------- MODULE Sessions_proofs ----------------------------
(***************************************************************************)
(* Proofs about Sessions, for every number of logins, requests, codes and  *)
(* sessions and every bound.                                               *)
(***************************************************************************)
EXTENDS Sessions, FiniteSetTheorems, TLAPS

(***************************************************************************)
(* Types: what requests hold between two of their steps.                   *)
(***************************************************************************)
Time == 1..MaxClock

LoginState ==
  {Idle, Over} \cup [at : {"start"}, since : Time]
    \cup [at : {"attempt", "verified", "checked", "challenge"}, since : Time,
          version : {1, 2}, device : BOOLEAN]

CheckState ==
  {Idle} \cup [at : {"counted", "right"}, of : Login, code : Code \cup {Wrong}, tries : Nat]

HandlerState ==
  {Idle} \cup [at : {"touch", "insert", "link", "ids"}, of : Session]
    \cup [at : {"set"}, of : Session, copy : Row]
    \cup [at : {"revoke", "forget"}, target : Session, keyed : BOOLEAN]
    \cup [at : {"others", "keep", "cut", "out", "own"}, of : Session, ids : SUBSET Session]

(* A session id that isn't handed out has no row.                          *)
RowsTyped ==
  /\ row \in [Session -> Row \cup {NoRow}]
  /\ index \subseteq 1..born /\ signedOut \subseteq 1..born
  /\ epoch \in 0..now /\ now \in Time /\ born \in Session
  /\ credential \in {"none", "here", "gone"} /\ password \in {1, 2} /\ used \subseteq Code
  /\ \A s \in Session : s > born => row[s] = NoRow

LoginsTyped ==
  /\ login \in [Login -> LoginState]
  /\ challenge \in [Login -> 0..(MaxTries + 1)]
  /\ \A l \in Login : challenge[l] # 0 => login[l].at = "challenge"

ChecksTyped == check \in [Check -> CheckState]

(* The session ids a request names are among the first n.                  *)
Names(x, n) ==
  /\ x.at \in {"revoke", "forget"} => x.target <= n
  /\ x.at \in {"others", "keep", "cut", "out", "own"} => x.ids \subseteq 1..n
  /\ x.at = "set" => x.of <= n

HandlersTyped ==
  /\ handler \in [Handler -> HandlerState]
  /\ \A h \in Handler : Names(handler[h], born)

TypeInv == RowsTyped /\ LoginsTyped /\ ChecksTyped /\ HandlersTyped

LEMMA TypesFollow == TypeInv => TypeOK
BY DEF TypeInv, TypeOK, RowsTyped, LoginsTyped, Time, Session

LEMMA InitTyped == Init => TypeInv
BY SessionsAssumption DEF Init, TypeInv, RowsTyped, LoginsTyped, ChecksTyped, HandlersTyped, Names, Session, Row,
  Time, LoginState, CheckState, HandlerState, Idle

(* A request that moves on keeps the types of all.                         *)
LEMMA HandlerMoves ==
  ASSUME HandlersTyped, NEW h \in Handler, NEW x \in HandlerState, Names(x, born),
         handler' = [handler EXCEPT ![h] = x], born' = born
  PROVE  HandlersTyped'
BY DEF HandlersTyped

(* So does one that hands out a session id.                                *)
LEMMA HandlersStay ==
  ASSUME RowsTyped, HandlersTyped, handler' = handler, born' \in {born, born + 1}
  PROVE  HandlersTyped'
<1>1. born \in Nat
  BY SessionsAssumption DEF RowsTyped, Session
<1>2. ASSUME NEW h \in Handler PROVE Names(handler[h], born)'
  <2>1. handler[h] \in HandlerState /\ Names(handler[h], born)
    BY DEF HandlersTyped
  <2>. QED
    BY <1>1, <2>1 DEF Names, HandlerState, Idle, Session
<1>. QED
  BY <1>2 DEF HandlersTyped

(* A login that moves on, with its challenge.                              *)
LEMMA LoginMoves ==
  ASSUME LoginsTyped, NEW l \in Login, NEW x \in LoginState, NEW n \in 0..(MaxTries + 1),
         n # 0 => x.at = "challenge",
         login' = [login EXCEPT ![l] = x], challenge' = [challenge EXCEPT ![l] = n]
  PROVE  LoginsTyped'
BY DEF LoginsTyped

(* setSession, for a login whose record is typed.                          *)
LEMMA NewSessionTyped ==
  ASSUME RowsTyped, NEW l \in Login, NewSession(l),
         login[l].version \in {1, 2}, login[l].device \in BOOLEAN,
         UNCHANGED <<signedOut, epoch, now, credential, password, used>>
  PROVE  RowsTyped'
<1>1. now \in Time /\ born \in Nat /\ born' = born + 1 /\ born' \in Session
  BY SessionsAssumption DEF NewSession, RowsTyped, Session
<1> DEFINE r == [since |-> now, version |-> login[l].version, by |-> l,
                 device |-> login[l].device, keyed |-> login[l].device]
<1>2. r \in Row
  BY <1>1 DEF Row, Time
<1>3. row' = [row EXCEPT ![born + 1] = r]
  BY DEF NewSession
<1> HIDE DEF r
<1>4. row' \in [Session -> Row \cup {NoRow}]
  BY <1>2, <1>3 DEF RowsTyped
<1>5. index' \subseteq 1..born' /\ signedOut' \subseteq 1..born'
  BY <1>1 DEF NewSession, RowsTyped
<1>6. \A s \in Session : s > born' => row'[s] = NoRow
  BY <1>1, <1>3 DEF RowsTyped, Session
<1>. QED
  BY <1>1, <1>4, <1>5, <1>6 DEF RowsTyped

LEMMA TypeStep == TypeInv /\ [Next]_vars => TypeInv'
<1> SUFFICES ASSUME TypeInv, [Next]_vars PROVE TypeInv'
  OBVIOUS
<1> USE SessionsAssumption DEF Session, Time, TypeInv, Idle, Over, redisVars, databaseVars, historyVars
<1>1. CASE Tick
  <2>1. RowsTyped'
    BY <1>1 DEF Tick, RowsTyped, Row
  <2>2. LoginsTyped' /\ ChecksTyped' /\ HandlersTyped'
    BY <1>1 DEF Tick, LoginsTyped, ChecksTyped, HandlersTyped
  <2>. QED
    BY <2>1, <2>2
<1>2. CASE ListSessions
  <2>1. RowsTyped'
    BY <1>2 DEF ListSessions, Live, AfterCut, RowsTyped, Row
  <2>2. LoginsTyped' /\ ChecksTyped' /\ HandlersTyped'
    BY <1>2 DEF ListSessions, Live, AfterCut, LoginsTyped, ChecksTyped, HandlersTyped
  <2>. QED
    BY <2>1, <2>2
<1>3. ASSUME NEW s \in Session, Expire(s) PROVE TypeInv'
  <2>1. RowsTyped'
    BY <1>3 DEF Expire, Expires, RowsTyped, Row
  <2>2. LoginsTyped' /\ ChecksTyped' /\ HandlersTyped'
    BY <1>3 DEF Expire, Expires, LoginsTyped, ChecksTyped, HandlersTyped
  <2>. QED
    BY <2>1, <2>2
<1>4. ASSUME NEW s \in Session, Refuse(s) PROVE TypeInv'
  <2>1. RowsTyped'
    BY <1>4 DEF Refuse, DeleteSession, RowsTyped, Row
  <2>2. LoginsTyped' /\ ChecksTyped' /\ HandlersTyped'
    BY <1>4 DEF Refuse, DeleteSession, LoginsTyped, ChecksTyped, HandlersTyped
  <2>. QED
    BY <2>1, <2>2
<1>5. ASSUME NEW l \in Login, StartLogin(l) PROVE TypeInv'
  <2>1. LoginsTyped'
    BY <1>5 DEF StartLogin, UNCHANGEDButLogin, RowsTyped, LoginsTyped, LoginState
  <2>2. RowsTyped' /\ ChecksTyped' /\ HandlersTyped'
    BY <1>5 DEF StartLogin, UNCHANGEDButLogin, RowsTyped, ChecksTyped, HandlersTyped
  <2>. QED
    BY <2>1, <2>2
<1>6. ASSUME NEW l \in Login, ReadRecord(l) PROVE TypeInv'
  <2>1. LoginsTyped'
    BY <1>6 DEF ReadRecord, UNCHANGEDButLogin, RowsTyped, LoginsTyped, LoginState
  <2>2. RowsTyped' /\ ChecksTyped' /\ HandlersTyped'
    BY <1>6 DEF ReadRecord, UNCHANGEDButLogin, RowsTyped, ChecksTyped, HandlersTyped
  <2>. QED
    BY <2>1, <2>2
<1>7. ASSUME NEW l \in Login, StartDeviceLogin(l) PROVE TypeInv'
  <2>1. LoginsTyped'
    BY <1>7 DEF StartDeviceLogin, UNCHANGEDButLogin, RowsTyped, LoginsTyped, LoginState
  <2>2. RowsTyped' /\ ChecksTyped' /\ HandlersTyped'
    BY <1>7 DEF StartDeviceLogin, UNCHANGEDButLogin, RowsTyped, ChecksTyped, HandlersTyped
  <2>. QED
    BY <2>1, <2>2
<1>8. ASSUME NEW l \in Login, FinishLogin(l) PROVE TypeInv'
  <2>1. LoginsTyped'
    <3>1. login[l] \in [at : {"attempt", "verified", "checked", "challenge"}, since : Time, version : {1, 2}, device : BOOLEAN]
      BY <1>8 DEF FinishLogin, LoginsTyped, LoginState
    <3>2. /\ Over \in LoginState
          /\ [login[l] EXCEPT !.at = "checked"] \in LoginState
          /\ [login[l] EXCEPT !.at = "verified"] \in LoginState
      BY <3>1 DEF LoginState
    <3>3. challenge[l] = 0
      BY <1>8 DEF FinishLogin, LoginsTyped
    <3>4. challenge' = [challenge EXCEPT ![l] = 0]
      BY <1>8, <3>3 DEF FinishLogin, UNCHANGEDButLogin, LoginsTyped
    <3>5. \E x \in LoginState : login' = [login EXCEPT ![l] = x]
      BY <1>8, <3>2 DEF FinishLogin
    <3>6. PICK x \in LoginState : login' = [login EXCEPT ![l] = x]
      BY <3>5
    <3>7. 0 \in 0..(MaxTries + 1)
      BY SessionsAssumption
    <3>. QED
      BY <3>4, <3>6, <3>7, LoginMoves
  <2>2. RowsTyped' /\ ChecksTyped' /\ HandlersTyped'
    BY <1>8 DEF FinishLogin, UNCHANGEDButLogin, RowsTyped, ChecksTyped, HandlersTyped
  <2>. QED
    BY <2>1, <2>2
<1>9. ASSUME NEW l \in Login, CountDeviceLogin(l) PROVE TypeInv'
  <2>1. LoginsTyped'
    <3>1. login[l] \in [at : {"attempt", "verified", "checked", "challenge"}, since : Time, version : {1, 2}, device : BOOLEAN]
      BY <1>9 DEF CountDeviceLogin, LoginsTyped, LoginState
    <3>2. /\ Over \in LoginState
          /\ [login[l] EXCEPT !.at = "checked"] \in LoginState
          /\ [login[l] EXCEPT !.at = "verified"] \in LoginState
      BY <3>1 DEF LoginState
    <3>3. challenge[l] = 0
      BY <1>9 DEF CountDeviceLogin, LoginsTyped
    <3>4. challenge' = [challenge EXCEPT ![l] = 0]
      BY <1>9, <3>3 DEF CountDeviceLogin, UNCHANGEDButLogin, LoginsTyped
    <3>5. \E x \in LoginState : login' = [login EXCEPT ![l] = x]
      BY <1>9, <3>2 DEF CountDeviceLogin
    <3>6. PICK x \in LoginState : login' = [login EXCEPT ![l] = x]
      BY <3>5
    <3>7. 0 \in 0..(MaxTries + 1)
      BY SessionsAssumption
    <3>. QED
      BY <3>4, <3>6, <3>7, LoginMoves
  <2>2. RowsTyped' /\ ChecksTyped' /\ HandlersTyped'
    BY <1>9 DEF CountDeviceLogin, UNCHANGEDButLogin, RowsTyped, ChecksTyped, HandlersTyped
  <2>. QED
    BY <2>1, <2>2
<1>10. ASSUME NEW l \in Login, CompleteLogin(l) PROVE TypeInv'
  <2>1. RowsTyped'
    <3>1. CASE totp
      BY <1>10, <3>1 DEF CompleteLogin, RowsTyped
    <3>2. CASE ~totp
      <4>1. login[l].version \in {1, 2} /\ login[l].device \in BOOLEAN
        BY <1>10 DEF CompleteLogin, LoginsTyped, LoginState
      <4>2. NewSession(l) /\ UNCHANGED <<signedOut, epoch, now, credential, password, used>>
        BY <1>10, <3>2 DEF CompleteLogin
      <4>. QED
        BY <4>1, <4>2, NewSessionTyped
    <3>. QED
      BY <3>1, <3>2
  <2>2. LoginsTyped'
    <3>1. login[l] \in [at : {"attempt", "verified", "checked", "challenge"}, since : Time, version : {1, 2}, device : BOOLEAN]
      BY <1>10 DEF CompleteLogin, LoginsTyped, LoginState
    <3>2. [login[l] EXCEPT !.at = "challenge"] \in LoginState /\ Over \in LoginState
      BY <3>1 DEF LoginState
    <3>3. [login[l] EXCEPT !.at = "challenge"].at = "challenge"
      BY <3>1
    <3>4. challenge[l] = 0
      BY <1>10 DEF CompleteLogin, LoginsTyped
    <3>5. challenge = [challenge EXCEPT ![l] = 0]
      BY <3>4 DEF LoginsTyped
    <3>6. 0 \in 0..(MaxTries + 1) /\ 1 \in 0..(MaxTries + 1)
      BY SessionsAssumption
    <3>7. CASE totp
      <4>1. /\ login' = [login EXCEPT ![l] = [login[l] EXCEPT !.at = "challenge"]]
            /\ challenge' = [challenge EXCEPT ![l] = 1]
        BY <1>10, <3>7 DEF CompleteLogin
      <4>. QED
        BY <3>2, <3>3, <3>6, <4>1, LoginMoves
    <3>8. CASE ~totp
      <4>1. login' = [login EXCEPT ![l] = Over] /\ challenge' = [challenge EXCEPT ![l] = 0]
        BY <1>10, <3>5, <3>8 DEF CompleteLogin
      <4>. QED
        BY <3>2, <3>6, <4>1, LoginMoves
    <3>. QED
      BY <3>7, <3>8
  <2>3. HandlersTyped'
    BY <1>10, HandlersStay DEF CompleteLogin, NewSession
  <2>4. ChecksTyped'
    BY <1>10 DEF CompleteLogin, NewSession, ChecksTyped
  <2>. QED
    BY <2>1, <2>2, <2>3, <2>4
<1>11. ASSUME NEW l \in Login, ExpireChallenge(l) PROVE TypeInv'
  <2>1. LoginsTyped'
    BY <1>11 DEF ExpireChallenge, UNCHANGEDButCheck, Expires, RowsTyped, LoginsTyped, LoginState
  <2>2. RowsTyped' /\ ChecksTyped' /\ HandlersTyped'
    BY <1>11 DEF ExpireChallenge, UNCHANGEDButCheck, Expires, RowsTyped, ChecksTyped, HandlersTyped
  <2>. QED
    BY <2>1, <2>2
<1>12. ASSUME NEW c \in Check, NEW l \in Login, NEW code \in Code \cup {Wrong}, TryCode(c, l, code) PROVE TypeInv'
  <2>1. LoginsTyped'
    <3>1. challenge[l] \in 1..(MaxTries + 1) /\ MaxTries \in Nat /\ login[l].at = "challenge"
      BY <1>12 DEF TryCode, Exists, LoginsTyped
    <3>2. login = [login EXCEPT ![l] = login[l]] /\ login[l] \in LoginState
      BY DEF LoginsTyped
    <3>3. \E n \in 0..(MaxTries + 1) : challenge' = [challenge EXCEPT ![l] = n]
      BY <1>12, <3>1 DEF TryCode
    <3>. QED
      BY <1>12, <3>1, <3>2, <3>3, LoginMoves DEF TryCode, UNCHANGEDButCheck
  <2>2. ChecksTyped'
    <3> DEFINE x == [at |-> "counted", of |-> l, code |-> code, tries |-> challenge[l]]
    <3>1. x \in CheckState
      BY <1>12 DEF CheckState, LoginsTyped
    <3>. QED
      BY <1>12, <3>1 DEF TryCode, ChecksTyped
  <2>3. RowsTyped' /\ HandlersTyped'
    BY <1>12 DEF TryCode, UNCHANGEDButCheck, Exists, RowsTyped, HandlersTyped
  <2>. QED
    BY <2>1, <2>2, <2>3
<1>13. ASSUME NEW c \in Check, CheckCode(c) PROVE TypeInv'
  <2>1. RowsTyped'
    BY <1>13 DEF CheckCode, UNCHANGEDButCheck, Unused, RowsTyped, Row
  <2>2. LoginsTyped'
    BY <1>13 DEF CheckCode, UNCHANGEDButCheck, Unused, RowsTyped, LoginsTyped, LoginState
  <2>3. ChecksTyped'
    BY <1>13 DEF CheckCode, UNCHANGEDButCheck, Unused, RowsTyped, ChecksTyped, CheckState
  <2>4. HandlersTyped'
    BY <1>13 DEF CheckCode, UNCHANGEDButCheck, Unused, HandlersTyped
  <2>. QED
    BY <2>1, <2>2, <2>3, <2>4
<1>14. ASSUME NEW c \in Check, Enter(c) PROVE TypeInv'
  <2>1. RowsTyped'
    <3> DEFINE l == check[c].of
    <3>1. l \in Login
      BY <1>14 DEF Enter, ChecksTyped, CheckState
    <3>2. CASE Takes(l)
      <4>1. login[l].version \in {1, 2} /\ login[l].device \in BOOLEAN
        BY <3>1, <3>2 DEF Takes, LoginsTyped, LoginState
      <4>2. NewSession(l) /\ UNCHANGED <<signedOut, epoch, now, credential, password, used>>
        BY <1>14, <3>2 DEF Enter
      <4>. QED
        BY <3>1, <4>1, <4>2, NewSessionTyped
    <3>3. CASE ~Takes(l)
      BY <1>14, <3>3 DEF Enter, RowsTyped
    <3>. QED
      BY <3>2, <3>3
  <2>2. LoginsTyped'
    BY <1>14 DEF Enter, Takes, NewSession, RowsTyped, LoginsTyped, LoginState, LoginsTyped, LoginState
  <2>3. ChecksTyped'
    BY <1>14 DEF Enter, Takes, NewSession, RowsTyped, ChecksTyped, CheckState, LoginsTyped, LoginState
  <2>4. HandlersTyped'
    BY <1>14, HandlersStay DEF Enter, NewSession
  <2>. QED
    BY <2>1, <2>2, <2>3, <2>4
<1>15. ASSUME NEW h \in Handler, NEW s \in Session, Touch(h, s) PROVE TypeInv'
  <2>1. HandlersTyped'
    BY <1>15 DEF Touch, Starts, Live, AfterCut, RowsTyped, HandlersTyped, HandlerState, Names, Row
  <2>2. RowsTyped' /\ LoginsTyped' /\ ChecksTyped'
    BY <1>15 DEF Touch, Starts, Live, AfterCut, RowsTyped, LoginsTyped, ChecksTyped
  <2>. QED
    BY <2>1, <2>2
<1>16. ASSUME NEW h \in Handler, NEW s \in Session, Logout(h, s) PROVE TypeInv'
  <2>1. RowsTyped'
    BY <1>16 DEF Logout, Starts, DeleteSession, RowsTyped, Row
  <2>2. LoginsTyped' /\ ChecksTyped' /\ HandlersTyped'
    BY <1>16 DEF Logout, Starts, DeleteSession, LoginsTyped, ChecksTyped, HandlersTyped
  <2>. QED
    BY <2>1, <2>2
<1>17. ASSUME NEW h \in Handler, NEW s \in Session, SwitchTotp(h, s) PROVE TypeInv'
  <2>1. RowsTyped' /\ LoginsTyped' /\ ChecksTyped' /\ HandlersTyped'
    BY <1>17 DEF SwitchTotp, Starts, RowsTyped, LoginsTyped, ChecksTyped, HandlersTyped
  <2>. QED
    BY <2>1
<1>18. ASSUME NEW h \in Handler, NEW s \in Session, StartRegister(h, s) PROVE TypeInv'
  <2>1. HandlersTyped'
    BY <1>18 DEF StartRegister, Starts, Live, AfterCut, UNCHANGEDButLink, RowsTyped, HandlersTyped, HandlerState, Names, Row
  <2>2. RowsTyped' /\ LoginsTyped' /\ ChecksTyped'
    BY <1>18 DEF StartRegister, Starts, Live, AfterCut, UNCHANGEDButLink, RowsTyped, LoginsTyped, ChecksTyped
  <2>. QED
    BY <2>1, <2>2
<1>19. ASSUME NEW h \in Handler, NEW s \in Session, StartLink(h, s) PROVE TypeInv'
  <2>1. HandlersTyped'
    BY <1>19 DEF StartLink, Starts, Live, AfterCut, UNCHANGEDButLink, RowsTyped, HandlersTyped, HandlerState, Names, Row
  <2>2. RowsTyped' /\ LoginsTyped' /\ ChecksTyped'
    BY <1>19 DEF StartLink, Starts, Live, AfterCut, UNCHANGEDButLink, RowsTyped, LoginsTyped, ChecksTyped
  <2>. QED
    BY <2>1, <2>2
<1>20. ASSUME NEW h \in Handler, NEW s \in Session, NEW target \in Session, StartRevoke(h, s, target) PROVE TypeInv'
  <2>1. HandlersTyped'
    BY <1>20 DEF StartRevoke, Starts, UNCHANGEDButRevoke, RowsTyped, HandlersTyped, HandlerState, Names, Row
  <2>2. RowsTyped' /\ LoginsTyped' /\ ChecksTyped'
    BY <1>20 DEF StartRevoke, Starts, UNCHANGEDButRevoke, RowsTyped, LoginsTyped, ChecksTyped
  <2>. QED
    BY <2>1, <2>2
<1>21. ASSUME NEW h \in Handler, NEW s \in Session, StartRevokeOthers(h, s) PROVE TypeInv'
  <2>1. HandlersTyped'
    <3> DEFINE x == [at |-> "others", of |-> s, ids |-> index \ {s}]
    <3>1. index \subseteq 1..born /\ 1..born \subseteq Session
      BY DEF RowsTyped
    <3>2. x \in HandlerState /\ Names(x, born)
      BY <3>1 DEF HandlerState, Names
    <3>. QED
      BY <1>21, <3>2, HandlerMoves DEF StartRevokeOthers, UNCHANGEDButRevoke
  <2>2. RowsTyped' /\ LoginsTyped' /\ ChecksTyped'
    BY <1>21 DEF StartRevokeOthers, Starts, UNCHANGEDButRevoke, RowsTyped, LoginsTyped, ChecksTyped
  <2>. QED
    BY <2>1, <2>2
<1>22. ASSUME NEW h \in Handler, NEW s \in Session, ChangePassword(h, s) PROVE TypeInv'
  <2>1. RowsTyped'
    BY <1>22 DEF ChangePassword, Starts, Gone, UNCHANGEDButRevoke, RowsTyped, Row, HandlersTyped, HandlerState, Names
  <2>2. HandlersTyped'
    BY <1>22 DEF ChangePassword, Starts, Gone, UNCHANGEDButRevoke, RowsTyped, HandlersTyped, HandlerState, Names, Row
  <2>3. LoginsTyped' /\ ChecksTyped'
    BY <1>22 DEF ChangePassword, Starts, Gone, UNCHANGEDButRevoke, LoginsTyped, ChecksTyped
  <2>. QED
    BY <2>1, <2>2, <2>3
<1>23. ASSUME NEW h \in Handler, Touched(h) PROVE TypeInv'
  <2>1. RowsTyped'
    BY <1>23 DEF Touched, At, Ends, ListedStill, RowsTyped, Row, HandlersTyped, HandlerState, Names
  <2>2. HandlersTyped'
    BY <1>23 DEF Touched, At, Ends, ListedStill, RowsTyped, HandlersTyped, HandlerState, Names, Row
  <2>3. LoginsTyped' /\ ChecksTyped'
    BY <1>23 DEF Touched, At, Ends, ListedStill, LoginsTyped, ChecksTyped
  <2>. QED
    BY <2>1, <2>2, <2>3
<1>24. ASSUME NEW h \in Handler, InsertCredential(h) PROVE TypeInv'
  <2>1. RowsTyped'
    BY <1>24 DEF InsertCredential, At, Goes, Ends, UNCHANGEDButLink, RowsTyped, Row, HandlersTyped, HandlerState, Names
  <2>2. HandlersTyped'
    <3>1. handler[h] \in [at : {"touch", "insert", "link", "ids"}, of : Session]
      BY <1>24 DEF InsertCredential, At, HandlersTyped, HandlerState
    <3>2. [handler[h] EXCEPT !.at = "link"] \in HandlerState /\ Names([handler[h] EXCEPT !.at = "link"], born)
      BY <3>1 DEF HandlerState, Names
    <3>3. Idle \in HandlerState /\ Names(Idle, born)
      BY DEF HandlerState, Names
    <3>. QED
      BY <1>24, <3>2, <3>3, HandlerMoves DEF InsertCredential, Goes, Ends, UNCHANGEDButLink
  <2>3. LoginsTyped' /\ ChecksTyped'
    BY <1>24 DEF InsertCredential, At, Goes, Ends, UNCHANGEDButLink, LoginsTyped, ChecksTyped
  <2>. QED
    BY <2>1, <2>2, <2>3
<1>25. ASSUME NEW h \in Handler, ReadLink(h) PROVE TypeInv'
  <2>1. HandlersTyped'
    BY <1>25 DEF ReadLink, At, Ends, UNCHANGEDButLink, RowsTyped, HandlersTyped, HandlerState, Names, Row
  <2>2. RowsTyped' /\ LoginsTyped' /\ ChecksTyped'
    BY <1>25 DEF ReadLink, At, Ends, UNCHANGEDButLink, RowsTyped, LoginsTyped, ChecksTyped
  <2>. QED
    BY <2>1, <2>2
<1>26. ASSUME NEW h \in Handler, WriteLink(h) PROVE TypeInv'
  <2>1. RowsTyped'
    <3>1. handler[h] \in [at : {"set"}, of : Session, copy : Row] /\ handler[h].of <= born
      BY <1>26 DEF WriteLink, At, HandlersTyped, HandlerState, Names
    <3>2. [handler[h].copy EXCEPT !.keyed = TRUE] \in Row
      BY <3>1 DEF Row
    <3>3. \/ row' = row
          \/ row' = [row EXCEPT ![handler[h].of] = [handler[h].copy EXCEPT !.keyed = TRUE]] /\ row[handler[h].of] # NoRow
      BY <1>26 DEF WriteLink, SetIfThere
    <3>4. row' \in [Session -> Row \cup {NoRow}]
      BY <3>2, <3>3 DEF RowsTyped
    <3>5. \A s \in Session : s > born => row'[s] = NoRow
      BY <3>1, <3>3 DEF RowsTyped
    <3>. QED
      BY <1>26, <3>4, <3>5 DEF WriteLink, UNCHANGEDButLink, RowsTyped
  <2>2. HandlersTyped'
    BY <1>26 DEF WriteLink, At, Ends, SetIfThere, UNCHANGEDButLink, RowsTyped, HandlersTyped, HandlerState, Names, Row
  <2>3. LoginsTyped' /\ ChecksTyped'
    BY <1>26 DEF WriteLink, At, Ends, SetIfThere, UNCHANGEDButLink, LoginsTyped, ChecksTyped
  <2>. QED
    BY <2>1, <2>2, <2>3
<1>27. ASSUME NEW h \in Handler, RevokeOne(h) PROVE TypeInv'
  <2>1. RowsTyped'
    BY <1>27 DEF RevokeOne, At, Goes, Ends, SignOut, UNCHANGEDButRevoke, RowsTyped, Row, HandlersTyped, HandlerState, Names
  <2>2. HandlersTyped'
    <3>1. handler[h] \in [at : {"revoke", "forget"}, target : Session, keyed : BOOLEAN] /\ Names(handler[h], born)
      BY <1>27 DEF RevokeOne, At, HandlersTyped, HandlerState, Names
    <3>2. [handler[h] EXCEPT !.at = "forget"] \in HandlerState /\ Names([handler[h] EXCEPT !.at = "forget"], born)
      BY <3>1 DEF HandlerState, Names
    <3>3. Idle \in HandlerState /\ Names(Idle, born)
      BY DEF HandlerState, Names
    <3>. QED
      BY <1>27, <3>2, <3>3, HandlerMoves DEF RevokeOne, Goes, Ends, UNCHANGEDButRevoke
  <2>3. LoginsTyped' /\ ChecksTyped'
    BY <1>27 DEF RevokeOne, At, Goes, Ends, SignOut, UNCHANGEDButRevoke, LoginsTyped, ChecksTyped
  <2>. QED
    BY <2>1, <2>2, <2>3
<1>28. ASSUME NEW h \in Handler, ForgetCredential(h) PROVE TypeInv'
  <2>1. RowsTyped'
    BY <1>28 DEF ForgetCredential, At, Ends, Gone, UNCHANGEDButRevoke, RowsTyped, Row, HandlersTyped, HandlerState, Names
  <2>2. HandlersTyped'
    BY <1>28 DEF ForgetCredential, At, Ends, Gone, UNCHANGEDButRevoke, RowsTyped, HandlersTyped, HandlerState, Names, Row
  <2>3. LoginsTyped' /\ ChecksTyped'
    BY <1>28 DEF ForgetCredential, At, Ends, Gone, UNCHANGEDButRevoke, LoginsTyped, ChecksTyped
  <2>. QED
    BY <2>1, <2>2, <2>3
<1>29. ASSUME NEW h \in Handler, RevokeOthers(h) PROVE TypeInv'
  <2>1. RowsTyped'
    BY <1>29 DEF RevokeOthers, At, Goes, SignOut, UNCHANGEDButRevoke, RowsTyped, Row, HandlersTyped, HandlerState, Names
  <2>2. HandlersTyped'
    <3>1. handler[h] \in [at : {"others", "keep", "cut", "out", "own"}, of : Session, ids : SUBSET Session] /\ Names(handler[h], born)
      BY <1>29 DEF RevokeOthers, At, HandlersTyped, HandlerState, Names
    <3>2. [handler[h] EXCEPT !.at = "keep"] \in HandlerState /\ Names([handler[h] EXCEPT !.at = "keep"], born)
      BY <3>1 DEF HandlerState, Names
    <3>. QED
      BY <1>29, <3>2, HandlerMoves DEF RevokeOthers, Goes, UNCHANGEDButRevoke
  <2>3. LoginsTyped' /\ ChecksTyped'
    BY <1>29 DEF RevokeOthers, At, Goes, SignOut, UNCHANGEDButRevoke, LoginsTyped, ChecksTyped
  <2>. QED
    BY <2>1, <2>2, <2>3
<1>30. ASSUME NEW h \in Handler, KeepOwnCredential(h) PROVE TypeInv'
  <2>1. RowsTyped'
    BY <1>30 DEF KeepOwnCredential, At, Ends, Gone, UNCHANGEDButRevoke, RowsTyped, Row, HandlersTyped, HandlerState, Names
  <2>2. HandlersTyped'
    BY <1>30 DEF KeepOwnCredential, At, Ends, Gone, UNCHANGEDButRevoke, RowsTyped, HandlersTyped, HandlerState, Names, Row
  <2>3. LoginsTyped' /\ ChecksTyped'
    BY <1>30 DEF KeepOwnCredential, At, Ends, Gone, UNCHANGEDButRevoke, LoginsTyped, ChecksTyped
  <2>. QED
    BY <2>1, <2>2, <2>3
<1>31. ASSUME NEW h \in Handler, ReadIds(h) PROVE TypeInv'
  <2>1. HandlersTyped'
    <3> DEFINE x == [at |-> "cut", of |-> handler[h].of, ids |-> index \ {handler[h].of}]
    <3>1. handler[h] \in [at : {"touch", "insert", "link", "ids"}, of : Session]
      BY <1>31 DEF ReadIds, At, HandlersTyped, HandlerState
    <3>2. index \subseteq 1..born /\ 1..born \subseteq Session
      BY DEF RowsTyped
    <3>3. x \in HandlerState /\ Names(x, born)
      BY <3>1, <3>2 DEF HandlerState, Names
    <3>. QED
      BY <1>31, <3>3, HandlerMoves DEF ReadIds, UNCHANGEDButRevoke
  <2>2. RowsTyped' /\ LoginsTyped' /\ ChecksTyped'
    BY <1>31 DEF ReadIds, At, UNCHANGEDButRevoke, RowsTyped, LoginsTyped, ChecksTyped
  <2>. QED
    BY <2>1, <2>2
<1>32. ASSUME NEW h \in Handler, Cut(h) PROVE TypeInv'
  <2>1. RowsTyped'
    BY <1>32 DEF Cut, At, Goes, UNCHANGEDButRevoke, RowsTyped, Row, HandlersTyped, HandlerState, Names
  <2>2. HandlersTyped'
    <3>1. handler[h] \in [at : {"others", "keep", "cut", "out", "own"}, of : Session, ids : SUBSET Session] /\ Names(handler[h], born)
      BY <1>32 DEF Cut, At, HandlersTyped, HandlerState, Names
    <3>2. [handler[h] EXCEPT !.at = "out"] \in HandlerState /\ Names([handler[h] EXCEPT !.at = "out"], born)
      BY <3>1 DEF HandlerState, Names
    <3>. QED
      BY <1>32, <3>2, HandlerMoves DEF Cut, Goes, UNCHANGEDButRevoke
  <2>3. LoginsTyped' /\ ChecksTyped'
    BY <1>32 DEF Cut, At, Goes, UNCHANGEDButRevoke, LoginsTyped, ChecksTyped
  <2>. QED
    BY <2>1, <2>2, <2>3
<1>33. ASSUME NEW h \in Handler, SignOutAll(h) PROVE TypeInv'
  <2>1. RowsTyped'
    BY <1>33 DEF SignOutAll, At, Goes, SignOut, UNCHANGEDButRevoke, RowsTyped, Row, HandlersTyped, HandlerState, Names
  <2>2. HandlersTyped'
    <3>1. handler[h] \in [at : {"others", "keep", "cut", "out", "own"}, of : Session, ids : SUBSET Session] /\ Names(handler[h], born)
      BY <1>33 DEF SignOutAll, At, HandlersTyped, HandlerState, Names
    <3>2. [handler[h] EXCEPT !.at = "own"] \in HandlerState /\ Names([handler[h] EXCEPT !.at = "own"], born)
      BY <3>1 DEF HandlerState, Names
    <3>. QED
      BY <1>33, <3>2, HandlerMoves DEF SignOutAll, Goes, UNCHANGEDButRevoke
  <2>3. LoginsTyped' /\ ChecksTyped'
    BY <1>33 DEF SignOutAll, At, Goes, SignOut, UNCHANGEDButRevoke, LoginsTyped, ChecksTyped
  <2>. QED
    BY <2>1, <2>2, <2>3
<1>34. ASSUME NEW h \in Handler, EndOwn(h) PROVE TypeInv'
  <2>1. RowsTyped'
    BY <1>34 DEF EndOwn, At, Ends, DeleteSession, UNCHANGEDButRevoke, RowsTyped, Row, HandlersTyped, HandlerState, Names
  <2>2. HandlersTyped'
    BY <1>34 DEF EndOwn, At, Ends, DeleteSession, UNCHANGEDButRevoke, RowsTyped, HandlersTyped, HandlerState, Names, Row
  <2>3. LoginsTyped' /\ ChecksTyped'
    BY <1>34 DEF EndOwn, At, Ends, DeleteSession, UNCHANGEDButRevoke, LoginsTyped, ChecksTyped
  <2>. QED
    BY <2>1, <2>2, <2>3
<1>35. CASE UNCHANGED vars
  BY <1>35 DEF vars, RowsTyped, LoginsTyped, ChecksTyped, HandlersTyped
<1>. QED
  BY <1>1, <1>2, <1>3, <1>4, <1>5, <1>6, <1>7, <1>8, <1>9, <1>10, <1>11, <1>12, <1>13, <1>14, <1>15, <1>16, <1>17, <1>18, <1>19, <1>20, <1>21, <1>22, <1>23, <1>24, <1>25, <1>26, <1>27, <1>28, <1>29, <1>30, <1>31, <1>32, <1>33, <1>34, <1>35 DEF Next

(* Every variable keeps its type.                                          *)
THEOREM TypeCorrect == Spec => []TypeOK
<1>1. Spec => []TypeInv
  BY InitTyped, TypeStep, PTL DEF Spec
<1>. QED
  BY <1>1, TypesFollow, PTL
-------------------------------------------------------------------------------
(***************************************************************************)
(* Ended sessions and the index.                                           *)
(***************************************************************************)
(* The row a link will be written over is from the same login.             *)
CopyCurrent ==
  \A h \in Handler : handler[h].at = "set" /\ row[handler[h].of] # NoRow =>
    handler[h].copy.since = row[handler[h].of].since

EndInv == EndedStaysEnded /\ LiveIsListed /\ CopyCurrent

LEMMA KnownIds ==
  ASSUME TypeInv
  PROVE  /\ born \in Nat /\ 1..born \subseteq Session
         /\ index \subseteq Session /\ signedOut \subseteq Session
         /\ \A s \in signedOut : s # born + 1
<1>1. born \in 1..MaxSessions /\ MaxSessions \in Nat
  BY SessionsAssumption DEF TypeInv, RowsTyped, Session
<1>2. \A s \in 1..born : s \in Session /\ s # born + 1
  BY <1>1 DEF Session
<1>. QED
  BY <1>1, <1>2 DEF TypeInv, RowsTyped

(* Rows, entries and old times only go, marks come with both gone, and no  *)
(* request gets a copy.                                                    *)
LEMMA EndKept ==
  ASSUME TypeInv, TypeInv', EndInv,
         \A s \in Session : row'[s] \in {row[s], NoRow},
         index' \subseteq index,
         \A s \in Session : Live(s)' => s \notin index \ index',
         \A s \in signedOut' \ signedOut : row'[s] = NoRow /\ s \notin index',
         epoch' >= epoch,
         \A h \in Handler : handler'[h].at = "set" => handler'[h] = handler[h]
  PROVE  EndInv'
<1> USE DEF TypeInv, RowsTyped
<1>1. signedOut' \subseteq Session /\ signedOut \subseteq Session
  <2>1. 1..born' \subseteq Session
    BY SessionsAssumption DEF Session
  <2>. QED
    BY <2>1, KnownIds
<1>2. EndedStaysEnded'
  BY <1>1 DEF EndInv, EndedStaysEnded
<1>3. ASSUME NEW s \in Session, Live(s)' PROVE s \in index'
  <2>1. row'[s] = row[s] /\ row[s] \in Row /\ epoch \in Nat /\ epoch' \in Nat
    BY <1>3 DEF Live, Time
  <2>2. Live(s)
    BY <1>3, <2>1 DEF Live, AfterCut, Row
  <2>. QED
    BY <1>3, <2>2 DEF EndInv, LiveIsListed
<1>4. CopyCurrent'
  <2> SUFFICES ASSUME NEW h \in Handler, handler'[h].at = "set", row'[handler'[h].of] # NoRow
               PROVE  handler'[h].copy.since = row'[handler'[h].of].since
    BY DEF CopyCurrent
  <2>1. handler'[h] = handler[h] /\ handler[h].of \in Session
    BY DEF HandlersTyped, HandlerState, Idle
  <2>. QED
    BY <2>1 DEF EndInv, CopyCurrent
<1>. QED
  BY <1>2, <1>3, <1>4 DEF EndInv, LiveIsListed

(* A request that doesn't read a row before it writes it has no copy.      *)
LEMMA NoCopyMade ==
  ASSUME TypeInv, NEW h \in Handler, NEW step \in {"link", "forget"}, Goes(h, step) \/ Ends(h),
         \/ handler[h] \in [at : {"touch", "insert", "link", "ids"}, of : Session]
         \/ handler[h] \in [at : {"revoke", "forget"}, target : Session, keyed : BOOLEAN]
  PROVE  \A g \in Handler : handler'[g].at = "set" => handler'[g] = handler[g]
<1>1. handler \in [Handler -> HandlerState]
  BY DEF TypeInv, HandlersTyped
<1>2. \A g \in Handler \ {h} : handler'[g] = handler[g]
  BY <1>1 DEF Goes, Ends
<1>3. handler'[h].at = "idle" \/ handler'[h].at = step
  <2>1. CASE Ends(h)
    BY <1>1, <2>1 DEF Ends, Idle
  <2>2. CASE Goes(h, step)
    <3>1. handler'[h] = [handler[h] EXCEPT !.at = step]
      BY <1>1, <2>2 DEF Goes
    <3>2. CASE handler[h] \in [at : {"touch", "insert", "link", "ids"}, of : Session]
      BY <3>1, <3>2
    <3>3. CASE handler[h] \in [at : {"revoke", "forget"}, target : Session, keyed : BOOLEAN]
      BY <3>1, <3>3
    <3>. QED
      BY <3>2, <3>3
  <2>. QED
    BY <2>1, <2>2
<1>. QED
  BY <1>2, <1>3

(* A new session is listed, and never had a mark.                          *)
LEMMA EndedWithNewSession ==
  ASSUME TypeInv, TypeInv', EndInv, NEW l \in Login, NewSession(l), UNCHANGED <<signedOut, epoch, handler>>
  PROVE  EndInv'
<1> USE DEF TypeInv, RowsTyped
<1>1. born \in Nat /\ born + 1 \in Session /\ \A s \in Session \ {born + 1} : row'[s] = row[s]
  BY SessionsAssumption DEF NewSession, Session
<1>2. born + 1 \notin signedOut /\ signedOut \subseteq Session
  BY KnownIds
<1>3. index' = index \cup {born + 1}
  BY DEF NewSession
<1>4. EndedStaysEnded'
  BY <1>1, <1>2, <1>3 DEF EndInv, EndedStaysEnded
<1>5. LiveIsListed'
  BY <1>1, <1>3 DEF EndInv, LiveIsListed, Live, AfterCut
<1>6. CopyCurrent'
  <2> SUFFICES ASSUME NEW h \in Handler, handler[h].at = "set", row'[handler[h].of] # NoRow
               PROVE  handler[h].copy.since = row'[handler[h].of].since
    BY DEF CopyCurrent
  <2>1. handler[h].of \in Session /\ handler[h].of <= born
    BY DEF HandlersTyped, HandlerState, Names, Idle
  <2>2. handler[h].of # born + 1
    BY <1>1, <2>1 DEF Session
  <2>. QED
    BY <1>1, <2>1, <2>2 DEF EndInv, CopyCurrent
<1>. QED
  BY <1>4, <1>5, <1>6 DEF EndInv

LEMMA EndStep == TypeInv /\ TypeInv' /\ EndInv /\ [Next]_vars => EndInv'
<1> SUFFICES ASSUME TypeInv, TypeInv', EndInv, [Next]_vars PROVE EndInv'
  OBVIOUS
<1> USE DEF redisVars, databaseVars, historyVars, Idle
<1>. epoch \in Nat /\ now \in Nat /\ now >= epoch
  BY DEF TypeInv, RowsTyped, Time
<1>. /\ row \in [Session -> Row \cup {NoRow}] /\ index \subseteq Session
     /\ \A h \in Handler : handler[h] \in HandlerState
  BY KnownIds DEF TypeInv, RowsTyped, HandlersTyped
<1>1. CASE Tick
  BY <1>1, EndKept DEF Tick
<1>2. CASE ListSessions
  BY <1>2, EndKept DEF ListSessions, Live, AfterCut
<1>3. ASSUME NEW s \in Session, Expire(s) PROVE EndInv'
  BY <1>3, EndKept DEF Expire, Expires
<1>4. ASSUME NEW s \in Session, Refuse(s) PROVE EndInv'
  <2>1. row' = [row EXCEPT ![s] = NoRow] /\ index' = index \ {s} /\ UNCHANGED <<signedOut, epoch>>
    BY <1>4 DEF Refuse, DeleteSession
  <2>2. \A r \in Session : row'[r] \in {row[r], NoRow} /\ (Live(r)' => r \notin index \ index')
    BY <2>1 DEF Live
  <2>3. \A g \in Handler : handler'[g].at = "set" => handler'[g] = handler[g]
    BY <1>4 DEF Refuse, TypeInv
  <2>. QED
    BY <2>1, <2>2, <2>3, EndKept
<1>5. ASSUME NEW l \in Login, StartLogin(l) PROVE EndInv'
  BY <1>5, EndKept DEF StartLogin, UNCHANGEDButLogin
<1>6. ASSUME NEW l \in Login, ReadRecord(l) PROVE EndInv'
  BY <1>6, EndKept DEF ReadRecord, UNCHANGEDButLogin
<1>7. ASSUME NEW l \in Login, StartDeviceLogin(l) PROVE EndInv'
  BY <1>7, EndKept DEF StartDeviceLogin, UNCHANGEDButLogin
<1>8. ASSUME NEW l \in Login, FinishLogin(l) PROVE EndInv'
  BY <1>8, EndKept DEF FinishLogin, UNCHANGEDButLogin
<1>9. ASSUME NEW l \in Login, CountDeviceLogin(l) PROVE EndInv'
  BY <1>9, EndKept DEF CountDeviceLogin, UNCHANGEDButLogin
<1>10. ASSUME NEW l \in Login, CompleteLogin(l) PROVE EndInv'
  BY <1>10, EndedWithNewSession, EndKept DEF CompleteLogin
<1>11. ASSUME NEW l \in Login, ExpireChallenge(l) PROVE EndInv'
  BY <1>11, EndKept DEF ExpireChallenge, UNCHANGEDButCheck, Expires
<1>12. ASSUME NEW c \in Check, NEW l \in Login, NEW code \in Code \cup {Wrong}, TryCode(c, l, code) PROVE EndInv'
  BY <1>12, EndKept DEF TryCode, UNCHANGEDButCheck, Exists
<1>13. ASSUME NEW c \in Check, CheckCode(c) PROVE EndInv'
  BY <1>13, EndKept DEF CheckCode, UNCHANGEDButCheck, Unused
<1>14. ASSUME NEW c \in Check, Enter(c) PROVE EndInv'
  <2>1. check[c].of \in Login
    BY <1>14 DEF Enter, TypeInv, ChecksTyped, CheckState
  <2>. QED
    BY <1>14, <2>1, EndedWithNewSession, EndKept DEF Enter
<1>15. ASSUME NEW h \in Handler, NEW s \in Session, Touch(h, s) PROVE EndInv'
  BY <1>15, EndKept DEF Touch, Starts, Live, AfterCut
<1>16. ASSUME NEW h \in Handler, NEW s \in Session, Logout(h, s) PROVE EndInv'
  <2>1. row' = [row EXCEPT ![s] = NoRow] /\ index' = index \ {s} /\ UNCHANGED <<signedOut, epoch>>
    BY <1>16 DEF Logout, DeleteSession
  <2>2. \A r \in Session : row'[r] \in {row[r], NoRow} /\ (Live(r)' => r \notin index \ index')
    BY <2>1 DEF Live
  <2>3. \A g \in Handler : handler'[g].at = "set" => handler'[g] = handler[g]
    BY <1>16 DEF Logout, TypeInv
  <2>. QED
    BY <2>1, <2>2, <2>3, EndKept
<1>17. ASSUME NEW h \in Handler, NEW s \in Session, SwitchTotp(h, s) PROVE EndInv'
  BY <1>17, EndKept DEF SwitchTotp, Starts
<1>18. ASSUME NEW h \in Handler, NEW s \in Session, StartRegister(h, s) PROVE EndInv'
  BY <1>18, EndKept DEF StartRegister, Starts, Live, AfterCut, UNCHANGEDButLink
<1>19. ASSUME NEW h \in Handler, NEW s \in Session, StartLink(h, s) PROVE EndInv'
  BY <1>19, EndKept DEF StartLink, Starts, Live, AfterCut, UNCHANGEDButLink
<1>20. ASSUME NEW h \in Handler, NEW s \in Session, NEW target \in Session, StartRevoke(h, s, target) PROVE EndInv'
  BY <1>20, EndKept DEF StartRevoke, Starts, UNCHANGEDButRevoke
<1>21. ASSUME NEW h \in Handler, NEW s \in Session, StartRevokeOthers(h, s) PROVE EndInv'
  BY <1>21, EndKept DEF StartRevokeOthers, Starts, UNCHANGEDButRevoke
<1>22. ASSUME NEW h \in Handler, NEW s \in Session, ChangePassword(h, s) PROVE EndInv'
  BY <1>22, EndKept DEF ChangePassword, Starts, Gone, UNCHANGEDButRevoke
<1>23. ASSUME NEW h \in Handler, Touched(h) PROVE EndInv'
  BY <1>23, EndKept DEF Touched, At, Ends, ListedStill
<1>24. ASSUME NEW h \in Handler, InsertCredential(h) PROVE EndInv'
  <2>1. handler[h] \in [at : {"touch", "insert", "link", "ids"}, of : Session] /\ (Goes(h, "link") \/ Ends(h))
    BY <1>24 DEF InsertCredential, At, HandlerState
  <2>2. \A g \in Handler : handler'[g].at = "set" => handler'[g] = handler[g]
    BY <2>1, NoCopyMade
  <2>. QED
    BY <1>24, <2>2, EndKept DEF InsertCredential, UNCHANGEDButLink
<1>25. ASSUME NEW h \in Handler, ReadLink(h) PROVE EndInv'
  <2>1. EndedStaysEnded' /\ LiveIsListed'
    BY <1>25 DEF ReadLink, UNCHANGEDButLink, EndInv, EndedStaysEnded, LiveIsListed, Live, AfterCut
  <2>2. CopyCurrent'
    BY <1>25 DEF ReadLink, Ends, UNCHANGEDButLink, EndInv, CopyCurrent, TypeInv, HandlersTyped
  <2>. QED
    BY <2>1, <2>2 DEF EndInv
<1>26. ASSUME NEW h \in Handler, WriteLink(h) PROVE EndInv'
  <2> DEFINE s == handler[h].of
  <2>1. handler[h] \in [at : {"set"}, of : Session, copy : Row]
    BY <1>26 DEF WriteLink, At, HandlerState
  <2>2. CASE row[s] = NoRow
    BY <1>26, <2>2, EndKept DEF WriteLink, At, Ends, SetIfThere, UNCHANGEDButLink
  <2>3. CASE row[s] # NoRow
    <3>1. row' = [row EXCEPT ![s] = [handler[h].copy EXCEPT !.keyed = TRUE]]
      BY <1>26, <2>3 DEF WriteLink, SetIfThere
    <3>2. /\ row'[s].since = row[s].since
          /\ \A t \in Session \ {s} : row'[t] = row[t]
      BY <1>26, <2>1, <2>3, <3>1 DEF WriteLink, At, EndInv, CopyCurrent, Row
    <3>3. UNCHANGED <<index, signedOut, epoch>>
      BY <1>26 DEF WriteLink, UNCHANGEDButLink
    <3>4. s \notin signedOut
      BY <2>3 DEF EndInv, EndedStaysEnded
    <3>5. EndedStaysEnded'
      BY <3>2, <3>3, <3>4, KnownIds DEF EndInv, EndedStaysEnded
    <3>6. LiveIsListed'
      BY <2>1, <2>3, <3>2, <3>3 DEF EndInv, LiveIsListed, Live, AfterCut
    <3>7. CopyCurrent'
      BY <1>26, <2>1, <2>3, <3>2 DEF WriteLink, Ends, EndInv, CopyCurrent, HandlersTyped, HandlerState, TypeInv
    <3>. QED
      BY <3>5, <3>6, <3>7 DEF EndInv
  <2>. QED
    BY <2>2, <2>3
<1>27. ASSUME NEW h \in Handler, RevokeOne(h) PROVE EndInv'
  <2> DEFINE t == handler[h].target
  <2>1. handler[h] \in [at : {"revoke", "forget"}, target : Session, keyed : BOOLEAN] /\ (Goes(h, "forget") \/ Ends(h))
    BY <1>27 DEF RevokeOne, At, HandlerState
  <2>2. \A g \in Handler : handler'[g].at = "set" => handler'[g] = handler[g]
    BY <2>1, NoCopyMade
  <2>3. CASE t \in index
    <3>1. /\ row' = [s \in Session |-> IF s \in {t} THEN NoRow ELSE row[s]]
          /\ index' = index \ {t} /\ signedOut' = signedOut \cup {t} /\ epoch' = epoch
      BY <1>27, <2>3 DEF RevokeOne, SignOut, UNCHANGEDButRevoke
    <3>2. \A r \in Session : row'[r] \in {row[r], NoRow} /\ (Live(r)' => r \notin index \ index')
      BY <3>1 DEF Live
    <3>. QED
      BY <2>2, <2>3, <3>1, <3>2, EndKept
  <2>4. CASE t \notin index
    BY <1>27, <2>2, <2>4, EndKept DEF RevokeOne, UNCHANGEDButRevoke
  <2>. QED
    BY <2>3, <2>4
<1>28. ASSUME NEW h \in Handler, ForgetCredential(h) PROVE EndInv'
  BY <1>28, EndKept DEF ForgetCredential, At, Ends, Gone, UNCHANGEDButRevoke
<1>29. ASSUME NEW h \in Handler, RevokeOthers(h) PROVE EndInv'
  <2>1. /\ row' = [s \in Session |-> IF s \in handler[h].ids THEN NoRow ELSE row[s]]
        /\ index' = index \ handler[h].ids /\ signedOut' = signedOut \cup handler[h].ids /\ epoch' = epoch
    BY <1>29 DEF RevokeOthers, SignOut, UNCHANGEDButRevoke
  <2>2. handler[h].ids \subseteq Session
    BY <1>29 DEF RevokeOthers, At, HandlerState
  <2>3. \A r \in Session : row'[r] \in {row[r], NoRow} /\ (Live(r)' => r \notin index \ index')
    BY <2>1 DEF Live
  <2>4. \A g \in Handler : handler'[g].at = "set" => handler'[g] = handler[g]
    BY <1>29 DEF RevokeOthers, Goes, TypeInv, HandlersTyped
  <2>. QED
    BY <2>1, <2>2, <2>3, <2>4, EndKept
<1>30. ASSUME NEW h \in Handler, KeepOwnCredential(h) PROVE EndInv'
  BY <1>30, EndKept DEF KeepOwnCredential, At, Ends, Gone, UNCHANGEDButRevoke
<1>31. ASSUME NEW h \in Handler, ReadIds(h) PROVE EndInv'
  BY <1>31, EndKept DEF ReadIds, At, UNCHANGEDButRevoke
<1>32. ASSUME NEW h \in Handler, Cut(h) PROVE EndInv'
  BY <1>32, EndKept DEF Cut, At, Goes, UNCHANGEDButRevoke
<1>33. ASSUME NEW h \in Handler, SignOutAll(h) PROVE EndInv'
  <2>1. /\ row' = [s \in Session |-> IF s \in handler[h].ids THEN NoRow ELSE row[s]]
        /\ index' = index \ handler[h].ids /\ signedOut' = signedOut \cup handler[h].ids /\ epoch' = epoch
    BY <1>33 DEF SignOutAll, SignOut, UNCHANGEDButRevoke
  <2>2. handler[h].ids \subseteq Session
    BY <1>33 DEF SignOutAll, At, HandlerState
  <2>3. \A r \in Session : row'[r] \in {row[r], NoRow} /\ (Live(r)' => r \notin index \ index')
    BY <2>1 DEF Live
  <2>4. \A g \in Handler : handler'[g].at = "set" => handler'[g] = handler[g]
    BY <1>33 DEF SignOutAll, Goes, TypeInv, HandlersTyped
  <2>. QED
    BY <2>1, <2>2, <2>3, <2>4, EndKept
<1>34. ASSUME NEW h \in Handler, EndOwn(h) PROVE EndInv'
  <2>1. row' = [row EXCEPT ![handler[h].of] = NoRow] /\ index' = index \ {handler[h].of} /\ UNCHANGED <<signedOut, epoch>>
    BY <1>34 DEF EndOwn, DeleteSession, UNCHANGEDButRevoke
  <2>2. \A r \in Session : row'[r] \in {row[r], NoRow} /\ (Live(r)' => r \notin index \ index')
    BY <2>1 DEF Live
  <2>3. \A g \in Handler : handler'[g].at = "set" => handler'[g] = handler[g]
    BY <1>34 DEF EndOwn, Ends, TypeInv, HandlersTyped
  <2>. QED
    BY <2>1, <2>2, <2>3, EndKept
<1>35. CASE UNCHANGED vars
  BY <1>35, EndKept DEF vars
<1>. QED
  BY <1>1, <1>2, <1>3, <1>4, <1>5, <1>6, <1>7, <1>8, <1>9, <1>10, <1>11, <1>12, <1>13, <1>14, <1>15, <1>16, <1>17, <1>18, <1>19, <1>20, <1>21, <1>22, <1>23, <1>24, <1>25, <1>26, <1>27, <1>28, <1>29, <1>30, <1>31, <1>32, <1>33, <1>34, <1>35 DEF Next

LEMMA EndInit == Init => EndInv
BY DEF Init, EndInv, EndedStaysEnded, LiveIsListed, CopyCurrent, Live, Idle

(* A session ended from elsewhere never gets its row or its entry back,    *)
(* whatever requests with it were under way (signOutSessions).             *)
THEOREM EndedSessions == Spec => []EndedStaysEnded
BY InitTyped, EndInit, TypeStep, EndStep, PTL DEF Spec, EndInv

(* A session that works is always in its user's index, where a sign-out of *)
(* all looks for it.                                                       *)
THEOREM LiveSessionsListed == Spec => []LiveIsListed
BY InitTyped, EndInit, TypeStep, EndStep, PTL DEF Spec, EndInv
-------------------------------------------------------------------------------
(***************************************************************************)
(* Codes and challenges.                                                   *)
(***************************************************************************)
(* A code that got through is used, and no other request has it; a login   *)
(* that got its session has no challenge, and gets none again.             *)
CodeInv ==
  /\ \A c \in Check : check[c].at = "right" => check[c].code \in used
  /\ \A c, d \in Check : c # d /\ check[c].at = "right" /\ check[d].at = "right" => check[c].code # check[d].code
  /\ \A e \in entered :
       /\ e.by \in Login /\ challenge[e.by] = 0 /\ login[e.by].at = "challenge"
       /\ e.code \in used
       /\ \A c \in Check : check[c].at = "right" => check[c].code # e.code
  /\ CodesEnterOnce

codeVars == <<login, challenge, check, compared, entered, used>>

CodeAction ==
  \/ \E l \in Login :
       \/ StartLogin(l) \/ ReadRecord(l) \/ StartDeviceLogin(l) \/ FinishLogin(l)
       \/ CountDeviceLogin(l) \/ CompleteLogin(l) \/ ExpireChallenge(l)
  \/ \E c \in Check :
       \/ \E l \in Login, code \in Code \cup {Wrong} : TryCode(c, l, code)
       \/ CheckCode(c) \/ Enter(c)

(* Only logins and checks touch the codes; what goes on with sessions      *)
(* doesn't.                                                                *)
LEMMA OthersKeepCodes == [Next]_vars => CodeAction \/ UNCHANGED codeVars
<1> SUFFICES ASSUME [Next]_vars, ~CodeAction PROVE UNCHANGED codeVars
  OBVIOUS
<1> USE DEF redisVars, databaseVars, historyVars, codeVars
<1>1. CASE Tick
  BY <1>1 DEF Tick
<1>2. CASE ListSessions
  BY <1>2 DEF ListSessions
<1>3. ASSUME NEW s \in Session, Expire(s) PROVE UNCHANGED codeVars
  BY <1>3 DEF Expire
<1>4. ASSUME NEW s \in Session, Refuse(s) PROVE UNCHANGED codeVars
  BY <1>4 DEF Refuse
<1>5. ASSUME NEW h \in Handler, NEW s \in Session, Touch(h, s) PROVE UNCHANGED codeVars
  BY <1>5 DEF Touch
<1>6. ASSUME NEW h \in Handler, NEW s \in Session, Logout(h, s) PROVE UNCHANGED codeVars
  BY <1>6 DEF Logout
<1>7. ASSUME NEW h \in Handler, NEW s \in Session, SwitchTotp(h, s) PROVE UNCHANGED codeVars
  BY <1>7 DEF SwitchTotp
<1>8. ASSUME NEW h \in Handler, NEW s \in Session, StartRegister(h, s) PROVE UNCHANGED codeVars
  BY <1>8 DEF StartRegister, UNCHANGEDButLink
<1>9. ASSUME NEW h \in Handler, NEW s \in Session, StartLink(h, s) PROVE UNCHANGED codeVars
  BY <1>9 DEF StartLink, UNCHANGEDButLink
<1>10. ASSUME NEW h \in Handler, NEW s \in Session, NEW target \in Session, StartRevoke(h, s, target) PROVE UNCHANGED codeVars
  BY <1>10 DEF StartRevoke, UNCHANGEDButRevoke
<1>11. ASSUME NEW h \in Handler, NEW s \in Session, StartRevokeOthers(h, s) PROVE UNCHANGED codeVars
  BY <1>11 DEF StartRevokeOthers, UNCHANGEDButRevoke
<1>12. ASSUME NEW h \in Handler, NEW s \in Session, ChangePassword(h, s) PROVE UNCHANGED codeVars
  BY <1>12 DEF ChangePassword, UNCHANGEDButRevoke
<1>13. ASSUME NEW h \in Handler, Touched(h) PROVE UNCHANGED codeVars
  BY <1>13 DEF Touched
<1>14. ASSUME NEW h \in Handler, InsertCredential(h) PROVE UNCHANGED codeVars
  BY <1>14 DEF InsertCredential, UNCHANGEDButLink
<1>15. ASSUME NEW h \in Handler, ReadLink(h) PROVE UNCHANGED codeVars
  BY <1>15 DEF ReadLink, UNCHANGEDButLink
<1>16. ASSUME NEW h \in Handler, WriteLink(h) PROVE UNCHANGED codeVars
  BY <1>16 DEF WriteLink, UNCHANGEDButLink
<1>17. ASSUME NEW h \in Handler, RevokeOne(h) PROVE UNCHANGED codeVars
  BY <1>17 DEF RevokeOne, UNCHANGEDButRevoke
<1>18. ASSUME NEW h \in Handler, ForgetCredential(h) PROVE UNCHANGED codeVars
  BY <1>18 DEF ForgetCredential, UNCHANGEDButRevoke
<1>19. ASSUME NEW h \in Handler, RevokeOthers(h) PROVE UNCHANGED codeVars
  BY <1>19 DEF RevokeOthers, UNCHANGEDButRevoke
<1>20. ASSUME NEW h \in Handler, KeepOwnCredential(h) PROVE UNCHANGED codeVars
  BY <1>20 DEF KeepOwnCredential, UNCHANGEDButRevoke
<1>21. ASSUME NEW h \in Handler, ReadIds(h) PROVE UNCHANGED codeVars
  BY <1>21 DEF ReadIds, UNCHANGEDButRevoke
<1>22. ASSUME NEW h \in Handler, Cut(h) PROVE UNCHANGED codeVars
  BY <1>22 DEF Cut, UNCHANGEDButRevoke
<1>23. ASSUME NEW h \in Handler, SignOutAll(h) PROVE UNCHANGED codeVars
  BY <1>23 DEF SignOutAll, UNCHANGEDButRevoke
<1>24. ASSUME NEW h \in Handler, EndOwn(h) PROVE UNCHANGED codeVars
  BY <1>24 DEF EndOwn, UNCHANGEDButRevoke
<1>25. CASE UNCHANGED vars
  BY <1>25 DEF vars
<1>. QED
  BY <1>1, <1>2, <1>3, <1>4, <1>5, <1>6, <1>7, <1>8, <1>9, <1>10, <1>11, <1>12, <1>13, <1>14, <1>15, <1>16, <1>17, <1>18, <1>19, <1>20, <1>21, <1>22, <1>23, <1>24, <1>25 DEF Next, CodeAction

LEMMA CodeStep == TypeInv /\ CodeInv /\ [Next]_vars => CodeInv'
<1> SUFFICES ASSUME TypeInv, CodeInv, [Next]_vars PROVE CodeInv'
  OBVIOUS
<1> USE DEF redisVars, databaseVars, historyVars, Idle, CodeInv, CodesEnterOnce
<1>. /\ login \in [Login -> LoginState] /\ check \in [Check -> CheckState]
     /\ challenge \in [Login -> 0..(MaxTries + 1)]
     /\ \A l \in Login : challenge[l] # 0 => login[l].at = "challenge"
  BY DEF TypeInv, LoginsTyped, ChecksTyped
<1>1. ASSUME NEW l \in Login, StartLogin(l) PROVE CodeInv'
  BY <1>1 DEF StartLogin, UNCHANGEDButLogin
<1>2. ASSUME NEW l \in Login, ReadRecord(l) PROVE CodeInv'
  <2>1. \A e \in entered : e.by # l
    BY <1>2 DEF ReadRecord
  <2>. QED
    BY <1>2, <2>1 DEF ReadRecord, UNCHANGEDButLogin
<1>3. ASSUME NEW l \in Login, StartDeviceLogin(l) PROVE CodeInv'
  BY <1>3 DEF StartDeviceLogin, UNCHANGEDButLogin
<1>4. ASSUME NEW l \in Login, FinishLogin(l) PROVE CodeInv'
  <2>1. \A e \in entered : e.by # l
    BY <1>4 DEF FinishLogin
  <2>. QED
    BY <1>4, <2>1 DEF FinishLogin, UNCHANGEDButLogin
<1>5. ASSUME NEW l \in Login, CountDeviceLogin(l) PROVE CodeInv'
  <2>1. \A e \in entered : e.by # l
    BY <1>5 DEF CountDeviceLogin
  <2>. QED
    BY <1>5, <2>1 DEF CountDeviceLogin, UNCHANGEDButLogin
<1>6. ASSUME NEW l \in Login, CompleteLogin(l) PROVE CodeInv'
  <2>1. \A e \in entered : e.by # l
    BY <1>6 DEF CompleteLogin
  <2>. QED
    BY <1>6, <2>1 DEF CompleteLogin
<1>7. ASSUME NEW l \in Login, ExpireChallenge(l) PROVE CodeInv'
  BY <1>7 DEF ExpireChallenge, UNCHANGEDButCheck, Expires
<1>8. ASSUME NEW c \in Check, NEW l \in Login, NEW code \in Code \cup {Wrong}, TryCode(c, l, code) PROVE CodeInv'
  <2>1. CASE challenge[l] > MaxTries
    BY <1>8, <2>1 DEF TryCode, UNCHANGEDButCheck
  <2>2. CASE ~(challenge[l] > MaxTries)
    <3>1. check' = [check EXCEPT ![c] = [at |-> "counted", of |-> l, code |-> code, tries |-> challenge[l]]]
      BY <1>8, <2>2 DEF TryCode
    <3>2. check'[c].at = "counted" /\ \A d \in Check \ {c} : check'[d] = check[d]
      BY <3>1
    <3>3. \A e \in entered : e.by # l
      BY <1>8 DEF TryCode, Exists
    <3>4. \A k \in Login \ {l} : challenge'[k] = challenge[k]
      BY <1>8, <2>2 DEF TryCode
    <3>. QED
      BY <1>8, <3>2, <3>3, <3>4 DEF TryCode, UNCHANGEDButCheck
  <2>. QED
    BY <2>1, <2>2
<1>9. ASSUME NEW c \in Check, CheckCode(c) PROVE CodeInv'
  <2> DEFINE l == check[c].of
  <2>1. check[c] \in [at : {"counted", "right"}, of : Login, code : Code \cup {Wrong}, tries : Nat]
    BY <1>9 DEF CheckCode, CheckState
  <2>2. UNCHANGED <<login, entered>> /\ \A k \in Login : challenge'[k] \in {challenge[k], 0}
    BY <1>9, <2>1 DEF CheckCode, UNCHANGEDButCheck
  <2>3. CASE used' = used /\ check' = [check EXCEPT ![c] = Idle]
    <3>1. check'[c].at = "idle" /\ \A d \in Check \ {c} : check'[d] = check[d]
      BY <2>3
    <3>. QED
      BY <2>2, <2>3, <3>1
  <2>4. CASE /\ Unused(check[c].code)
             /\ used' = used \cup {check[c].code}
             /\ check' = [check EXCEPT ![c].at = "right"]
    <3>1. check'[c].at = "right" /\ check'[c].code = check[c].code /\ \A d \in Check \ {c} : check'[d] = check[d]
      BY <2>1, <2>4
    <3>2. check[c].code \notin used
      BY <2>4 DEF Unused
    <3>. QED
      BY <2>2, <2>4, <3>1, <3>2
  <2>. QED
    BY <1>9, <2>3, <2>4 DEF CheckCode
<1>10. ASSUME NEW c \in Check, Enter(c) PROVE CodeInv'
  <2> DEFINE l == check[c].of
            e == [by |-> l, code |-> check[c].code, session |-> born + 1]
  <2>1. l \in Login /\ check[c].at = "right" /\ UNCHANGED <<login, used>>
    BY <1>10 DEF Enter, CheckState
  <2>2. check'[c].at = "idle" /\ \A d \in Check \ {c} : check'[d] = check[d]
    BY <1>10 DEF Enter
  <2>3. CASE Takes(l)
    <3>1. /\ entered' = entered \cup {e}
          /\ challenge' = [challenge EXCEPT ![l] = 0] /\ challenge[l] # 0 /\ login[l].at = "challenge"
      BY <1>10, <2>1, <2>3 DEF Enter, Takes
    <3>2. \A d \in entered : d.by # l /\ d.code # check[c].code
      BY <2>1, <3>1
    <3>. QED
      BY <2>1, <2>2, <3>1, <3>2
  <2>4. CASE ~Takes(l)
    BY <1>10, <2>1, <2>2, <2>4 DEF Enter
  <2>. QED
    BY <2>3, <2>4
<1>11. CASE UNCHANGED codeVars
  BY <1>11 DEF codeVars
<1>. QED
  BY <1>1, <1>2, <1>3, <1>4, <1>5, <1>6, <1>7, <1>8, <1>9, <1>10, <1>11, OthersKeepCodes DEF CodeAction

(* However many requests bring codes at a time, one code gets one session, *)
(* and so does one challenge (takeSecondFactorChallenge).                  *)
THEOREM OneSessionPerCode == Spec => []CodesEnterOnce
<1>1. Init => CodeInv
  BY DEF Init, CodeInv, CodesEnterOnce, Idle
<1>. QED
  BY <1>1, InitTyped, TypeStep, CodeStep, PTL DEF Spec, CodeInv
-------------------------------------------------------------------------------
(***************************************************************************)
(* Tries.                                                                  *)
(***************************************************************************)
(* Tries that are counted, and whose code isn't compared yet.              *)
InFlight(l) == {c \in Check : check[c].at = "counted" /\ check[c].of = l}

(* The challenge counts at least the codes compared and those in flight.   *)
TriesOf(l) ==
  /\ compared[l] \in Nat /\ IsFiniteSet(InFlight(l))
  /\ compared[l] + Cardinality(InFlight(l)) <= MaxTries
  /\ challenge[l] # 0 => compared[l] + Cardinality(InFlight(l)) < challenge[l]
  /\ login[l].at # "challenge" => compared[l] = 0 /\ InFlight(l) = {}

TriesInv == compared \in [Login -> Nat] /\ \A l \in Login : TriesOf(l)

(* Only the number of this login's tries can have changed, and not upwards.*)
LEMMA TriesKept ==
  ASSUME TriesInv, NEW l \in Login,
         InFlight(l)' = InFlight(l), compared'[l] = compared[l], challenge'[l] \in {challenge[l], 0},
         login[l].at = "challenge" => login'[l].at = "challenge"
  PROVE  TriesOf(l)'
BY DEF TriesInv, TriesOf

LEMMA TriesStep == TypeInv /\ TriesInv /\ [Next]_vars => TriesInv'
<1> SUFFICES ASSUME TypeInv, TriesInv, [Next]_vars PROVE TriesInv'
  OBVIOUS
<1> USE DEF redisVars, databaseVars, historyVars, Idle
<1>. /\ login \in [Login -> LoginState] /\ check \in [Check -> CheckState]
     /\ challenge \in [Login -> 0..(MaxTries + 1)] /\ compared \in [Login -> Nat]
     /\ \A l \in Login : challenge[l] # 0 => login[l].at = "challenge"
     /\ MaxTries \in Nat
  BY SessionsAssumption DEF TypeInv, LoginsTyped, ChecksTyped, TriesInv
<1>1. ASSUME NEW l \in Login, StartLogin(l) PROVE TriesInv'
  <2>1. UNCHANGED <<check, challenge, compared>> /\ \A k \in Login : login[k].at = "challenge" => login'[k].at = "challenge"
    BY <1>1 DEF StartLogin, UNCHANGEDButLogin
  <2>2. \A k \in Login : InFlight(k)' = InFlight(k)
    BY <2>1 DEF InFlight
  <2>. QED
    BY <2>1, <2>2, TriesKept DEF TriesInv
<1>2. ASSUME NEW l \in Login, ReadRecord(l) PROVE TriesInv'
  <2>1. UNCHANGED <<check, challenge, compared>> /\ \A k \in Login : login[k].at = "challenge" => login'[k].at = "challenge"
    BY <1>2 DEF ReadRecord, UNCHANGEDButLogin
  <2>2. \A k \in Login : InFlight(k)' = InFlight(k)
    BY <2>1 DEF InFlight
  <2>. QED
    BY <2>1, <2>2, TriesKept DEF TriesInv
<1>3. ASSUME NEW l \in Login, StartDeviceLogin(l) PROVE TriesInv'
  <2>1. UNCHANGED <<check, challenge, compared>> /\ \A k \in Login : login[k].at = "challenge" => login'[k].at = "challenge"
    BY <1>3 DEF StartDeviceLogin, UNCHANGEDButLogin
  <2>2. \A k \in Login : InFlight(k)' = InFlight(k)
    BY <2>1 DEF InFlight
  <2>. QED
    BY <2>1, <2>2, TriesKept DEF TriesInv
<1>4. ASSUME NEW l \in Login, FinishLogin(l) PROVE TriesInv'
  <2>1. UNCHANGED <<check, challenge, compared>> /\ \A k \in Login : login[k].at = "challenge" => login'[k].at = "challenge"
    BY <1>4 DEF FinishLogin, UNCHANGEDButLogin
  <2>2. \A k \in Login : InFlight(k)' = InFlight(k)
    BY <2>1 DEF InFlight
  <2>. QED
    BY <2>1, <2>2, TriesKept DEF TriesInv
<1>5. ASSUME NEW l \in Login, CountDeviceLogin(l) PROVE TriesInv'
  <2>1. UNCHANGED <<check, challenge, compared>> /\ \A k \in Login : login[k].at = "challenge" => login'[k].at = "challenge"
    BY <1>5 DEF CountDeviceLogin, UNCHANGEDButLogin
  <2>2. \A k \in Login : InFlight(k)' = InFlight(k)
    BY <2>1 DEF InFlight
  <2>. QED
    BY <2>1, <2>2, TriesKept DEF TriesInv
<1>6. ASSUME NEW l \in Login, CompleteLogin(l) PROVE TriesInv'
  <2>1. login[l].at = "checked" /\ UNCHANGED <<check, compared>>
    BY <1>6 DEF CompleteLogin
  <2>2. \A k \in Login : InFlight(k)' = InFlight(k)
    BY <2>1 DEF InFlight
  <2>3. \A k \in Login \ {l} : TriesOf(k)'
    <3>1. \A k \in Login \ {l} : login'[k] = login[k] /\ challenge'[k] = challenge[k]
      BY <1>6 DEF CompleteLogin
    <3>. QED
      BY <2>1, <2>2, <3>1, TriesKept
  <2>4. TriesOf(l)'
    <3>1. compared[l] = 0 /\ InFlight(l) = {} /\ challenge[l] = 0
      BY <2>1 DEF TriesInv, TriesOf
    <3>2. challenge'[l] \in {0, 1}
      BY <1>6, <3>1 DEF CompleteLogin
    <3>. QED
      BY <2>1, <2>2, <3>1, <3>2, FS_EmptySet DEF TriesOf
  <2>. QED
    BY <2>1, <2>3, <2>4 DEF TriesInv
<1>7. ASSUME NEW l \in Login, ExpireChallenge(l) PROVE TriesInv'
  <2>1. UNCHANGED <<login, check, compared>> /\ \A k \in Login : challenge'[k] \in {challenge[k], 0}
    BY <1>7 DEF ExpireChallenge, UNCHANGEDButCheck
  <2>2. \A k \in Login : InFlight(k)' = InFlight(k)
    BY <2>1 DEF InFlight
  <2>. QED
    BY <2>1, <2>2, TriesKept DEF TriesInv
<1>8. ASSUME NEW c \in Check, NEW l \in Login, NEW code \in Code \cup {Wrong}, TryCode(c, l, code) PROVE TriesInv'
  <2>1. CASE challenge[l] > MaxTries
    <3>1. UNCHANGED <<login, check, compared>> /\ \A k \in Login : challenge'[k] \in {challenge[k], 0}
      BY <1>8, <2>1 DEF TryCode, UNCHANGEDButCheck
    <3>2. \A k \in Login : InFlight(k)' = InFlight(k)
      BY <3>1 DEF InFlight
    <3>. QED
      BY <3>1, <3>2, TriesKept DEF TriesInv
  <2>2. CASE ~(challenge[l] > MaxTries)
    <3> DEFINE x == [at |-> "counted", of |-> l, code |-> code, tries |-> challenge[l]]
    <3>7. challenge[l] \in Nat /\ challenge[l] # 0 /\ login[l].at = "challenge"
      BY <1>8 DEF TryCode, Exists
    <3>8. challenge' = [challenge EXCEPT ![l] = challenge[l] + 1] /\ challenge[l] <= MaxTries
      BY <1>8, <2>2, <3>7 DEF TryCode
    <3>9. check' = [check EXCEPT ![c] = x] /\ check[c] = Idle /\ UNCHANGED <<login, compared>>
      BY <1>8, <2>2 DEF TryCode, UNCHANGEDButCheck
    <3>1. /\ check' = [check EXCEPT ![c] = x] /\ check[c] = Idle
          /\ challenge' = [challenge EXCEPT ![l] = challenge[l] + 1]
          /\ challenge[l] \in Nat /\ challenge[l] <= MaxTries
          /\ login[l].at = "challenge" /\ UNCHANGED <<login, compared>>
      BY <3>7, <3>8, <3>9
    <3>2. check'[c] = x /\ \A d \in Check \ {c} : check'[d] = check[d]
      BY <3>1
    <3>3. c \notin InFlight(l)
      BY <3>1 DEF InFlight
    <3>4. InFlight(l)' = InFlight(l) \cup {c}
      BY <3>2 DEF InFlight
    <3>5. TriesOf(l)'
      <4>1. TriesOf(l)
        BY DEF TriesInv
      <4>2. Cardinality(InFlight(l)) \in Nat
        BY <4>1, FS_CardinalityType DEF TriesOf
      <4>3. IsFiniteSet(InFlight(l))' /\ Cardinality(InFlight(l))' = Cardinality(InFlight(l)) + 1
        BY <3>3, <3>4, <4>1, FS_AddElement DEF TriesOf
      <4>4. challenge'[l] = challenge[l] + 1 /\ challenge'[l] <= MaxTries + 1
        BY <3>1
      <4>5. compared'[l] = compared[l] /\ login'[l].at = "challenge"
        BY <3>1
      <4>6. compared[l] + Cardinality(InFlight(l)) < challenge[l] /\ compared[l] \in Nat
        BY <3>7, <4>1 DEF TriesOf
      <4>. QED
        BY <3>1, <4>2, <4>3, <4>4, <4>5, <4>6 DEF TriesOf
    <3>6. \A k \in Login \ {l} : TriesOf(k)'
      <4> SUFFICES ASSUME NEW k \in Login \ {l} PROVE TriesOf(k)'
        OBVIOUS
      <4>1. InFlight(k)' = InFlight(k)
        BY <3>1, <3>2 DEF InFlight
      <4>2. challenge'[k] = challenge[k]
        BY <3>1
      <4>. QED
        BY <3>1, <4>1, <4>2, TriesKept
    <3>. QED
      BY <3>1, <3>5, <3>6 DEF TriesInv
  <2>. QED
    BY <2>1, <2>2
<1>9. ASSUME NEW c \in Check, CheckCode(c) PROVE TriesInv'
  <2>1. check[c] \in [at : {"counted", "right"}, of : Login, code : Code \cup {Wrong}, tries : Nat] /\ check[c].at = "counted"
    BY <1>9 DEF CheckCode, CheckState
  <2>7. PICK l \in Login : l = check[c].of
    BY <2>1
  <2>8. l \in Login /\ UNCHANGED login /\ \A k \in Login : challenge'[k] \in {challenge[k], 0}
    BY <1>9, <2>1, <2>7 DEF CheckCode, UNCHANGEDButCheck
  <2>9. compared' = compared \/ compared' = [compared EXCEPT ![l] = compared[l] + 1]
    BY <1>9, <2>7 DEF CheckCode
  <2>10. check' = [check EXCEPT ![c] = Idle] \/ check' = [check EXCEPT ![c].at = "right"]
    BY <1>9 DEF CheckCode
  <2>2. /\ l \in Login /\ UNCHANGED login
        /\ \A k \in Login : challenge'[k] \in {challenge[k], 0}
        /\ compared' = compared \/ compared' = [compared EXCEPT ![l] = compared[l] + 1]
        /\ check' = [check EXCEPT ![c] = Idle] \/ check' = [check EXCEPT ![c].at = "right"]
    BY <2>8, <2>9, <2>10, Zenon
  <2>3. check'[c].at # "counted" /\ \A d \in Check \ {c} : check'[d] = check[d]
    BY <2>1, <2>2
  <2>4. c \in InFlight(l) /\ InFlight(l)' = InFlight(l) \ {c}
    <3>1. \A d \in Check : d \in InFlight(l)' <=> d \in InFlight(l) /\ d # c
      BY <2>1, <2>3, <2>7 DEF InFlight
    <3>2. InFlight(l)' \subseteq Check /\ InFlight(l) \subseteq Check /\ c \in InFlight(l)
      BY <2>1, <2>7 DEF InFlight
    <3>. QED
      BY <3>1, <3>2
  <2>5. TriesOf(l)'
    <3>1. TriesOf(l)
      BY <2>2 DEF TriesInv
    <3>2. Cardinality(InFlight(l)) \in Nat
      BY <3>1, FS_CardinalityType DEF TriesOf
    <3>3. IsFiniteSet(InFlight(l))' /\ Cardinality(InFlight(l))' = Cardinality(InFlight(l)) - 1
      BY <2>4, <3>1, FS_RemoveElement DEF TriesOf
    <3>4. compared'[l] \in {compared[l], compared[l] + 1} /\ compared[l] \in Nat
      BY <2>2
    <3>5. login'[l].at = "challenge"
      BY <2>2, <2>4, <3>1 DEF TriesOf
    <3>6. challenge'[l] \in {challenge[l], 0} /\ challenge[l] \in Nat
      BY <2>2
    <3>. QED
      BY <3>1, <3>2, <3>3, <3>4, <3>5, <3>6 DEF TriesOf
  <2>6. \A k \in Login \ {l} : TriesOf(k)'
    <3> SUFFICES ASSUME NEW k \in Login \ {l} PROVE TriesOf(k)'
      OBVIOUS
    <3>1. InFlight(k)' = InFlight(k)
      BY <2>1, <2>3, <2>7 DEF InFlight
    <3>2. compared'[k] = compared[k]
      BY <2>2
    <3>. QED
      BY <2>2, <3>1, <3>2, TriesKept
  <2>11. compared' \in [Login -> Nat]
    BY <2>2
  <2>. QED
    BY <2>5, <2>6, <2>11 DEF TriesInv
<1>10. ASSUME NEW c \in Check, Enter(c) PROVE TriesInv'
  <2>1. check[c].at = "right" /\ check' = [check EXCEPT ![c] = Idle] /\ UNCHANGED <<login, compared>>
    BY <1>10 DEF Enter
  <2>2. \A k \in Login : challenge'[k] \in {challenge[k], 0}
    BY <1>10 DEF Enter
  <2>3. \A k \in Login : InFlight(k)' = InFlight(k)
    BY <2>1 DEF InFlight
  <2>. QED
    BY <2>1, <2>2, <2>3, TriesKept DEF TriesInv
<1>11. CASE UNCHANGED codeVars
  BY <1>11 DEF codeVars, TriesInv, TriesOf, InFlight
<1>. QED
  BY <1>1, <1>2, <1>3, <1>4, <1>5, <1>6, <1>7, <1>8, <1>9, <1>10, <1>11, OthersKeepCodes DEF CodeAction

(* However many requests try codes at a time, no more are compared for a   *)
(* challenge than its cap (countSecondFactorAttempt).                      *)
THEOREM TriesCapped == Spec => []TriesAreCapped
<1>1. ASSUME Init, NEW l \in Login PROVE TriesOf(l)
  <2>1. InFlight(l) = {}
    BY <1>1 DEF Init, Idle, InFlight
  <2>2. compared[l] = 0 /\ challenge[l] = 0
    BY <1>1 DEF Init
  <2>. QED
    BY <2>1, <2>2, FS_EmptySet, SessionsAssumption DEF TriesOf
<1>2. Init => TriesInv
  <2>1. Init => compared \in [Login -> Nat]
    BY DEF Init
  <2>. QED
    BY <1>1, <2>1 DEF TriesInv
<1>3. TriesInv => TriesAreCapped
  <2> SUFFICES ASSUME TriesInv, NEW l \in Login PROVE compared[l] <= MaxTries
    BY DEF TriesAreCapped
  <2>1. Cardinality(InFlight(l)) \in Nat
    BY FS_CardinalityType DEF TriesInv, TriesOf
  <2>. QED
    BY <2>1, SessionsAssumption DEF TriesInv, TriesOf
<1>. QED
  BY <1>3, <1>2, InitTyped, TypeStep, TriesStep, PTL DEF Spec

(* Parallel codes and tries on one challenge: one session per code and     *)
(* challenge, and no more tries than its cap (checkSecondFactor).          *)
THEOREM CodesCounted == Spec => []CodesCount
  BY OneSessionPerCode, TriesCapped, PTL DEF CodesCount
-------------------------------------------------------------------------------
(***************************************************************************)
(* The old password.                                                       *)
(***************************************************************************)
Running(l) == login[l].at \in {"attempt", "verified", "checked", "challenge"}

Cutting(h) == handler[h].at \in {"ids", "cut"}

(* Once the cut-off is written, what still works of the old password       *)
(* belongs to a login past its last check at that time.                    *)
RowFits(s) == row[s] # NoRow =>
  /\ row[s].since <= now
  /\ password = 1 => row[s].version = 1
  /\ epoch # 0 /\ row[s].since > epoch => row[s].version = password \/ row[s].by \in slipped

LoginFits(l) ==
  /\ login[l].at = "start" \/ Running(l) => login[l].since <= now
  /\ Running(l) /\ password = 1 => login[l].version = 1
  /\ Running(l) /\ epoch # 0 /\ login[l].version # password =>
       /\ login[l].since <= epoch
       /\ login[l].at \in {"verified", "checked"} => l \in slipped

CheckFits(c) ==
  /\ check[c].at \in {"counted", "right"} => login[check[c].of].at = "challenge"
  /\ check[c].at = "right" /\ epoch # 0 /\ login[check[c].of].version # password =>
       check[c].of \in slipped

(* A changed password has its cut-off, or the request that will write it.  *)
ChangeFits ==
  /\ epoch # 0 => password = 2
  /\ \A h \in Handler : Cutting(h) => password = 2
  /\ password = 2 /\ epoch = 0 => \E h \in Handler : Cutting(h)

(* The row a link will be written over is from the same login.             *)
CopyFits ==
  \A h \in Handler : handler[h].at = "set" /\ row[handler[h].of] # NoRow =>
    LET own == row[handler[h].of]  copy == handler[h].copy
    IN  copy.since = own.since /\ copy.version = own.version /\ copy.by = own.by

OldInv ==
  /\ \A s \in Session : RowFits(s)
  /\ \A l \in Login : LoginFits(l)
  /\ \A c \in Check : CheckFits(c)
  /\ ChangeFits /\ CopyFits

LEMMA OldIsOut == TypeInv /\ OldInv => OldPasswordIsOut
<1> SUFFICES ASSUME TypeInv, OldInv, ~Changing, NEW s \in Session, Live(s)
             PROVE  row[s].version = password \/ row[s].by \in slipped
  BY DEF OldPasswordIsOut
<1>1. epoch # 0 \/ password = 1
  BY DEF OldInv, ChangeFits, Cutting, Changing, TypeInv, RowsTyped
<1>. QED
  BY <1>1 DEF OldInv, RowFits, Live, AfterCut

LEMMA InitOldInv == Init => OldInv
BY DEF Init, OldInv, RowFits, LoginFits, Running, CheckFits, ChangeFits, Cutting, CopyFits, Idle, Session

(* Rows that only go, and requests that neither change the password nor    *)
(* get a copy, break nothing of it.                                        *)
LEMMA OldKept ==
  ASSUME TypeInv, OldInv, UNCHANGED <<epoch, password, now, login, check, slipped>>,
         \A s \in Session : row'[s] \in {row[s], NoRow},
         \A h \in Handler : \/ handler'[h] = handler[h]
                            \/ ~Cutting(h) /\ ~Cutting(h)' /\ handler'[h].at # "set"
  PROVE  OldInv'
<1>1. \A s \in Session : RowFits(s)'
  BY DEF OldInv, RowFits
<1>2. \A l \in Login : LoginFits(l)'
  BY DEF OldInv, LoginFits, Running
<1>3. \A c \in Check : CheckFits(c)'
  BY DEF OldInv, CheckFits
<1>4. ChangeFits'
  BY DEF OldInv, ChangeFits, Cutting
<1>5. CopyFits'
  <2> SUFFICES ASSUME NEW h \in Handler, handler'[h].at = "set", row'[handler'[h].of] # NoRow
               PROVE  LET own == row'[handler'[h].of]  copy == handler'[h].copy
                      IN  copy.since = own.since /\ copy.version = own.version /\ copy.by = own.by
    BY DEF CopyFits
  <2>1. handler'[h] = handler[h] /\ handler[h].of \in Session
    BY DEF TypeInv, HandlersTyped, HandlerState, Idle
  <2>. QED
    BY <2>1 DEF OldInv, CopyFits
<1>. QED
  BY <1>1, <1>2, <1>3, <1>4, <1>5 DEF OldInv

(* A session made by a login that fits.                                    *)
LEMMA OldWithNewSession ==
  ASSUME TypeInv, TypeInv', OldInv, NEW l \in Login, NewSession(l), Running(l),
         epoch # 0 /\ login[l].version # password => l \in slipped,
         UNCHANGED <<epoch, password, now, handler, slipped>>
  PROVE  (\A s \in Session : RowFits(s)') /\ ChangeFits' /\ CopyFits'
<1>1. born \in Nat /\ born + 1 \in Session /\ \A s \in Session \ {born + 1} : row'[s] = row[s]
  BY SessionsAssumption DEF NewSession, Session, TypeInv, RowsTyped
<1>2. row'[born + 1] = [since |-> now, version |-> login[l].version, by |-> l,
                        device |-> login[l].device, keyed |-> login[l].device]
  BY <1>1 DEF NewSession, TypeInv, RowsTyped
<1>3. now \in Nat
  BY DEF TypeInv, RowsTyped, Time
<1>4. ASSUME NEW s \in Session PROVE RowFits(s)'
  <2>1. CASE s = born + 1
    BY <1>2, <1>3, <2>1 DEF OldInv, LoginFits, RowFits
  <2>2. CASE s # born + 1
    BY <1>1, <2>2 DEF OldInv, RowFits
  <2>. QED
    BY <2>1, <2>2
<1>5. ChangeFits'
  BY DEF OldInv, ChangeFits, Cutting
<1>6. CopyFits'
  <2> SUFFICES ASSUME NEW h \in Handler, handler[h].at = "set", row'[handler[h].of] # NoRow
               PROVE  LET own == row'[handler[h].of]  copy == handler[h].copy
                      IN  copy.since = own.since /\ copy.version = own.version /\ copy.by = own.by
    BY DEF CopyFits
  <2>1. handler[h].of \in Session /\ handler[h].of <= born
    BY DEF TypeInv, HandlersTyped, HandlerState, Names, Idle
  <2>2. handler[h].of # born + 1
    BY <1>1, <2>1 DEF Session
  <2>. QED
    BY <1>1, <2>1, <2>2 DEF OldInv, CopyFits
<1>. QED
  BY <1>4, <1>5, <1>6

(* A login that moves on by itself, with no check on it.                   *)
LEMMA OldLoginMoves ==
  ASSUME TypeInv, OldInv, NEW l \in Login, login[l].at # "challenge",
         \A k \in Login \ {l} : login'[k] = login[k],
         UNCHANGED <<row, epoch, password, now, check, slipped, handler>>,
         LoginFits(l)'
  PROVE  OldInv'
<1>1. \A s \in Session : RowFits(s)'
  BY DEF OldInv, RowFits
<1>2. \A k \in Login : LoginFits(k)'
  BY DEF OldInv, LoginFits, Running
<1>3. ASSUME NEW c \in Check PROVE CheckFits(c)'
  <2>1. check[c].at \in {"counted", "right"} =>
          check[c].of \in Login /\ login[check[c].of].at = "challenge"
    BY DEF OldInv, CheckFits, TypeInv, ChecksTyped, CheckState, Idle
  <2>. QED
    BY <2>1 DEF OldInv, CheckFits
<1>4. ChangeFits' /\ CopyFits'
  BY DEF OldInv, ChangeFits, Cutting, CopyFits
<1>. QED
  BY <1>1, <1>2, <1>3, <1>4 DEF OldInv

(* The requests that have nothing to do with the password.                 *)
LEMMA OthersKeepOld ==
  ASSUME TypeInv, OldInv, NEW h \in Handler,
         \/ \E s \in Session :
              \/ Touch(h, s) \/ Logout(h, s) \/ SwitchTotp(h, s) \/ StartRegister(h, s) \/ StartLink(h, s)
              \/ \E target \in Session : StartRevoke(h, s, target)
              \/ StartRevokeOthers(h, s)
         \/ Touched(h) \/ InsertCredential(h) \/ RevokeOne(h) \/ ForgetCredential(h)
         \/ RevokeOthers(h) \/ KeepOwnCredential(h) \/ SignOutAll(h) \/ EndOwn(h)
  PROVE  OldInv'
<1> USE DEF redisVars, databaseVars, historyVars, Idle
<1>1. handler \in [Handler -> HandlerState] /\ row \in [Session -> Row \cup {NoRow}]
  BY DEF TypeInv, HandlersTyped, RowsTyped
<1>2. UNCHANGED <<epoch, password, now, login, check, slipped>>
  BY DEF Touch, Logout, SwitchTotp, StartRegister, StartLink, StartRevoke, StartRevokeOthers,
         Touched, InsertCredential, RevokeOne, ForgetCredential, RevokeOthers, KeepOwnCredential,
         SignOutAll, EndOwn, UNCHANGEDButLink, UNCHANGEDButRevoke
<1>3. \A s \in Session : row'[s] \in {row[s], NoRow}
  BY <1>1 DEF Touch, Logout, SwitchTotp, StartRegister, StartLink, StartRevoke, StartRevokeOthers,
         Touched, InsertCredential, RevokeOne, ForgetCredential, RevokeOthers, KeepOwnCredential,
         SignOutAll, EndOwn, DeleteSession, SignOut, UNCHANGEDButLink, UNCHANGEDButRevoke
<1>4. \/ handler' = handler
      \/ \E x : /\ handler' = [handler EXCEPT ![h] = x]
                /\ x.at \notin {"ids", "cut", "set"}
                /\ ~Cutting(h)
  <2>1. ASSUME NEW s \in Session,
               \/ Touch(h, s) \/ StartRegister(h, s) \/ StartLink(h, s) \/ StartRevokeOthers(h, s)
               \/ \E target \in Session : StartRevoke(h, s, target)
        PROVE  \E x : /\ handler' = [handler EXCEPT ![h] = x]
                      /\ x.at \notin {"ids", "cut", "set"} /\ ~Cutting(h)
    BY <2>1 DEF Touch, StartRegister, StartLink, StartRevokeOthers, StartRevoke, Starts, Cutting
  <2>2. ASSUME Ends(h), ~Cutting(h)
        PROVE  \E x : /\ handler' = [handler EXCEPT ![h] = x]
                      /\ x.at \notin {"ids", "cut", "set"} /\ ~Cutting(h)
    BY <2>2 DEF Ends
  <2>3. ASSUME NEW step \in {"link", "forget", "keep", "own"}, Goes(h, step), ~Cutting(h),
               handler[h].at \in {"insert", "revoke", "others", "out"}
        PROVE  \E x : /\ handler' = [handler EXCEPT ![h] = x]
                      /\ x.at \notin {"ids", "cut", "set"} /\ ~Cutting(h)
    <3>1. [handler[h] EXCEPT !.at = step].at = step
      BY <1>1, <2>3 DEF HandlerState
    <3>. QED
      BY <2>3, <3>1 DEF Goes
  <2>4. ASSUME NEW s \in Session, Logout(h, s) \/ SwitchTotp(h, s) PROVE handler' = handler
    BY <2>4 DEF Logout, SwitchTotp
  <2>5. CASE Touched(h) \/ ForgetCredential(h) \/ KeepOwnCredential(h) \/ EndOwn(h)
    <3>1. Ends(h) /\ ~Cutting(h)
      BY <2>5 DEF Touched, ForgetCredential, KeepOwnCredential, EndOwn, At, Cutting
    <3>. QED
      BY <2>2, <3>1
  <2>6. CASE InsertCredential(h) \/ RevokeOne(h) \/ RevokeOthers(h) \/ SignOutAll(h)
    <3>1. /\ Ends(h) \/ \E step \in {"link", "forget", "keep", "own"} : Goes(h, step)
          /\ ~Cutting(h) /\ handler[h].at \in {"insert", "revoke", "others", "out"}
      BY <2>6 DEF InsertCredential, RevokeOne, RevokeOthers, SignOutAll, At, Cutting
    <3>. QED
      BY <2>2, <2>3, <3>1
  <2>. QED
    BY <2>1, <2>4, <2>5, <2>6
<1>5. \A g \in Handler : \/ handler'[g] = handler[g]
                         \/ ~Cutting(g) /\ ~Cutting(g)' /\ handler'[g].at # "set"
  BY <1>1, <1>4 DEF Cutting
<1>. QED
  BY <1>2, <1>3, <1>5, OldKept

LEMMA OldStep == TypeInv /\ TypeInv' /\ OldInv /\ [Next]_vars => OldInv'
<1> SUFFICES ASSUME TypeInv, TypeInv', OldInv, [Next]_vars PROVE OldInv'
  OBVIOUS
<1> USE DEF redisVars, databaseVars, historyVars
<1>0. /\ epoch \in Nat /\ now \in Nat /\ now # 0 /\ now >= epoch /\ password \in {1, 2}
      /\ row \in [Session -> Row \cup {NoRow}]
      /\ login \in [Login -> LoginState] /\ check \in [Check -> CheckState]
      /\ handler \in [Handler -> HandlerState]
  BY DEF TypeInv, RowsTyped, LoginsTyped, ChecksTyped, HandlersTyped, Time
<1>1. CASE Tick
  <2>1. now' = now + 1 /\ UNCHANGED <<row, epoch, password, login, check, slipped, handler>>
    BY <1>1 DEF Tick
  <2>2. \A s \in Session : row[s] # NoRow => row[s].since \in Nat
    BY <1>0 DEF Row
  <2>3. \A l \in Login : login[l].at = "start" \/ Running(l) => login[l].since \in Nat
    BY <1>0 DEF Running, LoginState, Time, Idle, Over
  <2>4. \A s \in Session : RowFits(s)'
    BY <1>0, <2>1, <2>2 DEF OldInv, RowFits
  <2>5. \A l \in Login : LoginFits(l)'
    BY <1>0, <2>1, <2>3 DEF OldInv, LoginFits, Running
  <2>. QED
    BY <2>1, <2>4, <2>5 DEF OldInv, CheckFits, ChangeFits, Cutting, CopyFits
<1>2. CASE ListSessions
  BY <1>2, OldKept DEF ListSessions
<1>3. ASSUME NEW s \in Session, Expire(s) \/ Refuse(s) PROVE OldInv'
  BY <1>0, <1>3, OldKept DEF Expire, Refuse, DeleteSession
<1>4. ASSUME NEW l \in Login, StartLogin(l) PROVE OldInv'
  <2>1. login' = [login EXCEPT ![l] = [at |-> "start", since |-> now]] /\ login[l] = Idle
    BY <1>4 DEF StartLogin
  <2>2. LoginFits(l)'
    BY <1>0, <1>4, <2>1 DEF UNCHANGEDButLogin, StartLogin, LoginFits, Running
  <2>. QED
    BY <1>0, <1>4, <2>1, <2>2, OldLoginMoves DEF UNCHANGEDButLogin, StartLogin, Idle
<1>5. ASSUME NEW l \in Login, ReadRecord(l) PROVE OldInv'
  <2>1. /\ login'[l] = [at |-> "attempt", since |-> login[l].since, version |-> password, device |-> FALSE]
        /\ \A k \in Login \ {l} : login'[k] = login[k]
        /\ login[l].at = "start"
        /\ UNCHANGED <<row, epoch, password, now, check, slipped, handler>>
    BY <1>0, <1>5 DEF ReadRecord, UNCHANGEDButLogin
  <2>2. LoginFits(l)'
    BY <1>0, <2>1 DEF OldInv, LoginFits, Running
  <2>. QED
    BY <2>1, <2>2, OldLoginMoves
<1>6. ASSUME NEW l \in Login, StartDeviceLogin(l) PROVE OldInv'
  <2>1. /\ login'[l] = [at |-> "attempt", since |-> now, version |-> password, device |-> TRUE]
        /\ \A k \in Login \ {l} : login'[k] = login[k]
        /\ login[l] = Idle
        /\ UNCHANGED <<row, epoch, password, now, check, slipped, handler>>
    BY <1>0, <1>6 DEF StartDeviceLogin, UNCHANGEDButLogin
  <2>2. LoginFits(l)'
    BY <1>0, <2>1 DEF OldInv, LoginFits, Running
  <2>. QED
    BY <2>1, <2>2, OldLoginMoves DEF Idle
<1>7. ASSUME NEW l \in Login, FinishLogin(l) \/ CountDeviceLogin(l) PROVE OldInv'
  <2>1. /\ \A k \in Login \ {l} : login'[k] = login[k]
        /\ login[l].at \in {"attempt", "verified"}
        /\ UNCHANGED <<row, epoch, password, now, check, slipped, handler>>
    BY <1>0, <1>7 DEF FinishLogin, CountDeviceLogin, UNCHANGEDButLogin
  <2>2. login[l] \in [at : {"attempt", "verified", "checked", "challenge"}, since : Time,
                      version : {1, 2}, device : BOOLEAN]
    BY <1>0, <2>1 DEF LoginState, Idle, Over
  <2>3. \/ login'[l] = Over
        \/ /\ login'[l].at \in {"verified", "checked"}
           /\ login'[l].since = login[l].since /\ login'[l].version = login[l].version
           /\ login[l].at = "attempt" => ~LoginRevoked(login[l].since)
    BY <1>0, <1>7, <2>2 DEF FinishLogin, CountDeviceLogin
  <2>4. LoginFits(l)
    BY DEF OldInv
  <2>5. LoginFits(l)'
    BY <1>0, <2>1, <2>2, <2>3, <2>4 DEF LoginFits, Running, Over, LoginRevoked, Time
  <2>. QED
    BY <2>1, <2>5, OldLoginMoves
<1>8. ASSUME NEW l \in Login, CompleteLogin(l) PROVE OldInv'
  <2>1. /\ \A k \in Login \ {l} : login'[k] = login[k]
        /\ login[l].at = "checked"
        /\ UNCHANGED <<epoch, password, now, check, slipped, handler>>
    BY <1>0, <1>8 DEF CompleteLogin
  <2>2. login[l] \in [at : {"attempt", "verified", "checked", "challenge"}, since : Time,
                      version : {1, 2}, device : BOOLEAN]
    BY <1>0, <2>1 DEF LoginState, Idle, Over
  <2>3. LoginFits(l)
    BY DEF OldInv
  <2>4. CASE totp
    <3>1. /\ login'[l].at = "challenge" /\ UNCHANGED row
          /\ login'[l].since = login[l].since /\ login'[l].version = login[l].version
      BY <1>0, <1>8, <2>2, <2>4 DEF CompleteLogin
    <3>2. LoginFits(l)'
      BY <2>1, <2>3, <3>1 DEF LoginFits, Running
    <3>. QED
      BY <2>1, <3>1, <3>2, OldLoginMoves
  <2>5. CASE ~totp
    <3>1. NewSession(l) /\ login'[l] = Over
      BY <1>0, <1>8, <2>5 DEF CompleteLogin
    <3>2. (\A s \in Session : RowFits(s)') /\ ChangeFits' /\ CopyFits'
      BY <2>1, <2>3, <3>1, OldWithNewSession DEF LoginFits, Running
    <3>3. \A k \in Login : LoginFits(k)'
      BY <2>1, <3>1 DEF OldInv, LoginFits, Running, Over
    <3>4. ASSUME NEW c \in Check PROVE CheckFits(c)'
      <4>1. check[c].at \in {"counted", "right"} =>
              check[c].of \in Login /\ login[check[c].of].at = "challenge"
        BY <1>0 DEF OldInv, CheckFits, CheckState, Idle
      <4>. QED
        BY <2>1, <4>1 DEF OldInv, CheckFits
    <3>. QED
      BY <3>2, <3>3, <3>4 DEF OldInv
  <2>. QED
    BY <2>4, <2>5
<1>9. ASSUME NEW l \in Login, ExpireChallenge(l) PROVE OldInv'
  BY <1>9, OldKept DEF ExpireChallenge, UNCHANGEDButCheck
<1>10. ASSUME NEW c \in Check, NEW l \in Login, NEW code \in Code \cup {Wrong}, TryCode(c, l, code)
       PROVE  OldInv'
  <2>1. UNCHANGED <<row, epoch, password, now, login, slipped, handler>>
    BY <1>10 DEF TryCode, UNCHANGEDButCheck
  <2>2. \/ check' = check
        \/ check' = [check EXCEPT ![c] = [at |-> "counted", of |-> l, code |-> code, tries |-> challenge[l]]]
    BY <1>10 DEF TryCode
  <2>3. login[l].at = "challenge"
    BY <1>10 DEF TryCode, Exists, TypeInv, LoginsTyped
  <2>4. \A d \in Check : CheckFits(d)'
    BY <1>0, <2>1, <2>2, <2>3 DEF OldInv, CheckFits
  <2>. QED
    BY <2>1, <2>4 DEF OldInv, RowFits, LoginFits, Running, ChangeFits, Cutting, CopyFits
<1>11. ASSUME NEW c \in Check, CheckCode(c) PROVE OldInv'
  <2>1. UNCHANGED <<row, epoch, password, now, login, slipped, handler>>
    BY <1>11 DEF CheckCode, UNCHANGEDButCheck
  <2>2. /\ check[c] \in [at : {"counted", "right"}, of : Login, code : Code \cup {Wrong}, tries : Nat]
        /\ check[c].at = "counted"
    BY <1>0, <1>11 DEF CheckCode, CheckState, Idle
  <2>3. \/ check' = [check EXCEPT ![c] = Idle]
        \/ check' = [check EXCEPT ![c].at = "right"] /\ ~LoginRevoked(login[check[c].of].since)
    BY <1>11 DEF CheckCode
  <2>4. /\ \A d \in Check \ {c} : check'[d] = check[d]
        /\ \/ check'[c].at = "idle"
           \/ /\ check'[c].at = "right" /\ check'[c].of = check[c].of
              /\ ~LoginRevoked(login[check[c].of].since)
    BY <1>0, <2>2, <2>3 DEF Idle
  <2>5. \A d \in Check \ {c} : CheckFits(d)'
    BY <2>1, <2>4 DEF OldInv, CheckFits
  <2>6. CheckFits(c)'
    <3>1. login[check[c].of].at = "challenge" /\ check[c].of \in Login
      BY <2>2 DEF OldInv, CheckFits
    <3>2. epoch # 0 /\ login[check[c].of].version # password => login[check[c].of].since <= epoch
      BY <3>1 DEF OldInv, LoginFits, Running
    <3>. QED
      BY <2>1, <2>4, <3>1, <3>2 DEF CheckFits, LoginRevoked
  <2>. QED
    BY <2>1, <2>5, <2>6 DEF OldInv, RowFits, LoginFits, Running, ChangeFits, Cutting, CopyFits
<1>12. ASSUME NEW c \in Check, Enter(c) PROVE OldInv'
  <2> DEFINE l == check[c].of
  <2>1. /\ UNCHANGED <<epoch, password, now, login, slipped, handler>>
        /\ \A d \in Check \ {c} : check'[d] = check[d]
        /\ check'[c] = Idle /\ check[c].at = "right"
    BY <1>0, <1>12 DEF Enter
  <2>2. l \in Login /\ login[l].at = "challenge"
    BY <1>0, <2>1 DEF CheckState, Idle, OldInv, CheckFits
  <2>3. epoch # 0 /\ login[l].version # password => l \in slipped
    BY <2>1 DEF OldInv, CheckFits
  <2>4. \A d \in Check : CheckFits(d)'
    BY <2>1 DEF OldInv, CheckFits, Idle
  <2>5. \A k \in Login : LoginFits(k)'
    BY <2>1 DEF OldInv, LoginFits, Running
  <2>6. (\A s \in Session : RowFits(s)') /\ ChangeFits' /\ CopyFits'
    <3>1. CASE Takes(l)
      <4>1. NewSession(l)
        BY <1>12, <3>1 DEF Enter
      <4>. QED
        BY <2>1, <2>2, <2>3, <4>1, OldWithNewSession DEF Running
    <3>2. CASE ~Takes(l)
      <4>1. UNCHANGED row
        BY <1>12, <3>2 DEF Enter
      <4>. QED
        BY <2>1, <4>1 DEF OldInv, RowFits, ChangeFits, Cutting, CopyFits
    <3>. QED
      BY <3>1, <3>2
  <2>. QED
    BY <2>4, <2>5, <2>6 DEF OldInv
<1>13. ASSUME NEW h \in Handler, ReadLink(h) PROVE OldInv'
  <2>1. /\ UNCHANGED <<row, epoch, password, now, login, check, slipped>>
        /\ \A g \in Handler \ {h} : handler'[g] = handler[g]
        /\ handler[h].at = "link" /\ handler[h].of \in Session
    BY <1>0, <1>13 DEF ReadLink, UNCHANGEDButLink, Ends, At, HandlerState, Idle
  <2>2. \/ handler'[h] = Idle
        \/ /\ handler'[h].at = "set" /\ handler'[h].of = handler[h].of
           /\ handler'[h].copy = row[handler[h].of]
    BY <1>0, <1>13 DEF ReadLink, Ends
  <2>3. ChangeFits'
    BY <2>1, <2>2 DEF OldInv, ChangeFits, Cutting, Idle
  <2>4. CopyFits'
    BY <2>1, <2>2 DEF OldInv, CopyFits, Idle
  <2>. QED
    BY <2>1, <2>3, <2>4 DEF OldInv, RowFits, LoginFits, Running, CheckFits
<1>14. ASSUME NEW h \in Handler, WriteLink(h) PROVE OldInv'
  <2> DEFINE s == handler[h].of  copy == handler[h].copy
  <2>1. /\ UNCHANGED <<epoch, password, now, login, check, slipped>>
        /\ handler' = [handler EXCEPT ![h] = Idle]
        /\ handler[h] \in [at : {"set"}, of : Session, copy : Row]
    BY <1>0, <1>14 DEF WriteLink, UNCHANGEDButLink, Ends, At, HandlerState, Idle
  <2>2. CASE row[s] = NoRow
    <3>1. UNCHANGED row
      BY <1>14, <2>2 DEF WriteLink, SetIfThere
    <3>2. (\A g \in Handler \ {h} : handler'[g] = handler[g]) /\ handler'[h] = Idle
      BY <1>0, <2>1
    <3>3. ~Cutting(h) /\ ~Cutting(h)' /\ handler'[h].at # "set"
      BY <2>1, <3>2 DEF Cutting, Idle
    <3>. QED
      BY <2>1, <3>1, <3>2, <3>3, OldKept
  <2>3. CASE row[s] # NoRow
    <3>1. /\ row'[s] = [copy EXCEPT !.keyed = TRUE]
          /\ \A r \in Session \ {s} : row'[r] = row[r]
      BY <1>0, <1>14, <2>1, <2>3 DEF WriteLink, SetIfThere
    <3>2. row'[s].since = copy.since /\ row'[s].version = copy.version /\ row'[s].by = copy.by
      BY <2>1, <3>1 DEF Row
    <3>3. row'[s].since = row[s].since /\ row'[s].version = row[s].version /\ row'[s].by = row[s].by
      BY <2>1, <2>3, <3>2 DEF OldInv, CopyFits
    <3>4. \A r \in Session : RowFits(r)'
      BY <2>1, <2>3, <3>1, <3>3 DEF OldInv, RowFits
    <3>5. /\ \A g \in Handler \ {h} : handler'[g] = handler[g]
          /\ handler'[h] = Idle
      BY <1>0, <2>1
    <3>6. ChangeFits'
      BY <2>1, <3>5 DEF OldInv, ChangeFits, Cutting, Idle
    <3>7. CopyFits'
      <4> SUFFICES ASSUME NEW g \in Handler, handler'[g].at = "set", row'[handler'[g].of] # NoRow
                   PROVE  LET own == row'[handler'[g].of]  cp == handler'[g].copy
                          IN  cp.since = own.since /\ cp.version = own.version /\ cp.by = own.by
        BY DEF CopyFits
      <4>1. g # h /\ handler'[g] = handler[g] /\ handler[g].of \in Session
        BY <1>0, <3>5 DEF HandlerState, Idle
      <4>2. CASE handler[g].of = s
        BY <2>3, <3>3, <4>1, <4>2 DEF OldInv, CopyFits
      <4>3. CASE handler[g].of # s
        BY <3>1, <4>1, <4>3 DEF OldInv, CopyFits
      <4>. QED
        BY <4>2, <4>3
    <3>. QED
      BY <2>1, <3>4, <3>6, <3>7 DEF OldInv, LoginFits, Running, CheckFits
  <2>. QED
    BY <2>2, <2>3
<1>15. ASSUME NEW h \in Handler, NEW s \in Session, ChangePassword(h, s) PROVE OldInv'
  <2>1. /\ UNCHANGED <<row, epoch, now, login, check, slipped>>
        /\ password = 1 /\ password' = 2
        /\ \A g \in Handler \ {h} : handler'[g] = handler[g]
        /\ handler'[h].at = "ids"
    BY <1>0, <1>15 DEF ChangePassword, UNCHANGEDButRevoke
  <2>2. epoch = 0
    BY <1>0, <2>1 DEF OldInv, ChangeFits
  <2>3. (\A r \in Session : RowFits(r)') /\ (\A l \in Login : LoginFits(l)') /\ (\A c \in Check : CheckFits(c)')
    BY <2>1, <2>2 DEF OldInv, RowFits, LoginFits, Running, CheckFits
  <2>4. ChangeFits' /\ CopyFits'
    BY <2>1 DEF OldInv, ChangeFits, CopyFits, Cutting
  <2>. QED
    BY <2>3, <2>4 DEF OldInv
<1>16. ASSUME NEW h \in Handler, ReadIds(h) PROVE OldInv'
  <2>1. /\ UNCHANGED <<row, epoch, password, now, login, check, slipped>>
        /\ \A g \in Handler \ {h} : handler'[g] = handler[g]
        /\ handler[h].at = "ids" /\ handler'[h].at = "cut"
    BY <1>0, <1>16 DEF ReadIds, UNCHANGEDButRevoke, At
  <2>. QED
    BY <2>1 DEF OldInv, RowFits, LoginFits, Running, CheckFits, ChangeFits, CopyFits, Cutting
<1>17. ASSUME NEW h \in Handler, Cut(h) PROVE OldInv'
  <2>1. /\ UNCHANGED <<row, password, now, login, check>>
        /\ epoch' = now /\ slipped' = slipped \cup PastTheCheck
        /\ handler[h].at = "cut" /\ password = 2
    BY <1>0, <1>17 DEF Cut, UNCHANGEDButRevoke, At, OldInv, ChangeFits, Cutting
  <2>2. /\ \A g \in Handler \ {h} : handler'[g] = handler[g]
        /\ handler'[h].at = "out"
    BY <1>0, <1>17 DEF Cut, At, Goes, HandlerState
  <2>3. \A s \in Session : row[s] # NoRow => row[s].since \in Nat /\ ~(row[s].since > now)
    BY <1>0 DEF Row, OldInv, RowFits
  <2>4. \A s \in Session : RowFits(s)'
    BY <2>1, <2>3 DEF OldInv, RowFits
  <2>5. \A l \in Login : LoginFits(l)'
    BY <2>1 DEF OldInv, LoginFits, Running, PastTheCheck
  <2>6. \A c \in Check : CheckFits(c)'
    BY <2>1 DEF OldInv, CheckFits, PastTheCheck
  <2>7. ChangeFits' /\ CopyFits'
    BY <1>0, <2>1, <2>2 DEF OldInv, ChangeFits, CopyFits, Cutting
  <2>. QED
    BY <2>4, <2>5, <2>6, <2>7 DEF OldInv
<1>18. CASE UNCHANGED vars
  BY <1>18, OldKept DEF vars
<1>. QED
  BY <1>1, <1>2, <1>3, <1>4, <1>5, <1>6, <1>7, <1>8, <1>9, <1>10, <1>11, <1>12, <1>13, <1>14, <1>15,
     <1>16, <1>17, <1>18, OthersKeepOld DEF Next

(* After a password change no session from a login with the old password   *)
(* works, whatever logins, challenges and links ran meanwhile, except one  *)
(* past its last check when the cut-off was written (finishLogin,          *)
(* revokeUserSessions).                                                    *)
THEOREM OldPasswordOut == Spec => []OldPasswordIsOut
<1>1. Spec => [](TypeInv /\ OldInv)
  BY InitTyped, InitOldInv, TypeStep, OldStep, PTL DEF Spec
<1>. QED
  BY <1>1, OldIsOut, PTL
-------------------------------------------------------------------------------
(***************************************************************************)
(* The credential of a revoked device.                                     *)
(***************************************************************************)
(* A request that is about to take credentials away.                       *)
Forgetting(h) == handler[h].at \in {"forget", "others", "keep"}

LinkOf(h, s) == handler[h].at \in {"link", "set"} /\ handler[h].of = s

(* A credential whose every session was signed out is being taken away.    *)
CredentialFits ==
  credential = "here" /\ holders \subseteq signedOut => missed \/ \E h \in Handler : Forgetting(h)

(* A row that names the credential is one of its sessions; one of its      *)
(* sessions whose row doesn't is still being linked.                       *)
HolderFits(s) ==
  row[s] # NoRow =>
    /\ row[s].keyed => s \in holders
    /\ s \in holders /\ ~row[s].keyed => \E h \in Handler : LinkOf(h, s)

(* Only sessions that were handed out are linked.                          *)
KnownHolders ==
  /\ holders \subseteq 1..born
  /\ \A h \in Handler : handler[h].at \in {"insert", "link", "set"} => handler[h].of <= born

DeviceInv == CredentialFits /\ (\A s \in Session : HolderFits(s)) /\ KnownHolders

LEMMA RevokedIsOut == DeviceInv => RevokedDeviceIsOut
BY DEF DeviceInv, CredentialFits, Forgetting, RevokedDeviceIsOut

LEMMA InitDeviceInv == Init => DeviceInv
BY DEF Init, DeviceInv, CredentialFits, HolderFits, KnownHolders, Idle

(* Rows that only go, and requests that neither link nor take away.        *)
LEMMA DeviceKept ==
  ASSUME DeviceInv, UNCHANGED <<credential, holders, signedOut, missed, born>>,
         \A s \in Session : row'[s] \in {row[s], NoRow},
         \A h \in Handler :
           \/ handler'[h] = handler[h]
           \/ /\ ~Forgetting(h) /\ handler[h].at \notin {"link", "set"}
              /\ handler'[h].at \in {"insert", "link", "set"} => handler'[h].of <= born
  PROVE  DeviceInv'
<1>1. CredentialFits'
  BY DEF DeviceInv, CredentialFits, Forgetting
<1>2. ASSUME NEW s \in Session PROVE HolderFits(s)'
  BY DEF DeviceInv, HolderFits, LinkOf
<1>3. KnownHolders'
  BY DEF DeviceInv, KnownHolders
<1>. QED
  BY <1>1, <1>2, <1>3 DEF DeviceInv

(* A session of a device login has the credential from the start.          *)
LEMMA DeviceWithNewSession ==
  ASSUME TypeInv, DeviceInv, NEW l \in Login, NewSession(l), login[l].device \in BOOLEAN,
         UNCHANGED <<credential, signedOut, missed, handler>>
  PROVE  DeviceInv'
<1>1. born \in Nat /\ born' = born + 1 /\ born + 1 \in Session /\ \A s \in Session \ {born + 1} : row'[s] = row[s]
  BY SessionsAssumption DEF NewSession, Session, TypeInv, RowsTyped
<1>2. row'[born + 1] = [since |-> now, version |-> login[l].version, by |-> l,
                        device |-> login[l].device, keyed |-> login[l].device]
  BY <1>1 DEF NewSession, TypeInv, RowsTyped
<1>3. holders' = IF login[l].device THEN holders \cup {born + 1} ELSE holders
  BY DEF NewSession
<1>4. born + 1 \notin holders /\ 1..born \subseteq 1..(born + 1) /\ born + 1 \in 1..(born + 1)
  BY <1>1 DEF DeviceInv, KnownHolders
<1>5. CredentialFits'
  BY <1>3 DEF DeviceInv, CredentialFits, Forgetting
<1>6. ASSUME NEW s \in Session PROVE HolderFits(s)'
  <2>1. CASE s = born + 1
    BY <1>2, <1>3, <1>4, <2>1 DEF HolderFits
  <2>2. CASE s # born + 1
    BY <1>1, <1>3, <2>2 DEF DeviceInv, HolderFits, LinkOf
  <2>. QED
    BY <2>1, <2>2
<1>7. KnownHolders'
  <2>1. holders' \subseteq 1..born'
    BY <1>1, <1>3, <1>4 DEF DeviceInv, KnownHolders
  <2>2. ASSUME NEW h \in Handler, handler[h].at \in {"insert", "link", "set"} PROVE handler[h].of <= born + 1
    <3>1. handler[h].of \in Nat /\ handler[h].of <= born
      BY <2>2 DEF DeviceInv, KnownHolders, TypeInv, HandlersTyped, HandlerState, Idle, Session
    <3>. QED
      BY <1>1, <3>1
  <2>. QED
    BY <1>1, <2>1, <2>2 DEF KnownHolders
<1>. QED
  BY <1>5, <1>6, <1>7 DEF DeviceInv

(* Logins, checks and the clock but for new sessions.                      *)
LEMMA OthersKeepDevice ==
  ASSUME DeviceInv,
         \/ Tick \/ ListSessions
         \/ \E s \in Session : Expire(s) \/ Refuse(s)
         \/ \E l \in Login : \/ StartLogin(l) \/ ReadRecord(l) \/ StartDeviceLogin(l) \/ FinishLogin(l)
                             \/ CountDeviceLogin(l) \/ ExpireChallenge(l)
         \/ \E c \in Check : \/ \E l \in Login, code \in Code \cup {Wrong} : TryCode(c, l, code)
                             \/ CheckCode(c)
         \/ UNCHANGED vars,
         row \in [Session -> Row \cup {NoRow}]
  PROVE  DeviceInv'
<1> USE DEF redisVars, databaseVars, historyVars
<1>1. UNCHANGED <<credential, holders, signedOut, missed, born, handler>>
  BY DEF Tick, ListSessions, Expire, Refuse, StartLogin, ReadRecord, StartDeviceLogin, FinishLogin, CountDeviceLogin,
         ExpireChallenge, TryCode, CheckCode, UNCHANGEDButLogin, UNCHANGEDButCheck, vars
<1>2. \A s \in Session : row'[s] \in {row[s], NoRow}
  BY DEF Tick, ListSessions, Expire, Refuse, DeleteSession, StartLogin, ReadRecord, StartDeviceLogin, FinishLogin,
         CountDeviceLogin, ExpireChallenge, TryCode, CheckCode, UNCHANGEDButLogin, UNCHANGEDButCheck, vars
<1>. QED
  BY <1>1, <1>2, DeviceKept

(* Requests that neither link nor take away.                               *)
LEMMA RequestsKeepDevice ==
  ASSUME TypeInv, DeviceInv, NEW h \in Handler,
         \/ \E s \in Session :
              \/ Touch(h, s) \/ Logout(h, s) \/ SwitchTotp(h, s) \/ StartRegister(h, s) \/ StartLink(h, s)
              \/ \E target \in Session : StartRevoke(h, s, target)
              \/ StartRevokeOthers(h, s)
         \/ Touched(h) \/ ReadIds(h) \/ Cut(h) \/ EndOwn(h)
  PROVE  DeviceInv'
<1> USE DEF redisVars, databaseVars, historyVars
<1>0. /\ handler \in [Handler -> HandlerState] /\ row \in [Session -> Row \cup {NoRow}]
      /\ \A s \in Session : row[s] # NoRow => s <= born
  BY SessionsAssumption DEF TypeInv, HandlersTyped, RowsTyped, Session
<1>1. UNCHANGED <<credential, holders, signedOut, missed, born>>
  BY DEF Touch, Logout, SwitchTotp, StartRegister, StartLink, StartRevoke, StartRevokeOthers,
         Touched, ReadIds, Cut, EndOwn, UNCHANGEDButLink, UNCHANGEDButRevoke
<1>2. \A s \in Session : row'[s] \in {row[s], NoRow}
  BY <1>0 DEF Touch, Logout, SwitchTotp, StartRegister, StartLink, StartRevoke, StartRevokeOthers,
         Touched, ReadIds, Cut, EndOwn, DeleteSession, UNCHANGEDButLink, UNCHANGEDButRevoke
<1>3. \/ handler' = handler
      \/ /\ \A g \in Handler \ {h} : handler'[g] = handler[g]
         /\ handler[h].at \in {"idle", "touch", "ids", "cut", "own"}
         /\ handler'[h].at \in {"insert", "link", "set"} => handler'[h].of <= born
  <2>1. ASSUME NEW s \in Session,
               \/ Touch(h, s) \/ StartRegister(h, s) \/ StartLink(h, s) \/ StartRevokeOthers(h, s)
               \/ \E target \in Session : StartRevoke(h, s, target)
        PROVE  /\ \A g \in Handler \ {h} : handler'[g] = handler[g]
               /\ handler[h] = Idle
               /\ handler'[h].at \in {"insert", "link", "set"} => handler'[h].of <= born
    <3>1. s <= born
      BY <1>0, <2>1 DEF Touch, StartRegister, StartLink, StartRevokeOthers, StartRevoke, Starts, Live
    <3>2. handler[h] = Idle
      BY <2>1 DEF Touch, StartRegister, StartLink, StartRevokeOthers, StartRevoke, Starts
    <3>3. CASE StartRegister(h, s) \/ StartLink(h, s)
      BY <1>0, <3>1, <3>2, <3>3 DEF StartRegister, StartLink
    <3>4. CASE Touch(h, s) \/ StartRevokeOthers(h, s) \/ \E target \in Session : StartRevoke(h, s, target)
      BY <1>0, <3>2, <3>4 DEF Touch, StartRevokeOthers, StartRevoke
    <3>. QED
      BY <2>1, <3>3, <3>4
  <2>2. ASSUME NEW s \in Session, Logout(h, s) \/ SwitchTotp(h, s) PROVE handler' = handler
    BY <2>2 DEF Logout, SwitchTotp
  <2>3. CASE Touched(h) \/ EndOwn(h)
    BY <1>0, <2>3 DEF Touched, EndOwn, At, Ends, Idle
  <2>4. CASE ReadIds(h)
    BY <1>0, <2>4 DEF ReadIds, At
  <2>5. CASE Cut(h)
    <3>1. [handler[h] EXCEPT !.at = "out"].at = "out"
      BY <1>0, <2>5 DEF Cut, At, HandlerState
    <3>. QED
      BY <1>0, <2>5, <3>1 DEF Cut, At, Goes
  <2>. QED
    BY <1>0, <2>1, <2>2, <2>3, <2>4, <2>5 DEF Idle
<1>4. \A g \in Handler :
        \/ handler'[g] = handler[g]
        \/ /\ ~Forgetting(g) /\ handler[g].at \notin {"link", "set"}
           /\ handler'[g].at \in {"insert", "link", "set"} => handler'[g].of <= born
  BY <1>3 DEF Forgetting
<1>. QED
  BY <1>1, <1>2, <1>4, DeviceKept

LEMMA DeviceStep == TypeInv /\ EndInv /\ DeviceInv /\ [Next]_vars => DeviceInv'
<1> SUFFICES ASSUME TypeInv, EndInv, DeviceInv, [Next]_vars PROVE DeviceInv'
  OBVIOUS
<1> USE DEF redisVars, databaseVars, historyVars
<1>0. /\ row \in [Session -> Row \cup {NoRow}] /\ handler \in [Handler -> HandlerState]
      /\ \A s \in Session : row[s] # NoRow => s <= born /\ s \notin signedOut
  BY SessionsAssumption DEF TypeInv, RowsTyped, HandlersTyped, Session, EndInv, EndedStaysEnded
<1>1. ASSUME NEW l \in Login, CompleteLogin(l) PROVE DeviceInv'
  <2>1. UNCHANGED <<credential, signedOut, missed, handler>>
    BY <1>1 DEF CompleteLogin
  <2>2. login[l].device \in BOOLEAN
    BY <1>1 DEF CompleteLogin, TypeInv, LoginsTyped, LoginState, Idle, Over
  <2>3. CASE totp
    <3>1. UNCHANGED <<row, holders, born>>
      BY <1>1, <2>3 DEF CompleteLogin
    <3>. QED
      BY <2>1, <3>1, DeviceKept
  <2>4. CASE ~totp
    BY <1>1, <2>1, <2>2, <2>4, DeviceWithNewSession DEF CompleteLogin
  <2>. QED
    BY <2>3, <2>4
<1>2. ASSUME NEW c \in Check, Enter(c) PROVE DeviceInv'
  <2> DEFINE l == check[c].of
  <2>1. UNCHANGED <<credential, signedOut, missed, handler>> /\ l \in Login
    BY <1>2 DEF Enter, TypeInv, ChecksTyped, CheckState, Idle
  <2>2. CASE Takes(l)
    <3>1. login[l].device \in BOOLEAN
      BY <2>1, <2>2 DEF Takes, TypeInv, LoginsTyped, LoginState, Idle, Over
    <3>. QED
      BY <1>2, <2>1, <2>2, <3>1, DeviceWithNewSession DEF Enter
  <2>3. CASE ~Takes(l)
    <3>1. UNCHANGED <<row, holders, born>>
      BY <1>2, <2>3 DEF Enter
    <3>. QED
      BY <2>1, <3>1, DeviceKept
  <2>. QED
    BY <2>2, <2>3
<1>3. ASSUME NEW h \in Handler, InsertCredential(h) PROVE DeviceInv'
  <2> DEFINE s == handler[h].of
  <2>1. /\ UNCHANGED <<row, signedOut, born>>
        /\ handler[h] \in [at : {"touch", "insert", "link", "ids"}, of : Session] /\ handler[h].at = "insert"
    BY <1>0, <1>3 DEF InsertCredential, UNCHANGEDButLink, At, HandlerState, Idle
  <2>2. CASE credential = "none"
    <3>1. /\ holders' = holders \cup {s}
          /\ missed' = (missed \/ ~Live(s) \/ row[s].version # password)
          /\ \A g \in Handler \ {h} : handler'[g] = handler[g]
          /\ handler'[h].at = "link" /\ handler'[h].of = s
      BY <1>0, <1>3, <2>1, <2>2 DEF InsertCredential, Goes
    <3>2. s <= born /\ s \in 1..born
      BY <2>1, SessionsAssumption DEF DeviceInv, KnownHolders, Session, TypeInv, RowsTyped
    <3>3. missed' \/ s \notin signedOut
      BY <1>0, <2>1, <3>1 DEF Live
    <3>4. CredentialFits'
      BY <2>1, <3>1, <3>3 DEF CredentialFits
    <3>5. \A r \in Session : HolderFits(r)'
      BY <2>1, <3>1 DEF DeviceInv, HolderFits, LinkOf
    <3>6. KnownHolders'
      BY <2>1, <3>1, <3>2 DEF DeviceInv, KnownHolders
    <3>. QED
      BY <3>4, <3>5, <3>6 DEF DeviceInv
  <2>3. CASE credential # "none"
    <3>1. Ends(h) /\ UNCHANGED <<credential, holders, missed>>
      BY <1>3, <2>3 DEF InsertCredential
    <3>2. (\A g \in Handler \ {h} : handler'[g] = handler[g]) /\ handler'[h] = Idle
      BY <1>0, <3>1 DEF Ends
    <3>. QED
      BY <2>1, <3>1, <3>2, DeviceKept DEF Forgetting, Idle
  <2>. QED
    BY <2>2, <2>3
<1>4. ASSUME NEW h \in Handler, ReadLink(h) PROVE DeviceInv'
  <2>1. /\ UNCHANGED <<row, credential, holders, missed, signedOut, born>>
        /\ \A g \in Handler \ {h} : handler'[g] = handler[g]
        /\ handler[h].at = "link" /\ handler[h].of \in Session
    BY <1>0, <1>4 DEF ReadLink, UNCHANGEDButLink, Ends, At, HandlerState, Idle
  <2>2. \/ handler'[h] = Idle /\ row[handler[h].of] = NoRow
        \/ handler'[h].at = "set" /\ handler'[h].of = handler[h].of
    BY <1>0, <1>4 DEF ReadLink, Ends
  <2>3. CredentialFits'
    BY <2>1, <2>2 DEF DeviceInv, CredentialFits, Forgetting
  <2>4. \A s \in Session : HolderFits(s)'
    BY <2>1, <2>2 DEF DeviceInv, HolderFits, LinkOf, Idle
  <2>5. KnownHolders'
    BY <2>1, <2>2 DEF DeviceInv, KnownHolders, Idle
  <2>. QED
    BY <2>3, <2>4, <2>5 DEF DeviceInv
<1>5. ASSUME NEW h \in Handler, WriteLink(h) PROVE DeviceInv'
  <2> DEFINE s == handler[h].of
  <2>1. /\ UNCHANGED <<credential, missed, signedOut, born>>
        /\ \A g \in Handler \ {h} : handler'[g] = handler[g]
        /\ handler'[h] = Idle /\ handler[h].at = "set"
        /\ handler[h] \in [at : {"set"}, of : Session, copy : Row]
    BY <1>0, <1>5 DEF WriteLink, UNCHANGEDButLink, Ends, At, HandlerState, Idle
  <2>2. CASE row[s] = NoRow
    <3>1. UNCHANGED <<row, holders>>
      BY <1>5, <2>2 DEF WriteLink, SetIfThere
    <3>2. CredentialFits'
      BY <2>1, <3>1 DEF DeviceInv, CredentialFits, Forgetting
    <3>3. \A r \in Session : HolderFits(r)'
      BY <2>1, <2>2, <3>1 DEF DeviceInv, HolderFits, LinkOf
    <3>4. KnownHolders'
      BY <2>1, <3>1 DEF DeviceInv, KnownHolders, Idle
    <3>. QED
      BY <3>2, <3>3, <3>4 DEF DeviceInv
  <2>3. CASE row[s] # NoRow
    <3>1. /\ row'[s] = [handler[h].copy EXCEPT !.keyed = TRUE]
          /\ \A r \in Session \ {s} : row'[r] = row[r]
          /\ holders' = holders \cup {s}
      BY <1>0, <1>5, <2>1, <2>3 DEF WriteLink, SetIfThere
    <3>2. row'[s].keyed
      BY <2>1, <3>1 DEF Row
    <3>3. s \in 1..born /\ s \notin signedOut
      BY <1>0, <2>1, <2>3, SessionsAssumption DEF Session, TypeInv, RowsTyped
    <3>4. CredentialFits'
      BY <2>1, <3>1, <3>3 DEF CredentialFits
    <3>7. ASSUME NEW r \in Session \ {s} PROVE HolderFits(r)'
      <4>1. HolderFits(r) /\ row'[r] = row[r] /\ (r \in holders' <=> r \in holders)
        BY <3>1 DEF DeviceInv
      <4>2. \A g \in Handler : LinkOf(g, r) => LinkOf(g, r)'
        BY <2>1 DEF LinkOf
      <4>. QED
        BY <4>1, <4>2 DEF HolderFits
    <3>5. \A r \in Session : HolderFits(r)'
      BY <2>1, <3>1, <3>2, <3>7 DEF HolderFits
    <3>6. KnownHolders'
      BY <2>1, <3>1, <3>3 DEF DeviceInv, KnownHolders, Idle
    <3>. QED
      BY <3>4, <3>5, <3>6 DEF DeviceInv
  <2>. QED
    BY <2>2, <2>3
<1>6. ASSUME NEW h \in Handler, RevokeOne(h) PROVE DeviceInv'
  <2> DEFINE target == handler[h].target
  <2>1. /\ UNCHANGED <<credential, holders, born>>
        /\ handler[h] \in [at : {"revoke", "forget"}, target : Session, keyed : BOOLEAN]
        /\ handler[h].at = "revoke"
    BY <1>0, <1>6 DEF RevokeOne, UNCHANGEDButRevoke, At, HandlerState, Idle
  <2>2. /\ \A g \in Handler \ {h} : handler'[g] = handler[g]
        /\ \/ handler'[h].at = "idle"
           \/ handler'[h].at = "forget" /\ handler[h].keyed /\ target \in index
    BY <1>0, <1>6, <2>1 DEF RevokeOne, Goes, Ends, Idle
  <2>3. CASE target \notin index
    <3>1. UNCHANGED <<row, signedOut, missed>>
      BY <1>6, <2>3 DEF RevokeOne
    <3>. QED
      BY <2>1, <2>2, <3>1, DeviceKept DEF Forgetting
  <2>4. CASE target \in index
    <3>1. /\ \A s \in Session : row'[s] = IF s = target THEN NoRow ELSE row[s]
          /\ signedOut' = signedOut \cup {target}
          /\ missed' = (missed \/ (~handler[h].keyed /\ (Linking({target}) \/ row[target].keyed)))
          /\ handler[h].keyed => handler'[h].at = "forget"
      BY <1>0, <1>6, <2>1, <2>4 DEF RevokeOne, SignOut, Goes
    <3>2. \A s \in Session : HolderFits(s)'
      BY <2>1, <2>2, <3>1 DEF DeviceInv, HolderFits, LinkOf
    <3>3. KnownHolders'
      BY <2>1, <2>2 DEF DeviceInv, KnownHolders
    <3>4. CredentialFits'
      <4> SUFFICES ASSUME credential = "here", holders \subseteq signedOut \cup {target}, ~missed',
                          \A g \in Handler : ~Forgetting(g)'
                   PROVE  FALSE
        BY <2>1, <3>1 DEF CredentialFits
      <4>1. ~handler[h].keyed /\ ~Linking({target}) /\ ~row[target].keyed /\ ~missed
        BY <3>1 DEF Forgetting
      <4>2. row[target] # NoRow /\ \A g \in Handler : ~LinkOf(g, target)
        BY <4>1 DEF Linking, LinkOf
      <4>3. target \notin holders
        BY <2>1, <4>1, <4>2 DEF DeviceInv, HolderFits
      <4>4. PICK g \in Handler : Forgetting(g)
        BY <4>1, <4>3 DEF DeviceInv, CredentialFits
      <4>. QED
        BY <2>1, <2>2, <4>4 DEF Forgetting
    <3>. QED
      BY <3>2, <3>3, <3>4 DEF DeviceInv
  <2>. QED
    BY <2>3, <2>4
<1>7. ASSUME NEW h \in Handler, ForgetCredential(h) \/ KeepOwnCredential(h) PROVE DeviceInv'
  <2>1. /\ UNCHANGED <<row, signedOut, missed, holders, born>>
        /\ \A g \in Handler \ {h} : handler'[g] = handler[g]
        /\ handler'[h] = Idle /\ handler[h].at \in {"forget", "keep"}
    BY <1>0, <1>7 DEF ForgetCredential, KeepOwnCredential, UNCHANGEDButRevoke, Ends, At
  <2>2. CredentialFits'
    <3>1. CASE credential' # "here"
      BY <3>1 DEF CredentialFits
    <3>2. CASE credential' = "here"
      <4> DEFINE s == handler[h].of
      <4>1. row[s] # NoRow /\ row[s].keyed /\ At(h, "keep")
        BY <1>7, <3>2 DEF ForgetCredential, KeepOwnCredential, Gone
      <4>2. s \in Session
        BY <1>0, <4>1 DEF At, HandlerState, Idle
      <4>3. s \in holders /\ s \notin signedOut
        BY <1>0, <4>1, <4>2 DEF DeviceInv, HolderFits
      <4>. QED
        BY <2>1, <4>3 DEF CredentialFits
    <3>. QED
      BY <3>1, <3>2
  <2>3. \A s \in Session : HolderFits(s)'
    BY <2>1 DEF DeviceInv, HolderFits, LinkOf
  <2>4. KnownHolders'
    BY <2>1 DEF DeviceInv, KnownHolders, Idle
  <2>. QED
    BY <2>2, <2>3, <2>4 DEF DeviceInv
<1>8. ASSUME NEW h \in Handler, RevokeOthers(h) \/ SignOutAll(h) PROVE DeviceInv'
  <2>1. /\ UNCHANGED <<credential, holders, born>>
        /\ \A s \in Session : row'[s] \in {row[s], NoRow}
        /\ \A g \in Handler \ {h} : handler'[g] = handler[g]
    BY <1>0, <1>8 DEF RevokeOthers, SignOutAll, SignOut, UNCHANGEDButRevoke, Goes
  <2>2. \/ handler[h].at = "others" /\ handler'[h].at = "keep"
        \/ /\ handler[h].at = "out" /\ handler'[h].at = "own"
           /\ missed' = (missed \/ credential = "here")
    <3>1. ASSUME NEW step \in {"keep", "own"}, Goes(h, step), handler[h].at \in {"others", "out"}
          PROVE  handler'[h].at = step
      BY <1>0, <3>1 DEF Goes, HandlerState
    <3>2. CASE RevokeOthers(h)
      BY <3>1, <3>2 DEF RevokeOthers, At
    <3>3. CASE SignOutAll(h)
      BY <3>1, <3>3 DEF SignOutAll, At
    <3>. QED
      BY <1>8, <3>2, <3>3
  <2>3. CredentialFits'
    BY <2>1, <2>2 DEF DeviceInv, CredentialFits, Forgetting
  <2>4. \A s \in Session : HolderFits(s)'
    BY <2>1, <2>2 DEF DeviceInv, HolderFits, LinkOf
  <2>5. KnownHolders'
    BY <2>1, <2>2 DEF DeviceInv, KnownHolders
  <2>. QED
    BY <2>3, <2>4, <2>5 DEF DeviceInv
<1>9. ASSUME NEW h \in Handler, NEW s \in Session, ChangePassword(h, s) PROVE DeviceInv'
  <2>1. /\ UNCHANGED <<row, holders, born, signedOut, missed>> /\ credential' # "here"
        /\ \A g \in Handler \ {h} : handler'[g] = handler[g]
        /\ handler[h] = Idle /\ handler'[h].at = "ids"
    BY <1>0, <1>9 DEF ChangePassword, UNCHANGEDButRevoke, Starts, Gone
  <2>2. CredentialFits'
    BY <2>1 DEF CredentialFits
  <2>3. \A r \in Session : HolderFits(r)'
    BY <2>1 DEF DeviceInv, HolderFits, LinkOf, Idle
  <2>4. KnownHolders'
    BY <2>1 DEF DeviceInv, KnownHolders
  <2>. QED
    BY <2>2, <2>3, <2>4 DEF DeviceInv
<1>. QED
  BY <1>0, <1>1, <1>2, <1>3, <1>4, <1>5, <1>6, <1>7, <1>8, <1>9, OthersKeepDevice, RequestsKeepDevice DEF Next

(* A device signed out from another one can't log in with its credential,  *)
(* however registering, linking and revoking interleave, except when the   *)
(* credential was being linked or the session had just expired             *)
(* (session.revoke, revokeOthers, linkDeviceCredential).                   *)
THEOREM RevokedDeviceOut == Spec => []RevokedDeviceIsOut
<1>1. Spec => [](TypeInv /\ EndInv /\ DeviceInv)
  BY InitTyped, EndInit, InitDeviceInv, TypeStep, EndStep, DeviceStep, PTL DEF Spec
<1>. QED
  BY <1>1, RevokedIsOut, PTL
================================================================================
