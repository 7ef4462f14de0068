------------------------- MODULE SyncScheduler_proofs -------------------------
(***************************************************************************)
(* Proofs about SyncScheduler, for every set of callers of syncFresh and   *)
(* every bound.                                                            *)
(***************************************************************************)
EXTENDS SyncScheduler, TLAPS

RoundState ==
  [at : {"idle", "begun", "pushing", "pulling", "behind", "pushingAgain", "through", "tail"},
   sent : Nat, pushed : BOOLEAN, paged : BOOLEAN, ok : BOOLEAN, halted : BOOLEAN,
   after : SUBSET Caller]

CallState ==
  [at : {"none", "waiting", "woken", "own", "back"}, on : Round \cup {NoRound},
   ran : BOOLEAN, ok : BOOLEAN, pulled : BOOLEAN]

(* A round as it begins.                                                   *)
Begun(callers) == [Idle EXCEPT !.at = "begun", !.after = callers]

IsIdle(rs, r) == rs[r].at = "idle"

Talks(rs, r) == rs[r].at \notin {"idle", "tail"}

(* How the rounds stand to each other: one talks to the server, and that   *)
(* is when `syncing` is set; while one counts the outbox the other has at  *)
(* most begun; the latest one is the one that may still be waited for.     *)
RoundsFit(rs, busy, latest) ==
  /\ \A r, q \in Round : Talks(rs, r) /\ Talks(rs, q) => r = q
  /\ busy <=> \E r \in Round : Talks(rs, r)
  /\ \A r, q \in Round : r # q /\ rs[r].at = "tail" => rs[q].at \in {"idle", "begun"}
  /\ \A r \in Round : ~IsIdle(rs, r) =>
       /\ latest # NoRound
       /\ r # latest => rs[r].at = "tail" /\ rs[latest].at = "begun"

LEMMA IdleState == Idle \in RoundState /\ \A callers \in SUBSET Caller : Begun(callers) \in RoundState
BY DEF Idle, Begun, RoundState

(* With no round talking there is one to begin.                            *)
LEMMA SomeIdle ==
  ASSUME NEW rs \in [Round -> RoundState], NEW busy, NEW latest, RoundsFit(rs, busy, latest), ~busy
  PROVE  \E r \in Round : IsIdle(rs, r)
BY DEF RoundsFit, Talks, IsIdle, Round, RoundState

(* What sync does to the rounds: nothing, mark that another one is wanted, *)
(* or begin one.                                                           *)
LEMMA SyncOutcome ==
  ASSUME NEW now \in [Round -> RoundState], NEW again \in BOOLEAN, NEW caller \in SUBSET Caller,
         syncing \in BOOLEAN, RoundsFit(now, syncing, round), Sync(now, again, caller)
  PROVE  \/ disposed /\ rounds' = now /\ rerun' = again /\ UNCHANGED <<syncing, round>>
         \/ ~disposed /\ syncing /\ rounds' = now /\ rerun' = TRUE /\ UNCHANGED <<syncing, round>>
         \/ /\ ~disposed /\ ~syncing /\ syncing' = TRUE /\ rerun' = again
            /\ round' \in Round /\ IsIdle(now, round')
            /\ rounds' = [now EXCEPT ![round'] = Begun(Waiting \cup caller)]
<1>1. CASE disposed \/ syncing
  BY <1>1 DEF Sync
<1>2. CASE ~disposed /\ ~syncing
  <2> DEFINE r == CHOOSE r \in Round : now[r].at = "idle"
  <2>1. \E q \in Round : now[q].at = "idle"
    BY <1>2, SomeIdle DEF IsIdle
  <2>2. r \in Round /\ now[r].at = "idle"
    BY <2>1
  <2>3. /\ rounds' = [now EXCEPT ![r] = [Idle EXCEPT !.at = "begun", !.after = Waiting \cup caller]]
        /\ round' = r /\ syncing' = TRUE /\ rerun' = again
    BY <1>2 DEF Sync
  <2> HIDE DEF r
  <2>. QED
    BY <1>2, <2>2, <2>3 DEF IsIdle, Begun
<1>. QED
  BY <1>1, <1>2

(* Whatever it does, the rounds still fit.                                 *)
LEMMA SyncFits ==
  ASSUME NEW now \in [Round -> RoundState], NEW again \in BOOLEAN, NEW caller \in SUBSET Caller,
         syncing \in BOOLEAN, round \in Round \cup {NoRound}, fresh \in [Caller -> CallState],
         RoundsFit(now, syncing, round), Sync(now, again, caller)
  PROVE  /\ rounds' \in [Round -> RoundState] /\ syncing' \in BOOLEAN /\ rerun' \in BOOLEAN
         /\ round' \in Round \cup {NoRound}
         /\ RoundsFit(rounds', syncing', round')
<1>1. CASE rounds' = now /\ rerun' \in BOOLEAN /\ UNCHANGED <<syncing, round>>
  BY <1>1
<1>2. CASE /\ ~syncing /\ syncing' = TRUE /\ rerun' = again
           /\ round' \in Round /\ IsIdle(now, round')
           /\ rounds' = [now EXCEPT ![round'] = Begun(Waiting \cup caller)]
  <2>1. Waiting \cup caller \in SUBSET Caller
    BY DEF Waiting
  <2>2. Begun(Waiting \cup caller) \in RoundState
    BY <2>1, IdleState
  <2>3. rounds' \in [Round -> RoundState]
    BY <1>2, <2>2
  <2>4. /\ rounds'[round'].at = "begun"
        /\ \A r \in Round \ {round'} : rounds'[r] = now[r] /\ now[r].at \in {"idle", "tail"}
    BY <1>2 DEF Begun, Idle, RoundsFit, Talks
  <2>5. RoundsFit(rounds', syncing', round')
    BY <1>2, <2>4 DEF RoundsFit, Talks, IsIdle, NoRound, Round
  <2>. QED
    BY <1>2, <2>3, <2>5
<1>. QED
  BY <1>1, <1>2, SyncOutcome
-------------------------------------------------------------------------------
(***************************************************************************)
(* Types, and how the rounds stand.                                        *)
(***************************************************************************)
(* TypeOK, a fact for each variable.                                       *)
Typed ==
  /\ syncing \in BOOLEAN /\ rerun \in BOOLEAN /\ enabled \in BOOLEAN /\ disposed \in BOOLEAN
  /\ paused \in BOOLEAN /\ debounce \in BOOLEAN /\ retry \in BOOLEAN /\ periodic \in BOOLEAN
  /\ retrying \in BOOLEAN /\ unheard \in BOOLEAN
  /\ round \in Round \cup {NoRound}
  /\ rounds \in [Round -> RoundState]
  /\ fresh \in [Caller -> CallState]
  /\ closed \in {"open", "disposing", "closed"}
  /\ unsent \in Nat /\ parked \in Nat /\ requesting \in Nat
  /\ spent \in [{"writes", "faults", "pings", "toggles"} -> Nat]

(* A round that still talks hasn't succeeded nor met a paused account, and *)
(* what it took is still unsent until it is answered.                      *)
RoundFits ==
  \A r \in Round :
    /\ Active(r) => ~rounds[r].ok /\ ~rounds[r].halted
    /\ rounds[r].at \in {"pushing", "pushingAgain"} => rounds[r].sent <= unsent

RoundInv == Typed /\ RoundsFit(rounds, syncing, round) /\ RoundFits

LEMMA TypedIsTypeOK == Typed <=> TypeOK
BY DEF Typed, TypeOK, RoundState, CallState

LEMMA InitRoundInv == Init => RoundInv
<1>. SUFFICES ASSUME Init PROVE RoundInv
  OBVIOUS
<1>1. rounds \in [Round -> RoundState] /\ \A r \in Round : rounds[r] = Idle
  BY IdleState DEF Init
<1>2. fresh \in [Caller -> CallState]
  BY DEF Init, NoCall, CallState
<1>3. spent \in [{"writes", "faults", "pings", "toggles"} -> Nat]
  BY DEF Init
<1>4. RoundsFit(rounds, syncing, round) /\ RoundFits
  BY <1>1 DEF Init, Idle, RoundsFit, RoundFits, Talks, IsIdle, Active
<1>. QED
  BY <1>1, <1>2, <1>3, <1>4 DEF RoundInv, Typed, Init

LEMMA SpendTyped ==
  ASSUME NEW kind \in {"writes", "faults", "pings", "toggles"}, NEW limit, Spend(kind, limit),
         spent \in [{"writes", "faults", "pings", "toggles"} -> Nat]
  PROVE  spent' \in [{"writes", "faults", "pings", "toggles"} -> Nat]
BY DEF Spend

(* No other round is under way while one talks, unless it counts and this  *)
(* one has only begun.                                                     *)
LEMMA Alone ==
  ASSUME NEW r \in Round, Active(r), rounds \in [Round -> RoundState],
         RoundsFit(rounds, syncing, round),
         rounds[r].at = "begun" => \A q \in Round : rounds[q].at # "tail"
  PROVE  syncing /\ round = r /\ \A q \in Round : q # r => rounds[q].at = "idle"
<1>1. ASSUME NEW q \in Round, q # r PROVE rounds[q].at = "idle"
  <2>1. ~Talks(rounds, q)
    BY <1>1 DEF RoundsFit, Active, Talks
  <2>2. rounds[q].at # "tail"
    BY <1>1 DEF RoundsFit, Active
  <2>. QED
    BY <2>1, <2>2 DEF Talks
<1>. QED
  BY <1>1 DEF RoundsFit, Active, Talks, IsIdle

(* It moves on: it still talks, or it comes to its end.                    *)
LEMMA OneMoves ==
  ASSUME NEW r \in Round, NEW s \in RoundState, rounds \in [Round -> RoundState],
         RoundsFit(rounds, syncing, round), Active(r),
         rounds[r].at = "begun" => \A q \in Round : rounds[q].at # "tail",
         rounds' = [rounds EXCEPT ![r] = s], round' = round,
         \/ s.at \notin {"idle", "tail"} /\ syncing' = syncing
         \/ s.at = "tail" /\ syncing' = FALSE
  PROVE  rounds' \in [Round -> RoundState] /\ RoundsFit(rounds', syncing', round')
<1>1. syncing /\ round = r /\ \A q \in Round : q # r => rounds'[q] = rounds[q] /\ rounds[q].at = "idle"
  BY Alone
<1>2. rounds'[r] = s
  OBVIOUS
<1>. QED
  BY <1>1, <1>2 DEF RoundsFit, Talks, IsIdle

(* The steps of a round, by what they make of it.                          *)
Steps(r) ==
  ReadOutbox(r) \/ PushAnswered(r) \/ PullMore(r) \/ PullLast(r) \/ Succeed(r) \/ Fail(r) \/ Stop(r)

LEMMA ReadOutboxMove ==
  ASSUME NEW r \in Round, RoundInv, ReadOutbox(r)
  PROVE  \E s \in RoundState :
           /\ rounds' = [rounds EXCEPT ![r] = s] /\ Active(r) /\ \A q \in Round : rounds[q].at # "tail"
           /\ \/ rounds[r].at = "begun" /\ s.at = "pushing"
              \/ rounds[r].at = "behind" /\ s.at = "pushingAgain"
           /\ s.sent = unsent /\ s.ok = rounds[r].ok /\ s.halted = rounds[r].halted
           /\ s.after = rounds[r].after
<1>1. CASE rounds[r].at = "begun"
  <2>1. rounds' = [rounds EXCEPT ![r] = [rounds[r] EXCEPT !.at = "pushing", !.sent = unsent]]
    BY <1>1 DEF ReadOutbox
  <2>2. [rounds[r] EXCEPT !.at = "pushing", !.sent = unsent] \in RoundState
    BY DEF RoundInv, Typed, RoundState
  <2>. QED
    BY <1>1, <2>1, <2>2 DEF RoundInv, Typed, RoundState, ReadOutbox, Active
<1>2. CASE rounds[r].at = "behind"
  <2>1. rounds' = [rounds EXCEPT ![r] = [rounds[r] EXCEPT !.at = "pushingAgain", !.sent = unsent]]
    BY <1>2 DEF ReadOutbox
  <2>2. [rounds[r] EXCEPT !.at = "pushingAgain", !.sent = unsent] \in RoundState
    BY DEF RoundInv, Typed, RoundState
  <2>. QED
    BY <1>2, <2>1, <2>2 DEF RoundInv, Typed, RoundState, ReadOutbox, Active
<1>. QED
  BY <1>1, <1>2 DEF ReadOutbox

LEMMA PushAnsweredMove ==
  ASSUME NEW r \in Round, RoundInv, PushAnswered(r)
  PROVE  \E s \in RoundState, applied, refused \in Nat :
           /\ rounds' = [rounds EXCEPT ![r] = s] /\ Active(r) /\ rounds[r].at # "begun"
           /\ \/ rounds[r].at = "pushing" /\ s.at = "pulling"
              \/ rounds[r].at = "pushingAgain" /\ s.at = "through"
           /\ s.pushed = (applied = rounds[r].sent) /\ s.sent = rounds[r].sent
           /\ s.ok = rounds[r].ok /\ s.halted = rounds[r].halted /\ s.after = rounds[r].after
           /\ applied + refused <= rounds[r].sent /\ rounds[r].sent <= unsent
           /\ unsent' = unsent - applied - refused /\ parked' = parked + refused
           /\ spent' \in [{"writes", "faults", "pings", "toggles"} -> Nat]
<1>1. rounds[r] \in RoundState
  BY DEF RoundInv, Typed
<1>2. PICK a \in Answers(rounds[r].sent) :
        LET all == a.applied = rounds[r].sent
        IN  /\ IF all THEN UNCHANGED spent ELSE Spend("faults", MaxFaults)
            /\ unsent' = unsent - a.applied - a.refused
            /\ parked' = parked + a.refused
            /\ \/ /\ rounds[r].at = "pushing"
                  /\ rounds' = [rounds EXCEPT ![r] = [@ EXCEPT !.at = "pulling", !.pushed = all]]
               \/ /\ rounds[r].at = "pushingAgain"
                  /\ rounds' = [rounds EXCEPT ![r] = [@ EXCEPT !.at = "through", !.pushed = all]]
  BY DEF PushAnswered
<1>3. a.applied \in Nat /\ a.refused \in Nat /\ a.applied + a.refused <= rounds[r].sent
  BY <1>1 DEF Answers, RoundState
<1>4. rounds[r].sent <= unsent
  BY <1>2 DEF RoundInv, RoundFits
<1>5. spent' \in [{"writes", "faults", "pings", "toggles"} -> Nat]
  BY <1>2, SpendTyped DEF RoundInv, Typed
<1>6. PICK at \in {"pulling", "through"} :
        /\ \/ rounds[r].at = "pushing" /\ at = "pulling"
           \/ rounds[r].at = "pushingAgain" /\ at = "through"
        /\ rounds' = [rounds EXCEPT ![r] = [rounds[r] EXCEPT !.at = at, !.pushed = (a.applied = rounds[r].sent)]]
  BY <1>2
<1>7. [rounds[r] EXCEPT !.at = at, !.pushed = (a.applied = rounds[r].sent)] \in RoundState
  BY <1>1 DEF RoundState
<1>. QED
  BY <1>1, <1>2, <1>3, <1>4, <1>5, <1>6, <1>7 DEF RoundState, Active

LEMMA PullMoreMove ==
  ASSUME NEW r \in Round, RoundInv, PullMore(r)
  PROVE  \E s \in RoundState :
           /\ rounds' = [rounds EXCEPT ![r] = s] /\ Active(r)
           /\ rounds[r].at = "pulling" /\ s.at = "pulling" /\ s.pushed = rounds[r].pushed
           /\ s.sent = rounds[r].sent
           /\ s.ok = rounds[r].ok /\ s.halted = rounds[r].halted /\ s.after = rounds[r].after
<1>1. rounds[r] \in RoundState
  BY DEF RoundInv, Typed
<1>2. [rounds[r] EXCEPT !.paged = TRUE] \in RoundState
  BY <1>1 DEF RoundState
<1>3. rounds' = [rounds EXCEPT ![r] = [rounds[r] EXCEPT !.paged = TRUE]]
  BY DEF PullMore
<1>. QED
  BY <1>1, <1>2, <1>3 DEF PullMore, Active, RoundState

LEMMA PullLastMove ==
  ASSUME NEW r \in Round, RoundInv, PullLast(r)
  PROVE  \E s \in RoundState :
           /\ rounds' = [rounds EXCEPT ![r] = s] /\ Active(r)
           /\ rounds[r].at = "pulling" /\ s.pushed = rounds[r].pushed /\ s.sent = rounds[r].sent
           /\ s.at = IF rounds[r].pushed THEN "through" ELSE "behind"
           /\ s.ok = rounds[r].ok /\ s.halted = rounds[r].halted /\ s.after = rounds[r].after
<1>1. rounds[r] \in RoundState
  BY DEF RoundInv, Typed
<1> DEFINE at == IF rounds[r].pushed THEN "through" ELSE "behind"
<1>2. [rounds[r] EXCEPT !.at = at] \in RoundState
  BY <1>1 DEF RoundState
<1>3. rounds' = [rounds EXCEPT ![r] = [rounds[r] EXCEPT !.at = at]]
  BY DEF PullLast, Move
<1>. QED
  BY <1>1, <1>2, <1>3 DEF PullLast, Active, RoundState

LEMMA SucceedMove ==
  ASSUME NEW r \in Round, RoundInv, Succeed(r)
  PROVE  /\ \E s \in RoundState :
              /\ rounds' = [rounds EXCEPT ![r] = s] /\ Active(r)
              /\ rounds[r].at = "through" /\ s.at = "tail" /\ s.pushed = rounds[r].pushed
              /\ s.ok /\ s.halted = rounds[r].halted /\ s.after = rounds[r].after
         /\ rerun' \in BOOLEAN /\ (rerun => rerun')
         /\ spent' \in [{"writes", "faults", "pings", "toggles"} -> Nat]
<1>1. rounds[r] \in RoundState
  BY DEF RoundInv, Typed
<1>2. [rounds[r] EXCEPT !.at = "tail", !.ok = TRUE] \in RoundState
  BY <1>1 DEF RoundState
<1>3. rounds' = [rounds EXCEPT ![r] = [rounds[r] EXCEPT !.at = "tail", !.ok = TRUE]]
  BY DEF Succeed
<1>4. /\ rerun' \in BOOLEAN /\ (rerun => rerun')
      /\ spent' \in [{"writes", "faults", "pings", "toggles"} -> Nat]
  <2>1. CASE UNCHANGED <<rerun, spent>>
    BY <2>1 DEF RoundInv, Typed
  <2>2. CASE rerun' = TRUE /\ Spend("pings", MaxPings)
    BY <2>2, SpendTyped DEF RoundInv, Typed
  <2>. QED
    BY <2>1, <2>2 DEF Succeed
<1>. QED
  BY <1>1, <1>2, <1>3, <1>4 DEF Succeed, Active, RoundState

LEMMA GiveUpMove ==
  ASSUME NEW r \in Round, RoundInv, Fail(r) \/ Stop(r)
  PROVE  \E s \in RoundState :
           /\ rounds' = [rounds EXCEPT ![r] = s] /\ Active(r)
           /\ rounds[r].at = "begun" => \A q \in Round : rounds[q].at # "tail"
           /\ s.at = "tail" /\ ~s.pushed /\ s.ok = rounds[r].ok /\ s.after = rounds[r].after
           /\ paused' = s.halted
           /\ syncing' = FALSE /\ RoundFrame /\ UNCHANGED <<rerun, fresh, unsent, parked, unheard>>
           /\ spent' \in [{"writes", "faults", "pings", "toggles"} -> Nat]
<1>1. rounds[r] \in RoundState
  BY DEF RoundInv, Typed
<1>2. PICK halted \in BOOLEAN : GiveUp(r, halted)
  BY DEF Fail, Stop
<1>3. [rounds[r] EXCEPT !.at = "tail", !.pushed = FALSE, !.halted = halted] \in RoundState
  BY <1>1 DEF RoundState
<1>4. rounds' = [rounds EXCEPT ![r] = [rounds[r] EXCEPT !.at = "tail", !.pushed = FALSE, !.halted = halted]]
  BY <1>2 DEF GiveUp
<1>5. Active(r) /\ (rounds[r].at = "begun" => \A q \in Round : rounds[q].at # "tail")
  BY DEF Fail, Stop, Active
<1>6. spent' \in [{"writes", "faults", "pings", "toggles"} -> Nat]
  BY SpendTyped DEF Fail, Stop, RoundInv, Typed
<1>. QED
  BY <1>1, <1>2, <1>3, <1>4, <1>5, <1>6 DEF GiveUp, RoundState

LEMMA MoveRoundInv ==
  ASSUME NEW r \in Round, RoundInv, Steps(r)
  PROVE  RoundInv'
<1>0. Typed /\ rounds \in [Round -> RoundState] /\ RoundsFit(rounds, syncing, round) /\ RoundFits
  BY DEF RoundInv, Typed
<1>. USE DEF Typed
<1>1. CASE ReadOutbox(r)
  <2>1. PICK s \in RoundState :
          /\ rounds' = [rounds EXCEPT ![r] = s] /\ Active(r) /\ \A q \in Round : rounds[q].at # "tail"
          /\ \/ rounds[r].at = "begun" /\ s.at = "pushing"
             \/ rounds[r].at = "behind" /\ s.at = "pushingAgain"
          /\ s.sent = unsent /\ s.ok = rounds[r].ok /\ s.halted = rounds[r].halted
    BY <1>1, ReadOutboxMove
  <2>2. rounds' \in [Round -> RoundState] /\ RoundsFit(rounds', syncing', round')
    BY <1>0, <1>1, <2>1, OneMoves DEF ReadOutbox, RoundFrame
  <2>3. RoundFits'
    <3>1. \A q \in Round : q # r => rounds'[q] = rounds[q]
      BY <1>0, <2>1
    <3>2. rounds'[r] = s
      BY <1>0, <2>1
    <3>. QED
      BY <1>0, <1>1, <2>1, <3>1, <3>2 DEF ReadOutbox, RoundFits, Active
  <2>. QED
    BY <1>0, <1>1, <2>2, <2>3 DEF RoundInv, ReadOutbox, RoundFrame
<1>2. CASE PushAnswered(r)
  <2>1. PICK s \in RoundState, applied, refused \in Nat :
           /\ rounds' = [rounds EXCEPT ![r] = s] /\ Active(r) /\ rounds[r].at # "begun"
           /\ s.at \in {"pulling", "through"}
           /\ s.ok = rounds[r].ok /\ s.halted = rounds[r].halted
           /\ applied + refused <= rounds[r].sent /\ rounds[r].sent <= unsent
           /\ unsent' = unsent - applied - refused /\ parked' = parked + refused
           /\ spent' \in [{"writes", "faults", "pings", "toggles"} -> Nat]
    BY <1>2, PushAnsweredMove
  <2>2. rounds' \in [Round -> RoundState] /\ RoundsFit(rounds', syncing', round')
    BY <1>0, <1>2, <2>1, OneMoves DEF PushAnswered, RoundFrame
  <2>3. RoundFits'
    <3>1. \A q \in Round : q # r => rounds'[q] = rounds[q] /\ rounds[q].at = "idle"
      BY <1>0, <2>1, Alone
    <3>2. rounds'[r] = s
      BY <1>0, <2>1
    <3>. QED
      BY <1>0, <2>1, <3>1, <3>2 DEF RoundFits, Active
  <2>4. unsent' \in Nat /\ parked' \in Nat
    <3>1. rounds[r].sent \in Nat
      BY <1>0 DEF RoundState
    <3>. QED
      BY <1>0, <2>1, <3>1
  <2>. QED
    BY <1>0, <1>2, <2>1, <2>2, <2>3, <2>4 DEF RoundInv, PushAnswered, RoundFrame
<1>3. CASE PullMore(r)
  <2>1. PICK s \in RoundState :
          /\ rounds' = [rounds EXCEPT ![r] = s] /\ Active(r)
          /\ rounds[r].at = "pulling" /\ s.at = "pulling" /\ s.ok = rounds[r].ok /\ s.halted = rounds[r].halted
    BY <1>3, PullMoreMove
  <2>2. rounds' \in [Round -> RoundState] /\ RoundsFit(rounds', syncing', round')
    BY <1>0, <1>3, <2>1, OneMoves DEF PullMore, RoundFrame
  <2>3. RoundFits'
    <3>1. rounds'[r] = s /\ \A q \in Round : q # r => rounds'[q] = rounds[q]
      BY <1>0, <2>1
    <3>. QED
      BY <1>0, <1>3, <2>1, <3>1 DEF RoundFits, Active, PullMore
  <2>. QED
    BY <1>0, <1>3, <2>2, <2>3 DEF RoundInv, PullMore, RoundFrame
<1>4. CASE PullLast(r)
  <2>1. PICK s \in RoundState :
          /\ rounds' = [rounds EXCEPT ![r] = s] /\ Active(r)
          /\ rounds[r].at = "pulling" /\ s.at \in {"through", "behind"}
          /\ s.ok = rounds[r].ok /\ s.halted = rounds[r].halted
    BY <1>4, PullLastMove
  <2>2. rounds' \in [Round -> RoundState] /\ RoundsFit(rounds', syncing', round')
    BY <1>0, <1>4, <2>1, OneMoves DEF PullLast, RoundFrame
  <2>3. RoundFits'
    <3>1. rounds'[r] = s /\ \A q \in Round : q # r => rounds'[q] = rounds[q]
      BY <1>0, <2>1
    <3>. QED
      BY <1>0, <1>4, <2>1, <3>1 DEF RoundFits, Active, PullLast
  <2>4. fresh' \in [Caller -> CallState]
    BY <1>0, <1>4 DEF PullLast, CallState
  <2>. QED
    BY <1>0, <1>4, <2>2, <2>3, <2>4 DEF RoundInv, PullLast, RoundFrame
<1>5. CASE Succeed(r)
  <2>1. PICK s \in RoundState :
          /\ rounds' = [rounds EXCEPT ![r] = s] /\ Active(r) /\ rounds[r].at = "through" /\ s.at = "tail"
    BY <1>5, SucceedMove
  <2>2. rounds' \in [Round -> RoundState] /\ RoundsFit(rounds', syncing', round')
    BY <1>0, <1>5, <2>1, OneMoves DEF Succeed, RoundFrame
  <2>3. RoundFits'
    <3>1. rounds'[r] = s /\ \A q \in Round : q # r => rounds'[q] = rounds[q]
      BY <1>0, <2>1
    <3>. QED
      BY <1>0, <1>5, <2>1, <3>1 DEF RoundFits, Active, Succeed
  <2>4. rerun' \in BOOLEAN /\ spent' \in [{"writes", "faults", "pings", "toggles"} -> Nat]
    BY <1>5, SucceedMove
  <2>. QED
    BY <1>0, <1>5, <2>2, <2>3, <2>4 DEF RoundInv, Succeed, RoundFrame
<1>6. CASE Fail(r) \/ Stop(r)
  <2>1. PICK s \in RoundState :
           /\ rounds' = [rounds EXCEPT ![r] = s] /\ Active(r)
           /\ rounds[r].at = "begun" => \A q \in Round : rounds[q].at # "tail"
           /\ s.at = "tail" /\ paused' = s.halted
           /\ syncing' = FALSE /\ RoundFrame /\ UNCHANGED <<rerun, fresh, unsent, parked, unheard>>
           /\ spent' \in [{"writes", "faults", "pings", "toggles"} -> Nat]
    BY <1>6, GiveUpMove
  <2>2. rounds' \in [Round -> RoundState] /\ RoundsFit(rounds', syncing', round')
    BY <1>0, <2>1, OneMoves DEF RoundFrame
  <2>3. RoundFits'
    <3>1. rounds'[r] = s /\ \A q \in Round : q # r => rounds'[q] = rounds[q]
      BY <1>0, <2>1
    <3>. QED
      BY <1>0, <2>1, <3>1 DEF RoundFits, Active
  <2>4. paused' \in BOOLEAN
    BY <2>1 DEF RoundState
  <2>. QED
    BY <1>0, <2>1, <2>2, <2>3, <2>4 DEF RoundInv, RoundFrame
<1>. QED
  BY <1>1, <1>2, <1>3, <1>4, <1>5, <1>6 DEF Steps

(* What a sync leaves of the rounds that were there, and what comes of it. *)
LEMMA SyncLeads ==
  ASSUME NEW now \in [Round -> RoundState], NEW again \in BOOLEAN, NEW caller \in SUBSET Caller,
         syncing \in BOOLEAN, RoundsFit(now, syncing, round), Sync(now, again, caller)
  PROVE  /\ \A r \in Round :
              rounds'[r] = now[r] \/ (IsIdle(now, r) /\ rounds'[r] = Begun(Waiting \cup caller))
         /\ disposed => rounds' = now
         /\ ~disposed => rerun' \/ \E r \in Round : rounds'[r].at = "begun"
         /\ rerun' => again \/ \E r \in Round : rounds'[r].at # "idle"
<1>1. CASE disposed /\ rounds' = now /\ rerun' = again
  BY <1>1
<1>2. CASE ~disposed /\ syncing /\ rounds' = now /\ rerun' = TRUE
  BY <1>2 DEF RoundsFit, Talks
<1>3. CASE /\ ~disposed /\ rerun' = again /\ round' \in Round /\ IsIdle(now, round')
           /\ rounds' = [now EXCEPT ![round'] = Begun(Waiting \cup caller)]
  <2>1. rounds'[round'] = Begun(Waiting \cup caller) /\ rounds'[round'].at = "begun"
    BY <1>3 DEF Begun, Idle
  <2>. QED
    BY <1>3, <2>1
<1>. QED
  BY <1>1, <1>2, <1>3, SyncOutcome

(* A timer, an event, an unlock or a call of syncFresh: sync is called, or *)
(* the rounds are left alone.                                              *)
Asks ==
  \/ DebounceFires \/ RetryFires \/ Ping \/ RetryParked \/ Connect
  \/ \E f \in Caller : SyncFresh(f) \/ Wake(f)

LEMMA AsksSync ==
  ASSUME RoundInv, Asks
  PROVE  \/ \E caller \in SUBSET Caller : Sync(rounds, rerun, caller)
         \/ UNCHANGED <<syncing, rerun, round, rounds>>
<1>1. CASE DebounceFires \/ RetryFires \/ Ping \/ RetryParked \/ Connect
  BY <1>1 DEF DebounceFires, RetryFires, Ping, RetryParked, Connect, SyncNow
<1>2. CASE \E f \in Caller : SyncFresh(f) \/ Wake(f)
  BY <1>2 DEF SyncFresh, Wake, WaitOrSync, SyncOwn
<1>. QED
  BY <1>1, <1>2 DEF Asks

LEMMA AsksRounds ==
  ASSUME RoundInv, Asks
  PROVE  /\ rounds' \in [Round -> RoundState] /\ syncing' \in BOOLEAN /\ rerun' \in BOOLEAN
         /\ round' \in Round \cup {NoRound}
         /\ RoundsFit(rounds', syncing', round')
         /\ \A r \in Round : rounds'[r] = rounds[r] \/ (IsIdle(rounds, r) /\ rounds'[r].at = "begun")
         /\ \A r \in Round : rounds'[r] = rounds[r] \/ (rounds'[r].ok = FALSE /\ rounds'[r].halted = FALSE)
         /\ disposed => rounds' = rounds
         /\ rerun' => rerun \/ \E r \in Round : rounds'[r].at # "idle"
<1>0. /\ rounds \in [Round -> RoundState] /\ rerun \in BOOLEAN /\ syncing \in BOOLEAN
      /\ round \in Round \cup {NoRound} /\ fresh \in [Caller -> CallState]
      /\ RoundsFit(rounds, syncing, round)
  BY DEF RoundInv, Typed
<1>1. CASE UNCHANGED <<syncing, rerun, round, rounds>>
  BY <1>0, <1>1
<1>2. ASSUME NEW caller \in SUBSET Caller, Sync(rounds, rerun, caller)
      PROVE  /\ rounds' \in [Round -> RoundState] /\ syncing' \in BOOLEAN /\ rerun' \in BOOLEAN
             /\ round' \in Round \cup {NoRound}
             /\ RoundsFit(rounds', syncing', round')
             /\ \A r \in Round : rounds'[r] = rounds[r] \/ (IsIdle(rounds, r) /\ rounds'[r].at = "begun")
             /\ \A r \in Round : rounds'[r] = rounds[r] \/ (rounds'[r].ok = FALSE /\ rounds'[r].halted = FALSE)
             /\ disposed => rounds' = rounds
             /\ rerun' => rerun \/ \E r \in Round : rounds'[r].at # "idle"
  <2>1. /\ rounds' \in [Round -> RoundState] /\ syncing' \in BOOLEAN /\ rerun' \in BOOLEAN
        /\ round' \in Round \cup {NoRound}
        /\ RoundsFit(rounds', syncing', round')
    BY <1>0, <1>2, SyncFits
  <2>2. /\ Begun(Waiting \cup caller).at = "begun" /\ Begun(Waiting \cup caller).ok = FALSE
        /\ Begun(Waiting \cup caller).halted = FALSE
    BY DEF Begun, Idle
  <2>3. /\ \A r \in Round :
              rounds'[r] = rounds[r] \/ (IsIdle(rounds, r) /\ rounds'[r] = Begun(Waiting \cup caller))
        /\ disposed => rounds' = rounds
        /\ rerun' => rerun \/ \E r \in Round : rounds'[r].at # "idle"
    BY <1>0, <1>2, SyncLeads
  <2>. QED
    BY <2>1, <2>2, <2>3
<1>. QED
  BY <1>1, <1>2, AsksSync

LEMMA CallTyped ==
  ASSUME RoundInv, NEW f \in Caller, SyncFresh(f) \/ Wake(f)
  PROVE  fresh' \in [Caller -> CallState]
<1>0. /\ fresh \in [Caller -> CallState] /\ round \in Round \cup {NoRound}
      /\ round' \in Round \cup {NoRound}
  BY AsksRounds DEF RoundInv, Typed, Asks
<1>1. PICK at \in {"waiting", "own", "back"}, on \in Round \cup {NoRound}, ran \in BOOLEAN :
        fresh' = [fresh EXCEPT ![f] = [fresh[f] EXCEPT !.at = at, !.on = on, !.ran = ran]]
  <2>1. CASE syncing
    <3>1. fresh' = [fresh EXCEPT ![f] = [fresh[f] EXCEPT !.at = "waiting", !.on = round]]
      BY <2>1 DEF SyncFresh, Wake, WaitOrSync
    <3>2. [fresh[f] EXCEPT !.at = "waiting", !.on = round]
            = [fresh[f] EXCEPT !.at = "waiting", !.on = round, !.ran = fresh[f].ran]
      BY <1>0 DEF CallState
    <3>. QED
      BY <1>0, <3>1, <3>2 DEF CallState
  <2>2. CASE ~syncing /\ disposed
    <3>1. fresh' = [fresh EXCEPT ![f] = [fresh[f] EXCEPT !.at = "back"]]
      BY <2>2 DEF SyncFresh, Wake, WaitOrSync, SyncOwn
    <3>2. [fresh[f] EXCEPT !.at = "back"]
            = [fresh[f] EXCEPT !.at = "back", !.on = fresh[f].on, !.ran = fresh[f].ran]
      BY <1>0 DEF CallState
    <3>. QED
      BY <1>0, <3>1, <3>2 DEF CallState
  <2>3. CASE ~syncing /\ ~disposed
    <3>1. fresh' = [fresh EXCEPT ![f] = [fresh[f] EXCEPT !.at = "own", !.on = round', !.ran = TRUE]]
      BY <2>3 DEF SyncFresh, Wake, WaitOrSync, SyncOwn
    <3>. QED
      BY <1>0, <3>1
  <2>. QED
    BY <2>1, <2>2, <2>3
<1>2. [fresh[f] EXCEPT !.at = at, !.on = on, !.ran = ran] \in CallState
  BY <1>0, <1>1 DEF CallState
<1>. QED
  BY <1>0, <1>1, <1>2

LEMMA AsksRoundInv == RoundInv /\ Asks => RoundInv'
<1>. SUFFICES ASSUME RoundInv, Asks PROVE RoundInv'
  OBVIOUS
<1>1. /\ rounds' \in [Round -> RoundState] /\ syncing' \in BOOLEAN /\ rerun' \in BOOLEAN
      /\ round' \in Round \cup {NoRound}
      /\ RoundsFit(rounds', syncing', round')
  BY AsksRounds
<1>2. unsent' = unsent
  BY DEF Asks, DebounceFires, RetryFires, Ping, RetryParked, Connect, SyncFresh, Wake, FreshFrame
<1>3. RoundFits'
  <2>1. /\ \A r \in Round : rounds'[r] = rounds[r] \/ rounds'[r].at = "begun"
        /\ \A r \in Round : rounds'[r] = rounds[r] \/ (rounds'[r].ok = FALSE /\ rounds'[r].halted = FALSE)
    BY AsksRounds
  <2>. QED
    BY <1>2, <2>1 DEF RoundInv, RoundFits, Active
<1>4. Typed'
  <2>1. CASE DebounceFires \/ RetryFires \/ RetryParked
    BY <1>1, <2>1 DEF RoundInv, Typed, DebounceFires, RetryFires, RetryParked, OutsideFrame
  <2>2. CASE Ping
    <3>1. spent' \in [{"writes", "faults", "pings", "toggles"} -> Nat]
      <4>1. UNCHANGED spent \/ Spend("pings", MaxPings)
        BY <2>2 DEF Ping
      <4>. QED
        BY <4>1, SpendTyped DEF RoundInv, Typed
    <3>. QED
      BY <1>1, <2>2, <3>1 DEF RoundInv, Typed, Ping, OutsideFrame
  <2>3. CASE Connect
    <3>1. spent' \in [{"writes", "faults", "pings", "toggles"} -> Nat]
      BY <2>3, SpendTyped DEF Connect, RoundInv, Typed
    <3>. QED
      BY <1>1, <2>3, <3>1 DEF RoundInv, Typed, Connect
  <2>4. ASSUME NEW f \in Caller, SyncFresh(f) \/ Wake(f) PROVE Typed'
    BY <1>1, <2>4, CallTyped DEF RoundInv, Typed, SyncFresh, Wake, FreshFrame, OutsideFrame
  <2>. QED
    BY <2>1, <2>2, <2>3, <2>4 DEF Asks
<1>. QED
  BY <1>1, <1>3, <1>4 DEF RoundInv

(* A round that counted ends: the rounds that are left, and what a rerun   *)
(* makes of them.                                                          *)
Without(r) == [rounds EXCEPT ![r] = Idle]

LEMMA WithoutFits ==
  ASSUME NEW r \in Round, RoundInv, rounds[r].at = "tail"
  PROVE  /\ Without(r) \in [Round -> RoundState] /\ RoundsFit(Without(r), syncing, round)
         /\ Without(r)[r] = Idle /\ \A q \in Round : q # r => Without(r)[q] = rounds[q]
         /\ Idle.at = "idle"
         /\ \A q \in Round : q # r => rounds[q].at \in {"idle", "begun"}
<1>1. rounds \in [Round -> RoundState] /\ RoundsFit(rounds, syncing, round)
  BY DEF RoundInv, Typed
<1>2. Idle.at = "idle"
  BY DEF Idle
<1>3. /\ Without(r) \in [Round -> RoundState]
      /\ Without(r)[r] = Idle /\ \A q \in Round : q # r => Without(r)[q] = rounds[q]
  BY <1>1, IdleState DEF Without
<1>4. \A q \in Round : q # r => rounds[q].at \in {"idle", "begun"}
  BY <1>1 DEF RoundsFit
<1>5. \A q \in Round : Talks(Without(r), q) <=> Talks(rounds, q)
  BY <1>2, <1>3 DEF Talks
<1>6. \A q \in Round : ~IsIdle(Without(r), q) => q = round /\ round # NoRound
  BY <1>1, <1>2, <1>3, <1>4 DEF RoundsFit, IsIdle
<1>7. \A q \in Round : Without(r)[q].at # "tail"
  BY <1>2, <1>3, <1>4
<1>8. RoundsFit(Without(r), syncing, round)
  BY <1>1, <1>5, <1>6, <1>7 DEF RoundsFit
<1>. QED
  BY <1>2, <1>3, <1>4, <1>8

LEMMA EndRounds ==
  ASSUME NEW r \in Round, RoundInv, EndRound(r)
  PROVE  /\ rounds' \in [Round -> RoundState] /\ syncing' \in BOOLEAN /\ rerun' \in BOOLEAN
         /\ round' \in Round \cup {NoRound}
         /\ RoundsFit(rounds', syncing', round')
         /\ \A q \in Round : \/ q # r /\ rounds'[q] = rounds[q]
                             \/ rounds'[q].at \in {"idle", "begun"} /\ rounds'[q].ok = FALSE /\ rounds'[q].halted = FALSE
         /\ \A q \in Round : q # r /\ ~IsIdle(rounds, q) => rounds'[q] = rounds[q]
         /\ disposed => rounds' = Without(r)
         /\ rerun' => \E q \in Round : rounds'[q].at # "idle"
         /\ rerun /\ enabled /\ ~disposed => rerun' \/ \E q \in Round : rounds'[q].at = "begun"
         /\ ~(rerun /\ enabled) => rounds' = Without(r)
<1>0. /\ rounds \in [Round -> RoundState] /\ rerun \in BOOLEAN /\ syncing \in BOOLEAN /\ enabled \in BOOLEAN
      /\ round \in Round \cup {NoRound} /\ fresh \in [Caller -> CallState] /\ rounds[r].at = "tail"
  BY DEF RoundInv, Typed, EndRound
<1>1. /\ Without(r) \in [Round -> RoundState] /\ RoundsFit(Without(r), syncing, round)
      /\ Without(r)[r] = Idle /\ \A q \in Round : q # r => Without(r)[q] = rounds[q]
  BY <1>0, WithoutFits
<1>2. /\ Idle.at = "idle" /\ Idle.ok = FALSE /\ Idle.halted = FALSE
      /\ Begun(Waiting).at = "begun" /\ Begun(Waiting).ok = FALSE /\ Begun(Waiting).halted = FALSE
  BY DEF Idle, Begun
<1>3. CASE ~(rerun /\ enabled)
  <2>1. rounds' = Without(r) /\ rerun' = FALSE /\ UNCHANGED <<syncing, round>>
    BY <1>3 DEF EndRound, Rerun, Without
  <2>. QED
    BY <1>0, <1>1, <1>2, <1>3, <2>1
<1>4. CASE rerun /\ enabled
  <2>0. FALSE \in BOOLEAN /\ {} \in SUBSET Caller
    OBVIOUS
  <2>1. Sync(Without(r), FALSE, {})
    BY <1>4 DEF EndRound, Rerun, Without
  <2>2. /\ rounds' \in [Round -> RoundState] /\ syncing' \in BOOLEAN /\ rerun' \in BOOLEAN
        /\ round' \in Round \cup {NoRound}
        /\ RoundsFit(rounds', syncing', round')
    BY <1>0, <1>1, <2>0, <2>1, SyncFits
  <2>3. /\ \A q \in Round :
              rounds'[q] = Without(r)[q] \/ (IsIdle(Without(r), q) /\ rounds'[q] = Begun(Waiting \cup {}))
        /\ disposed => rounds' = Without(r)
        /\ ~disposed => rerun' \/ \E q \in Round : rounds'[q].at = "begun"
        /\ rerun' => FALSE \/ \E q \in Round : rounds'[q].at # "idle"
    BY <1>0, <1>1, <2>0, <2>1, SyncLeads
  <2>4. Waiting \cup {} = Waiting
    OBVIOUS
  <2>. QED
    BY <1>0, <1>1, <1>2, <1>4, <2>2, <2>3, <2>4 DEF IsIdle
<1>. QED
  BY <1>3, <1>4

LEMMA ResolveTyped ==
  ASSUME NEW r \in Round, NEW ok \in BOOLEAN, fresh \in [Caller -> CallState], Resolve(r, ok)
  PROVE  fresh' \in [Caller -> CallState]
BY DEF Resolve, CallState

LEMMA EndRoundInv ==
  ASSUME NEW r \in Round, RoundInv, EndRound(r)
  PROVE  RoundInv'
<1>1. /\ rounds' \in [Round -> RoundState] /\ syncing' \in BOOLEAN /\ rerun' \in BOOLEAN
      /\ round' \in Round \cup {NoRound}
      /\ RoundsFit(rounds', syncing', round')
  BY EndRounds
<1>2. RoundFits'
  <2>1. \A q \in Round : \/ q # r /\ rounds'[q] = rounds[q]
                         \/ rounds'[q].at \in {"idle", "begun"} /\ rounds'[q].ok = FALSE /\ rounds'[q].halted = FALSE
    BY EndRounds
  <2>2. unsent' = unsent
    BY DEF EndRound, EndFrame
  <2>. QED
    BY <2>1, <2>2 DEF RoundInv, RoundFits, Active
<1>3. fresh' \in [Caller -> CallState]
  <2>1. rounds[r].ok \in BOOLEAN
    BY DEF RoundInv, Typed, RoundState
  <2>. QED
    BY <2>1, ResolveTyped DEF EndRound, RoundInv, Typed
<1>4. retry' \in BOOLEAN
  BY DEF EndRound
<1>. QED
  BY <1>1, <1>2, <1>3, <1>4 DEF RoundInv, Typed, EndRound, EndFrame

(* The steps that leave the rounds alone.                                  *)
Beside == Write \/ RequestSync \/ Unpark \/ Disconnect \/ Dispose \/ Close

LEMMA BesideRounds == Beside => UNCHANGED <<syncing, rerun, round, rounds, fresh>>
BY DEF Beside, Write, RequestSync, Unpark, Disconnect, Dispose, Close, managerVars

LEMMA BesideRoundInv == RoundInv /\ Beside => RoundInv'
<1>. SUFFICES ASSUME RoundInv, Beside PROVE RoundInv'
  OBVIOUS
<1>0. unsent' \in Nat
  BY DEF Beside, Write, RequestSync, Unpark, Disconnect, Dispose, Close, managerVars, RoundInv, Typed
<1>1. UNCHANGED <<syncing, round, rounds>> /\ unsent' >= unsent
  BY BesideRounds DEF Beside, Write, RequestSync, Unpark, Disconnect, Dispose, Close, managerVars, RoundInv, Typed
<1>2. RoundsFit(rounds', syncing', round')
  BY <1>1 DEF RoundInv
<1>3. RoundFits'
  <2>1. \A r \in Round : rounds[r].sent <= unsent => rounds[r].sent <= unsent'
    <3>1. \A r \in Round : rounds[r].sent \in Nat
      BY DEF RoundInv, Typed, RoundState
    <3>. QED
      BY <1>0, <1>1, <3>1 DEF RoundInv, Typed
  <2>. QED
    BY <1>1, <2>1 DEF RoundInv, RoundFits, Active
<1>4. Typed'
  <2>1. CASE Write
    <3>1. spent' \in [{"writes", "faults", "pings", "toggles"} -> Nat]
      BY <2>1, SpendTyped DEF Write, RoundInv, Typed
    <3>. QED
      BY <2>1, <3>1 DEF RoundInv, Typed, Write, managerVars
  <2>2. CASE RequestSync
    BY <2>2 DEF RoundInv, Typed, RequestSync, OutsideFrame
  <2>3. CASE Unpark
    BY <2>3 DEF RoundInv, Typed, Unpark, managerVars
  <2>4. CASE Disconnect \/ Dispose \/ Close
    BY <2>4 DEF RoundInv, Typed, Disconnect, Dispose, Close, managerVars
  <2>. QED
    BY <2>1, <2>2, <2>3, <2>4 DEF Beside
<1>. QED
  BY <1>2, <1>3, <1>4 DEF RoundInv

LEMMA NextKinds ==
  Next => (\E r \in Round : Steps(r) \/ EndRound(r)) \/ Asks \/ Beside
BY DEF Next, RoundStep, Steps, Asks, Beside

LEMMA RoundInvStep == RoundInv /\ [Next]_vars => RoundInv'
<1>1. RoundInv /\ Next => RoundInv'
  BY NextKinds, MoveRoundInv, EndRoundInv, AsksRoundInv, BesideRoundInv
<1>2. RoundInv /\ UNCHANGED vars => RoundInv'
  BY DEF RoundInv, Typed, RoundFits, Active, vars, managerVars
<1>. QED
  BY <1>1, <1>2
-------------------------------------------------------------------------------
(***************************************************************************)
(* The device is closed on no round, and no write is left behind.          *)
(***************************************************************************)
CloseFits == (closed # "open" => disposed) /\ ClosedIsQuiet

(* What a round is asked for meanwhile has a round to end it.              *)
RerunFits == rerun => \E r \in Round : rounds[r].at # "idle"

(* A round that will still take all there is, or schedule a retry.         *)
Takes(r) ==
  \/ rounds[r].at \in {"begun", "behind"}
  \/ rounds[r].at \in {"pushing", "pushingAgain"} /\ rounds[r].sent = unsent
  \/ rounds[r].at \in {"pulling", "through", "tail"} /\ ~rounds[r].pushed /\ ~rounds[r].halted

(* Changes a device should be sending: written, asked for and not dropped  *)
(* by a paused account, or one that a round may find is no longer paused.  *)
ToSend ==
  /\ enabled /\ ~disposed /\ ~unheard /\ unsent > 0 /\ requesting = 0 /\ ~retrying
  /\ ~paused \/ \E r \in Round : Active(r)

Covered ==
  ToSend =>
    \/ debounce \/ rerun
    \/ \E r \in Round : Takes(r)
    \/ retry /\ \A r \in Round : rounds[r].at = "idle"

(* Any step of a round leaves it other than idle, and the rest as it was.  *)
LEMMA MoveOnly ==
  ASSUME NEW r \in Round, RoundInv, Steps(r)
  PROVE  /\ Active(r) /\ rounds'[r].at # "idle" /\ RoundFrame
         /\ \A q \in Round : q # r => rounds'[q] = rounds[q]
<1>0. rounds \in [Round -> RoundState]
  BY DEF RoundInv, Typed
<1>1. Active(r) /\ \E s \in RoundState : rounds' = [rounds EXCEPT ![r] = s] /\ s.at # "idle"
  <2>1. CASE ReadOutbox(r)
    BY <2>1, ReadOutboxMove
  <2>2. CASE PushAnswered(r)
    BY <2>2, PushAnsweredMove
  <2>3. CASE PullMore(r)
    BY <2>3, PullMoreMove
  <2>4. CASE PullLast(r)
    BY <2>4, PullLastMove
  <2>5. CASE Succeed(r)
    BY <2>5, SucceedMove
  <2>6. CASE Fail(r) \/ Stop(r)
    BY <2>6, GiveUpMove
  <2>. QED
    BY <2>1, <2>2, <2>3, <2>4, <2>5, <2>6 DEF Steps
<1>2. RoundFrame
  BY DEF Steps, ReadOutbox, PushAnswered, PullMore, PullLast, Succeed, Fail, Stop, GiveUp
<1>. QED
  BY <1>0, <1>1, <1>2

LEMMA AsksFrame == Asks => UNCHANGED <<disposed, closed, unsent, parked, requesting, unheard>>
BY DEF Asks, DebounceFires, RetryFires, Ping, RetryParked, Connect, SyncFresh, Wake, FreshFrame, OutsideFrame

LEMMA CloseStep == RoundInv /\ CloseFits /\ [Next]_vars => CloseFits'
<1>. SUFFICES ASSUME RoundInv, CloseFits, [Next]_vars PROVE CloseFits'
  OBVIOUS
<1>1. ASSUME NEW r \in Round, Steps(r) PROVE CloseFits'
  <2>1. Active(r) /\ UNCHANGED <<closed, disposed>>
    BY <1>1, MoveOnly DEF RoundFrame
  <2>. QED
    BY <2>1 DEF CloseFits, ClosedIsQuiet, Active
<1>2. ASSUME NEW r \in Round, EndRound(r) PROVE CloseFits'
  BY <1>2 DEF EndRound, EndFrame, CloseFits, ClosedIsQuiet
<1>3. CASE Asks
  <2>1. disposed => rounds' = rounds
    BY <1>3, AsksRounds
  <2>2. UNCHANGED <<closed, disposed>>
    BY <1>3, AsksFrame
  <2>. QED
    BY <2>1, <2>2 DEF CloseFits, ClosedIsQuiet
<1>4. CASE Beside
  <2>0. rounds' = rounds
    BY <1>4, BesideRounds
  <2>1. CASE Close
    <3>1. \A r \in Round : rounds[r].at = "idle"
      BY <2>1 DEF Close, RoundInv, RoundsFit, IsIdle
    <3>. QED
      BY <2>0, <2>1, <3>1 DEF Close, managerVars, CloseFits, ClosedIsQuiet
  <2>2. CASE Dispose
    BY <2>2 DEF Dispose, CloseFits, ClosedIsQuiet
  <2>3. CASE Write \/ RequestSync \/ Unpark \/ Disconnect
    BY <2>0, <2>3 DEF Write, RequestSync, Unpark, Disconnect, managerVars, OutsideFrame, CloseFits, ClosedIsQuiet
  <2>. QED
    BY <1>4, <2>1, <2>2, <2>3 DEF Beside
<1>5. CASE UNCHANGED vars
  BY <1>5 DEF vars, managerVars, CloseFits, ClosedIsQuiet
<1>. QED
  BY <1>1, <1>2, <1>3, <1>4, <1>5, NextKinds

LEMMA RerunStep == RoundInv /\ RerunFits /\ [Next]_vars => RerunFits'
<1>. SUFFICES ASSUME RoundInv, RerunFits, [Next]_vars PROVE RerunFits'
  OBVIOUS
<1>1. ASSUME NEW r \in Round, Steps(r) PROVE RerunFits'
  BY <1>1, MoveOnly DEF RerunFits
<1>2. ASSUME NEW r \in Round, EndRound(r) PROVE RerunFits'
  BY <1>2, EndRounds DEF RerunFits
<1>3. CASE Asks
  BY <1>3, AsksRounds DEF RerunFits, IsIdle
<1>4. CASE Beside
  BY <1>4, BesideRounds DEF RerunFits
<1>5. CASE UNCHANGED vars
  BY <1>5 DEF vars, managerVars, RerunFits
<1>. QED
  BY <1>1, <1>2, <1>3, <1>4, <1>5, NextKinds

LEMMA CoveredBeside == RoundInv /\ Covered /\ Beside => Covered'
<1>. SUFFICES ASSUME RoundInv, Covered, Beside, ToSend' PROVE Covered'
  BY DEF Covered
<1>1. CASE Write
  <2>1. requesting' # 0
    BY <1>1 DEF Write, RoundInv, Typed
  <2>. QED
    BY <2>1 DEF ToSend
<1>2. CASE RequestSync
  <2>1. enabled /\ ~unheard' /\ unheard' = (unheard \/ (enabled /\ paused))
    BY <1>2 DEF RequestSync, OutsideFrame, ToSend, RoundInv, Typed
  <2>2. ~paused
    BY <2>1 DEF RoundInv, Typed
  <2>3. debounce'
    BY <1>2, <2>1, <2>2 DEF RequestSync, RoundInv, Typed
  <2>. QED
    BY <2>3 DEF Covered
<1>3. CASE Unpark \/ Disconnect \/ Dispose
  BY <1>3 DEF Unpark, Disconnect, Dispose, ToSend
<1>4. CASE Close
  BY <1>4 DEF Close, managerVars, Covered, ToSend, Takes, Active
<1>. QED
  BY <1>1, <1>2, <1>3, <1>4 DEF Beside

(* A sync that isn't refused begins a round, or has one rerun.             *)
LEMMA SyncCovers ==
  ASSUME RoundInv, NEW caller \in SUBSET Caller, Sync(rounds, rerun, caller), ~disposed
  PROVE  rerun' \/ \E r \in Round : Takes(r)'
<1>1. rerun' \/ \E r \in Round : rounds'[r].at = "begun"
  BY SyncLeads DEF RoundInv, Typed
<1>. QED
  BY <1>1 DEF Takes

LEMMA CoveredAsks == RoundInv /\ Covered /\ Asks => Covered'
<1>. SUFFICES ASSUME RoundInv, Covered, Asks, ToSend' PROVE Covered'
  BY DEF Covered
<1>0. ~disposed /\ enabled' /\ {} \in SUBSET Caller
  BY AsksFrame DEF ToSend
<1>1. ASSUME NEW caller \in SUBSET Caller, Sync(rounds, rerun, caller) PROVE Covered'
  <2>1. rerun' \/ \E r \in Round : Takes(r)'
    BY <1>0, <1>1, SyncCovers
  <2>. QED
    BY <2>1 DEF Covered
<1>2. CASE DebounceFires \/ RetryFires \/ RetryParked \/ Ping \/ Connect
  <2>1. SyncNow
    BY <1>0, <1>2 DEF DebounceFires, RetryFires, RetryParked, Ping, Connect, OutsideFrame
  <2>. QED
    BY <1>0, <1>1, <2>1 DEF SyncNow
<1>3. ASSUME NEW f \in Caller, SyncFresh(f) \/ Wake(f) PROVE Covered'
  <2>1. CASE syncing
    BY <1>3, <2>1 DEF SyncFresh, Wake, WaitOrSync, FreshFrame, OutsideFrame, Covered, ToSend, Takes, Active
  <2>2. CASE ~syncing
    BY <1>1, <1>3, <2>2 DEF SyncFresh, Wake, WaitOrSync, SyncOwn
  <2>. QED
    BY <2>1, <2>2
<1>. QED
  BY <1>2, <1>3 DEF Asks

LEMMA CoveredEnd ==
  ASSUME NEW r \in Round, RoundInv, Covered, EndRound(r)
  PROVE  Covered'
<1>. SUFFICES ASSUME ToSend' PROVE Covered'
  BY DEF Covered
<1>0. /\ rounds[r].at = "tail"
      /\ UNCHANGED <<enabled, disposed, paused, debounce, unsent, requesting, retrying, unheard>>
      /\ enabled /\ ~disposed
  BY DEF EndRound, EndFrame, ToSend
<1>1. CASE rerun
  <2>1. rerun' \/ \E q \in Round : rounds'[q].at = "begun"
    BY <1>0, <1>1, EndRounds
  <2>. QED
    BY <2>1 DEF Covered, Takes
<1>2. CASE ~rerun
  <2>1. rounds' = Without(r)
    BY <1>2, EndRounds
  <2>2. /\ rounds'[r].at = "idle" /\ \A q \in Round : q # r => rounds'[q] = rounds[q]
        /\ \A q \in Round : q # r => rounds[q].at \in {"idle", "begun"}
    BY <1>0, <2>1, WithoutFits
  <2>3. ToSend
    BY <1>0, <2>2 DEF ToSend, Active
  <2>4. PICK q \in Round : debounce \/ Takes(q)
    BY <1>0, <1>2, <2>3 DEF Covered
  <2>5. CASE debounce
    BY <1>0, <2>5 DEF Covered
  <2>6. CASE Takes(q) /\ q # r
    BY <1>0, <2>2, <2>6 DEF Covered, Takes
  <2>7. CASE Takes(r)
    <3>1. retry'
      BY <1>0, <2>7 DEF Takes, EndRound
    <3>2. CASE \A p \in Round : rounds'[p].at = "idle"
      BY <3>1, <3>2 DEF Covered
    <3>3. CASE \E p \in Round : rounds'[p].at = "begun"
      BY <3>3 DEF Covered, Takes
    <3>. QED
      BY <2>2, <3>2, <3>3
  <2>. QED
    BY <2>4, <2>5, <2>6, <2>7
<1>. QED
  BY <1>1, <1>2

(* While a round talks it alone can take what is to be sent.               *)
LEMMA TakesAlone ==
  ASSUME NEW r \in Round, RoundInv, Covered, Active(r), ToSend,
         rounds[r].at = "begun" => \A q \in Round : rounds[q].at # "tail"
  PROVE  debounce \/ rerun \/ Takes(r)
<1>1. \A q \in Round : q # r => rounds[q].at = "idle"
  BY Alone DEF RoundInv, Typed
<1>2. \A q \in Round : q # r => ~Takes(q)
  BY <1>1 DEF Takes
<1>. QED
  BY <1>2 DEF Covered, Active

LEMMA CoveredMove ==
  ASSUME NEW r \in Round, RoundInv, Covered, Steps(r)
  PROVE  Covered'
<1>. SUFFICES ASSUME ToSend' PROVE Covered'
  BY DEF Covered
<1>0. /\ rounds \in [Round -> RoundState] /\ rounds[r] \in RoundState /\ Active(r)
      /\ ~rounds[r].halted /\ unsent \in Nat
      /\ UNCHANGED <<enabled, disposed, debounce, requesting, retrying>>
  BY MoveOnly DEF RoundInv, Typed, RoundFits, RoundFrame
<1>1. CASE ReadOutbox(r)
  <2>1. rounds'[r].at \in {"pushing", "pushingAgain"} /\ rounds'[r].sent = unsent /\ unsent' = unsent
    BY <1>0, <1>1, ReadOutboxMove DEF ReadOutbox
  <2>. QED
    BY <2>1 DEF Covered, Takes
<1>2. CASE PushAnswered(r)
  <2>1. PICK s \in RoundState, applied, refused \in Nat :
           /\ rounds' = [rounds EXCEPT ![r] = s]
           /\ rounds[r].at \in {"pushing", "pushingAgain"} /\ s.at \in {"pulling", "through"}
           /\ s.pushed = (applied = rounds[r].sent) /\ s.halted = rounds[r].halted
           /\ applied + refused <= rounds[r].sent /\ rounds[r].sent <= unsent
           /\ unsent' = unsent - applied - refused
    BY <1>2, PushAnsweredMove
  <2>2. rounds'[r] = s /\ rounds[r].sent \in Nat
    BY <1>0, <2>1 DEF RoundState
  <2>3. CASE applied # rounds[r].sent
    BY <1>0, <2>1, <2>2, <2>3 DEF Covered, Takes
  <2>4. CASE applied = rounds[r].sent
    <3>1. unsent > 0 /\ rounds[r].sent # unsent
      BY <1>0, <2>1, <2>2, <2>4 DEF ToSend
    <3>2. UNCHANGED <<rerun, unheard>>
      BY <1>2 DEF PushAnswered
    <3>3. ToSend
      BY <1>0, <3>1, <3>2 DEF ToSend
    <3>4. ~Takes(r)
      BY <2>1, <3>1 DEF Takes
    <3>5. debounce \/ rerun
      BY <1>0, <2>1, <3>3, <3>4, TakesAlone
    <3>. QED
      BY <1>0, <3>2, <3>5 DEF Covered
  <2>. QED
    BY <2>3, <2>4
<1>3. CASE PullMore(r) \/ PullLast(r)
  <2>1. UNCHANGED <<rerun, unheard, unsent>>
    BY <1>3 DEF PullMore, PullLast
  <2>2. ToSend
    BY <1>0, <2>1 DEF ToSend
  <2>3. /\ rounds[r].at = "pulling" /\ rounds'[r].pushed = rounds[r].pushed
        /\ rounds'[r].halted = rounds[r].halted
        /\ rounds'[r].at \in {"pulling", "behind", "through"}
    BY <1>0, <1>3, PullMoreMove, PullLastMove
  <2>4. debounce \/ rerun \/ Takes(r)
    BY <1>0, <2>2, <2>3, TakesAlone
  <2>5. Takes(r) => Takes(r)'
    BY <1>0, <2>3 DEF Takes
  <2>. QED
    BY <1>0, <2>1, <2>4, <2>5 DEF Covered
<1>4. CASE Succeed(r)
  <2>1. UNCHANGED <<unheard, unsent>> /\ (rerun => rerun')
    BY <1>4, SucceedMove DEF Succeed
  <2>2. ToSend
    BY <1>0, <2>1 DEF ToSend
  <2>3. /\ rounds[r].at = "through" /\ rounds'[r].pushed = rounds[r].pushed
        /\ rounds'[r].halted = rounds[r].halted
        /\ rounds'[r].at = "tail"
    BY <1>0, <1>4, SucceedMove
  <2>4. debounce \/ rerun \/ Takes(r)
    BY <1>0, <2>2, <2>3, TakesAlone
  <2>5. Takes(r) => Takes(r)'
    BY <1>0, <2>3 DEF Takes
  <2>. QED
    BY <1>0, <2>1, <2>4, <2>5 DEF Covered
<1>5. CASE Fail(r) \/ Stop(r)
  <2>1. PICK s \in RoundState :
           /\ rounds' = [rounds EXCEPT ![r] = s]
           /\ rounds[r].at = "begun" => \A q \in Round : rounds[q].at # "tail"
           /\ s.at = "tail" /\ ~s.pushed /\ paused' = s.halted
    BY <1>5, GiveUpMove
  <2>2. rounds'[r] = s
    BY <1>0, <2>1
  <2>3. \A q \in Round : q # r => rounds'[q] = rounds[q] /\ rounds[q].at = "idle"
    BY <1>0, <2>1, Alone DEF RoundInv
  <2>4. ~paused'
    BY <2>1, <2>2, <2>3 DEF ToSend, Active
  <2>. QED
    BY <2>1, <2>2, <2>4 DEF Covered, Takes
<1>. QED
  BY <1>1, <1>2, <1>3, <1>4, <1>5 DEF Steps

LEMMA CoveredStep == RoundInv /\ Covered /\ [Next]_vars => Covered'
<1>1. ASSUME UNCHANGED vars PROVE Covered' <=> Covered
  BY <1>1 DEF vars, managerVars, Covered, ToSend, Takes, Active
<1>. QED
  BY <1>1, NextKinds, CoveredMove, CoveredEnd, CoveredAsks, CoveredBeside

QuietInv == RoundInv /\ CloseFits /\ RerunFits /\ Covered

LEMMA QuietInvHolds == Spec => []QuietInv
<1>1. Init => QuietInv
  <2>1. Init => CloseFits /\ RerunFits /\ Covered
    BY DEF Init, CloseFits, ClosedIsQuiet, RerunFits, Covered, ToSend
  <2>. QED
    BY <2>1, InitRoundInv DEF QuietInv
<1>2. QuietInv /\ [Next]_vars => QuietInv'
  BY RoundInvStep, CloseStep, RerunStep, CoveredStep DEF QuietInv
<1>. QED
  BY <1>1, <1>2, PTL DEF Spec

(* The flags, the timers and the rounds agree at every moment: one round   *)
(* talks to the server, a device with something to send and nothing under  *)
(* way has a timer set, and a store is closed when no round is left        *)
(* (sync-manager.ts, `syncing`, `rerun`, requestSync, dispose).            *)
THEOREM InOrder == Spec => []RoundsInOrder
<1>1. QuietInv => RoundsInOrder
  <2>. SUFFICES ASSUME QuietInv PROVE RoundsInOrder
    OBVIOUS
  <2>1. TypeOK
    BY TypedIsTypeOK DEF QuietInv, RoundInv
  <2>2. OneRoundTalks
    BY DEF QuietInv, RoundInv, RoundsFit, Talks, OneRoundTalks, Active
  <2>3. QuietMeansArmed
    BY DEF QuietInv, RerunFits, Covered, ToSend, Takes, QuietMeansArmed
  <2>. QED
    BY <2>1, <2>2, <2>3 DEF RoundsInOrder, QuietInv, CloseFits
<1>. QED
  BY <1>1, QuietInvHolds, PTL
-------------------------------------------------------------------------------
(***************************************************************************)
(* What syncFresh returns.                                                 *)
(***************************************************************************)
(* A call that has a round of its own waits for one that knows of it, and  *)
(* has seen it pull everything before that round can succeed.              *)
CallFits(f) ==
  /\ fresh[f].at # "back" => ~fresh[f].ok
  /\ fresh[f].at = "back" => IF fresh[f].ok THEN fresh[f].pulled ELSE fresh[f].ran \/ disposed
  /\ fresh[f].at = "own" =>
       /\ fresh[f].ran /\ fresh[f].on \in Round
       /\ rounds[fresh[f].on].at # "idle" /\ f \in rounds[fresh[f].on].after
       /\ rounds[fresh[f].on].at \in {"behind", "pushingAgain", "through"} \/ rounds[fresh[f].on].ok =>
            fresh[f].pulled

FreshFits == \A f \in Caller : CallFits(f)

(* A call that isn't touched still fits, if its round is where it was or   *)
(* has no more to answer for.                                              *)
LEMMA CallStays ==
  ASSUME NEW f \in Caller, CallFits(f), fresh'[f] = fresh[f], disposed => disposed',
         fresh[f].at = "own" =>
           \/ rounds'[fresh[f].on] = rounds[fresh[f].on]
           \/ /\ rounds'[fresh[f].on].at # "idle"
              /\ rounds'[fresh[f].on].after = rounds[fresh[f].on].after
              /\ rounds'[fresh[f].on].at \in {"behind", "pushingAgain", "through"} \/ rounds'[fresh[f].on].ok =>
                   rounds[fresh[f].on].at \in {"behind", "pushingAgain", "through"} \/ rounds[fresh[f].on].ok
  PROVE  CallFits(f)'
BY DEF CallFits

LEMMA FreshMove ==
  ASSUME NEW r \in Round, RoundInv, FreshFits, Steps(r)
  PROVE  FreshFits'
<1>. SUFFICES ASSUME NEW f \in Caller PROVE CallFits(f)'
  BY DEF FreshFits
<1>0. /\ rounds \in [Round -> RoundState] /\ Active(r) /\ ~rounds[r].ok /\ CallFits(f)
      /\ disposed' = disposed /\ rounds'[r].at # "idle"
      /\ \A q \in Round : q # r => rounds'[q] = rounds[q]
      /\ fresh \in [Caller -> CallState]
  BY MoveOnly DEF RoundInv, Typed, RoundFits, RoundFrame, FreshFits
<1>1. CASE PullLast(r)
  <2>1. /\ rounds'[r].ok = rounds[r].ok /\ rounds'[r].after = rounds[r].after
        /\ fresh'[f] = IF f \in rounds[r].after THEN [fresh[f] EXCEPT !.pulled = TRUE] ELSE fresh[f]
    BY <1>0, <1>1, PullLastMove DEF PullLast
  <2>2. /\ fresh'[f].at = fresh[f].at /\ fresh'[f].ok = fresh[f].ok /\ fresh'[f].on = fresh[f].on
        /\ fresh'[f].ran = fresh[f].ran
        /\ (fresh[f].pulled \/ f \in rounds[r].after) => fresh'[f].pulled
    BY <1>0, <2>1 DEF CallState
  <2>. QED
    BY <1>0, <2>1, <2>2 DEF CallFits
<1>2. CASE ~PullLast(r)
  <2>1. fresh' = fresh
    BY <1>2 DEF Steps, ReadOutbox, PushAnswered, PullMore, Succeed, Fail, Stop, GiveUp
  <2>2. /\ rounds'[r].after = rounds[r].after
        /\ rounds'[r].at \in {"behind", "pushingAgain", "through"} \/ rounds'[r].ok =>
             rounds[r].at \in {"behind", "pushingAgain", "through"} \/ rounds[r].ok
    <3>1. CASE ReadOutbox(r)
      BY <1>0, <3>1, ReadOutboxMove
    <3>2. CASE PushAnswered(r)
      BY <1>0, <3>2, PushAnsweredMove
    <3>3. CASE PullMore(r)
      BY <1>0, <3>3, PullMoreMove
    <3>4. CASE Succeed(r)
      BY <1>0, <3>4, SucceedMove
    <3>5. CASE Fail(r) \/ Stop(r)
      BY <1>0, <3>5, GiveUpMove
    <3>. QED
      BY <1>2, <3>1, <3>2, <3>3, <3>4, <3>5 DEF Steps
  <2>3. fresh[f].at = "own" => fresh[f].on \in Round
    BY <1>0 DEF CallFits
  <2>. QED
    BY <1>0, <2>1, <2>2, <2>3, CallStays
<1>. QED
  BY <1>1, <1>2

LEMMA FreshEnd ==
  ASSUME NEW r \in Round, RoundInv, FreshFits, EndRound(r)
  PROVE  FreshFits'
<1>. SUFFICES ASSUME NEW f \in Caller PROVE CallFits(f)'
  BY DEF FreshFits
<1>0. /\ fresh \in [Caller -> CallState] /\ CallFits(f) /\ disposed' = disposed
      /\ rounds[r].ok \in BOOLEAN
  BY DEF RoundInv, Typed, RoundState, FreshFits, EndRound, EndFrame
<1>1. \A q \in Round : q # r /\ rounds[q].at # "idle" => rounds'[q] = rounds[q]
  BY EndRounds DEF IsIdle
<1>2. fresh'[f] =
        IF fresh[f].on # r THEN fresh[f]
        ELSE IF fresh[f].at = "waiting" THEN [fresh[f] EXCEPT !.at = "woken", !.on = NoRound]
        ELSE IF fresh[f].at = "own" THEN [fresh[f] EXCEPT !.at = "back", !.on = NoRound, !.ok = rounds[r].ok]
        ELSE fresh[f]
  BY DEF EndRound, Resolve
<1>3. CASE fresh[f].on = r /\ fresh[f].at = "own"
  <2>1. /\ fresh'[f].at = "back" /\ fresh'[f].ok = rounds[r].ok
        /\ fresh'[f].ran = fresh[f].ran /\ fresh'[f].pulled = fresh[f].pulled
    BY <1>0, <1>2, <1>3 DEF CallState
  <2>. QED
    BY <1>0, <1>3, <2>1 DEF CallFits
<1>4. CASE fresh[f].on = r /\ fresh[f].at = "waiting"
  <2>1. fresh'[f].at = "woken" /\ fresh'[f].ok = fresh[f].ok
    BY <1>0, <1>2, <1>4 DEF CallState
  <2>. QED
    BY <1>0, <1>4, <2>1 DEF CallFits
<1>5. CASE fresh'[f] = fresh[f] /\ (fresh[f].at = "own" => fresh[f].on # r)
  BY <1>0, <1>1, <1>5, CallStays DEF CallFits
<1>. QED
  BY <1>2, <1>3, <1>4, <1>5

(* The round a call asks for itself.                                       *)
LEMMA OwnRound ==
  ASSUME RoundInv, NEW f \in Caller, SyncFresh(f) \/ Wake(f), ~syncing, ~disposed
  PROVE  /\ round' \in Round /\ rounds'[round'].at = "begun" /\ f \in rounds'[round'].after
         /\ ~rounds'[round'].ok
         /\ fresh' = [fresh EXCEPT ![f] = [fresh[f] EXCEPT !.at = "own", !.on = round', !.ran = TRUE]]
<1>0. /\ rounds \in [Round -> RoundState] /\ rerun \in BOOLEAN /\ syncing \in BOOLEAN
      /\ RoundsFit(rounds, syncing, round) /\ {f} \in SUBSET Caller
  BY DEF RoundInv, Typed
<1>1. /\ Sync(rounds, rerun, {f})
      /\ fresh' = [fresh EXCEPT ![f] = [fresh[f] EXCEPT !.at = "own", !.on = round', !.ran = TRUE]]
  BY DEF SyncFresh, Wake, WaitOrSync, SyncOwn
<1>2. /\ round' \in Round
      /\ rounds' = [rounds EXCEPT ![round'] = Begun(Waiting \cup {f})]
  BY <1>0, <1>1, SyncOutcome
<1>3. rounds'[round'] = Begun(Waiting \cup {f})
  BY <1>0, <1>2
<1>4. /\ Begun(Waiting \cup {f}).at = "begun" /\ Begun(Waiting \cup {f}).after = Waiting \cup {f}
      /\ Begun(Waiting \cup {f}).ok = FALSE
  BY DEF Begun, Idle
<1>5. f \in rounds'[round'].after
  BY <1>3, <1>4
<1>. QED
  BY <1>1, <1>2, <1>3, <1>4, <1>5

LEMMA FreshAsks == RoundInv /\ FreshFits /\ Asks => FreshFits'
<1>. SUFFICES ASSUME RoundInv, FreshFits, Asks, NEW f \in Caller PROVE CallFits(f)'
  BY DEF FreshFits
<1>0. /\ fresh \in [Caller -> CallState] /\ CallFits(f) /\ disposed' = disposed
  BY AsksFrame DEF RoundInv, Typed, FreshFits
<1>1. \A q \in Round : rounds[q].at # "idle" => rounds'[q] = rounds[q]
  BY AsksRounds DEF IsIdle
<1>2. CASE fresh'[f] = fresh[f]
  BY <1>0, <1>1, <1>2, CallStays DEF CallFits
<1>3. CASE DebounceFires \/ RetryFires \/ RetryParked \/ Ping \/ Connect
  BY <1>2, <1>3 DEF DebounceFires, RetryFires, RetryParked, Ping, Connect
<1>4. ASSUME NEW g \in Caller, SyncFresh(g) \/ Wake(g) PROVE CallFits(f)'
  <2>0. fresh[g].at \in {"none", "woken"}
    BY <1>4 DEF SyncFresh, Wake
  <2>1. CASE f # g
    <3>1. fresh'[f] = fresh[f]
      BY <1>0, <1>4, <2>1 DEF SyncFresh, Wake, WaitOrSync, SyncOwn
    <3>. QED
      BY <1>2, <3>1
  <2>2. CASE f = g /\ syncing
    <3>1. fresh' = [fresh EXCEPT ![f] = [fresh[f] EXCEPT !.at = "waiting", !.on = round]]
      BY <1>4, <2>2 DEF SyncFresh, Wake, WaitOrSync
    <3>2. fresh'[f].at = "waiting" /\ fresh'[f].ok = fresh[f].ok
      BY <1>0, <3>1 DEF CallState
    <3>. QED
      BY <1>0, <2>0, <2>2, <3>2 DEF CallFits
  <2>3. CASE f = g /\ ~syncing /\ disposed
    <3>1. fresh' = [fresh EXCEPT ![f] = [fresh[f] EXCEPT !.at = "back"]]
      BY <1>4, <2>3 DEF SyncFresh, Wake, WaitOrSync, SyncOwn
    <3>2. fresh'[f].at = "back" /\ fresh'[f].ok = fresh[f].ok
      BY <1>0, <3>1 DEF CallState
    <3>. QED
      BY <1>0, <2>0, <2>3, <3>2 DEF CallFits
  <2>4. CASE f = g /\ ~syncing /\ ~disposed
    <3>1. /\ round' \in Round /\ rounds'[round'].at = "begun" /\ f \in rounds'[round'].after
          /\ ~rounds'[round'].ok
          /\ fresh' = [fresh EXCEPT ![f] = [fresh[f] EXCEPT !.at = "own", !.on = round', !.ran = TRUE]]
      BY <1>4, <2>4, OwnRound
    <3>2. fresh'[f].at = "own" /\ fresh'[f].on = round' /\ fresh'[f].ran /\ fresh'[f].ok = fresh[f].ok
      BY <1>0, <3>1 DEF CallState
    <3>. QED
      BY <1>0, <2>0, <2>4, <3>1, <3>2 DEF CallFits
  <2>. QED
    BY <2>1, <2>2, <2>3, <2>4
<1>. QED
  BY <1>3, <1>4 DEF Asks

LEMMA FreshBeside == RoundInv /\ FreshFits /\ Beside => FreshFits'
<1>. SUFFICES ASSUME RoundInv, FreshFits, Beside, NEW f \in Caller PROVE CallFits(f)'
  BY DEF FreshFits
<1>1. rounds' = rounds /\ fresh' = fresh
  BY BesideRounds
<1>2. disposed => disposed'
  BY DEF Beside, Write, RequestSync, Unpark, Disconnect, Dispose, Close, managerVars, OutsideFrame
<1>. QED
  BY <1>1, <1>2, CallStays DEF FreshFits

LEMMA FreshStep == RoundInv /\ FreshFits /\ [Next]_vars => FreshFits'
<1>1. ASSUME UNCHANGED vars PROVE FreshFits' <=> FreshFits
  BY <1>1 DEF vars, managerVars, FreshFits, CallFits
<1>. QED
  BY <1>1, NextKinds, FreshMove, FreshEnd, FreshAsks, FreshBeside

(* syncFresh returns true only after a round that began after the call     *)
(* pulled everything, and false only after such a round failed or the      *)
(* device was disposed, never because another round was running            *)
(* (sync-manager.ts syncFresh, runRound).                                  *)
THEOREM Fresh == Spec => []FreshIsFresh
<1>1. Init => RoundInv /\ FreshFits
  <2>1. Init => FreshFits
    BY DEF Init, NoCall, FreshFits, CallFits
  <2>. QED
    BY <2>1, InitRoundInv
<1>2. RoundInv /\ FreshFits /\ [Next]_vars => (RoundInv /\ FreshFits)'
  BY RoundInvStep, FreshStep
<1>3. FreshFits => FreshIsFresh
  BY DEF FreshFits, CallFits, FreshIsFresh
<1>. QED
  BY <1>1, <1>2, <1>3, PTL DEF Spec
===============================================================================
