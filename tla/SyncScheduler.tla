--------------------------- MODULE SyncScheduler ---------------------------
(***************************************************************************)
(* When a device syncs: SyncManager's flags, timers and rounds             *)
(* (client sync-manager.ts), driven by the provider that enables, disables *)
(* and disposes it (providers/StoreProvider.tsx) and by what waits for a   *)
(* fresh round (hooks/use-vaults.ts).  What a round does to records is     *)
(* RecordSync's business; here it takes the unsent changes, is answered,   *)
(* pulls, and ends.                                                        *)
(*                                                                         *)
(* JavaScript runs to completion: a step is what runs between two awaits.  *)
(* Continuations of a promise that resolved run before timers, events and  *)
(* answers.  The local database answers its queries in order.              *)
(***************************************************************************)
EXTENDS Naturals, FiniteSets

CONSTANTS
  Caller,      \* calls of syncFresh
  MaxWrites,   \* bound on local changes
  MaxFaults,   \* bound on calls that fail and on changes refused
  MaxPings,    \* bound on events and ticks, those of a paused account aside
  MaxToggles   \* bound on changes of the connection and on unlocking again

ASSUME SchedulerAssumption == {MaxWrites, MaxFaults, MaxPings, MaxToggles} \subseteq Nat

VARIABLES
  (* SyncManager: *)
  syncing, rerun, enabled, disposed,
  paused,      \* status.paused
  debounce,    \* debounceTimer is set
  retry,       \* retryTimer is set
  periodic,    \* syncInterval is set
  round,       \* the latest round, NoRound before the first
  rounds,      \* the rounds under way
  (* Around it: *)
  fresh,       \* the calls of syncFresh
  closed,      \* "open", then "disposing" until the round waited for ends
  unsent,      \* pending changes that aren't parked
  parked,
  requesting,  \* changes written whose requestSync is still to come
  retrying,    \* retryParked between its store write and its sync
  unheard,     \* history: a requestSync of a paused account was dropped, and
               \* no round has read the outbox since
  spent        \* history: for the bounds

managerVars == <<syncing, rerun, enabled, disposed, paused, debounce, retry, periodic, round, rounds>>
vars == <<managerVars, fresh, closed, unsent, parked, requesting, retrying, unheard, spent>>

(* Two rounds at most: one that counts the outbox at its end, and the next. *)
Round == {1, 2}
NoRound == 0

(* at: how far it is; sent: the changes it took; pushed: all of them were  *)
(* applied; paged: it has applied a page already; ok: what it resolves     *)
(* with; halted: it found the account paused; after: the calls of          *)
(* syncFresh made before it began.                                         *)
Idle ==
  [at |-> "idle", sent |-> 0, pushed |-> FALSE, paged |-> FALSE, ok |-> FALSE, halted |-> FALSE,
   after |-> {}]

(* A call of syncFresh: the round it waits for, or its own; what it        *)
(* returned; whether a round begun after it has pulled everything.         *)
NoCall == [at |-> "none", on |-> NoRound, ran |-> FALSE, ok |-> FALSE, pulled |-> FALSE]

Init ==
  /\ syncing = FALSE /\ rerun = FALSE /\ enabled = FALSE /\ disposed = FALSE
  /\ paused = FALSE /\ debounce = FALSE /\ retry = FALSE /\ periodic = FALSE
  /\ round = NoRound
  /\ rounds = [r \in Round |-> Idle]
  /\ fresh = [f \in Caller |-> NoCall]
  /\ closed = "open"
  /\ unsent = 0 /\ parked = 0 /\ requesting = 0 /\ retrying = FALSE
  /\ unheard = FALSE
  /\ spent = [writes |-> 0, faults |-> 0, pings |-> 0, toggles |-> 0]

Spend(kind, limit) == spent[kind] < limit /\ spent' = [spent EXCEPT ![kind] = @ + 1]

(* No continuation waits to run: the next task may.                        *)
NextTask == \A f \in Caller : fresh[f].at # "woken"

Waiting == { f \in Caller : fresh[f].at \in {"waiting", "woken"} }
-------------------------------------------------------------------------------
(***************************************************************************)
(* sync(), with the rounds as they are when it is called, what rerun is    *)
(* then, and the call of syncFresh that makes it.                          *)
(***************************************************************************)
Sync(now, again, caller) ==
  \/ /\ disposed
     /\ rounds' = now /\ rerun' = again
     /\ UNCHANGED <<syncing, round>>
  \/ /\ ~disposed /\ syncing
     /\ rounds' = now /\ rerun' = TRUE
     /\ UNCHANGED <<syncing, round>>
  \/ /\ ~disposed /\ ~syncing
     /\ LET r == CHOOSE r \in Round : now[r].at = "idle"
        IN  /\ rounds' = [now EXCEPT ![r] = [Idle EXCEPT !.at = "begun", !.after = Waiting \cup caller]]
            /\ round' = r
     /\ syncing' = TRUE /\ rerun' = again

SyncNow == Sync(rounds, rerun, {})

(* A round of which nothing is missing ends when its promise resolves: who *)
(* waits for it goes on.                                                   *)
Resolve(r, ok) ==
  fresh' = [f \in Caller |->
    IF fresh[f].on # r THEN fresh[f]
    ELSE IF fresh[f].at = "waiting" THEN [fresh[f] EXCEPT !.at = "woken", !.on = NoRound]
    ELSE IF fresh[f].at = "own" THEN [fresh[f] EXCEPT !.at = "back", !.on = NoRound, !.ok = ok]
    ELSE fresh[f]]
-------------------------------------------------------------------------------
(***************************************************************************)
(* runRound.                                                               *)
(***************************************************************************)
Move(r, at) == rounds' = [rounds EXCEPT ![r].at = at]

RoundFrame == UNCHANGED <<enabled, disposed, debounce, retry, periodic, round, closed, requesting, retrying>>

(* pushOutbox reads the outbox, behind the counts of a round that ends.    *)
ReadOutbox(r) ==
  /\ NextTask
  /\ \/ rounds[r].at = "begun"  /\ rounds' = [rounds EXCEPT ![r] = [@ EXCEPT !.at = "pushing", !.sent = unsent]]
     \/ rounds[r].at = "behind" /\ rounds' = [rounds EXCEPT ![r] = [@ EXCEPT !.at = "pushingAgain", !.sent = unsent]]
  /\ \A q \in Round : rounds[q].at # "tail"
  /\ unheard' = FALSE
  /\ RoundFrame
  /\ UNCHANGED <<syncing, rerun, paused, fresh, unsent, parked, spent>>

(* Every batch is answered: some changes applied, some parked, the others  *)
(* stale or failed.                                                        *)
Answers(n) == { a \in [applied : 0..n, refused : 0..n] : a.applied + a.refused <= n }

PushAnswered(r) ==
  /\ NextTask
  /\ \E a \in Answers(rounds[r].sent) :
       LET all == a.applied = rounds[r].sent
       IN  /\ IF all THEN UNCHANGED spent ELSE Spend("faults", MaxFaults)
           /\ unsent' = unsent - a.applied - a.refused
           /\ parked' = parked + a.refused
           /\ \/ /\ rounds[r].at = "pushing"
                 /\ rounds' = [rounds EXCEPT ![r] = [@ EXCEPT !.at = "pulling", !.pushed = all]]
              \/ /\ rounds[r].at = "pushingAgain"
                 /\ rounds' = [rounds EXCEPT ![r] = [@ EXCEPT !.at = "through", !.pushed = all]]
  /\ RoundFrame
  /\ UNCHANGED <<syncing, rerun, paused, fresh, unheard>>

(* pullAll: a page that claims more, or the last one.  The round pushes    *)
(* once more if a change is left.                                          *)
PullMore(r) ==
  /\ NextTask
  /\ rounds[r].at = "pulling"
  /\ ~rounds[r].paged
  /\ ~disposed
  /\ rounds' = [rounds EXCEPT ![r].paged = TRUE]
  /\ RoundFrame
  /\ UNCHANGED <<syncing, rerun, paused, fresh, unsent, parked, unheard, spent>>

PullLast(r) ==
  /\ NextTask
  /\ rounds[r].at = "pulling"
  /\ Move(r, IF rounds[r].pushed THEN "through" ELSE "behind")
  /\ fresh' = [f \in Caller |-> IF f \in rounds[r].after THEN [fresh[f] EXCEPT !.pulled = TRUE] ELSE fresh[f]]
  /\ RoundFrame
  /\ UNCHANGED <<syncing, rerun, paused, unsent, parked, unheard, spent>>

(* The round went through; sharing tasks that changed something want       *)
(* another.  The counts of the outbox are awaited with `syncing` unset.    *)
Succeed(r) ==
  /\ NextTask
  /\ rounds[r].at = "through"
  /\ rounds' = [rounds EXCEPT ![r] = [@ EXCEPT !.at = "tail", !.ok = TRUE]]
  /\ paused' = FALSE
  /\ syncing' = FALSE
  /\ \/ UNCHANGED <<rerun, spent>>
     \/ rerun' = TRUE /\ Spend("pings", MaxPings)
  /\ RoundFrame
  /\ UNCHANGED <<fresh, unsent, parked, unheard>>

(* A call fails, or tells that the account is paused.                      *)
GiveUp(r, halted) ==
  /\ rounds' = [rounds EXCEPT ![r] = [@ EXCEPT !.at = "tail", !.pushed = FALSE, !.halted = halted]]
  /\ paused' = halted
  /\ syncing' = FALSE
  /\ RoundFrame
  /\ UNCHANGED <<rerun, fresh, unsent, parked, unheard>>

Fail(r) ==
  /\ NextTask
  /\ \/ rounds[r].at \in {"begun", "behind"} /\ \A q \in Round : rounds[q].at # "tail"
     \/ rounds[r].at \in {"pushing", "pulling", "pushingAgain"}
  /\ Spend("faults", MaxFaults)
  /\ \E halted \in BOOLEAN : GiveUp(r, halted)

(* Disposed between two pages.                                             *)
Stop(r) ==
  /\ NextTask
  /\ rounds[r].at = "pulling"
  /\ ~rounds[r].paged
  /\ disposed
  /\ GiveUp(r, FALSE)
  /\ UNCHANGED spent

EndFrame ==
  UNCHANGED <<enabled, disposed, paused, debounce, periodic, closed, unsent, parked, requesting,
              retrying, unheard, spent>>

(* Faulty: rerun stays set.                                                *)
RerunKept(r, again) ==
  LET now == [rounds EXCEPT ![r] = Idle]
  IN  IF again THEN Sync(now, TRUE, {})
      ELSE rounds' = now /\ rerun' = FALSE /\ UNCHANGED <<syncing, round>>

Rerun(r, again) ==
  LET now == [rounds EXCEPT ![r] = Idle]
  IN  IF again THEN Sync(now, FALSE, {})
      ELSE rounds' = now /\ rerun' = FALSE /\ UNCHANGED <<syncing, round>>

(* Faulty: what was asked for meanwhile is forgotten.                      *)
EndForgetful(r) ==
  /\ NextTask
  /\ rounds[r].at = "tail"
  /\ retry' = (~(rounds[r].pushed \/ rounds[r].halted) /\ (retry \/ enabled))
  /\ Rerun(r, FALSE)
  /\ Resolve(r, rounds[r].ok)
  /\ EndFrame

(* The counts are in: the retry is cleared or scheduled, a rerun begins,   *)
(* and the round's promise resolves.                                       *)
EndRound(r) ==
  /\ NextTask
  /\ rounds[r].at = "tail"
  /\ retry' = (~(rounds[r].pushed \/ rounds[r].halted) /\ (retry \/ enabled))
  /\ Rerun(r, rerun /\ enabled)
  /\ Resolve(r, rounds[r].ok)
  /\ EndFrame
-------------------------------------------------------------------------------
(***************************************************************************)
(* What asks for a round.                                                  *)
(***************************************************************************)
OutsideFrame == UNCHANGED <<enabled, disposed, paused, periodic, closed>>

(* A local change is written; its requestSync comes once the write is done. *)
Write ==
  /\ NextTask
  /\ closed # "closed"
  /\ Spend("writes", MaxWrites)
  /\ unsent' = unsent + 1
  /\ requesting' = requesting + 1
  /\ UNCHANGED <<managerVars, fresh, closed, parked, retrying, unheard>>

RequestSync ==
  /\ NextTask
  /\ requesting > 0
  /\ requesting' = requesting - 1
  /\ debounce' = (debounce \/ (enabled /\ ~paused))
  /\ unheard' = (unheard \/ (enabled /\ paused))
  /\ OutsideFrame
  /\ UNCHANGED <<syncing, rerun, retry, round, rounds, fresh, unsent, parked, retrying, spent>>

DebounceFires ==
  /\ NextTask
  /\ debounce
  /\ debounce' = FALSE
  /\ IF enabled THEN SyncNow ELSE UNCHANGED <<syncing, rerun, round, rounds>>
  /\ OutsideFrame
  /\ UNCHANGED <<retry, fresh, unsent, parked, requesting, retrying, unheard, spent>>

RetryFires ==
  /\ NextTask
  /\ retry
  /\ retry' = FALSE
  /\ IF enabled THEN SyncNow ELSE UNCHANGED <<syncing, rerun, round, rounds>>
  /\ OutsideFrame
  /\ UNCHANGED <<debounce, fresh, unsent, parked, requesting, retrying, unheard, spent>>

(* The interval, an event of the server's stream, or the network is back.  *)
(* One that meets a round counts.                                          *)
Ping ==
  /\ NextTask
  /\ periodic
  /\ IF \A r \in Round : rounds[r].at = "idle" THEN UNCHANGED spent ELSE Spend("pings", MaxPings)
  /\ SyncNow
  /\ OutsideFrame
  /\ UNCHANGED <<debounce, retry, fresh, unsent, parked, requesting, retrying, unheard>>

(* retryParked: the store's write, then the counts and a sync.             *)
Unpark ==
  /\ NextTask
  /\ closed = "open"
  /\ parked > 0
  /\ unsent' = unsent + parked
  /\ parked' = 0
  /\ retrying' = TRUE
  /\ UNCHANGED <<managerVars, fresh, closed, requesting, unheard, spent>>

RetryParked ==
  /\ NextTask
  /\ retrying
  /\ retrying' = FALSE
  /\ IF enabled THEN SyncNow ELSE UNCHANGED <<syncing, rerun, round, rounds>>
  /\ OutsideFrame
  /\ UNCHANGED <<debounce, retry, fresh, unsent, parked, requesting, unheard, spent>>
-------------------------------------------------------------------------------
(***************************************************************************)
(* syncFresh.                                                              *)
(***************************************************************************)
FreshFrame ==
  OutsideFrame /\ UNCHANGED <<debounce, retry, unsent, parked, requesting, retrying, unheard, spent>>

(* return await this.sync()                                                *)
SyncOwn(f) ==
  /\ Sync(rounds, rerun, {f})
  /\ fresh' = [fresh EXCEPT ![f] =
       IF disposed \/ syncing THEN [@ EXCEPT !.at = "back"]
       ELSE [@ EXCEPT !.at = "own", !.on = round', !.ran = TRUE]]

WaitOrSync(f) ==
  IF syncing
  THEN /\ fresh' = [fresh EXCEPT ![f] = [@ EXCEPT !.at = "waiting", !.on = round]]
       /\ UNCHANGED <<syncing, rerun, round, rounds>>
  ELSE SyncOwn(f)

SyncFresh(f) ==
  /\ NextTask
  /\ closed = "open"
  /\ fresh[f].at = "none"
  /\ WaitOrSync(f)
  /\ FreshFrame

(* Faulty: the round that runs is waited for once.                         *)
WakeOnce(f) ==
  /\ fresh[f].at = "woken"
  /\ SyncOwn(f)
  /\ FreshFrame

Wake(f) ==
  /\ fresh[f].at = "woken"
  /\ WaitOrSync(f)
  /\ FreshFrame
-------------------------------------------------------------------------------
(***************************************************************************)
(* The provider: setEnabled, the sync and the interval that go with it,    *)
(* dispose, and the profile closed after it.                               *)
(***************************************************************************)
Connect ==
  /\ NextTask
  /\ closed # "closed"
  /\ ~enabled
  /\ Spend("toggles", MaxToggles)
  /\ enabled' = TRUE /\ paused' = FALSE /\ periodic' = TRUE
  /\ SyncNow
  /\ UNCHANGED <<disposed, debounce, retry, fresh, closed, unsent, parked, requesting, retrying, unheard>>

Disconnect ==
  /\ NextTask
  /\ enabled
  /\ enabled' = FALSE /\ paused' = FALSE /\ periodic' = FALSE
  /\ debounce' = FALSE /\ retry' = FALSE
  /\ UNCHANGED <<syncing, rerun, disposed, round, rounds, fresh, closed, unsent, parked, requesting,
                 retrying, unheard, spent>>

Dispose ==
  /\ NextTask
  /\ ~disposed
  /\ disposed' = TRUE
  /\ enabled' = FALSE /\ periodic' = FALSE /\ debounce' = FALSE /\ retry' = FALSE
  /\ closed' = "disposing"
  /\ UNCHANGED <<syncing, rerun, paused, round, rounds, fresh, unsent, parked, requesting, retrying,
                 unheard, spent>>

(* Faulty: a round that counts the outbox isn't waited for.                *)
CloseEarly ==
  /\ closed = "disposing"
  /\ ~syncing
  /\ closed' = "closed"
  /\ UNCHANGED <<managerVars, fresh, unsent, parked, requesting, retrying, unheard, spent>>

Close ==
  /\ NextTask
  /\ closed = "disposing"
  /\ round # NoRound => rounds[round].at = "idle"
  /\ closed' = "closed"
  /\ UNCHANGED <<managerVars, fresh, unsent, parked, requesting, retrying, unheard, spent>>
-------------------------------------------------------------------------------
RoundStep(r) ==
  ReadOutbox(r) \/ PushAnswered(r) \/ PullMore(r) \/ PullLast(r) \/ Succeed(r) \/ EndRound(r)

Next ==
  \/ \E r \in Round : RoundStep(r) \/ Fail(r) \/ Stop(r)
  \/ Write \/ RequestSync \/ DebounceFires \/ RetryFires \/ Ping \/ Unpark \/ RetryParked
  \/ \E f \in Caller : SyncFresh(f) \/ Wake(f)
  \/ Connect \/ Disconnect \/ Dispose \/ Close

(* Calls are answered, timers fire, promises are waited out.  The interval *)
(* is relied on where the code does: while the account is paused.          *)
Fairness ==
  /\ \A r \in Round : WF_vars(RoundStep(r) \/ Stop(r))
  /\ \A f \in Caller : WF_vars(Wake(f))
  /\ WF_vars(RequestSync) /\ WF_vars(RetryParked) /\ WF_vars(Close)
  /\ WF_vars(DebounceFires) /\ WF_vars(RetryFires)
  /\ WF_vars((paused \/ unheard) /\ Ping)

Spec == Init /\ [][Next]_vars /\ Fairness
-------------------------------------------------------------------------------
(***************************************************************************)
(* Properties.                                                             *)
(***************************************************************************)
(* Every variable has its type.                                            *)
TypeOK ==
  /\ {syncing, rerun, enabled, disposed, paused, debounce, retry, periodic, retrying, unheard} \subseteq BOOLEAN
  /\ round \in Round \cup {NoRound}
  /\ rounds \in [Round ->
       [at : {"idle", "begun", "pushing", "pulling", "behind", "pushingAgain", "through", "tail"},
        sent : Nat, pushed : BOOLEAN, paged : BOOLEAN, ok : BOOLEAN, halted : BOOLEAN,
        after : SUBSET Caller]]
  /\ fresh \in [Caller ->
       [at : {"none", "waiting", "woken", "own", "back"}, on : Round \cup {NoRound},
        ran : BOOLEAN, ok : BOOLEAN, pulled : BOOLEAN]]
  /\ closed \in {"open", "disposing", "closed"}
  /\ {unsent, parked, requesting} \subseteq Nat
  /\ spent \in [{"writes", "faults", "pings", "toggles"} -> Nat]

Active(r) == rounds[r].at \notin {"idle", "tail"}

(* One round at a time talks to the server, whatever starts while another  *)
(* one ends (`syncing` is unset before the round's last await).            *)
OneRoundTalks ==
  /\ \A r, q \in Round : Active(r) /\ Active(q) => r = q
  /\ syncing <=> \E r \in Round : Active(r)

(* A device with unsent changes and nothing under way has a timer set that *)
(* will send them, but for what a paused account wrote (requestSync drops  *)
(* it; the interval has to find it).                                       *)
QuietMeansArmed ==
  (/\ enabled /\ ~paused /\ ~disposed /\ ~unheard
   /\ unsent > 0 /\ requesting = 0 /\ ~retrying
   /\ \A r \in Round : rounds[r].at = "idle")
  => debounce \/ retry

(* syncFresh: "a round that starts after this call".  It returns true only *)
(* after such a round has pulled everything, and false only after such a   *)
(* round failed, never because another one was running.                    *)
FreshIsFresh ==
  \A f \in Caller : fresh[f].at = "back" =>
    IF fresh[f].ok THEN fresh[f].pulled ELSE fresh[f].ran \/ disposed

(* dispose: "Resolves once a round still running has ended, so its store   *)
(* can be closed after".                                                   *)
ClosedIsQuiet == closed = "closed" => \A r \in Round : rounds[r].at = "idle"

(* The flags, timers and rounds agree, whatever starts while a round ends  *)
(* or the device is being closed (sync-manager.ts, `syncing`, `rerun`, the *)
(* timers and dispose).                                                    *)
RoundsInOrder ==
  /\ TypeOK
  /\ OneRoundTalks
  /\ QuietMeansArmed
  /\ ClosedIsQuiet

(* Changes of a connected device get sent, or parked; the interval is only *)
(* relied on once the account was paused (sync: "a write made meanwhile    *)
(* isn't left waiting").                                                   *)
WritesGetOut == unsent > 0 /\ enabled ~> unsent = 0 \/ ~enabled \/ disposed

(* syncFresh returns, and dispose does.                                    *)
CallsReturn ==
  /\ \A f \in Caller : fresh[f].at # "none" ~> fresh[f].at = "back"
  /\ closed = "disposing" ~> closed = "closed"
===============================================================================
