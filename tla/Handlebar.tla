------------------------------ MODULE Handlebar ------------------------------
(***************************************************************************)
(* The steering lock: who pulses its solenoid, and who stops whom.         *)
(*                                                                         *)
(* A lock attempt (lockHandlebar) is a goroutine with a done channel.  If  *)
(* the bar is in position it locks at once, otherwise it opens a window:   *)
(* a timer, and a position callback in the place of the original one.      *)
(* An unlock is a loop with a channel of its own.  Pulses last more than a *)
(* second and run in workers: the attempt's goroutine, its callback, the   *)
(* unlock loop, the release after hop-on, and the operator's and the       *)
(* service mode's requests.  A channel is looked at between pulses only.   *)
(*                                                                         *)
(* Writes of the solenoid may fail, and then leave it as it is; sensor     *)
(* reads succeed.  A read and the store that follows it are one step; so   *)
(* are the two locked sections of unlockHandlebar.  The lock sensor's own  *)
(* callback, which stores what the next direct read would, is SensorEdge.  *)
(***************************************************************************)
EXTENDS VehicleFsm, FiniteSets

CONSTANTS
  Workers,     (* goroutines that may pulse at one time                       *)
  ExtEvents,   (* events other parts of the service send                      *)
  Requests,    (* operator and service mode requests                          *)
  Coarse,      (* steps that take seconds wait for those that take microseconds *)
  Retries,     (* handlebarLockRetries                                        *)
  MaxLocks,    (* bound: lock attempts                                        *)
  MaxRequests, (* bound: failing writes, and requests, each at most once      *)
  MaxMoves     (* bound: moves of the bar                                     *)

ASSUME HandlebarAssumption ==
  /\ ExtEvents \subseteq Events
  /\ Requests \subseteq {"lock", "unlock", "serviceOn", "serviceOff"}
  /\ Retries \in Nat \ {0}
  /\ MaxLocks \in Nat \ {0}
  /\ MaxRequests \in Nat /\ MaxMoves \in Nat
  /\ Coarse \in BOOLEAN

VARIABLES
  state,     \* machine.currentState
  pc,        \* next step of the event loop
  next,      \* the leaf a transition out of hop-on goes to
  forced,    \* the transition's event is ForceLock
  attempts,  \* lock attempts: waiter's step, channel, on-locked continuation, timer
  count,     \* attempts so far
  timer,     \* v.handlebarTimer: the attempt that armed it
  done,      \* v.handlebarDone: the attempt whose channel it is
  handler,   \* position callback: of an attempt, or the original
  workers,   \* goroutines that pulse
  udone,     \* v.handlebarUnlockDone: the worker whose channel it is
  coil,      \* the two sides of the bridge
  stuck,     \* history: the sides whose last write should have switched them off
  faults,    \* failing writes so far
  bolt,      \* the lock is engaged
  place,     \* the bar is in lock position
  cached,    \* the position as of its last key event (activeKeys)
  reported,  \* the position last delivered
  unlocked,  \* v.handlebarUnlocked
  latch,     \* v.handlebarLatchedLocked
  owned,     \* v.hopOnLockedHandlebar
  service,   \* v.handlebarUnlockedOverride
  pending,   \* v.steeringLockPending
  asked,     \* requests so far
  moves,     \* moves of the bar so far
  relock,    \* history: lock work outlived Parked's look at the sensor
  crossed    \* history: attempts whose callback stopped another one's timer

machineVars == <<state, pc, next, forced>>
lockVars    == <<attempts, count, timer, done, handler, crossed>>
coilVars    == <<coil, stuck, faults>>
bodyVars    == <<coilVars, bolt, place, cached, reported>>
flagVars    == <<unlocked, latch, owned, service, pending>>
vars == <<machineVars, lockVars, workers, udone, bodyVars, flagVars, asked, moves, relock>>

Attempts == 1..MaxLocks
None == 0
NoWorker == "none"

IdleWorker == [pc |-> "idle", kind |-> "none", of |-> None, open |-> FALSE, tries |-> 0]
Kinds == {"lock", "direct", "unlock", "release", "opLock", "opUnlock", "service"}
PulseSteps == {"close", "open", "rollback", "coastClose", "coastOpen", "coastLast"}
Sides == {"close", "open"}
WorkerSteps == {"idle", "check", "checked", "verify", "cleanup", "restore",
                "svcCancel", "svcRestore", "svcLatch", "svcRelock"} \cup PulseSteps
Opening == {"start", "place", "arm", "register", "look"}
Expiring == {"fired", "expired"}
NewAttempt == [pc |-> "new", open |-> FALSE, hop |-> FALSE, ticks |-> FALSE]

LockKinds == {"lock", "direct", "opLock"}
Busy(w) == workers[w].pc # "idle"
Idle == { w \in Workers : ~Busy(w) }

(* The pulses of an attempt: its goroutine's, and its callback's.          *)
Closing(k) == k.kind \in {"lock", "direct"}

(* The first step of the entry action of a leaf.                           *)
EntryOf(s, force) ==
  CASE s \in {"Parked", "ReadyToDrive"} -> "cancel"
    [] s = "Standby"                    -> "resync"
    [] s = "ShuttingDown"               -> IF force THEN "forceCancel" ELSE "lock"
    [] s = "HopOn"                      -> "hopLock"
    [] OTHER                            -> "idle"

(* After a boot that restored a parked vehicle, or declined to.            *)
Init ==
  /\ state \in {"Standby", "Parked"} /\ pc = EntryOf(state, FALSE)
  /\ next = "none" /\ forced = FALSE
  /\ attempts = [a \in Attempts |-> NewAttempt] /\ count = 0
  /\ timer = None /\ done = None /\ handler = None
  /\ workers = [w \in Workers |-> IdleWorker] /\ udone = NoWorker
  /\ coil = [close |-> FALSE, open |-> FALSE] /\ stuck = {} /\ faults = 0
  /\ bolt \in BOOLEAN /\ place \in BOOLEAN /\ (bolt => place)
  /\ cached = place /\ reported = place
  /\ unlocked = ~bolt /\ latch = bolt /\ owned = FALSE /\ service = FALSE
  /\ pending \in BOOLEAN /\ (pending => state = "Standby")
  /\ asked = {} /\ moves = 0 /\ relock = FALSE /\ crossed = {}

-----------------------------------------------------------------------------
(* The shared operations.  Each leaves the machine alone.                  *)

Request(r) ==
  /\ r \in Requests \ asked /\ Cardinality(asked) + faults < MaxRequests
  /\ asked' = asked \cup {r}

(* Coarse: whatever takes seconds happens while nobody is in a hurry.      *)
Patient ==
  Coarse =>
    /\ pc = "idle" /\ unlocked # bolt
    /\ \A w \in Workers : workers[w].pc \in {"idle", "coastClose", "verify"}
    /\ \A a \in Attempts : attempts[a].pc \notin Opening \cup Expiring

Closed(a) == IF a = None THEN attempts ELSE [attempts EXCEPT ![a].open = FALSE]

(* lockHandlebar: the channel of the previous attempt is closed.           *)
LockHandlebar(hop) ==
  /\ count < MaxLocks
  /\ count' = count + 1
  /\ done' = count + 1
  /\ attempts' = [Closed(done) EXCEPT ![count + 1] = [pc |-> "start", open |-> TRUE, hop |-> hop,
                                                       ticks |-> FALSE]]
  /\ UNCHANGED <<timer, handler, crossed>>

(* cancelHandlebarLock, its locked section: the callback comes after.      *)
CancelLock ==
  /\ attempts' = [a \in Attempts |->
       [attempts[a] EXCEPT !.open = @ /\ a # done, !.ticks = @ /\ a # timer]]
  /\ timer' = None /\ done' = None
  /\ UNCHANGED <<count, handler, crossed>>

RestoreHandler == handler' = None /\ UNCHANGED <<attempts, count, timer, done, crossed>>

(* The unlock loops whose channel is closed are stopped at their next look. *)
UnlocksClosed ==
  [w \in Workers |-> IF w = udone THEN [workers[w] EXCEPT !.open = FALSE] ELSE workers[w]]

CancelUnlock == workers' = UnlocksClosed /\ udone' = NoWorker

Start(w, kind, step, of) ==
  [IdleWorker EXCEPT !.pc = step, !.kind = kind, !.of = of, !.open = TRUE, !.tries = 1]

(* unlockHandlebar: a new loop, after the end of any other.                *)
UnlockHandlebar(w) ==
  /\ w \in Idle
  /\ workers' = [UnlocksClosed EXCEPT ![w] = Start(w, "unlock", "check", None)]
  /\ udone' = w

-----------------------------------------------------------------------------
(* The event loop.                                                         *)

Goto(step) == pc' = step /\ UNCHANGED <<state, next, forced>>

OnlyLoop == UNCHANGED <<bodyVars, service, pending, asked, moves>>

(* Parked and ReadyToDrive: unlockHandlebarIfNeeded.                       *)
EnterCancel ==
  /\ pc = "cancel"
  /\ CancelLock /\ Goto("restore")
  /\ OnlyLoop /\ UNCHANGED <<workers, udone, unlocked, latch, owned, relock>>

EnterRestore ==
  /\ pc = "restore"
  /\ RestoreHandler /\ Goto("read")
  /\ OnlyLoop /\ UNCHANGED <<workers, udone, unlocked, latch, owned, relock>>

EnterRead ==
  /\ pc = "read"
  /\ unlocked' = ~bolt
  /\ relock' = (\E w \in Workers : Busy(w) /\ workers[w].kind \in LockKinds)
  /\ Goto("decide")
  /\ OnlyLoop /\ UNCHANGED <<lockVars, workers, udone, latch, owned>>

EnterDecide ==
  /\ pc = "decide"
  /\ IF unlocked THEN UNCHANGED <<workers, udone>> ELSE \E w \in Idle : UnlockHandlebar(w)
  /\ Goto(IF state = "ReadyToDrive" THEN "giveUp" ELSE "idle")
  /\ OnlyLoop /\ UNCHANGED <<lockVars, unlocked, latch, owned, relock>>

(* A drive start over a locked bar is the rider's wish: no retries.        *)
DriveGiveUp ==
  /\ pc = "giveUp"
  /\ IF unlocked THEN UNCHANGED <<workers, udone>> ELSE CancelUnlock
  /\ Goto("idle")
  /\ OnlyLoop /\ UNCHANGED <<lockVars, unlocked, latch, owned, relock>>

(* Mutant: stand-by keeps the latch of before.                             *)
StandbyNoResync ==
  /\ pc = "resync"
  /\ CancelUnlock
  /\ UNCHANGED latch
  /\ Goto("idle")
  /\ OnlyLoop /\ UNCHANGED <<lockVars, unlocked, owned, relock>>

(* EnterStandby trusts the sensor again.  It locks when it comes from      *)
(* Parked directly, which no row of the definition does.                   *)
StandbyResync ==
  /\ pc = "resync"
  /\ CancelUnlock
  /\ latch' = bolt
  /\ Goto("idle")
  /\ OnlyLoop /\ UNCHANGED <<lockVars, unlocked, owned, relock>>

(* EnterShuttingDown locks the steering unless service mode forbids it, or *)
(* the lock was forced.                                                    *)
ShutLock ==
  /\ pc = "lock"
  /\ CancelUnlock
  /\ IF service THEN UNCHANGED lockVars ELSE LockHandlebar(FALSE)
  /\ Goto("idle")
  /\ OnlyLoop /\ UNCHANGED <<unlocked, latch, owned, relock>>

ShutForced ==
  /\ pc = "forceCancel"
  /\ CancelUnlock /\ CancelLock
  /\ Goto("forceRestore")
  /\ OnlyLoop /\ UNCHANGED <<unlocked, latch, owned, relock>>

ShutForcedRestore ==
  /\ pc = "forceRestore"
  /\ RestoreHandler /\ Goto("idle")
  /\ OnlyLoop /\ UNCHANGED <<workers, udone, unlocked, latch, owned, relock>>

HopOnLock ==
  /\ pc = "hopLock"
  /\ LockHandlebar(TRUE) /\ Goto("idle")
  /\ OnlyLoop /\ UNCHANGED <<workers, udone, unlocked, latch, owned, relock>>

(* ExitHopOn runs before the state changes, and releases a lock it owns.   *)
ExitCancel ==
  /\ pc = "exitCancel"
  /\ CancelLock /\ Goto("exitRestore")
  /\ OnlyLoop /\ UNCHANGED <<workers, udone, unlocked, latch, owned, relock>>

ExitRestore ==
  /\ pc = "exitRestore"
  /\ RestoreHandler /\ Goto("exitRelease")
  /\ OnlyLoop /\ UNCHANGED <<workers, udone, unlocked, latch, owned, relock>>

Enter(s, force) ==
  /\ state' = s /\ pc' = EntryOf(s, force)
  /\ next' = "none" /\ forced' = FALSE /\ relock' = FALSE

ExitRelease ==
  /\ pc = "exitRelease"
  /\ IF owned
     THEN \E w \in Idle : workers' = [workers EXCEPT ![w] = Start(w, "release", "close", None)]
     ELSE UNCHANGED workers
  /\ owned' = FALSE
  /\ Enter(next, forced)
  /\ OnlyLoop /\ UNCHANGED <<lockVars, udone, unlocked, latch>>

TrueGuards(free) == { g \in free : g = "CanEnterReadyToDrive" => unlocked }

(* The five seconds of a shutdown outlast the pulses its entry cut short.  *)
ShutdownLasts ==
  \A w \in Workers :
    /\ workers[w].kind \notin {"unlock", "release"}
    /\ Closing(workers[w]) => (attempts[workers[w].of].open \/ service)

Dispatch ==
  /\ pc = "idle" /\ ~pending /\ Patient
  /\ \E e \in ExtEvents : \E free \in SUBSET GuardsFor(state, e) :
       \E t \in Selected(state, e, TrueGuards(free)) :
         /\ e = "ShutdownTimeout" => ShutdownLasts
         /\ t.to \in {"HopOn", "ShuttingDown"} => count < MaxLocks
         /\ IF state = "HopOn"
            THEN /\ pc' = "exitCancel" /\ next' = t.to /\ forced' = (e = "ForceLock")
                 /\ UNCHANGED <<state, relock>>
            ELSE Enter(t.to, e = "ForceLock")
  /\ UNCHANGED <<lockVars, workers, udone, bodyVars, flagVars, asked, moves>>

(* Start(): a declined restore may have left the steering unlocked.  The   *)
(* lists are not read before this is decided.                              *)
LockAfterDecline ==
  /\ pending /\ pc = "idle"
  /\ pending' = FALSE
  /\ IF state = "Standby" /\ ~bolt THEN LockHandlebar(FALSE) ELSE UNCHANGED lockVars
  /\ UNCHANGED <<machineVars, workers, udone, bodyVars, unlocked, latch, owned, service,
                 asked, moves, relock>>

-----------------------------------------------------------------------------
(* The goroutine of a lock attempt.                                        *)

OnlyAttempt == UNCHANGED <<machineVars, udone, bodyVars, flagVars, asked, moves, relock>>

Wait(a, step) == attempts' = [attempts EXCEPT ![a].pc = step]

AttemptStart(a) ==
  /\ attempts[a].pc = "start"
  /\ Wait(a, IF attempts[a].open THEN "place" ELSE "over")
  /\ OnlyAttempt /\ UNCHANGED <<count, timer, done, handler, crossed, workers>>

(* In position, as far as the key events tell: the goroutine goes on as a  *)
(* worker.                                                                 *)
AttemptPlace(a) ==
  /\ attempts[a].pc = "place"
  /\ IF cached
     THEN /\ Wait(a, "over")
          /\ \E w \in Idle : workers' = [workers EXCEPT ![w] = Start(w, "direct", "check", a)]
     ELSE Wait(a, "arm") /\ UNCHANGED workers
  /\ OnlyAttempt /\ UNCHANGED <<count, timer, done, handler, crossed>>

AttemptArm(a) ==
  /\ attempts[a].pc = "arm"
  /\ attempts' = [b \in Attempts |->
       IF b = a THEN [attempts[a] EXCEPT !.pc = "register", !.ticks = TRUE]
       ELSE [attempts[b] EXCEPT !.ticks = @ /\ b # timer]]
  /\ timer' = a
  /\ OnlyAttempt /\ UNCHANGED <<count, done, handler, crossed, workers>>

AttemptRegister(a) ==
  /\ attempts[a].pc = "register"
  /\ handler' = a
  /\ Wait(a, "look")
  /\ OnlyAttempt /\ UNCHANGED <<count, timer, done, crossed, workers>>

(* The window may be closed already.                                       *)
AttemptLook(a) ==
  /\ attempts[a].pc = "look"
  /\ Wait(a, IF timer = None THEN "over" ELSE "waiting")
  /\ OnlyAttempt /\ UNCHANGED <<count, timer, done, handler, crossed, workers>>

AttemptCancelled(a) ==
  /\ attempts[a].pc \in {"waiting", "fired"} /\ ~attempts[a].open
  /\ Wait(a, "over")
  /\ OnlyAttempt /\ UNCHANGED <<count, timer, done, handler, crossed, workers>>

(* A timer that has fired is not stopped any more, and the wait may end    *)
(* with it although the channel is closed meanwhile.                       *)
AttemptFires(a) ==
  /\ attempts[a].pc = "waiting" /\ attempts[a].ticks /\ Patient
  /\ attempts' = [attempts EXCEPT ![a].pc = "fired", ![a].ticks = FALSE]
  /\ OnlyAttempt /\ UNCHANGED <<count, timer, done, handler, crossed, workers>>

(* The clean-up clears whatever timer there is.                            *)
AttemptExpires(a) ==
  /\ attempts[a].pc = "fired"
  /\ Wait(a, "expired")
  /\ timer' = None
  /\ done' = IF done = a THEN None ELSE done
  /\ OnlyAttempt /\ UNCHANGED <<count, handler, crossed, workers>>

AttemptExpired(a) ==
  /\ attempts[a].pc = "expired"
  /\ handler' = None
  /\ Wait(a, "over")
  /\ OnlyAttempt /\ UNCHANGED <<count, timer, done, crossed, workers>>

-----------------------------------------------------------------------------
(* The bar and its sensors.                                                *)

(* A locked bar does not leave its position.                               *)
BarMoves ==
  /\ ~bolt /\ moves < MaxMoves /\ Patient
  /\ moves' = moves + 1
  /\ place' = ~place
  /\ UNCHANGED <<asked, machineVars, lockVars, workers, udone, coilVars, bolt, cached,
                 reported, flagVars, relock>>

(* A side that is driven alone may move the bolt, which needs its hole.    *)
BoltMoves ==
  /\ coil.close # coil.open /\ Patient
  /\ bolt # coil.close
  /\ coil.close => place
  /\ bolt' = coil.close
  /\ UNCHANGED <<machineVars, lockVars, workers, udone, coilVars, place, cached,
                 reported, flagVars, asked, moves, relock>>

SensorEdge ==
  /\ unlocked = bolt
  /\ unlocked' = ~bolt
  /\ UNCHANGED <<machineVars, lockVars, workers, udone, bodyVars, latch, owned, service,
                 pending, asked, moves, relock>>

(* handleKeyEvent stores the position before it debounces it.              *)
PositionSeen ==
  /\ cached # place
  /\ cached' = place
  /\ UNCHANGED <<machineVars, lockVars, workers, udone, coilVars, bolt, place, reported, flagVars,
                 asked, moves, relock>>

Delivered(value) ==
  /\ cached = value /\ reported # value
  /\ reported' = value
  /\ UNCHANGED <<machineVars, coilVars, bolt, place, cached, latch, owned, service, pending, asked,
                 moves, relock>>

PositionLeft ==
  /\ Delivered(FALSE)
  /\ UNCHANGED <<lockVars, workers, udone, unlocked>>

(* handleHandlebarPosition: a bar in position may need another unlock.     *)
PositionReached ==
  /\ Delivered(TRUE) /\ handler = None
  /\ IF state \in {"Parked", "ReadyToDrive"}
     THEN /\ unlocked' = ~bolt
          /\ IF bolt THEN \E w \in Idle : UnlockHandlebar(w) ELSE UNCHANGED <<workers, udone>>
     ELSE UNCHANGED <<unlocked, workers, udone>>
  /\ UNCHANGED lockVars

(* The window's callback locks, unless its window is closed.               *)
WindowReached ==
  /\ Delivered(TRUE) /\ handler # None
  /\ IF attempts[handler].open /\ timer # None
     THEN /\ attempts' = [attempts EXCEPT ![timer].ticks = FALSE]
          /\ crossed' = crossed \cup { a \in {handler} : attempts'[a].ticks }
          /\ \E w \in Idle : workers' = [workers EXCEPT ![w] = Start(w, "lock", "check", handler)]
     ELSE UNCHANGED <<attempts, crossed, workers>>
  /\ UNCHANGED <<count, timer, done, handler, udone, unlocked>>

-----------------------------------------------------------------------------
(* Pulses.                                                                 *)

(* Of a channel that no loop looks at any more nothing is kept.            *)
OnlyWorker ==
  /\ udone' = IF udone # NoWorker /\ workers'[udone].pc = "idle" THEN NoWorker ELSE udone
  /\ UNCHANGED <<machineVars, bolt, place, cached, reported, service, pending, asked, moves, relock>>

(* Worker k at another step; one that ends is nobody's any more.           *)
At(k, step) == IF step = "idle" THEN IdleWorker ELSE [k EXCEPT !.pc = step]

Step(w, step) == workers' = [workers EXCEPT ![w] = At(@, step)]

(* Whether the worker may go on: a channel, and for unlocks the state.     *)
MayPulse(k) ==
  CASE Closing(k)        -> attempts[k.of].open
    [] k.kind = "unlock" -> k.open /\ state \in {"Parked", "ReadyToDrive"}
    [] OTHER             -> TRUE

StillOpen(k) ==
  CASE Closing(k)        -> attempts[k.of].open
    [] k.kind = "unlock" -> k.open
    [] OTHER             -> TRUE

(* A callback cleans up after itself, a goroutine forgets its channel.     *)
Ended(k) == IF Closing(k) THEN "cleanup" ELSE "idle"

WorkerCheck(w) ==
  LET k == workers[w] IN
  /\ k.pc = "check"
  /\ Step(w, IF MayPulse(k) THEN "close" ELSE Ended(k))
  /\ OnlyWorker /\ UNCHANGED <<lockVars, coilVars, unlocked, latch, owned>>

(* writeOutput, with either outcome.                                       *)
Written(side, value) ==
  /\ coil' = [coil EXCEPT ![side] = value]
  /\ stuck' = stuck \ {side}
  /\ UNCHANGED faults

NotWritten(side, value) ==
  /\ Cardinality(asked) + faults < MaxRequests
  /\ faults' = faults + 1
  /\ stuck' = IF value THEN stuck ELSE stuck \cup {side}
  /\ UNCHANGED coil

OnlyPulse == OnlyWorker /\ UNCHANGED <<lockVars, unlocked, latch, owned>>

(* pulseHandlebarLock: the close side first, then the open side.  Whoever  *)
(* has a pulse fail gives up.                                              *)
PulseClose(w) ==
  LET k == workers[w] IN
  /\ k.pc = "close"
  /\ \/ Written("close", k.kind \in LockKinds) /\ Step(w, "open")
     \/ NotWritten("close", k.kind \in LockKinds) /\ Step(w, Ended(k))
  /\ OnlyPulse

PulseOpen(w) ==
  LET k == workers[w] IN
  /\ k.pc = "open"
  /\ \/ Written("open", k.kind \notin LockKinds) /\ Step(w, "coastClose")
     \/ NotWritten("open", k.kind \notin LockKinds) /\ Step(w, "rollback")
  /\ OnlyPulse

(* The first output is taken back as far as it can be.                     *)
Rollback(w) ==
  /\ workers[w].pc = "rollback"
  /\ Written("close", FALSE) \/ NotWritten("close", FALSE)
  /\ Step(w, Ended(workers[w]))
  /\ OnlyPulse

(* Mutant: a failure of the first side returns before the second.          *)
CoastCloseReturns(w) ==
  /\ workers[w].pc = "coastClose" /\ Patient
  /\ \/ Written("close", FALSE) /\ Step(w, "coastOpen")
     \/ NotWritten("close", FALSE) /\ Step(w, Ended(workers[w]))
  /\ OnlyPulse

(* Both sides are switched off, the second also after a failure of the     *)
(* first.                                                                  *)
CoastClose(w) ==
  /\ workers[w].pc = "coastClose" /\ Patient
  /\ \/ Written("close", FALSE) /\ Step(w, "coastOpen")
     \/ NotWritten("close", FALSE) /\ Step(w, "coastLast")
  /\ OnlyPulse

CoastLast(w) ==
  /\ workers[w].pc = "coastLast"
  /\ Written("open", FALSE) \/ NotWritten("open", FALSE)
  /\ Step(w, Ended(workers[w]))
  /\ OnlyPulse

CoastOpen(w) ==
  LET k == workers[w] IN
  /\ k.pc = "coastOpen"
  /\ \/ Written("open", FALSE) /\ Step(w, IF k.kind = "service" THEN "svcLatch" ELSE "checked")
     \/ NotWritten("open", FALSE) /\ Step(w, Ended(k))
  /\ OnlyPulse

(* A lock looks at its channel before it waits for the mechanism to        *)
(* settle, an unlock after.                                                *)
WorkerChecked(w) ==
  LET k == workers[w] IN
  /\ k.pc = "checked"
  /\ Step(w, IF StillOpen(k) THEN "verify" ELSE Ended(k))
  /\ OnlyWorker /\ UNCHANGED <<lockVars, coilVars, unlocked, latch, owned>>

(* Mutant: one more try than configured.                                   *)
TriesOnceMore(k) == k.kind = "unlock" \/ (Closing(k) /\ k.tries <= Retries)

(* Mutant: an unlock gives up where its quick tries end.                   *)
TriesOnce(k) == Closing(k) /\ k.tries < Retries

(* The loop of an unlock has no end of its own.                            *)
TriesAgain(k) == k.kind = "unlock" \/ (Closing(k) /\ k.tries < Retries)

(* The sensor confirms, or another try follows.                            *)
WorkerVerify(w) ==
  LET k      == workers[w]
      wanted == k.kind \in LockKinds IN
  /\ k.pc = "verify" /\ Patient
  /\ unlocked' = ~bolt
  /\ latch' = IF bolt = wanted THEN wanted ELSE latch
  /\ owned' = (owned \/ (bolt /\ Closing(k) /\ attempts[k.of].hop))
  /\ workers' = [workers EXCEPT ![w] =
       IF bolt = wanted \/ ~TriesAgain(k) THEN At(k, Ended(k))
       ELSE [k EXCEPT !.pc = "check", !.tries = IF Closing(k) THEN @ + 1 ELSE @]]
  /\ OnlyWorker /\ UNCHANGED <<lockVars, coilVars>>

(* Mutant: the clean-up forgets whichever channel is current.              *)
WorkerCleanupForgets(w) ==
  LET k == workers[w] IN
  /\ k.pc = "cleanup"
  /\ done' = None
  /\ timer' = IF k.kind = "lock" THEN None ELSE timer
  /\ Step(w, IF k.kind = "lock" THEN "restore" ELSE "idle")
  /\ OnlyWorker /\ UNCHANGED <<attempts, count, handler, crossed, coilVars, unlocked, latch, owned>>

(* The clean-up forgets its own channel, and whatever timer there is.      *)
WorkerCleanup(w) ==
  LET k == workers[w] IN
  /\ k.pc = "cleanup"
  /\ done' = IF done = k.of THEN None ELSE done
  /\ timer' = IF k.kind = "lock" THEN None ELSE timer
  /\ Step(w, IF k.kind = "lock" THEN "restore" ELSE "idle")
  /\ OnlyWorker /\ UNCHANGED <<attempts, count, handler, crossed, coilVars, unlocked, latch, owned>>

WorkerRestore(w) ==
  /\ workers[w].pc = "restore"
  /\ RestoreHandler
  /\ Step(w, "idle")
  /\ OnlyWorker /\ UNCHANGED <<coilVars, unlocked, latch, owned>>

-----------------------------------------------------------------------------
(* Requests, which are read once Start() has returned.                     *)

Serving(kinds) == \E w \in Workers : Busy(w) /\ workers[w].kind \in kinds

(* scooter:hardware handlebar:lock and handlebar:unlock, in any state.     *)
OperatorPulse ==
  /\ ~pending /\ Patient /\ ~Serving({"opLock", "opUnlock"})
  /\ \E r \in {"lock", "unlock"} : \E w \in Idle :
       /\ Request(r)
       /\ workers' = [workers EXCEPT ![w] =
            Start(w, IF r = "lock" THEN "opLock" ELSE "opUnlock", "close", None)]
  /\ UNCHANGED <<machineVars, lockVars, udone, bodyVars, flagVars, moves, relock>>

(* scooter.handlebar-unlocked.                                             *)
ServiceMode ==
  /\ ~pending /\ Patient /\ ~Serving({"service"})
  /\ \E r \in {"serviceOn", "serviceOff"} : \E w \in Idle :
       /\ Request(r)
       /\ service' = (r = "serviceOn")
       /\ workers' = [workers EXCEPT ![w] =
            Start(w, "service", IF r = "serviceOn" THEN "svcCancel" ELSE "svcRelock", None)]
  /\ UNCHANGED <<machineVars, lockVars, udone, bodyVars, unlocked, latch, owned, pending, moves,
                 relock>>

ServiceCancel(w) ==
  /\ workers[w].pc = "svcCancel"
  /\ CancelLock /\ Step(w, "svcRestore")
  /\ OnlyWorker /\ UNCHANGED <<coilVars, unlocked, latch, owned>>

ServiceRestore(w) ==
  /\ workers[w].pc = "svcRestore"
  /\ RestoreHandler /\ Step(w, "close")
  /\ OnlyWorker /\ UNCHANGED <<coilVars, unlocked, latch, owned>>

(* The latch follows the pulse, not the sensor.                            *)
ServiceLatch(w) ==
  /\ workers[w].pc = "svcLatch"
  /\ latch' = FALSE
  /\ Step(w, "idle")
  /\ OnlyWorker /\ UNCHANGED <<lockVars, coilVars, unlocked, owned>>

ServiceRelock(w) ==
  /\ workers[w].pc = "svcRelock"
  /\ IF state = "Standby" THEN LockHandlebar(FALSE) ELSE UNCHANGED lockVars
  /\ Step(w, "idle")
  /\ OnlyWorker /\ UNCHANGED <<coilVars, unlocked, latch, owned>>

-----------------------------------------------------------------------------
EntryAction ==
  \/ EnterCancel \/ EnterRestore \/ EnterRead \/ EnterDecide \/ DriveGiveUp
  \/ StandbyResync \/ ShutLock \/ ShutForced \/ ShutForcedRestore \/ HopOnLock
  \/ ExitCancel \/ ExitRestore \/ ExitRelease

AttemptStep(a) ==
  \/ AttemptStart(a) \/ AttemptPlace(a) \/ AttemptArm(a) \/ AttemptRegister(a)
  \/ AttemptLook(a) \/ AttemptCancelled(a) \/ AttemptFires(a) \/ AttemptExpires(a)
  \/ AttemptExpired(a)

WorkerStep(w) ==
  \/ WorkerCheck(w) \/ PulseClose(w) \/ PulseOpen(w) \/ Rollback(w)
  \/ CoastClose(w) \/ CoastLast(w) \/ CoastOpen(w)
  \/ WorkerChecked(w) \/ WorkerVerify(w) \/ WorkerCleanup(w) \/ WorkerRestore(w)
  \/ ServiceCancel(w) \/ ServiceRestore(w) \/ ServiceLatch(w) \/ ServiceRelock(w)

Next ==
  \/ EntryAction \/ Dispatch \/ LockAfterDecline
  \/ \E a \in Attempts : AttemptStep(a)
  \/ BarMoves \/ PositionSeen \/ BoltMoves \/ SensorEdge \/ PositionLeft
  \/ PositionReached \/ WindowReached
  \/ \E w \in Workers : WorkerStep(w)
  \/ OperatorPulse \/ ServiceMode

Spec == Init /\ [][Next]_vars

-----------------------------------------------------------------------------
(* Properties.                                                             *)

(* Types of the variables.                                                 *)
TypeOK ==
  /\ state \in Leaves
  /\ pc \in {"idle", "cancel", "restore", "read", "decide", "giveUp", "resync", "lock",
             "forceCancel", "forceRestore", "hopLock", "exitCancel", "exitRestore", "exitRelease"}
  /\ next \in Leaves \cup {"none"} /\ forced \in BOOLEAN
  /\ attempts \in [Attempts -> [pc : Opening \cup Expiring \cup {"new", "waiting", "over"},
                                open : BOOLEAN, hop : BOOLEAN, ticks : BOOLEAN]]
  /\ count \in 0..MaxLocks
  /\ {timer, done, handler} \subseteq Attempts \cup {None}
  /\ workers \in [Workers -> [pc : WorkerSteps, kind : Kinds \cup {"none"},
                              of : Attempts \cup {None}, open : BOOLEAN, tries : 0..Retries]]
  /\ udone \in Workers \cup {NoWorker}
  /\ coil \in [close : BOOLEAN, open : BOOLEAN]
  /\ stuck \subseteq Sides /\ faults \in 0..MaxRequests
  /\ {bolt, place, cached, reported} \subseteq BOOLEAN
  /\ unlocked \in BOOLEAN /\ latch \in BOOLEAN /\ owned \in BOOLEAN
  /\ service \in BOOLEAN /\ pending \in BOOLEAN
  /\ asked \subseteq Requests /\ moves \in 0..MaxMoves /\ relock \in BOOLEAN
  /\ crossed \subseteq Attempts

(* Nothing about the steering is under way: a window may stand open.       *)
Quiet ==
  /\ pc = "idle" /\ {cached, reported} = {place}
  /\ \A w \in Workers : ~Busy(w)
  /\ \A a \in Attempts : attempts[a].pc \notin Opening \cup Expiring

(* However pulses overlap, and whichever request, exit or failing write    *)
(* cut in, the last one to end leaves the solenoid without current         *)
(* (pulseHandlebarLock: "then sets both low"), except on a side whose own  *)
(* switching off has failed and which nobody has written since.            *)
CoilsRest ==
  (\A w \in Workers : workers[w].pc \notin PulseSteps \ {"close"})
    => (coil.close => "close" \in stuck) /\ (coil.open => "open" \in stuck)

(* A window that can still lock the steering is the one that a cancel      *)
(* would close: no attempt is forgotten behind a later one, or behind the  *)
(* clean-up of an earlier one (lockHandlebar, cancelHandlebarLock), unless *)
(* its own callback mistook another attempt's timer for its own.           *)
WindowIsCancellable ==
  \A a \in Attempts \ crossed :
    (attempts[a].open /\ (attempts[a].ticks \/ attempts[a].pc \in {"start", "place", "arm"}))
      => done = a

(* A parked vehicle at rest has a free bar, whatever windows, loops and    *)
(* pulses of the states before were cut short, except where lock work      *)
(* outlived Parked's look at the sensor (unlockHandlebarIfNeeded), or a    *)
(* failing write made somebody give up.                                    *)
ParkedIsFree ==
  (state = "Parked" /\ Quiet /\ bolt) => (relock \/ "lock" \in asked \/ faults > 0)

(* The same without the exception: the cancel of an entry stops the lock.  *)
ParkedIsAlwaysFree == (state = "Parked" /\ Quiet) => ~bolt

(* In stand-by at rest the published latch tells where the bolt is, unless *)
(* the service mode was switched, which does not look at the sensor, and   *)
(* cuts other attempts short, or a write failed: a pulse that fails is not *)
(* followed by a look at the sensor.                                       *)
StandbyLatch ==
  (state = "Standby" /\ Quiet)
    => (latch = bolt \/ {"serviceOn", "serviceOff"} \cap asked # {} \/ faults > 0)

(* The two sides of the bridge are never driven together                   *)
(* (pulseHandlebarLock: "active side high, complementary side low").       *)
SidesComplementary == ~(coil.close /\ coil.open)
=============================================================================
