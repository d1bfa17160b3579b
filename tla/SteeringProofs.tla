--------------------------- MODULE SteeringProofs ---------------------------
(***************************************************************************)
(* What the steering lock promises beside the rest of its solenoid: that a *)
(* window can be cancelled, that a parked bar is free, and that the latch  *)
(* of stand-by is true.                                                    *)
(***************************************************************************)
EXTENDS HandlebarProofs

(* An attempt on its way to its window or to its worker.                   *)
Early == {"start", "place", "arm", "register"}

ServiceSteps == {"svcCancel", "svcRestore", "svcLatch", "svcRelock"}

-----------------------------------------------------------------------------
(* What the operations do to the attempts.                                 *)

Locks == \E hop \in BOOLEAN : LockHandlebar(hop)

(* No attempt is added: channels close, and nobody goes back.              *)
Fading ==
  /\ count' = count
  /\ \A a \in Attempts :
       /\ attempts'[a].open => attempts[a].open
       /\ attempts'[a].pc \in Early => attempts[a].pc \in Early
       /\ attempts[a].pc = "new" => attempts'[a].pc = "new"
       /\ attempts[a].pc \notin Early \cup {"new"} => attempts'[a].pc \notin Early \cup {"new"}

(* A cancel closes the channel there is, and stops its timer.              *)
LEMMA CancelEffect ==
  ASSUME LockTypes, CancelLock
  PROVE  /\ \A a \in Attempts :
              /\ attempts'[a].pc = attempts[a].pc
              /\ attempts'[a].open => attempts[a].open /\ a # done
              /\ attempts'[a].ticks => attempts[a].ticks /\ a # timer
         /\ timer' = None /\ done' = None /\ handler' = handler
         /\ Fading
<1>1. ASSUME NEW a \in Attempts
      PROVE  /\ attempts'[a].pc = attempts[a].pc
             /\ attempts'[a].open => attempts[a].open /\ a # done
             /\ attempts'[a].ticks => attempts[a].ticks /\ a # timer
  <2>1. attempts'[a] = [attempts[a] EXCEPT !.open = @ /\ a # done, !.ticks = @ /\ a # timer]
    BY DEF CancelLock
  <2> DEFINE stays == attempts[a].open /\ a # done
             runs  == attempts[a].ticks /\ a # timer
  <2>2. attempts'[a] = [attempts[a] EXCEPT !.open = stays, !.ticks = runs]
    BY <2>1
  <2>3. (stays => attempts[a].open /\ a # done) /\ (runs => attempts[a].ticks /\ a # timer)
    OBVIOUS
  <2> HIDE DEF stays, runs
  <2>4. /\ attempts'[a].pc = attempts[a].pc
        /\ attempts'[a].open = stays /\ attempts'[a].ticks = runs
    BY <2>2 DEF LockTypes, AttemptType
  <2> QED
    BY <2>3, <2>4
<1> QED
  BY <1>1 DEF CancelLock, Fading

(* A new attempt closes the channel there is, and makes its own.           *)
LEMMA LockEffect ==
  ASSUME LockTypes, NEW hop \in BOOLEAN, LockHandlebar(hop)
  PROVE  /\ count' = count + 1 /\ count' \in Attempts /\ done' = count'
         /\ timer' = timer /\ handler' = handler
         /\ attempts'[count'].pc = "start" /\ ~attempts'[count'].ticks
         /\ \A a \in Attempts \ {count'} :
              /\ attempts'[a].pc = attempts[a].pc
              /\ attempts'[a].ticks = attempts[a].ticks
              /\ attempts'[a].open => attempts[a].open /\ a # done
<1>1. count' = count + 1 /\ count' \in Attempts
  BY HandlebarAssumption DEF LockHandlebar, LockTypes, Attempts
<1>2. Closed(done) \in [Attempts -> AttemptType]
      /\ \A a \in Attempts :
           /\ Closed(done)[a].pc = attempts[a].pc
           /\ Closed(done)[a].ticks = attempts[a].ticks
           /\ Closed(done)[a].open => attempts[a].open /\ a # done
  <2>1. CASE done = None
    <3>1. None \notin Attempts
      BY HandlebarAssumption DEF None, Attempts
    <3> QED
      BY <2>1, <3>1 DEF Closed, LockTypes
  <2>2. CASE done # None
    <3>1. Closed(done) = [attempts EXCEPT ![done] = [attempts[done] EXCEPT !.open = FALSE]]
      BY <2>2 DEF Closed
    <3>2. [attempts[done] EXCEPT !.open = FALSE] \in AttemptType
      BY <2>2 DEF LockTypes, AttemptType
    <3>3. /\ [attempts[done] EXCEPT !.open = FALSE].pc = attempts[done].pc
          /\ [attempts[done] EXCEPT !.open = FALSE].ticks = attempts[done].ticks
          /\ [attempts[done] EXCEPT !.open = FALSE].open = FALSE
      BY <2>2 DEF LockTypes, AttemptType
    <3> QED
      BY <2>2, <3>1, <3>2, <3>3 DEF LockTypes
  <2> QED
    BY <2>1, <2>2
<1>3. attempts' = [Closed(done) EXCEPT ![count'] =
                     [pc |-> "start", open |-> TRUE, hop |-> hop, ticks |-> FALSE]]
  BY <1>1 DEF LockHandlebar
<1> QED
  BY <1>1, <1>2, <1>3 DEF LockHandlebar

(* The goroutine of an attempt writes of others at most their timer.       *)
LEMMA AttemptEffect ==
  ASSUME LockTypes, NEW a \in Attempts, AttemptStep(a)
  PROVE  /\ \A b \in Attempts :
              /\ attempts'[b].open = attempts[b].open
              /\ b # a => attempts'[b].pc = attempts[b].pc
              /\ attempts'[b].ticks => attempts[b].ticks \/ (b = a /\ AttemptArm(a))
         /\ attempts[a].pc # "new" /\ attempts'[a].pc # "new"
         /\ Fading
<1> USE DEF Early, Opening
<1>1. ASSUME NEW step \in Opening \cup {"waiting", "fired", "expired", "over"}, Wait(a, step)
      PROVE  \A b \in Attempts :
               /\ attempts'[b].open = attempts[b].open
               /\ attempts'[b].ticks = attempts[b].ticks
               /\ b # a => attempts'[b].pc = attempts[b].pc
               /\ b = a => attempts'[b].pc = step
  BY <1>1 DEF Wait, LockTypes, AttemptType
<1>2. CASE AttemptStart(a) \/ AttemptPlace(a)
  <2>1. \/ attempts[a].pc = "start" /\ count' = count /\ (Wait(a, "place") \/ Wait(a, "over"))
        \/ attempts[a].pc = "place" /\ count' = count /\ (Wait(a, "over") \/ Wait(a, "arm"))
    BY <1>2 DEF AttemptStart, AttemptPlace
  <2> QED
    BY <1>1, <2>1 DEF Fading
<1>3. CASE AttemptRegister(a) \/ AttemptLook(a)
  <2>1. \/ attempts[a].pc = "register" /\ count' = count /\ Wait(a, "look")
        \/ attempts[a].pc = "look" /\ count' = count /\ (Wait(a, "over") \/ Wait(a, "waiting"))
    BY <1>3 DEF AttemptRegister, AttemptLook
  <2> QED
    BY <1>1, <2>1 DEF Fading
<1>4. CASE AttemptCancelled(a) \/ AttemptExpires(a) \/ AttemptExpired(a)
  <2>1. /\ attempts[a].pc \in {"waiting", "fired", "expired"} /\ count' = count
        /\ Wait(a, "over") \/ Wait(a, "expired")
    BY <1>4 DEF AttemptCancelled, AttemptExpires, AttemptExpired
  <2> QED
    BY <1>1, <2>1 DEF Fading
<1>5. CASE AttemptArm(a)
  <2>1. ASSUME NEW b \in Attempts
        PROVE  /\ attempts'[b].open = attempts[b].open
               /\ b # a => attempts'[b].pc = attempts[b].pc
               /\ attempts'[b].ticks => attempts[b].ticks \/ b = a
               /\ b = a => attempts'[b].pc = "register"
    <3>1. attempts'[b] = IF b = a THEN [attempts[a] EXCEPT !.pc = "register", !.ticks = TRUE]
                         ELSE [attempts[b] EXCEPT !.ticks = @ /\ b # timer]
      BY <1>5 DEF AttemptArm
    <3> QED
      BY <3>1 DEF LockTypes, AttemptType
  <2> QED
    BY <1>5, <2>1 DEF AttemptArm, Fading
<1>6. CASE AttemptFires(a)
  <2>1. attempts' = [attempts EXCEPT ![a] = [attempts[a] EXCEPT !.pc = "fired", !.ticks = FALSE]]
    BY <1>6 DEF AttemptFires, LockTypes
  <2>2. attempts[a].pc = "waiting" /\ count' = count
    BY <1>6 DEF AttemptFires
  <2> QED
    BY <2>1, <2>2 DEF LockTypes, AttemptType, Fading
<1> QED
  BY <1>2, <1>3, <1>4, <1>5, <1>6 DEF AttemptStep

(* The callback of a window stops a timer.                                 *)
LEMMA WindowEffect ==
  ASSUME LockTypes, WindowReached
  PROVE  /\ \A a \in Attempts :
              /\ attempts'[a].pc = attempts[a].pc
              /\ attempts'[a].open = attempts[a].open
              /\ attempts'[a].ticks => attempts[a].ticks
         /\ UNCHANGED <<count, timer, done, handler>>
         /\ Fading
<1>1. \/ attempts' = attempts
      \/ /\ timer # None
         /\ attempts' = [attempts EXCEPT ![timer] = [attempts[timer] EXCEPT !.ticks = FALSE]]
  BY DEF WindowReached
<1>2. UNCHANGED <<count, timer, done, handler>>
  BY DEF WindowReached
<1> QED
  BY <1>1, <1>2 DEF LockTypes, AttemptType, Fading

-----------------------------------------------------------------------------
(* What the operations do to the workers.                                  *)

(* Worker w begins, for whom it may concern.                               *)
Hired(w, kind, step, of) == workers' = [workers EXCEPT ![w] = Start(w, kind, step, of)]

(* A new worker is what it was hired as, and nobody else is disturbed.     *)
LEMMA HireEffect ==
  ASSUME WorkTypes, NEW w \in Workers, NEW kind, NEW step, NEW of, Hired(w, kind, step, of)
  PROVE  /\ workers'[w].pc = step /\ workers'[w].kind = kind /\ workers'[w].of = of
         /\ workers'[w].open = TRUE
         /\ \A v \in Workers \ {w} : workers'[v] = workers[v]
  BY DEF WorkTypes, Hired, Start, IdleWorker

(* A channel closed leaves the rest of its worker alone.                   *)
LEMMA ClosedEffect ==
  ASSUME WorkTypes, NEW w \in Workers
  PROVE  /\ UnlocksClosed[w].pc = workers[w].pc
         /\ UnlocksClosed[w].kind = workers[w].kind
         /\ UnlocksClosed[w].of = workers[w].of
<1>1. UnlocksClosed[w] = IF w = udone THEN [workers[w] EXCEPT !.open = FALSE] ELSE workers[w]
  BY DEF UnlocksClosed
<1>2. [workers[w] EXCEPT !.open = FALSE].pc = workers[w].pc
      /\ [workers[w] EXCEPT !.open = FALSE].kind = workers[w].kind
      /\ [workers[w] EXCEPT !.open = FALSE].of = workers[w].of
  BY DEF WorkTypes, WorkerType
<1> QED
  BY <1>1, <1>2

(* A cancelled unlock closes a channel and no more.                        *)
LEMMA UnlockCancelled ==
  ASSUME WorkTypes, CancelUnlock
  PROVE  \A w \in Workers : /\ workers'[w].pc = workers[w].pc
                            /\ workers'[w].kind = workers[w].kind
                            /\ workers'[w].of = workers[w].of
  BY ClosedEffect DEF CancelUnlock

(* A new unlock does, and looks first of all.                              *)
LEMMA UnlockEffect ==
  ASSUME WorkTypes, NEW w \in Workers, UnlockHandlebar(w)
  PROVE  /\ workers'[w].pc = "check" /\ workers'[w].kind = "unlock" /\ workers'[w].of = None
         /\ workers'[w].open = TRUE
         /\ \A v \in Workers \ {w} : /\ workers'[v].pc = workers[v].pc
                                     /\ workers'[v].kind = workers[v].kind
                                     /\ workers'[v].of = workers[v].of
<1>1. workers'[w] = Start(w, "unlock", "check", None)
      /\ \A v \in Workers \ {w} : workers'[v] = UnlocksClosed[v]
  BY DEF UnlockHandlebar, UnlocksClosed
<1> QED
  BY <1>1, ClosedEffect DEF Start, IdleWorker

(* Where a step takes its worker.                                          *)
LEMMA StepEffect ==
  ASSUME WorkTypes, NEW w \in Workers, NEW step, Step(w, step)
  PROVE  /\ workers'[w].pc = step
         /\ \/ step = "idle" /\ workers'[w] = IdleWorker
            \/ /\ step # "idle" /\ workers'[w].kind = workers[w].kind
               /\ workers'[w].of = workers[w].of /\ workers'[w].open = workers[w].open
<1>1. workers'[w] = At(workers[w], step)
  BY DEF Step, WorkTypes
<1>2. CASE step = "idle"
  BY <1>1, <1>2 DEF At, IdleWorker
<1>3. CASE step # "idle"
  <2>1. workers'[w] = [workers[w] EXCEPT !.pc = step]
    BY <1>1, <1>3 DEF At
  <2> QED
    BY <1>3, <2>1 DEF WorkTypes, WorkerType
<1> QED
  BY <1>2, <1>3

(* The course of a worker.  A failing write is counted.                    *)
Course(w) ==
  LET k == workers[w]
      n == workers'[w].pc IN
  \/ k.pc = "check" /\ n = IF MayPulse(k) THEN "close" ELSE Ended(k)
  \/ k.pc = "close" /\ n = "open"
  \/ k.pc = "open" /\ n = "coastClose"
  \/ k.pc = "coastClose" /\ n = "coastOpen"
  \/ k.pc = "coastOpen" /\ n = IF k.kind = "service" THEN "svcLatch" ELSE "checked"
  \/ k.pc \in {"rollback", "coastLast"} /\ n = Ended(k)
  \/ k.pc \in PulseSteps /\ n \in {"rollback", "coastLast", Ended(k)} /\ faults' = faults + 1
  \/ k.pc = "checked" /\ n = IF StillOpen(k) THEN "verify" ELSE Ended(k)
  \/ /\ k.pc = "verify" /\ WorkerVerify(w)
     /\ n = IF bolt = (k.kind \in LockKinds) \/ ~TriesAgain(k) THEN Ended(k) ELSE "check"
  \/ k.pc = "cleanup" /\ n = IF k.kind = "lock" THEN "restore" ELSE "idle"
  \/ k.pc = "restore" /\ n = "idle"
  \/ k.pc = "svcCancel" /\ n = "svcRestore"
  \/ k.pc = "svcRestore" /\ n = "close"
  \/ k.pc \in {"svcLatch", "svcRelock"} /\ n = "idle"

(* Every worker keeps to it, and remains what it is until it ends.         *)
LEMMA WorkerEffect ==
  ASSUME WorkTypes, NEW w \in Workers, WorkerStep(w)
  PROVE  /\ Course(w)
         /\ \/ workers'[w].pc = "idle" /\ workers'[w] = IdleWorker
            \/ /\ workers'[w].pc # "idle" /\ workers'[w].kind = workers[w].kind
               /\ workers'[w].of = workers[w].of /\ workers'[w].open = workers[w].open
         /\ \A v \in Workers \ {w} : workers'[v] = workers[v]
<1>1. \A v \in Workers \ {w} : workers'[v] = workers[v]
  BY StepSparesOthers
<1> DEFINE k == workers[w]
<1>2. CASE WorkerCheck(w) \/ WorkerChecked(w)
  BY <1>1, <1>2, StepEffect DEF WorkerCheck, WorkerChecked, Course
<1>3. CASE PulseClose(w) \/ PulseOpen(w)
  <2>1. \/ k.pc = "close" /\ Step(w, "open")
        \/ k.pc = "close" /\ Step(w, Ended(k)) /\ faults' = faults + 1
        \/ k.pc = "open" /\ Step(w, "coastClose")
        \/ k.pc = "open" /\ Step(w, "rollback") /\ faults' = faults + 1
    BY <1>3 DEF PulseClose, PulseOpen, NotWritten
  <2> QED
    BY <1>1, <2>1, StepEffect DEF Course, PulseSteps
<1>4. CASE CoastClose(w) \/ CoastOpen(w)
  <2>1. \/ k.pc = "coastClose" /\ Step(w, "coastOpen")
        \/ k.pc = "coastClose" /\ Step(w, "coastLast") /\ faults' = faults + 1
        \/ k.pc = "coastOpen" /\ Step(w, IF k.kind = "service" THEN "svcLatch" ELSE "checked")
        \/ k.pc = "coastOpen" /\ Step(w, Ended(k)) /\ faults' = faults + 1
    BY <1>4 DEF CoastClose, CoastOpen, NotWritten
  <2> QED
    BY <1>1, <2>1, StepEffect DEF Course, PulseSteps
<1>5. CASE Rollback(w) \/ CoastLast(w)
  BY <1>1, <1>5, StepEffect DEF Rollback, CoastLast, Course
<1>6. CASE WorkerVerify(w)
  <2> DEFINE ends   == bolt = (k.kind \in LockKinds) \/ ~TriesAgain(k)
             again  == [k EXCEPT !.pc = "check", !.tries = IF Closing(k) THEN @ + 1 ELSE @]
  <2>1. workers' = [workers EXCEPT ![w] = IF ends THEN At(k, Ended(k)) ELSE again]
    BY <1>6 DEF WorkerVerify
  <2>2. k.pc = "verify"
    BY <1>6 DEF WorkerVerify
  <2>3. CASE ends
    <3>1. Step(w, Ended(k))
      BY <2>1, <2>3 DEF Step
    <3> QED
      BY <1>1, <1>6, <2>2, <2>3, <3>1, StepEffect DEF Course
  <2>4. CASE ~ends
    <3>1. workers'[w] = again
      BY <2>1, <2>4 DEF WorkTypes
    <3>2. again.pc = "check" /\ again.kind = k.kind /\ again.of = k.of /\ again.open = k.open
      BY DEF WorkTypes, WorkerType
    <3> QED
      BY <1>1, <1>6, <2>2, <2>4, <3>1, <3>2 DEF Course
  <2> QED
    BY <2>3, <2>4
<1>7. CASE WorkerCleanup(w) \/ WorkerRestore(w)
  BY <1>1, <1>7, StepEffect DEF WorkerCleanup, WorkerRestore, Course
<1>8. CASE ServiceCancel(w) \/ ServiceRestore(w)
  BY <1>1, <1>8, StepEffect DEF ServiceCancel, ServiceRestore, Course
<1>9. CASE ServiceLatch(w) \/ ServiceRelock(w)
  BY <1>1, <1>9, StepEffect DEF ServiceLatch, ServiceRelock, Course
<1> QED
  BY <1>2, <1>3, <1>4, <1>5, <1>6, <1>7, <1>8, <1>9 DEF WorkerStep

-----------------------------------------------------------------------------
(* Who does what to whom.                                                  *)

(* The steps that touch an attempt, a timer or the handler.                *)
LEMMA LockCases ==
  ASSUME [Next]_vars
  PROVE  \/ UNCHANGED lockVars
         \/ CancelLock /\ (EnterCancel \/ ShutForced \/ ExitCancel \/ \E w \in Workers : ServiceCancel(w))
         \/ RestoreHandler
         \/ Locks /\ (ShutLock \/ HopOnLock \/ LockAfterDecline \/ \E w \in Workers : ServiceRelock(w))
         \/ \E a \in Attempts : AttemptStep(a)
         \/ WindowReached
         \/ \E w \in Workers : WorkerCleanup(w)
<1> USE DEF Locks
<1>1. CASE EntryAction
  <2>1. CASE EnterCancel \/ EnterRestore \/ EnterRead \/ EnterDecide \/ DriveGiveUp
    BY <2>1 DEF EnterCancel, EnterRestore, EnterRead, EnterDecide, DriveGiveUp
  <2>2. CASE StandbyResync \/ ShutLock \/ ShutForced \/ ShutForcedRestore \/ HopOnLock
    BY <2>2 DEF StandbyResync, ShutLock, ShutForced, ShutForcedRestore, HopOnLock
  <2>3. CASE ExitCancel \/ ExitRestore \/ ExitRelease
    BY <2>3 DEF ExitCancel, ExitRestore, ExitRelease
  <2> QED
    BY <1>1, <2>1, <2>2, <2>3 DEF EntryAction
<1>2. CASE Dispatch \/ LockAfterDecline
  BY <1>2 DEF Dispatch, LockAfterDecline
<1>3. CASE BarMoves \/ BoltMoves \/ SensorEdge \/ PositionSeen \/ PositionLeft \/ PositionReached
  BY <1>3 DEF BarMoves, BoltMoves, SensorEdge, PositionSeen, PositionLeft, PositionReached
<1>4. ASSUME NEW w \in Workers, WorkerStep(w), ~WorkerCleanup(w)
      PROVE  \/ UNCHANGED lockVars \/ RestoreHandler
             \/ CancelLock /\ ServiceCancel(w)
             \/ Locks /\ ServiceRelock(w)
  <2>1. CASE WorkerCheck(w) \/ Pulse(w)
    BY <2>1 DEF WorkerCheck, Pulse, PulseClose, PulseOpen, Rollback, CoastClose, CoastLast,
                CoastOpen, OnlyPulse
  <2>2. CASE WorkerChecked(w) \/ WorkerVerify(w) \/ WorkerRestore(w)
    BY <2>2 DEF WorkerChecked, WorkerVerify, WorkerRestore
  <2>3. /\ ServiceCancel(w) => CancelLock
        /\ ServiceRestore(w) => RestoreHandler
        /\ ServiceLatch(w) => UNCHANGED lockVars
    BY DEF ServiceCancel, ServiceRestore, ServiceLatch
  <2>4. CASE ServiceRelock(w)
    <3>1. LockHandlebar(FALSE) \/ UNCHANGED lockVars
      BY <2>4 DEF ServiceRelock
    <3> QED
      BY <2>4, <3>1
  <2> HIDE DEF Locks
  <2> QED
    BY <1>4, <2>1, <2>2, <2>3, <2>4 DEF WorkerStep, Pulse
<1>5. CASE OperatorPulse \/ ServiceMode \/ UNCHANGED vars
  BY <1>5 DEF OperatorPulse, ServiceMode, vars
<1> HIDE DEF Locks
<1> QED
  BY <1>1, <1>2, <1>3, <1>4, <1>5 DEF Next

(* The steps that touch a worker.                                          *)
LEMMA WorkCases ==
  ASSUME [Next]_vars
  PROVE  \/ UNCHANGED workers
         \/ CancelUnlock /\ (DriveGiveUp \/ StandbyResync \/ ShutLock \/ ShutForced)
         \/ \E w \in Idle : UnlockHandlebar(w) /\ (EnterDecide \/ PositionReached)
         \/ \E w \in Idle : Hired(w, "release", "close", None) /\ ExitRelease
         \/ \E a \in Attempts, w \in Idle : Hired(w, "direct", "check", a) /\ AttemptPlace(a)
                                           /\ Wait(a, "over")
         \/ \E w \in Idle : /\ Hired(w, "lock", "check", handler) /\ WindowReached
                            /\ handler # None /\ attempts[handler].open
         \/ \E w \in Idle, kind \in {"opLock", "opUnlock"} :
              /\ Hired(w, kind, "close", None) /\ OperatorPulse
              /\ kind = "opLock" => "lock" \in asked'
         \/ \E w \in Idle, step \in {"svcCancel", "svcRelock"} :
              /\ Hired(w, "service", step, None) /\ ServiceMode
              /\ {"serviceOn", "serviceOff"} \cap asked' # {}
         \/ \E w \in Workers : WorkerStep(w)
<1> USE DEF Hired
<1>1. CASE EntryAction
  <2>1. CASE EnterCancel \/ EnterRestore \/ EnterRead \/ EnterDecide \/ DriveGiveUp
    BY <2>1 DEF EnterCancel, EnterRestore, EnterRead, EnterDecide, DriveGiveUp
  <2>2. CASE StandbyResync \/ ShutLock \/ ShutForced \/ ShutForcedRestore \/ HopOnLock
    BY <2>2 DEF StandbyResync, ShutLock, ShutForced, ShutForcedRestore, HopOnLock
  <2>3. CASE ExitCancel \/ ExitRestore \/ ExitRelease
    BY <2>3 DEF ExitCancel, ExitRestore, ExitRelease
  <2> QED
    BY <1>1, <2>1, <2>2, <2>3 DEF EntryAction
<1>2. CASE Dispatch \/ LockAfterDecline
  BY <1>2 DEF Dispatch, LockAfterDecline
<1>3. CASE BarMoves \/ BoltMoves \/ SensorEdge \/ PositionSeen \/ PositionLeft \/ PositionReached
  BY <1>3 DEF BarMoves, BoltMoves, SensorEdge, PositionSeen, PositionLeft, PositionReached
<1>4. CASE WindowReached
  <2>1. CASE attempts[handler].open /\ timer # None
    <3>1. \E w \in Idle : Hired(w, "lock", "check", handler)
      BY <1>4, <2>1 DEF WindowReached
    <3>2. handler # None
      BY <1>4 DEF WindowReached
    <3> HIDE DEF Hired
    <3> QED
      BY <1>4, <2>1, <3>1, <3>2
  <2>2. CASE ~(attempts[handler].open /\ timer # None)
    BY <1>4, <2>2 DEF WindowReached
  <2> QED
    BY <2>1, <2>2
<1>5. ASSUME NEW a \in Attempts, AttemptStep(a)
      PROVE  \/ UNCHANGED workers
             \/ \E w \in Idle : Hired(w, "direct", "check", a) /\ AttemptPlace(a)
                                /\ Wait(a, "over")
  BY <1>5 DEF AttemptStep, AttemptStart, AttemptPlace, AttemptArm, AttemptRegister,
              AttemptLook, AttemptCancelled, AttemptFires, AttemptExpires, AttemptExpired
<1>6. CASE OperatorPulse
  <2>1. PICK r \in {"lock", "unlock"}, w \in Idle :
          /\ asked' = asked \cup {r}
          /\ Hired(w, IF r = "lock" THEN "opLock" ELSE "opUnlock", "close", None)
    BY <1>6 DEF OperatorPulse, Request
  <2> HIDE DEF Hired
  <2>2. CASE r = "lock"
    <3>1. Hired(w, "opLock", "close", None) /\ "lock" \in asked'
      BY <2>1, <2>2
    <3> QED
      BY <1>6, <3>1
  <2>3. CASE r # "lock"
    <3>1. Hired(w, "opUnlock", "close", None)
      BY <2>1, <2>3
    <3> QED
      BY <1>6, <3>1
  <2> QED
    BY <2>2, <2>3
<1>7. CASE ServiceMode
  <2>1. PICK r \in {"serviceOn", "serviceOff"}, w \in Idle :
          /\ asked' = asked \cup {r}
          /\ Hired(w, "service", IF r = "serviceOn" THEN "svcCancel" ELSE "svcRelock", None)
    BY <1>7 DEF ServiceMode, Request
  <2> HIDE DEF Hired
  <2>2. {"serviceOn", "serviceOff"} \cap asked' # {}
    BY <2>1
  <2> DEFINE step == IF r = "serviceOn" THEN "svcCancel" ELSE "svcRelock"
  <2>3. step \in {"svcCancel", "svcRelock"} /\ Hired(w, "service", step, None)
    BY <2>1
  <2> HIDE DEF step
  <2> QED
    BY <1>7, <2>2, <2>3
<1>8. CASE UNCHANGED vars
  BY <1>8 DEF vars
<1> HIDE DEF Hired
<1> QED
  BY <1>1, <1>2, <1>3, <1>4, <1>5, <1>6, <1>7, <1>8 DEF Next

-----------------------------------------------------------------------------
(* The books: which step belongs to which leaf, which worker to which      *)
(* attempt, and which attempt to the current channel.                      *)

(* The entry and exit actions run in their leaves.                         *)
StepsOfLeaf ==
  /\ pc \in {"cancel", "restore", "read", "decide"} => state \in {"Parked", "ReadyToDrive"}
  /\ pc = "giveUp" => state = "ReadyToDrive"
  /\ pc = "resync" => state = "Standby"
  /\ pc \in {"lock", "forceCancel", "forceRestore"} => state = "ShuttingDown"
  /\ pc \in {"hopLock", "exitCancel", "exitRestore", "exitRelease"} => state = "HopOn"

(* A worker is of a kind while it works, and at steps of its kind.         *)
Fits(k) ==
  /\ k.kind = "none" <=> k.pc = "idle"
  /\ k.pc \in {"cleanup", "restore"} => Closing(k)
  /\ k.pc \in ServiceSteps => k.kind = "service"

Employed ==
  /\ \A w \in Workers : Fits(workers[w])
  /\ faults = 0 => \A w \in Workers : workers[w].pc \notin {"rollback", "coastLast"}

(* The current channel is the last attempt's, if there is one.             *)
Counted ==
  /\ done \in {None, count}
  /\ \A a \in Attempts : a > count => attempts[a].pc = "new"

(* Until it has registered, an open attempt can be cancelled.              *)
EarlyHeld == \A a \in Attempts : (attempts[a].open /\ attempts[a].pc \in Early) => done = a

(* Whose window or pulse it is has left its first steps behind.            *)
Late(a) == a \in Attempts /\ attempts[a].pc \notin Early \cup {"new"}

Registered ==
  /\ handler # None => Late(handler)
  /\ \A w \in Workers : Closing(workers[w]) => Late(workers[w].of)

(* The decision after a declined restore comes before any other work.      *)
PendingFirst ==
  pending => /\ state = "Standby" /\ pc \in {"resync", "idle"} /\ count = 0
             /\ \A w \in Workers : workers[w].pc = "idle"

Books == StepsOfLeaf /\ Employed /\ Counted /\ EarlyHeld /\ Registered /\ PendingFirst

(* Only the event loop moves the machine.                                  *)
LEMMA MachineCases ==
  ASSUME [Next]_vars
  PROVE  UNCHANGED machineVars \/ EntryAction \/ Dispatch
<1>1. ASSUME NEW a, AttemptStep(a) PROVE UNCHANGED machineVars
  BY <1>1 DEF AttemptStep, OnlyAttempt, AttemptStart, AttemptPlace, AttemptArm,
              AttemptRegister, AttemptLook, AttemptCancelled, AttemptFires, AttemptExpires, AttemptExpired
<1>2. ASSUME NEW w, WorkerStep(w) PROVE UNCHANGED machineVars
  BY <1>2 DEF WorkerStep, OnlyWorker, WorkerCheck, PulseClose, PulseOpen, Rollback, CoastClose,
              CoastLast, CoastOpen, OnlyPulse,
              WorkerChecked, WorkerVerify, WorkerCleanup, WorkerRestore, ServiceCancel,
              ServiceRestore, ServiceLatch, ServiceRelock
<1>3. CASE LockAfterDecline \/ OperatorPulse \/ ServiceMode \/ UNCHANGED vars
  BY <1>3 DEF LockAfterDecline, OperatorPulse, ServiceMode, vars
<1>4. CASE BarMoves \/ BoltMoves \/ SensorEdge \/ PositionSeen \/ PositionLeft \/ PositionReached \/ WindowReached
  BY <1>4 DEF BarMoves, BoltMoves, SensorEdge, PositionSeen, PositionLeft, PositionReached,
              WindowReached, Delivered
<1> QED
  BY <1>1, <1>2, <1>3, <1>4 DEF Next

(* What an event makes of the machine.                                     *)
LEMMA DispatchEffect ==
  ASSUME Dispatch
  PROVE  /\ pc = "idle" /\ ~pending /\ Patient
         /\ \/ state = "HopOn" /\ state' = "HopOn" /\ pc' = "exitCancel"
            \/ \E s \in Leaves, force \in BOOLEAN :
                 /\ Enter(s, force)
                 /\ s = "Standby" => state = "ShuttingDown"
<1>1. PICK e \in ExtEvents : \E free \in SUBSET GuardsFor(state, e) :
        \E t \in Selected(state, e, TrueGuards(free)) :
          IF state = "HopOn" THEN pc' = "exitCancel" /\ UNCHANGED state
          ELSE Enter(t.to, e = "ForceLock")
  BY DEF Dispatch
<1>2. PICK free \in SUBSET GuardsFor(state, e) :
        \E t \in Selected(state, e, TrueGuards(free)) :
          IF state = "HopOn" THEN pc' = "exitCancel" /\ UNCHANGED state
          ELSE Enter(t.to, e = "ForceLock")
  BY <1>1
<1>3. PICK t \in Selected(state, e, TrueGuards(free)) :
        IF state = "HopOn" THEN pc' = "exitCancel" /\ UNCHANGED state
        ELSE Enter(t.to, e = "ForceLock")
  BY <1>2
<1>4. t.to \in Leaves /\ (t.to = "Standby" => state = "ShuttingDown")
  BY SelectedReachesLeaf, SelectedStandby
<1>5. pc = "idle" /\ ~pending /\ Patient
  BY DEF Dispatch
<1> DEFINE force == e = "ForceLock"
<1>6. force \in BOOLEAN
  OBVIOUS
<1>7. state = "HopOn" \/ Enter(t.to, force)
  BY <1>3
<1> HIDE DEF force
<1> QED
  BY <1>3, <1>4, <1>5, <1>6, <1>7

(* The steps stay in their leaves.                                         *)
LEMMA LeafStep ==
  ASSUME MachineTypes, StepsOfLeaf, [Next]_vars
  PROVE  StepsOfLeaf'
<1>1. CASE UNCHANGED machineVars
  BY <1>1 DEF StepsOfLeaf, machineVars
<1>2. ASSUME NEW s, NEW force, Enter(s, force) PROVE StepsOfLeaf'
  BY <1>2 DEF Enter, EntryOf, StepsOfLeaf
<1>3. CASE EntryAction
  <2> USE DEF StepsOfLeaf, Goto
  <2>1. CASE EnterCancel \/ EnterRestore \/ EnterRead \/ EnterDecide \/ DriveGiveUp
    BY <2>1 DEF EnterCancel, EnterRestore, EnterRead, EnterDecide, DriveGiveUp
  <2>2. CASE StandbyResync \/ ShutLock \/ ShutForced \/ ShutForcedRestore \/ HopOnLock
    BY <2>2 DEF StandbyResync, ShutLock, ShutForced, ShutForcedRestore, HopOnLock
  <2>3. CASE ExitCancel \/ ExitRestore
    BY <2>3 DEF ExitCancel, ExitRestore
  <2>4. CASE ExitRelease
    BY <1>2, <2>4 DEF ExitRelease
  <2> QED
    BY <1>3, <2>1, <2>2, <2>3, <2>4 DEF EntryAction
<1>4. CASE Dispatch
  <2>1. CASE state = "HopOn" /\ state' = "HopOn" /\ pc' = "exitCancel"
    BY <2>1 DEF StepsOfLeaf
  <2> QED
    BY <1>2, <1>4, <2>1, DispatchEffect
<1> QED
  BY <1>1, <1>3, <1>4, MachineCases

(* Failing writes are never taken back.                                    *)
LEMMA FaultsStay ==
  ASSUME WorkTypes, CountTypes, [Next]_vars
  PROVE  /\ faults' = faults \/ faults' = faults + 1
         /\ faults' = 0 => faults = 0
<1>1. faults' = faults \/ faults' = faults + 1
  <2>1. ASSUME NEW w \in Workers, WorkerStep(w) PROVE faults' = faults \/ faults' = faults + 1
    <3>1. CASE Pulse(w)
      BY <3>1 DEF Pulse, PulseClose, PulseOpen, Rollback, CoastClose, CoastLast, CoastOpen,
                  Written, NotWritten
    <3> QED
      BY <2>1, <3>1, WorkerKeepsBody DEF coilVars
  <2> QED
    BY <2>1, OthersSpare DEF coilVars
<1> QED
  BY <1>1 DEF CountTypes

(* Every step keeps the workers employed.                                  *)
LEMMA EmployedStep ==
  ASSUME WorkTypes, CountTypes, Employed, [Next]_vars
  PROVE  Employed'
<1>1. faults' = 0 => faults = 0
  BY FaultsStay
<1>2. ASSUME NEW w \in Workers, Fits(workers'[w]), workers'[w].pc \notin {"rollback", "coastLast"},
             \A v \in Workers \ {w} : /\ workers'[v].pc = workers[v].pc
                                       /\ workers'[v].kind = workers[v].kind
      PROVE  Employed'
  BY <1>1, <1>2 DEF Employed, Fits, Closing
<1>3. CASE UNCHANGED workers
  BY <1>1, <1>3 DEF Employed, Fits, Closing
<1>4. CASE CancelUnlock
  BY <1>1, <1>4, UnlockCancelled DEF Employed, Fits, Closing
<1>5. ASSUME NEW w \in Idle, UnlockHandlebar(w) PROVE Employed'
  <2>1. w \in Workers
    BY DEF Idle
  <2>2. Fits(workers'[w]) /\ workers'[w].pc \notin {"rollback", "coastLast"}
    BY <1>5, <2>1, UnlockEffect DEF Fits, ServiceSteps
  <2> QED
    BY <1>2, <1>5, <2>1, <2>2, UnlockEffect
<1>6. ASSUME NEW w \in Idle, NEW kind \in Kinds, NEW step, NEW of, Hired(w, kind, step, of),
             \/ step \in {"check", "close"}
             \/ step \in {"svcCancel", "svcRelock"} /\ kind = "service"
      PROVE  Employed'
  <2>1. w \in Workers
    BY DEF Idle
  <2>2. Fits(workers'[w]) /\ workers'[w].pc \notin {"rollback", "coastLast"}
    BY <1>6, <2>1, HireEffect DEF Fits, ServiceSteps, Kinds
  <2> QED
    BY <1>2, <1>6, <2>1, <2>2, HireEffect
<1>7. ASSUME NEW w \in Workers, WorkerStep(w) PROVE Employed'
  <2> DEFINE k == workers[w]
             n == workers'[w]
  <2>1. /\ Course(w)
        /\ \/ n.pc = "idle" /\ n = IdleWorker
           \/ /\ n.pc # "idle" /\ n.kind = k.kind
              /\ n.of = k.of /\ n.open = k.open
        /\ \A v \in Workers \ {w} : workers'[v] = workers[v]
    BY <1>7, WorkerEffect
  <2>2. Fits(k)
    BY DEF Employed
  <2>3. Ended(k) \in {"cleanup", "idle"} /\ (Ended(k) = "cleanup" => Closing(k))
    BY DEF Ended
  <2>4. Fits(n)
    <3>1. k.pc # "idle"
      BY <2>1 DEF Course, PulseSteps
    <3>2. n.pc \in {"cleanup", "restore"} => Closing(k)
      BY <2>1, <2>3 DEF Course, Closing, PulseSteps
    <3>3. n.pc \in ServiceSteps => k.kind = "service"
      BY <2>1, <2>2, <2>3 DEF Course, PulseSteps, ServiceSteps, Fits
    <3>4. n.kind = "none" <=> n.pc = "idle"
      BY <2>1, <2>2, <3>1 DEF Fits, IdleWorker
    <3> QED
      BY <2>1, <3>2, <3>3, <3>4 DEF Fits, Closing, ServiceSteps
  <2>5. faults' = 0 => n.pc \notin {"rollback", "coastLast"}
    <3>1. faults' = faults + 1 => faults' # 0
      BY DEF CountTypes
    <3> QED
      BY <2>1, <2>3, <3>1 DEF Course
  <2> QED
    BY <1>1, <2>1, <2>4, <2>5 DEF Employed
<1> QED
  BY <1>3, <1>4, <1>5, <1>6, <1>7, WorkCases DEF Kinds

(* A step that opens no attempt lets them fade.                            *)
LEMMA FadeOrLock ==
  ASSUME LockTypes, [Next]_vars
  PROVE  \/ Fading
         \/ Locks /\ (ShutLock \/ HopOnLock \/ LockAfterDecline \/ \E w \in Workers : ServiceRelock(w))
<1>1. CASE UNCHANGED <<attempts, count>>
  BY <1>1 DEF Fading
<1>2. UNCHANGED lockVars \/ RestoreHandler => UNCHANGED <<attempts, count>>
  BY DEF lockVars, RestoreHandler
<1>3. ASSUME NEW w \in Workers, WorkerCleanup(w) PROVE UNCHANGED <<attempts, count>>
  BY <1>3 DEF WorkerCleanup
<1> QED
  BY <1>1, <1>2, <1>3, LockCases, CancelEffect, AttemptEffect, WindowEffect

(* Who forgets the current channel.                                        *)
LEMMA DoneCases ==
  ASSUME LockTypes, [Next]_vars, ~Locks
  PROVE  \/ done' = done
         \/ /\ done' = None
            /\ \/ CancelLock
               \/ \E a \in Attempts : AttemptExpires(a) /\ done = a
               \/ \E w \in Workers : WorkerCleanup(w) /\ done = workers[w].of
<1>1. UNCHANGED lockVars \/ RestoreHandler \/ WindowReached => done' = done
  BY DEF lockVars, RestoreHandler, WindowReached
<1>2. CancelLock => done' = None
  BY DEF CancelLock
<1>3. ASSUME NEW a \in Attempts, AttemptStep(a)
      PROVE  done' = done \/ (done' = None /\ AttemptExpires(a) /\ done = a)
  BY <1>3 DEF AttemptStep, AttemptStart, AttemptPlace, AttemptArm, AttemptRegister,
              AttemptLook, AttemptCancelled, AttemptFires, AttemptExpires, AttemptExpired
<1>4. ASSUME NEW w \in Workers, WorkerCleanup(w)
      PROVE  done' = done \/ (done' = None /\ done = workers[w].of)
  BY <1>4 DEF WorkerCleanup
<1> QED
  BY <1>1, <1>2, <1>3, <1>4, LockCases

(* Who takes the callback's place.                                         *)
LEMMA HandlerCases ==
  ASSUME LockTypes, [Next]_vars
  PROVE  \/ handler' = handler
         \/ handler' = None
         \/ \E a \in Attempts : /\ AttemptStep(a) /\ attempts[a].pc = "register"
                                /\ handler' = a /\ Wait(a, "look")
<1>1. UNCHANGED lockVars \/ CancelLock \/ RestoreHandler \/ WindowReached \/ Locks
        => handler' \in {handler, None}
  BY DEF lockVars, CancelLock, RestoreHandler, WindowReached, Locks, LockHandlebar
<1>2. ASSUME NEW a \in Attempts, AttemptStep(a)
      PROVE  handler' \in {handler, None} \/ (attempts[a].pc = "register" /\ handler' = a /\ Wait(a, "look"))
  BY <1>2 DEF AttemptStep, AttemptStart, AttemptPlace, AttemptArm, AttemptRegister,
              AttemptLook, AttemptCancelled, AttemptFires, AttemptExpires, AttemptExpired
<1>3. ASSUME NEW w \in Workers, WorkerCleanup(w) PROVE handler' = handler
  BY <1>3 DEF WorkerCleanup
<1> QED
  BY <1>1, <1>2, <1>3, LockCases

(* The current channel remains the last attempt's.                         *)
LEMMA CountedStep ==
  ASSUME LockTypes, Counted, [Next]_vars
  PROVE  Counted'
<1> USE DEF Counted
<1>1. CASE Locks
  <2>1. PICK hop \in BOOLEAN : LockHandlebar(hop)
    BY <1>1 DEF Locks
  <2>2. \A a \in Attempts : a > count' => a # count' /\ a > count
    BY <2>1, LockEffect DEF LockTypes, Attempts
  <2> QED
    BY <2>1, <2>2, LockEffect
<1>2. CASE ~Locks
  <2>1. Fading
    BY <1>2, FadeOrLock
  <2> QED
    BY <1>2, <2>1, DoneCases DEF Fading
<1> QED
  BY <1>1, <1>2

(* Before the first attempt all of them are new.                           *)
LEMMA FirstIsNew ==
  ASSUME LockTypes, Counted, count = 0
  PROVE  \A a \in Attempts : attempts[a].pc = "new"
  BY DEF Counted, LockTypes, Attempts

LateNext(a) == a \in Attempts /\ attempts'[a].pc \notin Early \cup {"new"}

(* Late attempts stay so: a new one is none of them.                       *)
LEMMA LateStays ==
  ASSUME LockTypes, Counted, [Next]_vars
  PROVE  \A a : Late(a) => LateNext(a)
<1>1. CASE Fading
  BY <1>1 DEF Fading, Late, LateNext
<1>2. ASSUME NEW hop \in BOOLEAN, LockHandlebar(hop) PROVE \A a : Late(a) => LateNext(a)
  <2>1. count' > count
    BY <1>2, LockEffect DEF LockTypes
  <2> QED
    BY <1>2, <2>1, LockEffect DEF Counted, Late, LateNext
<1> QED
  BY <1>1, <1>2, FadeOrLock DEF Locks

(* Windows and pulses belong to late attempts.                             *)
LEMMA RegisteredStep ==
  ASSUME LockTypes, WorkTypes, Counted, Registered, [Next]_vars
  PROVE  Registered'
<1>1. \A a : Late(a) => LateNext(a)
  BY LateStays
<1>2. handler' # None => LateNext(handler')
  <2>1. ASSUME NEW a \in Attempts, Wait(a, "look") PROVE LateNext(a)
    BY <2>1 DEF Wait, LateNext, Early, LockTypes, AttemptType
  <2> QED
    BY <1>1, <2>1, HandlerCases DEF Registered
<1>3. ASSUME NEW w \in Workers,
             \A v \in Workers \ {w} : workers'[v].kind = workers[v].kind /\ workers'[v].of = workers[v].of,
             Closing(workers'[w]) => LateNext(workers'[w].of)
      PROVE  Registered'
  <2>1. ASSUME NEW v \in Workers PROVE Closing(workers'[v]) => LateNext(workers'[v].of)
    BY <1>1, <1>3 DEF Registered, Closing
  <2> QED
    BY <1>2, <2>1 DEF Registered, Closing, Late, LateNext
<1>4. CASE UNCHANGED workers
  BY <1>1, <1>2, <1>4 DEF Registered, Closing, Late, LateNext
<1>5. CASE CancelUnlock
  BY <1>1, <1>2, <1>5, UnlockCancelled DEF Registered, Closing, Late, LateNext
<1>6. ASSUME NEW w \in Idle, UnlockHandlebar(w) PROVE Registered'
  <2>1. w \in Workers
    BY DEF Idle
  <2> QED
    BY <1>3, <1>6, <2>1, UnlockEffect DEF Closing
<1>7. ASSUME NEW w \in Idle, NEW kind, NEW step, NEW of, Hired(w, kind, step, of),
             kind \in {"lock", "direct"} => LateNext(of)
      PROVE  Registered'
  <2>1. w \in Workers
    BY DEF Idle
  <2>2. workers'[w].kind = kind /\ workers'[w].of = of
        /\ \A v \in Workers \ {w} : workers'[v] = workers[v]
    BY <1>7, <2>1, HireEffect
  <2> QED
    BY <1>3, <1>7, <2>1, <2>2 DEF Closing
<1>8. ASSUME NEW a \in Attempts, Wait(a, "over") PROVE LateNext(a)
  BY <1>8 DEF Wait, LateNext, Early, LockTypes, AttemptType
<1>9. handler # None => LateNext(handler)
  BY <1>1 DEF Registered
<1>10. ASSUME NEW w \in Workers, WorkerStep(w) PROVE Registered'
  <2>1. /\ \/ workers'[w] = IdleWorker
           \/ workers'[w].kind = workers[w].kind /\ workers'[w].of = workers[w].of
        /\ \A v \in Workers \ {w} : workers'[v] = workers[v]
    BY <1>10, WorkerEffect
  <2>2. Closing(workers'[w]) => LateNext(workers'[w].of)
    <3>1. CASE workers'[w] = IdleWorker
      BY <3>1 DEF Closing, IdleWorker
    <3>2. CASE workers'[w].kind = workers[w].kind /\ workers'[w].of = workers[w].of
      BY <1>1, <3>2 DEF Registered, Closing
    <3> QED
      BY <2>1, <3>1, <3>2
  <2> QED
    BY <1>3, <2>1, <2>2
<1> QED
  BY <1>4, <1>5, <1>6, <1>7, <1>8, <1>9, <1>10, WorkCases

(* An open attempt on its way is the current channel's.                    *)
LEMMA EarlyStep ==
  ASSUME LockTypes, Counted, EarlyHeld, Registered, Employed, [Next]_vars
  PROVE  EarlyHeld'
<1>1. CASE Locks
  BY <1>1, LockEffect DEF Locks, EarlyHeld
<1>2. CASE ~Locks
  <2> SUFFICES ASSUME NEW a \in Attempts, attempts'[a].open, attempts'[a].pc \in Early
               PROVE  done' = a
    BY DEF EarlyHeld
  <2>1. Fading
    BY <1>2, FadeOrLock
  <2>2. done = a /\ attempts[a].pc \in Early
    BY <2>1 DEF Fading, EarlyHeld
  <2>3. ~CancelLock
    BY <2>2, CancelEffect
  <2>4. ~AttemptExpires(a)
    BY <2>2 DEF AttemptExpires, Early
  <2>5. ASSUME NEW w \in Workers, WorkerCleanup(w) PROVE done # workers[w].of
    <3>1. Closing(workers[w])
      BY <2>5 DEF WorkerCleanup, Employed, Fits
    <3> QED
      BY <2>2, <3>1 DEF Registered, Late
  <2> QED
    BY <1>2, <2>2, <2>3, <2>4, <2>5, DoneCases
<1> QED
  BY <1>1, <1>2

(* Until the decision after a declined restore nobody else works.          *)
LEMMA PendingStep ==
  ASSUME Types, Books, [Next]_vars
  PROVE  PendingFirst'
<1> USE DEF Books, Types
<1> SUFFICES ASSUME pending'
             PROVE  /\ state' = "Standby" /\ pc' \in {"resync", "idle"} /\ count' = 0
                    /\ \A w \in Workers : workers'[w].pc = "idle"
  BY DEF PendingFirst
<1>1. ASSUME NEW w \in Workers, WorkerStep(w) PROVE UNCHANGED pending
  BY <1>1, WorkerKeepsBody
<1>2. pending
  <2>1. ASSUME NEW a \in Attempts, AttemptStep(a) PROVE UNCHANGED pending
    BY <2>1, AttemptKeepsBody DEF flagVars
  <2>2. CASE BarMoves \/ BoltMoves \/ SensorEdge \/ PositionSeen \/ PositionLeft \/ PositionReached \/ WindowReached
    BY <2>2 DEF BarMoves, BoltMoves, SensorEdge, PositionSeen, PositionLeft, PositionReached, WindowReached,
                Delivered, flagVars
  <2>3. CASE Dispatch \/ LockAfterDecline \/ OperatorPulse \/ ServiceMode \/ UNCHANGED vars
    BY <2>3 DEF Dispatch, LockAfterDecline, OperatorPulse, ServiceMode, vars, flagVars
  <2> QED
    BY <1>1, <2>1, <2>2, <2>3, EntryKeepsBody DEF Next
<1>3. /\ state = "Standby" /\ pc \in {"resync", "idle"} /\ count = 0
      /\ \A w \in Workers : workers[w].pc = "idle"
  BY <1>2 DEF PendingFirst
<1>4. ~LockAfterDecline /\ ~Dispatch /\ ~OperatorPulse /\ ~ServiceMode
  BY <1>2 DEF LockAfterDecline, Dispatch, OperatorPulse, ServiceMode
<1>5. ASSUME NEW w \in Workers PROVE ~WorkerStep(w)
  BY <1>3, WorkerEffect DEF Course, PulseSteps
<1>6. EntryAction => StandbyResync
  BY <1>3 DEF EntryAction, EnterCancel, EnterRestore, EnterRead, EnterDecide, DriveGiveUp,
              ShutLock, ShutForced, ShutForcedRestore, HopOnLock, ExitCancel, ExitRestore,
              ExitRelease
<1>7. state' = "Standby" /\ pc' \in {"resync", "idle"}
  <2>1. StandbyResync => state' = state /\ pc' = "idle"
    BY DEF StandbyResync, Goto
  <2> QED
    BY <1>3, <1>4, <1>6, <2>1, MachineCases DEF machineVars
<1>8. count' = 0
  <2>1. ~ShutLock /\ ~HopOnLock /\ \A w \in Workers : ~ServiceRelock(w)
    BY <1>3 DEF ShutLock, HopOnLock, ServiceRelock
  <2> QED
    BY <1>3, <1>4, <2>1, FadeOrLock DEF Fading
<1>9. \A w \in Workers : workers'[w].pc = "idle"
  <2>1. \A a \in Attempts : attempts[a].pc = "new"
    BY <1>3, FirstIsNew
  <2>2. handler = None /\ \A a \in Attempts : ~AttemptPlace(a)
    BY <2>1 DEF Registered, Late, AttemptPlace
  <2>3. ~EnterDecide /\ ~ExitRelease
    BY <1>3 DEF EnterDecide, ExitRelease
  <2>4. PositionReached => UNCHANGED workers
    BY <1>3 DEF PositionReached
  <2> QED
    BY <1>3, <1>4, <1>5, <2>2, <2>3, <2>4, UnlockCancelled, WorkCases
<1> QED
  BY <1>3, <1>7, <1>8, <1>9

(* The books are in order after a boot.                                    *)
LEMMA BooksInit == Init => Books
<1> SUFFICES ASSUME Init PROVE Books
  OBVIOUS
<1>1. Types
  BY TypesInit
<1>2. StepsOfLeaf
  BY DEF Init, EntryOf, StepsOfLeaf
<1>3. Employed /\ Registered /\ PendingFirst
  BY DEF Init, Employed, Fits, ServiceSteps, Registered, IdleWorker, Closing, PendingFirst, EntryOf
<1>4. Counted /\ EarlyHeld
  BY DEF Init, Counted, EarlyHeld, NewAttempt, Early
<1> QED
  BY <1>2, <1>3, <1>4 DEF Books

(* And every step leaves them so.                                          *)
LEMMA BooksStep ==
  ASSUME Types, Books, [Next]_vars
  PROVE  Books'
<1>1. StepsOfLeaf' /\ Employed' /\ Counted'
  BY LeafStep, EmployedStep, CountedStep DEF Types, Books
<1>2. EarlyHeld' /\ Registered' /\ PendingFirst'
  BY EarlyStep, RegisteredStep, PendingStep DEF Types, Books
<1> QED
  BY <1>1, <1>2 DEF Books

-----------------------------------------------------------------------------
(* As long as no write fails, a side under current has a worker of its     *)
(* kind between switching on and switching off.                            *)
Powered ==
  faults = 0 =>
    /\ coil.close => \E w \in Workers : /\ workers[w].kind \in LockKinds
                                        /\ workers[w].pc \in {"open", "coastClose"}
    /\ coil.open => \E w \in Workers : /\ workers[w].kind \notin LockKinds
                                       /\ workers[w].pc \in {"coastClose", "coastOpen"}

(* Whoever is at work is left to it by everybody else.                     *)
LEMMA OthersLeave ==
  ASSUME WorkTypes, [Next]_vars, NEW w \in Workers, workers[w].pc # "idle", ~WorkerStep(w)
  PROVE  /\ workers'[w].pc = workers[w].pc
         /\ workers'[w].kind = workers[w].kind
         /\ workers'[w].of = workers[w].of
<1>1. ASSUME NEW v \in Idle PROVE v \in Workers /\ v # w
  BY <1>1 DEF Idle, Busy
<1>2. ASSUME NEW v \in Idle, UnlockHandlebar(v)
      PROVE  /\ workers'[w].pc = workers[w].pc
             /\ workers'[w].kind = workers[w].kind
             /\ workers'[w].of = workers[w].of
  BY <1>1, <1>2, UnlockEffect
<1>3. ASSUME NEW v \in Idle, NEW kind, NEW step, NEW of, Hired(v, kind, step, of)
      PROVE  workers'[w] = workers[w]
  BY <1>1, <1>3, HireEffect
<1>4. CASE CancelUnlock
  BY <1>4, UnlockCancelled
<1>5. ASSUME NEW v \in Workers, WorkerStep(v) PROVE workers'[w] = workers[w]
  BY <1>5, WorkerEffect
<1> QED
  BY <1>2, <1>3, <1>4, <1>5, WorkCases

(* What a worker writes when no write fails.                               *)
LEMMA PulseWrites ==
  ASSUME WorkTypes, BodyTypes, CountTypes, NEW w \in Workers, WorkerStep(w), faults' = 0,
         workers[w].pc \notin {"rollback", "coastLast"}
  PROVE  LET k == workers[w]
             n == workers'[w].pc IN
         \/ /\ k.pc = "close" /\ n = "open"
            /\ coil' = [coil EXCEPT !.close = (k.kind \in LockKinds)]
         \/ /\ k.pc = "open" /\ n = "coastClose"
            /\ coil' = [coil EXCEPT !.open = (k.kind \notin LockKinds)]
         \/ k.pc = "coastClose" /\ n = "coastOpen" /\ coil' = [coil EXCEPT !.close = FALSE]
         \/ k.pc = "coastOpen" /\ coil' = [coil EXCEPT !.open = FALSE]
         \/ k.pc \notin PulseSteps /\ coil' = coil
<1> DEFINE k == workers[w]
           n == workers'[w].pc
<1>1. faults' # faults + 1
  BY DEF CountTypes
<1>2. CASE ~Pulse(w)
  <2>1. k.pc \notin PulseSteps
    BY <1>2 DEF WorkerStep, Pulse, PulseSteps, WorkerCheck, WorkerChecked, WorkerVerify,
                WorkerCleanup, WorkerRestore, ServiceCancel, ServiceRestore, ServiceLatch,
                ServiceRelock
  <2> QED
    BY <1>2, <2>1, WorkerKeepsBody DEF coilVars
<1>3. CASE PulseClose(w)
  <2>1. /\ k.pc = "close" /\ Step(w, "open")
        /\ coil' = [coil EXCEPT !.close = (k.kind \in LockKinds)]
    BY <1>1, <1>3 DEF PulseClose, Written, NotWritten
  <2> QED
    BY <2>1, StepEffect
<1>4. CASE PulseOpen(w)
  <2>1. /\ k.pc = "open" /\ Step(w, "coastClose")
        /\ coil' = [coil EXCEPT !.open = (k.kind \notin LockKinds)]
    BY <1>1, <1>4 DEF PulseOpen, Written, NotWritten
  <2> QED
    BY <2>1, StepEffect
<1>5. CASE CoastClose(w)
  <2>1. k.pc = "coastClose" /\ Step(w, "coastOpen") /\ coil' = [coil EXCEPT !.close = FALSE]
    BY <1>1, <1>5 DEF CoastClose, Written, NotWritten
  <2> QED
    BY <2>1, StepEffect
<1>6. CASE CoastOpen(w)
  BY <1>1, <1>6 DEF CoastOpen, Written, NotWritten
<1>7. CASE Rollback(w) \/ CoastLast(w)
  BY <1>7 DEF Rollback, CoastLast
<1> QED
  BY <1>2, <1>3, <1>4, <1>5, <1>6, <1>7 DEF Pulse

(* Every step keeps current and worker together.                           *)
LEMMA PoweredStep ==
  ASSUME Types, Employed, Powered, [Next]_vars
  PROVE  Powered'
<1> USE DEF Types
<1> SUFFICES ASSUME faults' = 0
             PROVE  /\ coil'.close => \E w \in Workers : /\ workers'[w].kind \in LockKinds
                                                         /\ workers'[w].pc \in {"open", "coastClose"}
                    /\ coil'.open => \E w \in Workers : /\ workers'[w].kind \notin LockKinds
                                                        /\ workers'[w].pc \in {"coastClose", "coastOpen"}
  BY DEF Powered
<1>1. faults = 0
  BY FaultsStay
<1>2. coil.close => \E w \in Workers : /\ workers[w].kind \in LockKinds
                                       /\ workers[w].pc \in {"open", "coastClose"}
  BY <1>1 DEF Powered
<1>3. coil.open => \E w \in Workers : /\ workers[w].kind \notin LockKinds
                                      /\ workers[w].pc \in {"coastClose", "coastOpen"}
  BY <1>1 DEF Powered
<1>4. CASE ~\E w \in Workers : WorkerStep(w)
  <2>1. coil' = coil
    BY <1>4, OthersSpare DEF coilVars
  <2>2. \A w \in Workers : workers[w].pc # "idle" =>
          workers'[w].pc = workers[w].pc /\ workers'[w].kind = workers[w].kind
    BY <1>4, OthersLeave
  <2> QED
    BY <1>2, <1>3, <2>1, <2>2
<1>5. ASSUME NEW w \in Workers, WorkerStep(w)
      PROVE  /\ coil'.close => \E v \in Workers : /\ workers'[v].kind \in LockKinds
                                                  /\ workers'[v].pc \in {"open", "coastClose"}
             /\ coil'.open => \E v \in Workers : /\ workers'[v].kind \notin LockKinds
                                                 /\ workers'[v].pc \in {"coastClose", "coastOpen"}
  <2> DEFINE k == workers[w]
             n == workers'[w]
             wanted == k.kind \in LockKinds
             other  == k.kind \notin LockKinds
  <2>1. \A v \in Workers \ {w} : workers'[v] = workers[v]
    BY <1>5, WorkerEffect
  <2>2. n.pc # "idle" => n.kind = k.kind
    BY <1>5, WorkerEffect
  <2>3. k.pc \notin {"rollback", "coastLast"}
    BY <1>1 DEF Employed
  <2>4. coil \in [close : BOOLEAN, open : BOOLEAN]
    BY DEF BodyTypes
  <2>5. \/ k.pc = "close" /\ n.pc = "open" /\ coil' = [coil EXCEPT !.close = wanted]
        \/ k.pc = "open" /\ n.pc = "coastClose" /\ coil' = [coil EXCEPT !.open = other]
        \/ k.pc = "coastClose" /\ n.pc = "coastOpen" /\ coil' = [coil EXCEPT !.close = FALSE]
        \/ k.pc = "coastOpen" /\ coil' = [coil EXCEPT !.open = FALSE]
        \/ k.pc \notin PulseSteps /\ coil' = coil
    BY <1>5, <2>3, PulseWrites
  <2>6. (wanted <=> k.kind \in LockKinds) /\ (other <=> k.kind \notin LockKinds)
    OBVIOUS
  <2> HIDE DEF wanted, other
  <2>7. CASE k.pc = "close" /\ n.pc = "open" /\ coil' = [coil EXCEPT !.close = wanted]
    <3>1. coil'.close = wanted /\ coil'.open = coil.open
      BY <2>4, <2>7
    <3> QED
      BY <1>3, <2>1, <2>2, <2>6, <2>7, <3>1
  <2>8. CASE k.pc = "open" /\ n.pc = "coastClose" /\ coil' = [coil EXCEPT !.open = other]
    <3>1. coil'.open = other /\ coil'.close = coil.close
      BY <2>4, <2>8
    <3> QED
      BY <1>2, <2>1, <2>2, <2>6, <2>8, <3>1
  <2>9. CASE k.pc = "coastClose" /\ n.pc = "coastOpen" /\ coil' = [coil EXCEPT !.close = FALSE]
    <3>1. coil'.close = FALSE /\ coil'.open = coil.open
      BY <2>4, <2>9
    <3> QED
      BY <1>3, <2>1, <2>2, <2>9, <3>1
  <2>10. CASE k.pc = "coastOpen" /\ coil' = [coil EXCEPT !.open = FALSE]
    <3>1. coil'.open = FALSE /\ coil'.close = coil.close
      BY <2>4, <2>10
    <3> QED
      BY <1>2, <2>1, <2>10, <3>1
  <2>11. CASE k.pc \notin PulseSteps /\ coil' = coil
    BY <1>2, <1>3, <2>1, <2>11 DEF PulseSteps
  <2> QED
    BY <2>5, <2>7, <2>8, <2>9, <2>10, <2>11
<1> QED
  BY <1>4, <1>5

-----------------------------------------------------------------------------
(* A parked bar is free.                                                   *)

(* The exceptions of ParkedIsFree.                                         *)
Unexcused == ~relock /\ "lock" \notin asked /\ faults = 0

(* From its cancel on, Parked has no open attempt on its way, and from the *)
(* look at the sensor on no window that is open.                           *)
ParkedClosed ==
  state = "Parked" =>
    /\ pc # "cancel" => \A a \in Attempts : attempts[a].pc \in Early => ~attempts[a].open
    /\ pc \notin {"cancel", "restore"} => (handler = None \/ ~attempts[handler].open)

(* The lock work that still comes finds its channel closed.                *)
Harmless(k) == k.kind = "direct" /\ ~attempts[k.of].open /\ k.pc \in {"check", "cleanup"}

(* After the look nobody locks, and a locked bar has a loop that unlocks.  *)
ParkedUnlocks ==
  (state = "Parked" /\ pc \in {"decide", "idle"} /\ Unexcused) =>
    /\ \A w \in Workers : workers[w].kind \in LockKinds => Harmless(workers[w])
    /\ (pc = "decide" /\ bolt) => ~unlocked
    /\ (pc = "idle" /\ bolt) => \E w \in Workers : workers[w].kind = "unlock" /\ workers[w].open

(* Which steps write the histories, the bolt and what is read of it.       *)
LEMMA BodyCases ==
  ASSUME [Next]_vars
  PROVE  /\ bolt' = bolt \/ (BoltMoves /\ UNCHANGED <<workers, latch, unlocked>>)
         /\ unlocked' = unlocked \/ unlocked' = ~bolt
         /\ relock' = relock \/ EntryAction \/ Dispatch
         /\ asked \subseteq asked'
<1>1. CASE EntryAction
  BY <1>1, EntryKeepsBody DEF bodyVars
<1>2. CASE Dispatch \/ LockAfterDecline \/ UNCHANGED vars
  BY <1>2 DEF Dispatch, LockAfterDecline, vars, bodyVars, flagVars
<1>3. ASSUME NEW a \in Attempts, AttemptStep(a)
      PROVE  UNCHANGED <<bolt, unlocked, relock, asked>>
  BY <1>3, AttemptKeepsBody DEF bodyVars, flagVars
<1>4. CASE BarMoves \/ SensorEdge \/ PositionSeen \/ PositionLeft \/ PositionReached \/ WindowReached
  BY <1>4 DEF BarMoves, SensorEdge, PositionSeen, PositionLeft, PositionReached, WindowReached, Delivered,
              bodyVars, flagVars
<1>5. CASE BoltMoves
  BY <1>5 DEF BoltMoves, flagVars
<1>6. ASSUME NEW w \in Workers, WorkerStep(w)
      PROVE  /\ UNCHANGED <<bolt, relock, asked>>
             /\ unlocked' = unlocked \/ unlocked' = ~bolt
  BY <1>6, WorkerKeepsBody DEF WorkerVerify, ServiceLatch
<1>7. CASE OperatorPulse \/ ServiceMode
  BY <1>7 DEF OperatorPulse, ServiceMode, Request, bodyVars, flagVars
<1> QED
  BY <1>1, <1>2, <1>3, <1>4, <1>5, <1>6, <1>7 DEF Next

(* Only shutting down, hop-on and stand-by lock.                           *)
LEMMA LocksInLeaves ==
  ASSUME Types, Books, [Next]_vars,
         state \notin {"ShuttingDown", "HopOn", "Standby"}
  PROVE  Fading
<1>1. ~ShutLock /\ ~HopOnLock
  BY DEF ShutLock, HopOnLock, Books, StepsOfLeaf
<1>2. ~LockAfterDecline
  BY DEF LockAfterDecline, Books, PendingFirst
<1>3. ASSUME NEW w \in Workers, ServiceRelock(w) PROVE Fading
  BY <1>3 DEF ServiceRelock, lockVars, Fading
<1> QED
  BY <1>1, <1>2, <1>3, FadeOrLock DEF Types

(* How Parked is entered, and where its entry action goes.                 *)
LEMMA ParkedMoves ==
  ASSUME Types, Books, [Next]_vars, state' = "Parked"
  PROVE  \/ pc' = "cancel"
         \/ state = "Parked" /\ EnterCancel /\ pc = "cancel" /\ pc' = "restore"
         \/ state = "Parked" /\ EnterRestore /\ pc = "restore" /\ pc' = "read"
         \/ state = "Parked" /\ EnterRead /\ pc = "read" /\ pc' = "decide"
         \/ state = "Parked" /\ EnterDecide /\ pc = "decide" /\ pc' = "idle"
         \/ state = "Parked" /\ pc' = pc /\ relock' = relock
<1>1. CASE EntryAction
  <2>1. CASE EnterCancel \/ EnterRestore \/ EnterRead \/ EnterDecide
    BY <2>1 DEF EnterCancel, EnterRestore, EnterRead, EnterDecide, Goto
  <2>2. CASE DriveGiveUp \/ StandbyResync \/ ShutLock
    BY <2>2 DEF DriveGiveUp, StandbyResync, ShutLock, Goto, Books, StepsOfLeaf
  <2>3. CASE ShutForced \/ ShutForcedRestore \/ HopOnLock \/ ExitCancel \/ ExitRestore
    BY <2>3 DEF ShutForced, ShutForcedRestore, HopOnLock, ExitCancel, ExitRestore, Goto, Books,
                StepsOfLeaf
  <2>4. CASE ExitRelease
    BY <2>4 DEF ExitRelease, Enter, EntryOf
  <2> QED
    BY <1>1, <2>1, <2>2, <2>3, <2>4 DEF EntryAction
<1>2. CASE Dispatch
  BY <1>2, DispatchEffect DEF Enter, EntryOf
<1>3. CASE UNCHANGED machineVars /\ ~EntryAction /\ ~Dispatch
  BY <1>3, BodyCases DEF machineVars
<1> QED
  BY <1>1, <1>2, <1>3, MachineCases

(* What Parked has closed stays closed.                                    *)
LEMMA ParkedClosedStep ==
  ASSUME Types, Books, ParkedClosed, [Next]_vars
  PROVE  ParkedClosed'
<1> USE DEF Types, Books
<1> SUFFICES ASSUME state' = "Parked", pc' # "cancel"
             PROVE  /\ \A a \in Attempts : attempts'[a].pc \in Early => ~attempts'[a].open
                    /\ pc' # "restore" => (handler' = None \/ ~attempts'[handler'].open)
  BY DEF ParkedClosed
<1>1. CASE state = "Parked" /\ EnterCancel /\ pc' = "restore"
  <2>1. CancelLock
    BY <1>1 DEF EnterCancel
  <2> QED
    BY <1>1, <2>1, CancelEffect DEF EarlyHeld
<1>2. CASE state = "Parked" /\ pc # "cancel"
  <2>1. Fading
    BY <1>2, LocksInLeaves
  <2>2. \A a \in Attempts : attempts[a].pc \in Early => ~attempts[a].open
    BY <1>2 DEF ParkedClosed
  <2>3. \A a \in Attempts : attempts'[a].pc \in Early => ~attempts'[a].open
    BY <2>1, <2>2 DEF Fading
  <2>4. CASE pc = "restore" /\ pc' = "restore"
    BY <2>3, <2>4
  <2>5. CASE EnterRestore
    BY <2>3, <2>5 DEF EnterRestore, RestoreHandler
  <2>6. CASE pc # "restore"
    <3>1. handler = None \/ ~attempts[handler].open
      BY <1>2, <2>6 DEF ParkedClosed
    <3>2. CASE handler' = handler \/ handler' = None
      BY <2>1, <2>3, <3>1, <3>2 DEF Fading, LockTypes
    <3>3. ASSUME NEW a \in Attempts, attempts[a].pc = "register", handler' = a
          PROVE  ~attempts'[handler'].open
      BY <2>1, <2>2, <3>3 DEF Fading, Early
    <3> QED
      BY <2>3, <3>2, <3>3, HandlerCases
  <2> QED
    BY <1>2, <2>4, <2>5, <2>6, ParkedMoves
<1> QED
  BY <1>1, <1>2, ParkedMoves

(* Lock work that comes too late ends without a pulse.                     *)
LEMMA HarmlessStays ==
  ASSUME Types, Books, ParkedClosed, [Next]_vars, Fading,
         state = "Parked", pc \in {"decide", "idle"}, "lock" \notin asked',
         \A w \in Workers : workers[w].kind \in LockKinds => Harmless(workers[w])
  PROVE  \A w \in Workers : workers'[w].kind \in LockKinds =>
           /\ workers'[w].kind = "direct" /\ workers'[w].pc \in {"check", "cleanup"}
           /\ ~attempts'[workers'[w].of].open
<1> USE DEF Types, Books
<1> DEFINE Goal(w) == workers'[w].kind \in LockKinds =>
             /\ workers'[w].kind = "direct" /\ workers'[w].pc \in {"check", "cleanup"}
             /\ ~attempts'[workers'[w].of].open
<1>1. ASSUME NEW w \in Workers,
             /\ workers'[w].pc = workers[w].pc
             /\ workers'[w].kind = workers[w].kind
             /\ workers'[w].of = workers[w].of
      PROVE  Goal(w)
  <2>1. CASE workers[w].kind \in LockKinds
    <3>1. Harmless(workers[w]) /\ workers[w].of \in Attempts
      BY <2>1 DEF Harmless, Registered, Late, Closing
    <3> QED
      BY <1>1, <3>1 DEF Harmless, Fading
  <2> QED
    BY <1>1, <2>1
<1>2. ASSUME NEW w \in Workers, workers'[w].kind \notin LockKinds PROVE Goal(w)
  BY <1>2
<1>3. ASSUME NEW v \in Workers, Goal(v),
             \A w \in Workers \ {v} : /\ workers'[w].pc = workers[w].pc
                                       /\ workers'[w].kind = workers[w].kind
                                       /\ workers'[w].of = workers[w].of
      PROVE  \A w \in Workers : Goal(w)
  <2> HIDE DEF Goal
  <2> QED
    BY <1>1, <1>3
<1>4. ASSUME NEW v \in Idle, UnlockHandlebar(v) PROVE \A w \in Workers : Goal(w)
  <2>1. v \in Workers /\ "unlock" \notin LockKinds
    BY DEF Idle, LockKinds
  <2> HIDE DEF Goal
  <2> QED
    BY <1>4, <1>2, <1>3, <2>1, UnlockEffect
<1>5. ASSUME NEW v \in Idle, NEW kind, NEW step, NEW of, Hired(v, kind, step, of),
             kind \notin LockKinds
      PROVE  \A w \in Workers : Goal(w)
  <2>1. v \in Workers
    BY DEF Idle
  <2>2. workers'[v].kind = kind /\ \A w \in Workers \ {v} : workers'[w] = workers[w]
    BY <1>5, <2>1, HireEffect
  <2> HIDE DEF Goal
  <2> QED
    BY <1>5, <1>2, <1>3, <2>1, <2>2
<1>6. ASSUME NEW v \in Idle, NEW a \in Attempts, Hired(v, "direct", "check", a), AttemptPlace(a)
      PROVE  \A w \in Workers : Goal(w)
  <2>1. v \in Workers
    BY DEF Idle
  <2>2. ~attempts'[a].open
    BY <1>6 DEF AttemptPlace, ParkedClosed, Early, Fading
  <2>3. Goal(v)
    <3>1. /\ workers'[v].kind = "direct" /\ workers'[v].pc = "check" /\ workers'[v].of = a
      BY <1>6, <2>1, HireEffect
    <3> QED
      BY <2>2, <3>1
  <2>4. \A w \in Workers \ {v} : workers'[w] = workers[w]
    BY <1>6, <2>1, HireEffect
  <2> HIDE DEF Goal
  <2> QED
    BY <1>3, <2>1, <2>3, <2>4
<1>7. handler = None \/ ~attempts[handler].open
  BY DEF ParkedClosed
<1>8. ASSUME NEW v \in Workers, WorkerStep(v) PROVE \A w \in Workers : Goal(w)
  <2> DEFINE k == workers[v]
             n == workers'[v]
  <2>1. /\ Course(v)
        /\ n = IdleWorker \/ (n.kind = k.kind /\ n.of = k.of)
        /\ \A w \in Workers \ {v} : workers'[w] = workers[w]
    BY <1>8, WorkerEffect
  <2>2. Goal(v)
    <3>1. CASE n = IdleWorker
      BY <3>1 DEF IdleWorker, LockKinds
    <3>2. CASE n.kind = k.kind /\ n.of = k.of /\ k.kind \in LockKinds /\ n # IdleWorker
      <4>1. Harmless(k) /\ k.of \in Attempts
        BY <3>2 DEF Harmless, Registered, Late, Closing
      <4>2. ~MayPulse(k) /\ Ended(k) = "cleanup"
        BY <4>1 DEF Harmless, MayPulse, Closing, Ended
      <4>3. n.pc # "idle"
        BY <1>8, <3>2, WorkerEffect
      <4>4. n.pc = "cleanup"
        BY <2>1, <4>1, <4>2, <4>3 DEF Course, Harmless, PulseSteps
      <4> QED
        BY <3>2, <4>1, <4>4 DEF Harmless, Fading
    <3> QED
      BY <2>1, <3>1, <3>2
  <2> HIDE DEF Goal
  <2> QED
    BY <1>3, <2>1, <2>2
<1>9. ASSUME UNCHANGED workers PROVE \A w \in Workers : Goal(w)
  <2> HIDE DEF Goal
  <2> QED
    BY <1>1, <1>9
<1>10. ASSUME CancelUnlock PROVE \A w \in Workers : Goal(w)
  <2> HIDE DEF Goal
  <2> QED
    BY <1>1, <1>10, UnlockCancelled
<1>11. "release" \notin LockKinds /\ "opUnlock" \notin LockKinds /\ "service" \notin LockKinds
  BY DEF LockKinds
<1>12. \A w \in Workers : Goal(w)
  <2> HIDE DEF Goal
  <2> QED
    BY <1>4, <1>5, <1>6, <1>7, <1>8, <1>9, <1>10, <1>11, WorkCases
<1> QED
  BY <1>12

(* The loop of an unlock runs until the bolt is open.                      *)
LEMMA UnlockGoesOn ==
  ASSUME Types, Books, [Next]_vars, faults' = 0, bolt, state = "Parked", pc = "idle",
         NEW w \in Workers, workers[w].kind = "unlock", workers[w].open
  PROVE  \E v \in Workers : workers'[v].kind = "unlock" /\ workers'[v].open
<1> USE DEF Types, Books
<1> DEFINE k == workers[w]
<1>1. faults = 0 /\ faults' # faults + 1
  BY FaultsStay DEF CountTypes
<1>2. k.pc # "idle" /\ ~Closing(k)
  BY DEF Employed, Fits, Closing
<1>3. ASSUME NEW v \in Idle PROVE v \in Workers /\ v # w
  BY <1>2, <1>3 DEF Idle, Busy
<1>4. ASSUME NEW v \in Idle, UnlockHandlebar(v)
      PROVE  workers'[v].kind = "unlock" /\ workers'[v].open /\ v \in Workers
  BY <1>3, <1>4, UnlockEffect
<1>5. ASSUME NEW v \in Idle, NEW kind, NEW step, NEW of, Hired(v, kind, step, of)
      PROVE  workers'[w] = workers[w]
  BY <1>3, <1>5, HireEffect
<1>6. ~DriveGiveUp /\ ~StandbyResync /\ ~ShutLock /\ ~ShutForced
  BY DEF DriveGiveUp, StandbyResync, ShutLock, ShutForced
<1>7. ASSUME NEW v \in Workers, WorkerStep(v), v # w PROVE workers'[w] = workers[w]
  BY <1>7, WorkerEffect
<1>8. ASSUME WorkerStep(w) PROVE workers'[w].kind = "unlock" /\ workers'[w].open
  <2>1. Course(w)
    BY <1>8, WorkerEffect
  <2>2. MayPulse(k) /\ StillOpen(k) /\ TriesAgain(k) /\ k.kind \notin LockKinds
    BY <1>2 DEF MayPulse, StillOpen, TriesAgain, LockKinds
  <2>3. bolt # (k.kind \in LockKinds)
    BY <2>2
  <2>4. /\ k.pc \notin {"cleanup", "restore"} \cup ServiceSteps
        /\ k.pc \notin {"rollback", "coastLast"}
    BY <1>1, <1>2 DEF Employed, Fits
  <2>5. workers'[w].pc # "idle"
    BY <1>1, <2>1, <2>2, <2>3, <2>4 DEF Course, ServiceSteps
  <2> QED
    BY <1>8, <2>5, WorkerEffect
<1> QED
  BY <1>4, <1>5, <1>6, <1>7, <1>8, WorkCases

(* Every step keeps a parked bar on its way to be free.                    *)
LEMMA ParkedUnlocksStep ==
  ASSUME Types, Books, Powered, ParkedClosed, ParkedUnlocks, [Next]_vars
  PROVE  ParkedUnlocks'
<1> USE DEF Types, Books
<1> SUFFICES ASSUME state' = "Parked", pc' \in {"decide", "idle"},
                    ~relock', "lock" \notin asked', faults' = 0
             PROVE  /\ \A w \in Workers : workers'[w].kind \in LockKinds =>
                         /\ workers'[w].kind = "direct" /\ workers'[w].pc \in {"check", "cleanup"}
                         /\ ~attempts'[workers'[w].of].open
                    /\ (pc' = "decide" /\ bolt') => ~unlocked'
                    /\ (pc' = "idle" /\ bolt') =>
                         \E w \in Workers : workers'[w].kind = "unlock" /\ workers'[w].open
  BY DEF ParkedUnlocks, Unexcused, Harmless
<1>1. CASE EnterRead /\ pc' = "decide"
  <2>1. /\ UNCHANGED <<workers, attempts, bolt>> /\ unlocked' = ~bolt
        /\ relock' = (\E w \in Workers : Busy(w) /\ workers[w].kind \in LockKinds)
    BY <1>1 DEF EnterRead, OnlyLoop, bodyVars, lockVars
  <2>2. \A w \in Workers : workers[w].kind \in LockKinds => Busy(w)
    BY DEF Employed, Fits, LockKinds, Busy
  <2> QED
    BY <1>1, <2>1, <2>2
<1>2. CASE state = "Parked" /\ pc \in {"decide", "idle"} /\ relock' = relock
  <2>1. faults = 0 /\ "lock" \notin asked /\ ~relock
    BY <1>2, FaultsStay, BodyCases
  <2>2. /\ \A w \in Workers : workers[w].kind \in LockKinds => Harmless(workers[w])
        /\ (pc = "decide" /\ bolt) => ~unlocked
        /\ (pc = "idle" /\ bolt) => \E w \in Workers : workers[w].kind = "unlock" /\ workers[w].open
    BY <1>2, <2>1 DEF ParkedUnlocks, Unexcused
  <2>3. \A w \in Workers : workers'[w].kind \in LockKinds =>
          /\ workers'[w].kind = "direct" /\ workers'[w].pc \in {"check", "cleanup"}
          /\ ~attempts'[workers'[w].of].open
    BY <1>2, <2>2, LocksInLeaves, HarmlessStays
  <2>4. bolt' => bolt
    <3>1. ~coil.close
      BY <2>1, <2>2 DEF Powered, Harmless
    <3>2. BoltMoves => bolt' = coil.close
      BY DEF BoltMoves
    <3> QED
      BY <3>1, <3>2, BodyCases
  <2>5. (pc' = "decide" /\ bolt') => ~unlocked'
    <3>1. pc' = "decide" => pc = "decide"
      BY <1>2, ParkedMoves
    <3> QED
      BY <2>2, <2>4, <3>1, BodyCases
  <2>6. (pc = "idle" /\ bolt') => \E w \in Workers : workers'[w].kind = "unlock" /\ workers'[w].open
    BY <1>2, <2>2, <2>4, UnlockGoesOn
  <2>7. CASE EnterDecide /\ pc = "decide"
    <3>1. bolt' => \E w \in Idle : UnlockHandlebar(w)
      BY <2>2, <2>4, <2>7 DEF EnterDecide
    <3>2. \A w \in Idle : w \in Workers
      BY DEF Idle
    <3> QED
      BY <2>3, <2>5, <3>1, <3>2, UnlockEffect
  <2> QED
    BY <1>2, <2>3, <2>5, <2>6, <2>7, ParkedMoves
<1>3. EnterDecide => relock' = relock
  BY DEF EnterDecide
<1> QED
  BY <1>1, <1>2, <1>3, ParkedMoves

(* Whatever windows, loops and pulses of earlier states a parking rider    *)
(* cut short, at rest the bar is free: the entry of Parked leaves nobody   *)
(* behind that could still lock, and a loop that unlocks                   *)
(* (unlockHandlebarIfNeeded).                                              *)
THEOREM ParkedComesFree == Spec => []ParkedIsFree
<1> DEFINE IInv == Types /\ Books /\ Powered /\ ParkedClosed /\ ParkedUnlocks
<1>1. Init => IInv
  <2>1. Init => Powered /\ ParkedClosed /\ ParkedUnlocks
    BY DEF Init, EntryOf, Powered, ParkedClosed, ParkedUnlocks
  <2> QED
    BY <2>1, TypesInit, BooksInit
<1>2. IInv /\ [Next]_vars => IInv'
  BY TypesStep, BooksStep, PoweredStep, ParkedClosedStep, ParkedUnlocksStep DEF Books
<1>3. IInv => ParkedIsFree
  BY DEF ParkedIsFree, ParkedUnlocks, Quiet, Unexcused, Books, Employed, Fits, Busy, Types,
         CountTypes
<1> QED
  BY <1>1, <1>2, <1>3, PTL DEF Spec

-----------------------------------------------------------------------------
(* The latch of stand-by tells the truth.                                  *)

Unserviced == {"serviceOn", "serviceOff"} \cap asked = {}

(* Between switching on and the look at the sensor.                        *)
PulseToLook == {"open", "coastClose", "coastOpen", "checked", "verify"}

(* Service mode is never on by itself.                                     *)
Unserved == Unserviced => ~service /\ \A w \in Workers : workers[w].kind # "service"

(* Hop-on is not left for stand-by.  In stand-by nobody unlocks on its     *)
(* own account, and no lock work is stopped in its pulse.                  *)
StandbyWork ==
  /\ next # "Standby"
  /\ (state = "Standby" /\ Unserviced) =>
       \A w \in Workers :
         /\ workers[w].kind \notin {"unlock", "release"}
         /\ (Closing(workers[w]) /\ workers[w].pc \in PulseToLook \cup {"close"})
              => attempts[workers[w].of].open

(* A latch that differs from the bolt has somebody who will notice.        *)
Noticed(w) == workers[w].pc \in PulseToLook /\ (bolt <=> workers[w].kind \in LockKinds)

StandbyTold ==
  (state = "Standby" /\ pc = "idle" /\ Unserviced /\ faults = 0)
    => (latch = bolt \/ \E w \in Workers : Noticed(w))

(* The shutdown that leads to stand-by has outlasted the pulses.           *)
LEMMA StandbyEntered ==
  ASSUME Dispatch
  PROVE  /\ UNCHANGED <<lockVars, workers, service>>
         /\ state' = "Standby" => (state = "Standby" \/ ShutdownLasts)
         /\ next' # "Standby"
<1>1. PICK e \in ExtEvents : \E free \in SUBSET GuardsFor(state, e) :
        \E t \in Selected(state, e, TrueGuards(free)) :
          /\ e = "ShutdownTimeout" => ShutdownLasts
          /\ IF state = "HopOn" THEN next' = t.to /\ UNCHANGED state
             ELSE Enter(t.to, e = "ForceLock")
  BY DEF Dispatch
<1>2. PICK free \in SUBSET GuardsFor(state, e) :
        \E t \in Selected(state, e, TrueGuards(free)) :
          /\ e = "ShutdownTimeout" => ShutdownLasts
          /\ IF state = "HopOn" THEN next' = t.to /\ UNCHANGED state
             ELSE Enter(t.to, e = "ForceLock")
  BY <1>1
<1>3. PICK t \in Selected(state, e, TrueGuards(free)) :
        /\ e = "ShutdownTimeout" => ShutdownLasts
        /\ IF state = "HopOn" THEN next' = t.to /\ UNCHANGED state
           ELSE Enter(t.to, e = "ForceLock")
  BY <1>2
<1>4. t.to = "Standby" => (state = "ShuttingDown" /\ e = "ShutdownTimeout")
  BY SelectedStandby, SelectedStandbyEvent
<1>5. UNCHANGED <<lockVars, workers, service>>
  BY DEF Dispatch, flagVars
<1> QED
  BY <1>3, <1>4, <1>5 DEF Enter

(* How stand-by is entered, and what its entry action does.                *)
LEMMA StandbyMoves ==
  ASSUME Books, StandbyWork, [Next]_vars, state' = "Standby"
  PROVE  \/ Dispatch /\ ShutdownLasts /\ pc' = "resync"
         \/ state = "Standby" /\ StandbyResync /\ pc' = "idle"
         \/ state = "Standby" /\ UNCHANGED machineVars /\ ~EntryAction
<1>1. CASE EntryAction
  <2> USE DEF Books, StepsOfLeaf, Goto
  <2>1. CASE EnterCancel \/ EnterRestore \/ EnterRead \/ EnterDecide \/ DriveGiveUp
    BY <2>1 DEF EnterCancel, EnterRestore, EnterRead, EnterDecide, DriveGiveUp
  <2>2. CASE StandbyResync
    BY <2>2 DEF StandbyResync
  <2>3. CASE ShutLock \/ ShutForced \/ ShutForcedRestore \/ HopOnLock \/ ExitCancel \/ ExitRestore
    BY <2>3 DEF ShutLock, ShutForced, ShutForcedRestore, HopOnLock, ExitCancel, ExitRestore
  <2>4. CASE ExitRelease
    BY <2>4 DEF ExitRelease, Enter, StandbyWork
  <2> QED
    BY <1>1, <2>1, <2>2, <2>3, <2>4 DEF EntryAction
<1>2. CASE Dispatch
  <2>1. state # "Standby"
    BY <1>2, DispatchEffect DEF Enter
  <2>2. pc' = "resync"
    BY <1>2, <2>1, DispatchEffect DEF Enter, EntryOf
  <2> QED
    BY <1>2, <2>1, <2>2, StandbyEntered
<1>3. CASE UNCHANGED machineVars /\ ~EntryAction
  BY <1>3 DEF machineVars
<1> QED
  BY <1>1, <1>2, <1>3, MachineCases

(* Service mode takes a request.                                           *)
LEMMA UnservedStep ==
  ASSUME Types, Employed, Unserved, [Next]_vars
  PROVE  Unserved'
<1> USE DEF Types
<1> SUFFICES ASSUME Unserviced'
             PROVE  ~service' /\ \A w \in Workers : workers'[w].kind # "service"
  BY DEF Unserved
<1>1. Unserviced /\ ~service /\ \A w \in Workers : workers[w].kind # "service"
  <2>1. Unserviced
    BY BodyCases DEF Unserviced
  <2> QED
    BY <2>1 DEF Unserved
<1>2. ~ServiceMode
  BY DEF ServiceMode, Request, Unserviced
<1>3. service' = service
  <2>1. ASSUME NEW a \in Attempts, AttemptStep(a) PROVE UNCHANGED service
    BY <2>1, AttemptKeepsBody DEF flagVars
  <2>2. ASSUME NEW w \in Workers, WorkerStep(w) PROVE UNCHANGED service
    BY <2>2, WorkerKeepsBody
  <2>3. CASE BarMoves \/ BoltMoves \/ SensorEdge \/ PositionSeen \/ PositionLeft \/ PositionReached \/ WindowReached
    BY <2>3 DEF BarMoves, BoltMoves, SensorEdge, PositionSeen, PositionLeft, PositionReached, WindowReached,
                Delivered, flagVars
  <2>4. CASE Dispatch \/ LockAfterDecline \/ OperatorPulse \/ UNCHANGED vars
    BY <2>4 DEF Dispatch, LockAfterDecline, OperatorPulse, vars, flagVars
  <2> QED
    BY <1>2, <2>1, <2>2, <2>3, <2>4, EntryKeepsBody DEF Next
<1>4. ASSUME NEW v \in Idle, UnlockHandlebar(v)
      PROVE  \A w \in Workers : workers'[w].kind # "service"
  <2>1. v \in Workers
    BY DEF Idle
  <2> QED
    BY <1>1, <1>4, <2>1, UnlockEffect
<1>5. ASSUME NEW v \in Idle, NEW kind, NEW step, NEW of, Hired(v, kind, step, of), kind # "service"
      PROVE  \A w \in Workers : workers'[w].kind # "service"
  <2>1. v \in Workers
    BY DEF Idle
  <2>2. workers'[v].kind = kind /\ \A w \in Workers \ {v} : workers'[w] = workers[w]
    BY <1>5, <2>1, HireEffect
  <2> QED
    BY <1>1, <1>5, <2>2
<1>6. ASSUME CancelUnlock PROVE \A w \in Workers : workers'[w].kind # "service"
  BY <1>1, <1>6, UnlockCancelled
<1>7. ASSUME NEW v \in Workers, WorkerStep(v)
      PROVE  \A w \in Workers : workers'[w].kind # "service"
  <2>1. /\ workers'[v] = IdleWorker \/ workers'[v].kind = workers[v].kind
        /\ \A w \in Workers \ {v} : workers'[w] = workers[w]
    BY <1>7, WorkerEffect
  <2>2. IdleWorker.kind # "service"
    BY DEF IdleWorker
  <2> QED
    BY <1>1, <2>1, <2>2
<1>8. ASSUME UNCHANGED workers PROVE \A w \in Workers : workers'[w].kind # "service"
  BY <1>1, <1>8
<1>9. \A w \in Workers : workers'[w].kind # "service"
  BY <1>2, <1>4, <1>5, <1>6, <1>7, <1>8, WorkCases
<1> QED
  BY <1>1, <1>3, <1>9

(* Without service mode, nobody closes a channel in stand-by once it is    *)
(* decided whether the steering has to be locked.                          *)
LEMMA StandbyKeepsOpen ==
  ASSUME Types, Books, Unserved, Unserviced, [Next]_vars, state = "Standby", ~LockAfterDecline
  PROVE  \A a \in Attempts : attempts'[a].open = attempts[a].open
<1> USE DEF Types, Books
<1>1. \A w \in Workers : ~ServiceCancel(w) /\ ~ServiceRelock(w)
  BY DEF Unserved, Employed, Fits, ServiceSteps, ServiceCancel, ServiceRelock
<1>2. /\ ~EnterCancel /\ ~ShutForced /\ ~ExitCancel
      /\ ~ShutLock /\ ~HopOnLock
  BY DEF StepsOfLeaf, EnterCancel, ShutForced, ExitCancel, ShutLock, HopOnLock
<1>3. UNCHANGED lockVars \/ RestoreHandler => attempts' = attempts
  BY DEF lockVars, RestoreHandler
<1>4. ASSUME NEW w \in Workers, WorkerCleanup(w) PROVE attempts' = attempts
  BY <1>4 DEF WorkerCleanup
<1> QED
  BY <1>1, <1>2, <1>3, <1>4, LockCases, AttemptEffect, WindowEffect

(* Every step of stand-by keeps its work alive.                            *)
LEMMA StandbyWorkStep ==
  ASSUME Types, Books, Unserved, Unserved', StandbyWork, [Next]_vars
  PROVE  StandbyWork'
<1> USE DEF Types, Books
<1>1. next' # "Standby"
  <2>1. UNCHANGED machineVars => next' # "Standby"
    BY DEF machineVars, StandbyWork
  <2>2. EntryAction => next' # "Standby"
    BY DEF EntryAction, Goto, Enter, StandbyWork, EnterCancel, EnterRestore, EnterRead,
           EnterDecide, DriveGiveUp, StandbyResync, ShutLock, ShutForced, ShutForcedRestore,
           HopOnLock, ExitCancel, ExitRestore, ExitRelease
  <2> QED
    BY <2>1, <2>2, MachineCases, StandbyEntered
<1> DEFINE Sound(w) == /\ workers'[w].kind \notin {"unlock", "release"}
                       /\ (Closing(workers'[w]) /\ workers'[w].pc \in PulseToLook \cup {"close"})
                            => attempts'[workers'[w].of].open
<1>2. ASSUME state' = "Standby", Unserviced' PROVE \A w \in Workers : Sound(w)
  <2>1. Unserviced
    BY <1>2, BodyCases DEF Unserviced
  <2>2. CASE Dispatch /\ ShutdownLasts
    <3>1. ~service
      BY <2>1 DEF Unserved
    <3>2. UNCHANGED <<attempts, workers>>
      BY <2>2 DEF Dispatch, lockVars
    <3> QED
      BY <2>2, <3>1, <3>2 DEF ShutdownLasts, Closing
  <2>3. CASE state = "Standby" /\ ~Dispatch
    <3>1. \A w \in Workers :
            /\ workers[w].kind \notin {"unlock", "release"}
            /\ (Closing(workers[w]) /\ workers[w].pc \in PulseToLook \cup {"close"})
                 => attempts[workers[w].of].open
      BY <2>1, <2>3 DEF StandbyWork
    <3>2. CASE LockAfterDecline
      <4>1. \A w \in Workers : workers[w].pc = "idle" /\ workers[w].kind = "none"
        BY <3>2 DEF LockAfterDecline, PendingFirst, Employed, Fits
      <4>2. workers' = workers
        BY <3>2 DEF LockAfterDecline
      <4> QED
        BY <4>1, <4>2 DEF Closing
    <3>3. CASE ~LockAfterDecline
      <4>1. \A a \in Attempts : attempts'[a].open = attempts[a].open
        BY <2>1, <2>3, <3>3, StandbyKeepsOpen
      <4>2. ASSUME NEW w \in Workers,
                   /\ workers'[w].pc = workers[w].pc
                   /\ workers'[w].kind = workers[w].kind
                   /\ workers'[w].of = workers[w].of
            PROVE  Sound(w)
        <5>1. Closing(workers[w]) => workers[w].of \in Attempts
          BY DEF Registered, Late
        <5> QED
          BY <3>1, <4>1, <4>2, <5>1 DEF Closing
      <4>3. ASSUME NEW v \in Idle, NEW kind, NEW step, NEW of, Hired(v, kind, step, of),
                   kind \notin {"unlock", "release"},
                   step \in {"check", "svcCancel", "svcRelock"} \/ kind \notin {"lock", "direct"}
            PROVE  \A w \in Workers : Sound(w)
        <5>1. v \in Workers
          BY DEF Idle
        <5>2. /\ workers'[v].kind = kind /\ workers'[v].pc = step
              /\ \A w \in Workers \ {v} : workers'[w] = workers[w]
          BY <4>3, <5>1, HireEffect
        <5>3. Sound(v)
          BY <4>3, <5>2 DEF Closing, PulseToLook
        <5> HIDE DEF Sound
        <5> QED
          BY <4>2, <5>2, <5>3
      <4>4. ASSUME NEW v \in Workers, WorkerStep(v) PROVE \A w \in Workers : Sound(w)
        <5> DEFINE k == workers[v]
                   n == workers'[v]
        <5>1. /\ Course(v)
              /\ n = IdleWorker \/ (n.kind = k.kind /\ n.of = k.of /\ n.pc # "idle")
              /\ \A w \in Workers \ {v} : workers'[w] = workers[w]
          BY <4>4, WorkerEffect
        <5>2. Sound(v)
          <6>1. CASE n = IdleWorker
            BY <6>1 DEF IdleWorker, Closing
          <6>2. CASE n.kind = k.kind /\ n.of = k.of /\ Closing(k)
            <7>1. k.of \in Attempts
              BY <6>2 DEF Registered, Late
            <7>2. k.pc \notin ServiceSteps
              BY <6>2 DEF Employed, Fits, Closing
            <7>3. n.pc \in PulseToLook \cup {"close"} =>
                    (k.pc \in PulseToLook \cup {"close"} \/ attempts[k.of].open)
              <8>1. MayPulse(k) => attempts[k.of].open
                BY <6>2 DEF MayPulse, Closing
              <8>2. Ended(k) = "cleanup"
                BY <6>2 DEF Ended
              <8> QED
                BY <5>1, <7>2, <8>1, <8>2 DEF Course, PulseToLook, ServiceSteps
            <7>4. Closing(n) /\ k.kind \notin {"unlock", "release"}
              BY <3>1, <6>2 DEF Closing
            <7> QED
              BY <3>1, <4>1, <6>2, <7>1, <7>3, <7>4
          <6>3. CASE n.kind = k.kind /\ ~Closing(k)
            BY <3>1, <6>3 DEF Closing
          <6> QED
            BY <5>1, <6>1, <6>2, <6>3
        <5> HIDE DEF Sound
        <5> QED
          BY <4>2, <5>1, <5>2
      <4>5. CASE UNCHANGED workers
        <5> HIDE DEF Sound
        <5> QED
          BY <4>2, <4>5
      <4>6. CASE CancelUnlock
        <5>1. \A w \in Workers : /\ workers'[w].pc = workers[w].pc
                                 /\ workers'[w].kind = workers[w].kind
                                 /\ workers'[w].of = workers[w].of
          BY <4>6, UnlockCancelled
        <5> HIDE DEF Sound
        <5> QED
          BY <4>2, <5>1
      <4>7. ~EnterDecide /\ ~ExitRelease /\ (PositionReached => UNCHANGED workers)
        BY <2>3 DEF EnterDecide, ExitRelease, PositionReached, StepsOfLeaf
      <4> HIDE DEF Sound
      <4> QED
        BY <4>3, <4>4, <4>5, <4>6, <4>7, WorkCases
    <3> QED
      BY <3>2, <3>3
  <2>4. state = "Standby" => ~Dispatch
    BY <1>2, DispatchEffect DEF Enter
  <2> QED
    BY <1>2, <2>2, <2>3, <2>4, StandbyMoves
<1> QED
  BY <1>1, <1>2 DEF StandbyWork, Closing

(* What a step makes of the latch.                                         *)
LEMMA LatchCases ==
  ASSUME [Next]_vars
  PROVE  \/ latch' = latch
         \/ EntryAction
         \/ \E w \in Workers : /\ WorkerVerify(w)
                               /\ latch' = IF bolt = (workers[w].kind \in LockKinds)
                                           THEN workers[w].kind \in LockKinds ELSE latch
         \/ \E w \in Workers : ServiceLatch(w)
<1>1. ASSUME NEW a \in Attempts, AttemptStep(a) PROVE UNCHANGED latch
  BY <1>1, AttemptKeepsBody DEF flagVars
<1>2. ASSUME NEW w \in Workers, WorkerStep(w)
      PROVE  UNCHANGED latch \/ WorkerVerify(w) \/ ServiceLatch(w)
  BY <1>2, WorkerKeepsBody
<1>3. ASSUME NEW w \in Workers, WorkerVerify(w)
      PROVE  latch' = IF bolt = (workers[w].kind \in LockKinds)
                      THEN workers[w].kind \in LockKinds ELSE latch
  BY <1>3 DEF WorkerVerify
<1>4. CASE BarMoves \/ BoltMoves \/ SensorEdge \/ PositionSeen \/ PositionLeft \/ PositionReached \/ WindowReached
  BY <1>4 DEF BarMoves, BoltMoves, SensorEdge, PositionSeen, PositionLeft, PositionReached, WindowReached,
              Delivered, flagVars
<1>5. CASE Dispatch \/ LockAfterDecline \/ OperatorPulse \/ ServiceMode \/ UNCHANGED vars
  BY <1>5 DEF Dispatch, LockAfterDecline, OperatorPulse, ServiceMode, vars, flagVars
<1> QED
  BY <1>1, <1>2, <1>3, <1>4, <1>5 DEF Next

(* Who has noticed that the bolt moved goes on to the look at the sensor.  *)
LEMMA NoticedGoesOn ==
  ASSUME Types, Books, StandbyWork, Unserved, Unserviced, [Next]_vars, faults' = 0,
         state = "Standby", bolt \in BOOLEAN, bolt' = bolt,
         NEW w \in Workers, Noticed(w), ~WorkerVerify(w)
  PROVE  /\ workers'[w].pc \in PulseToLook
         /\ bolt' <=> workers'[w].kind \in LockKinds
<1> USE DEF Types, Books
<1> DEFINE k == workers[w]
           n == workers'[w]
<1>1. k.pc # "idle" /\ k.pc \in PulseToLook /\ (bolt <=> k.kind \in LockKinds)
  BY DEF Noticed, PulseToLook
<1>2. CASE ~WorkerStep(w)
  BY <1>1, <1>2, OthersLeave
<1>3. CASE WorkerStep(w)
  <2>1. Course(w) /\ (n.pc = "idle" \/ n.kind = k.kind)
    BY <1>3, WorkerEffect
  <2>2. faults' # faults + 1
    BY DEF CountTypes
  <2>3. k.kind \notin {"service", "unlock"}
    BY DEF Unserved, StandbyWork
  <2>4. StillOpen(k)
    BY <1>1, <2>3 DEF StillOpen, StandbyWork, Closing
  <2>5. n.pc \in PulseToLook
    BY <1>1, <2>1, <2>2, <2>3, <2>4 DEF Course, PulseToLook
  <2> QED
    BY <1>1, <2>1, <2>5 DEF PulseToLook
<1> QED
  BY <1>2, <1>3

(* Every step of stand-by keeps the latch true, or somebody after it.      *)
LEMMA StandbyToldStep ==
  ASSUME Types, Books, Powered, Unserved, StandbyWork, StandbyTold, [Next]_vars
  PROVE  StandbyTold'
<1> USE DEF Types, Books
<1> DEFINE Told == \/ latch' = bolt'
                   \/ \E w \in Workers : /\ workers'[w].pc \in PulseToLook
                                         /\ bolt' <=> workers'[w].kind \in LockKinds
<1> SUFFICES ASSUME state' = "Standby", pc' = "idle", Unserviced', faults' = 0
             PROVE  Told
  BY DEF StandbyTold, Noticed
<1>1. faults = 0 /\ Unserviced
  BY FaultsStay, BodyCases DEF Unserviced
<1>2. CASE StandbyResync
  BY <1>2 DEF StandbyResync, OnlyLoop, bodyVars
<1>3. CASE state = "Standby" /\ UNCHANGED machineVars /\ ~EntryAction
  <2>1. pc = "idle"
    BY <1>3 DEF machineVars
  <2>2. latch = bolt \/ \E w \in Workers : Noticed(w)
    BY <1>1, <1>3, <2>1 DEF StandbyTold
  <2>3. CASE BoltMoves /\ UNCHANGED <<workers, latch, unlocked>>
    <3>1. coil.close # coil.open /\ bolt' = coil.close
      BY <2>3 DEF BoltMoves
    <3>2. coil.close \in BOOLEAN /\ coil.open \in BOOLEAN
      BY DEF BodyTypes
    <3>3. CASE coil.close
      <4>1. PICK w \in Workers : /\ workers[w].kind \in LockKinds
                                 /\ workers[w].pc \in {"open", "coastClose"}
        BY <1>1, <3>3 DEF Powered
      <4> QED
        BY <2>3, <3>1, <3>3, <4>1 DEF PulseToLook
    <3>4. CASE coil.open /\ ~coil.close
      <4>1. PICK w \in Workers : /\ workers[w].kind \notin LockKinds
                                 /\ workers[w].pc \in {"coastClose", "coastOpen"}
        BY <1>1, <3>4 DEF Powered
      <4> QED
        BY <2>3, <3>1, <3>4, <4>1 DEF PulseToLook
    <3> QED
      BY <3>1, <3>2, <3>3, <3>4
  <2>4. CASE bolt' = bolt
    <3>1. bolt \in BOOLEAN
      BY DEF BodyTypes
    <3>2. \A w \in Workers : ~ServiceLatch(w)
      BY <1>1 DEF Unserved, Employed, Fits, ServiceSteps, ServiceLatch
    <3>3. ASSUME NEW w \in Workers, Noticed(w), ~WorkerVerify(w) PROVE Told
      BY <1>1, <1>3, <2>4, <3>1, <3>3, NoticedGoesOn
    <3>4. CASE \E w \in Workers : WorkerVerify(w)
      <4>1. PICK v \in Workers : WorkerVerify(v)
        BY <3>4
      <4>2. latch' = IF bolt = (workers[v].kind \in LockKinds)
                     THEN workers[v].kind \in LockKinds ELSE latch
        BY <4>1 DEF WorkerVerify
      <4>3. CASE bolt = (workers[v].kind \in LockKinds)
        BY <2>4, <4>2, <4>3
      <4>4. CASE bolt # (workers[v].kind \in LockKinds)
        <5>1. ASSUME NEW w \in Workers, Noticed(w) PROVE ~WorkerVerify(w)
          <6>1. w # v
            BY <3>1, <4>4, <5>1 DEF Noticed
          <6>2. workers[w].pc # "idle" /\ workers'[w] = workers[w]
            BY <4>1, <5>1, <6>1, WorkerEffect DEF Noticed, PulseToLook, WorkerStep
          <6>3. WorkerVerify(w) => workers'[w].pc # "verify" /\ workers[w].pc = "verify"
            BY WorkerEffect DEF WorkerStep, WorkerVerify, Course, Ended, PulseSteps
          <6> QED
            BY <6>2, <6>3
        <5> HIDE DEF Told
        <5>2. latch' = latch
          BY <4>2, <4>4
        <5>3. latch = bolt => Told
          BY <2>4, <5>2 DEF Told
        <5> QED
          BY <2>2, <3>3, <5>1, <5>3
      <4> QED
        BY <4>3, <4>4
    <3>5. CASE ~\E w \in Workers : WorkerVerify(w)
      <4>1. latch' = latch
        BY <1>3, <3>2, <3>5, LatchCases
      <4>2. latch = bolt => Told
        BY <2>4, <4>1
      <4> HIDE DEF Told
      <4> QED
        BY <2>2, <3>3, <3>5, <4>2
    <3> QED
      BY <3>4, <3>5
  <2> QED
    BY <2>3, <2>4, BodyCases
<1> QED
  BY <1>2, <1>3, StandbyMoves

(* At rest in stand-by the latch that is published is the bolt's: whoever  *)
(* moved it last looks at the sensor before the pulse is over, and nobody  *)
(* is stopped in between (EnterStandby, pulseHandlebarLock).               *)
THEOREM StandbyLatchTrue == Spec => []StandbyLatch
<1> DEFINE IInv == Types /\ Books /\ Powered /\ Unserved /\ StandbyWork /\ StandbyTold
<1>1. Init => IInv
  <2>1. Init => Powered /\ Unserved /\ StandbyWork /\ StandbyTold
    BY DEF Init, EntryOf, Powered, Unserved, StandbyWork, StandbyTold, IdleWorker, Closing
  <2> QED
    BY <2>1, TypesInit, BooksInit
<1>2. IInv /\ [Next]_vars => IInv'
  <2>1. IInv /\ [Next]_vars => (Types /\ Books /\ Powered /\ Unserved)'
    BY TypesStep, BooksStep, PoweredStep, UnservedStep DEF Books
  <2> QED
    BY <2>1, StandbyWorkStep, StandbyToldStep
<1>3. IInv => StandbyLatch
  BY DEF StandbyLatch, StandbyTold, Quiet, Unserviced, Noticed, PulseToLook, Busy, Types,
         CountTypes
<1> QED
  BY <1>1, <1>2, <1>3, PTL DEF Spec

-----------------------------------------------------------------------------
(* A window can be cancelled.                                              *)

(* The steps of an attempt whose window may be ticking.                    *)
Armed == {"register", "look", "waiting", "over"}

(* An open window that ticks belongs to the current channel, and no pulse  *)
(* has begun on its behalf, unless its callback stopped another's timer.   *)
Ticking ==
  /\ \A a \in Attempts : attempts[a].ticks => attempts[a].pc \in Armed
  /\ \A a \in Attempts \ crossed : (attempts[a].open /\ attempts[a].ticks) => done = a
  /\ \A w \in Workers : Closing(workers[w]) =>
       (~attempts[workers[w].of].ticks \/ workers[w].of \in crossed)

(* What the goroutine of an attempt makes of the timers and channels.      *)
LEMMA AttemptMoves ==
  ASSUME LockTypes, NEW a \in Attempts, AttemptStep(a)
  PROVE  /\ crossed' = crossed
         /\ \A b \in Attempts \ {a} : /\ attempts'[b].pc = attempts[b].pc
                                      /\ attempts'[b].ticks => attempts[b].ticks
         /\ done' = done \/ (done = a /\ attempts[a].pc = "fired")
         /\ attempts'[a].ticks =>
              /\ attempts[a].pc = "arm" \/ attempts[a].ticks
              /\ attempts[a].pc \in Armed \cup {"arm"} => attempts'[a].pc \in Armed
<1> USE DEF Armed
<1>1. ASSUME NEW step, Wait(a, step)
      PROVE  /\ attempts'[a].pc = step
             /\ \A b \in Attempts : attempts'[b].ticks = attempts[b].ticks
             /\ \A b \in Attempts \ {a} : attempts'[b] = attempts[b]
  BY <1>1 DEF Wait, LockTypes, AttemptType
<1>2. CASE AttemptStart(a) \/ AttemptPlace(a)
  <2>1. PICK step \in {"place", "over", "arm"} : Wait(a, step)
    BY <1>2 DEF AttemptStart, AttemptPlace
  <2>2. attempts[a].pc \in {"start", "place"} /\ UNCHANGED <<crossed, done>>
    BY <1>2 DEF AttemptStart, AttemptPlace
  <2> QED
    BY <1>1, <2>1, <2>2
<1>3. CASE AttemptRegister(a) \/ AttemptLook(a)
  <2>1. PICK step \in {"look", "waiting", "over"} : Wait(a, step)
    BY <1>3 DEF AttemptRegister, AttemptLook
  <2>2. UNCHANGED <<crossed, done>>
    BY <1>3 DEF AttemptRegister, AttemptLook
  <2> QED
    BY <1>1, <2>1, <2>2
<1>4. CASE AttemptCancelled(a) \/ AttemptExpired(a)
  <2>1. Wait(a, "over") /\ UNCHANGED <<crossed, done>>
    BY <1>4 DEF AttemptCancelled, AttemptExpired
  <2> QED
    BY <1>1, <2>1
<1>5. CASE AttemptArm(a)
  <2>1. ASSUME NEW b \in Attempts
        PROVE  /\ b # a => attempts'[b].pc = attempts[b].pc
               /\ b # a => (attempts'[b].ticks => attempts[b].ticks)
               /\ b = a => attempts'[b].pc = "register"
    <3>1. attempts'[b] = IF b = a THEN [attempts[a] EXCEPT !.pc = "register", !.ticks = TRUE]
                         ELSE [attempts[b] EXCEPT !.ticks = @ /\ b # timer]
      BY <1>5 DEF AttemptArm
    <3> QED
      BY <3>1 DEF LockTypes, AttemptType
  <2>2. attempts[a].pc = "arm" /\ UNCHANGED <<crossed, done>>
    BY <1>5 DEF AttemptArm
  <2> QED
    BY <2>1, <2>2
<1>6. CASE AttemptFires(a)
  <2>1. attempts' = [attempts EXCEPT ![a] = [attempts[a] EXCEPT !.pc = "fired", !.ticks = FALSE]]
    BY <1>6 DEF AttemptFires, LockTypes
  <2>2. ~attempts'[a].ticks /\ \A b \in Attempts \ {a} : attempts'[b] = attempts[b]
    BY <2>1 DEF LockTypes, AttemptType
  <2>3. UNCHANGED <<crossed, done>>
    BY <1>6 DEF AttemptFires
  <2> QED
    BY <2>2, <2>3
<1>7. CASE AttemptExpires(a)
  <2>1. /\ Wait(a, "expired") /\ crossed' = crossed /\ attempts[a].pc = "fired"
        /\ done' = (IF done = a THEN None ELSE done)
    BY <1>7 DEF AttemptExpires
  <2> QED
    BY <1>1, <2>1
<1> QED
  BY <1>2, <1>3, <1>4, <1>5, <1>6, <1>7 DEF AttemptStep

(* What a step makes of the windows that tick.                             *)
LEMMA TicksStep ==
  ASSUME Types, Books, Ticking, [Next]_vars
  PROVE  /\ crossed \subseteq crossed'
         /\ \A a \in Attempts :
              /\ attempts'[a].ticks => attempts'[a].pc \in Armed
              /\ (attempts'[a].open /\ attempts'[a].ticks /\ a \notin crossed') => done' = a
              /\ Late(a) /\ ~attempts[a].ticks => ~attempts'[a].ticks
<1> USE DEF Types, Books
<1> DEFINE Fate(a) == /\ crossed \subseteq crossed'
                      /\ attempts'[a].ticks => attempts'[a].pc \in Armed
                      /\ (attempts'[a].open /\ attempts'[a].ticks /\ a \notin crossed') => done' = a
                      /\ (Late(a) /\ ~attempts[a].ticks) => ~attempts'[a].ticks
<1>1. None \notin Attempts
  BY HandlebarAssumption DEF None, Attempts
<1>2. ASSUME NEW b \in Attempts, attempts'[b] = attempts[b], UNCHANGED <<crossed, done>>
      PROVE  Fate(b)
  BY <1>2 DEF Ticking
<1>3. ASSUME NEW b \in Attempts, UNCHANGED lockVars \/ RestoreHandler PROVE Fate(b)
  BY <1>2, <1>3 DEF lockVars, RestoreHandler
<1>4. ASSUME NEW b \in Attempts, CancelLock PROVE Fate(b)
  BY <1>4, CancelEffect DEF Ticking, CancelLock
<1>5. ASSUME NEW b \in Attempts, Locks PROVE Fate(b)
  <2>1. PICK hop \in BOOLEAN : LockHandlebar(hop)
    BY <1>5 DEF Locks
  <2>2. crossed' = crossed
    BY <2>1 DEF LockHandlebar
  <2> QED
    BY <2>1, <2>2, LockEffect DEF Ticking
<1>6. ASSUME NEW b \in Attempts, NEW a \in Attempts, AttemptStep(a) PROVE Fate(b)
  <2>1. attempts'[b].open = attempts[b].open
    BY <1>6, AttemptEffect
  <2>2. CASE b # a
    BY <1>1, <1>6, <2>1, <2>2, AttemptMoves DEF Ticking, Armed
  <2>3. CASE b = a
    <3>1. /\ crossed' = crossed
          /\ done' = done \/ (done = a /\ attempts[a].pc = "fired")
          /\ attempts'[a].ticks =>
               /\ attempts[a].pc = "arm" \/ attempts[a].ticks
               /\ attempts[a].pc \in Armed \cup {"arm"} => attempts'[a].pc \in Armed
      BY <1>6, AttemptMoves
    <3>2. attempts[a].pc = "arm" => ~Late(a) /\ (attempts[a].open => done = a)
      BY DEF Late, Early, EarlyHeld
    <3>3. attempts[a].ticks => attempts[a].pc \in Armed
      BY DEF Ticking
    <3>4. (attempts[a].ticks /\ attempts[a].open /\ a \notin crossed) => done = a
      BY DEF Ticking
    <3>5. (attempts[a].pc = "arm" \/ attempts[a].ticks) => attempts[a].pc # "fired"
      BY <3>3 DEF Armed
    <3> QED
      BY <2>1, <2>3, <3>1, <3>2, <3>3, <3>4, <3>5
  <2> QED
    BY <2>2, <2>3
<1>7. ASSUME NEW b \in Attempts, WindowReached PROVE Fate(b)
  <2>1. crossed \subseteq crossed'
    BY <1>7 DEF WindowReached
  <2> QED
    BY <1>7, <2>1, WindowEffect DEF Ticking
<1>8. ASSUME NEW b \in Attempts, NEW w \in Workers, WorkerCleanup(w) PROVE Fate(b)
  <2>1. /\ UNCHANGED <<attempts, crossed>>
        /\ done' = IF done = workers[w].of THEN None ELSE done
    BY <1>8 DEF WorkerCleanup
  <2>2. Closing(workers[w])
    BY <1>8 DEF WorkerCleanup, Employed, Fits
  <2>3. ~attempts[workers[w].of].ticks \/ workers[w].of \in crossed
    BY <2>2 DEF Ticking
  <2> QED
    BY <2>1, <2>3 DEF Ticking
<1> HIDE DEF Fate
<1>9. \A b \in Attempts : Fate(b)
  BY <1>3, <1>4, <1>5, <1>6, <1>7, <1>8, LockCases
<1>10. 1 \in Attempts
  BY HandlebarAssumption DEF Attempts
<1> QED
  BY <1>9, <1>10 DEF Fate

(* No pulse begins on behalf of a window that ticks, but for the exception. *)
LEMMA TickingStep ==
  ASSUME Types, Books, Ticking, [Next]_vars
  PROVE  Ticking'
<1> USE DEF Types, Books
<1> DEFINE Calm(w) == Closing(workers'[w]) =>
                        (~attempts'[workers'[w].of].ticks \/ workers'[w].of \in crossed')
<1>1. ASSUME NEW w \in Workers, workers'[w].kind = workers[w].kind, workers'[w].of = workers[w].of
      PROVE  Calm(w)
  BY <1>1, TicksStep DEF Closing, Ticking, Registered, Late
<1>2. ASSUME NEW v \in Idle, NEW kind, NEW step, NEW of, Hired(v, kind, step, of),
             kind \in {"lock", "direct"} => (~attempts'[of].ticks \/ of \in crossed')
      PROVE  \A w \in Workers : Calm(w)
  <2>1. v \in Workers
    BY DEF Idle
  <2>2. /\ workers'[v].kind = kind /\ workers'[v].of = of
        /\ \A w \in Workers \ {v} : workers'[w] = workers[w]
    BY <1>2, <2>1, HireEffect
  <2>3. Calm(v)
    BY <1>2, <2>2 DEF Closing
  <2> HIDE DEF Calm
  <2> QED
    BY <1>1, <2>2, <2>3
<1>3. ASSUME NEW a \in Attempts, AttemptPlace(a) PROVE ~attempts'[a].ticks
  <2>1. attempts[a].pc = "place"
    BY <1>3 DEF AttemptPlace
  <2>2. ~attempts[a].ticks
    BY <2>1 DEF Ticking, Armed
  <2>3. PICK step : Wait(a, step)
    BY <1>3 DEF AttemptPlace
  <2> QED
    BY <2>2, <2>3 DEF Wait, LockTypes, AttemptType
<1>4. ASSUME NEW v \in Idle, Hired(v, "lock", "check", handler), WindowReached, handler # None,
             attempts[handler].open
      PROVE  ~attempts'[handler].ticks \/ handler \in crossed'
  <2>1. v \in Workers /\ workers[v].pc = "idle"
    BY DEF Idle, Busy
  <2>2. workers'[v].pc = "check"
    BY <1>4, <2>1, HireEffect
  <2>3. crossed' = crossed \cup { a \in {handler} : attempts'[a].ticks }
    BY <1>4, <2>1, <2>2 DEF WindowReached
  <2> QED
    BY <2>3
<1>5. ASSUME NEW v \in Workers, WorkerStep(v) PROVE \A w \in Workers : Calm(w)
  <2>1. /\ \/ workers'[v] = IdleWorker
           \/ workers'[v].kind = workers[v].kind /\ workers'[v].of = workers[v].of
        /\ \A w \in Workers \ {v} : workers'[w] = workers[w]
    BY <1>5, WorkerEffect
  <2>2. workers'[v] = IdleWorker => Calm(v)
    BY DEF IdleWorker, Closing
  <2> HIDE DEF Calm
  <2> QED
    BY <1>1, <2>1, <2>2
<1>6. ASSUME UNCHANGED workers \/ CancelUnlock PROVE \A w \in Workers : Calm(w)
  <2>1. \A w \in Workers : workers'[w].kind = workers[w].kind /\ workers'[w].of = workers[w].of
    BY <1>6, UnlockCancelled
  <2> HIDE DEF Calm
  <2> QED
    BY <1>1, <2>1
<1>7. ASSUME NEW v \in Idle, UnlockHandlebar(v) PROVE \A w \in Workers : Calm(w)
  <2>1. v \in Workers
    BY DEF Idle
  <2>2. /\ workers'[v].kind = "unlock"
        /\ \A w \in Workers \ {v} : workers'[w].kind = workers[w].kind /\ workers'[w].of = workers[w].of
    BY <1>7, <2>1, UnlockEffect
  <2>3. Calm(v)
    BY <2>2 DEF Closing
  <2> HIDE DEF Calm
  <2> QED
    BY <1>1, <2>2, <2>3
<1> HIDE DEF Calm
<1>8. \A w \in Workers : Calm(w)
  BY <1>2, <1>3, <1>4, <1>5, <1>6, <1>7, WorkCases
<1> QED
  BY <1>8, TicksStep DEF Calm, Ticking, Closing

(* Whatever window can still lock the steering is the one a cancel would   *)
(* close, however attempts, callbacks and clean-ups overlap, unless its    *)
(* own callback stopped the timer of another (lockHandlebar,               *)
(* cancelHandlebarLock).                                                   *)
THEOREM WindowsAreCancellable == Spec => []WindowIsCancellable
<1> DEFINE IInv == Types /\ Books /\ Ticking
<1>1. Init => IInv
  <2>1. ASSUME Init PROVE Ticking
    <3>1. /\ \A a \in Attempts : ~attempts[a].ticks
          /\ \A w \in Workers : workers[w].kind = "none"
      BY <2>1 DEF Init, NewAttempt, IdleWorker
    <3> QED
      BY <3>1 DEF Ticking, Closing
  <2> QED
    BY <2>1, TypesInit, BooksInit
<1>2. IInv /\ [Next]_vars => IInv'
  BY TypesStep, BooksStep, TickingStep
<1>3. IInv => WindowIsCancellable
  BY DEF WindowIsCancellable, Books, EarlyHeld, Early, Ticking
<1> QED
  BY <1>1, <1>2, <1>3, PTL DEF Spec
=============================================================================
