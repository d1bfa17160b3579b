--------------------------- MODULE HandlebarProofs --------------------------
(***************************************************************************)
(* The steering lock for every number of attempts, workers, requests and   *)
(* moves, and every interleaving (Coarse or not).                          *)
(***************************************************************************)
EXTENDS Handlebar, FsmProofs, FiniteSetTheorems

AttemptType == [pc : Opening \cup {"new", "waiting", "fired", "expired", "over"},
                open : BOOLEAN, hop : BOOLEAN, ticks : BOOLEAN]

WorkerType == [pc : WorkerSteps, kind : Kinds \cup {"none"}, of : Attempts \cup {None},
               open : BOOLEAN, tries : 0..Retries]

LoopSteps == {"idle", "cancel", "restore", "read", "decide", "giveUp", "resync", "lock",
              "forceCancel", "forceRestore", "hopLock", "exitCancel", "exitRestore",
              "exitRelease"}

ExitSteps == {"exitCancel", "exitRestore", "exitRelease"}

(* The types apart; a leaf is known before hop-on is left.                 *)
MachineTypes ==
  /\ state \in Leaves /\ pc \in LoopSteps /\ next \in Leaves \cup {"none"} /\ forced \in BOOLEAN
  /\ pc \in ExitSteps => next \in Leaves
LockTypes ==
  /\ attempts \in [Attempts -> AttemptType] /\ count \in 0..MaxLocks
  /\ timer \in Attempts \cup {None} /\ done \in Attempts \cup {None}
  /\ handler \in Attempts \cup {None} /\ crossed \subseteq Attempts
WorkTypes == workers \in [Workers -> WorkerType] /\ udone \in Workers \cup {NoWorker}
BodyTypes ==
  /\ coil \in [close : BOOLEAN, open : BOOLEAN] /\ stuck \subseteq Sides
  /\ bolt \in BOOLEAN /\ place \in BOOLEAN /\ cached \in BOOLEAN /\ reported \in BOOLEAN
FlagTypes ==
  /\ unlocked \in BOOLEAN /\ latch \in BOOLEAN /\ owned \in BOOLEAN
  /\ service \in BOOLEAN /\ pending \in BOOLEAN /\ relock \in BOOLEAN
CountTypes == asked \subseteq Requests /\ faults \in 0..MaxRequests /\ moves \in 0..MaxMoves

Types == MachineTypes /\ LockTypes /\ WorkTypes /\ BodyTypes /\ FlagTypes /\ CountTypes

(* Together they are TypeOK and more.                                      *)
LEMMA TypesImplyTypeOK == Types => TypeOK
  BY DEF Types, TypeOK, MachineTypes, LockTypes, WorkTypes, BodyTypes, FlagTypes, CountTypes,
         AttemptType, WorkerType, LoopSteps, Expiring

-----------------------------------------------------------------------------
(* The operations on attempts and workers keep the types.                  *)

(* The steps that write an output, and what they write.                    *)
Pulse(w) ==
  \/ PulseClose(w) \/ PulseOpen(w) \/ Rollback(w)
  \/ CoastClose(w) \/ CoastLast(w) \/ CoastOpen(w)

(* The first entry action of a leaf is a step of the loop.                 *)
LEMMA EntryOfTypes == \A s, f : EntryOf(s, f) \in LoopSteps \ ExitSteps
  BY DEF EntryOf, LoopSteps, ExitSteps

(* A worker at rest is a worker.                                          *)
LEMMA IdleTypes == IdleWorker \in WorkerType
<1>1. 0 \in 0..Retries
  BY HandlebarAssumption
<1> QED
  BY <1>1 DEF IdleWorker, WorkerType, WorkerSteps, Kinds

(* So is one that starts.                                                 *)
LEMMA StartTypes ==
  ASSUME NEW w, NEW kind \in Kinds, NEW step \in WorkerSteps, NEW of \in Attempts \cup {None}
  PROVE  Start(w, kind, step, of) \in WorkerType
<1> DEFINE k == IdleWorker
<1>1. k \in WorkerType
  BY IdleTypes
<1>2. 1 \in 0..Retries
  BY HandlebarAssumption
<1>3. Start(w, kind, step, of) =
        [k EXCEPT !.pc = step, !.kind = kind, !.of = of, !.open = TRUE, !.tries = 1]
  BY DEF Start
<1> HIDE DEF k
<1> QED
  BY <1>1, <1>2, <1>3 DEF WorkerType

(* And one at another step.                                               *)
LEMMA AtWorkerTypes ==
  ASSUME NEW k \in WorkerType, NEW step \in WorkerSteps
  PROVE  At(k, step) \in WorkerType
<1>1. [k EXCEPT !.pc = step] \in WorkerType
  BY DEF WorkerType
<1> QED
  BY <1>1, IdleTypes DEF At

(* A step of one worker keeps the type of all.                            *)
LEMMA StepTypes ==
  ASSUME WorkTypes, NEW w \in Workers, NEW step \in WorkerSteps, Step(w, step)
  PROVE  workers' \in [Workers -> WorkerType]
<1>1. At(workers[w], step) \in WorkerType
  BY AtWorkerTypes DEF WorkTypes
<1> QED
  BY <1>1 DEF Step, WorkTypes

(* So does closing the channel of an unlock.                              *)
LEMMA UnlocksClosedTypes ==
  ASSUME WorkTypes
  PROVE  UnlocksClosed \in [Workers -> WorkerType]
<1>1. ASSUME NEW w \in Workers PROVE [workers[w] EXCEPT !.open = FALSE] \in WorkerType
  BY DEF WorkTypes, WorkerType
<1> QED
  BY <1>1 DEF UnlocksClosed, WorkTypes

(* And cancelling or starting an unlock.                                  *)
LEMMA UnlockTypes ==
  ASSUME WorkTypes, CancelUnlock \/ \E w \in Idle : UnlockHandlebar(w)
  PROVE  WorkTypes'
<1>1. CASE CancelUnlock
  BY <1>1, UnlocksClosedTypes DEF CancelUnlock, WorkTypes
<1>2. ASSUME NEW w \in Idle, UnlockHandlebar(w) PROVE WorkTypes'
  <2>1. w \in Workers
    BY DEF Idle
  <2>2. Start(w, "unlock", "check", None) \in WorkerType
    BY StartTypes DEF Kinds, WorkerSteps
  <2> QED
    BY <1>2, <2>1, <2>2, UnlocksClosedTypes DEF UnlockHandlebar, WorkTypes
<1> QED
  BY <1>1, <1>2

(* A lock attempt closes the channel before it and opens its own.         *)
LEMMA LockHandlebarTypes ==
  ASSUME LockTypes, NEW hop \in BOOLEAN, LockHandlebar(hop)
  PROVE  LockTypes'
<1>1. count + 1 \in Attempts /\ count + 1 \in 0..MaxLocks
  BY HandlebarAssumption DEF LockHandlebar, LockTypes, Attempts
<1>2. Closed(done) \in [Attempts -> AttemptType]
  <2>1. ASSUME NEW a \in Attempts PROVE [attempts[a] EXCEPT !.open = FALSE] \in AttemptType
    BY DEF LockTypes, AttemptType
  <2>2. Closed(done) = attempts
          \/ Closed(done) = [attempts EXCEPT ![done] = [attempts[done] EXCEPT !.open = FALSE]]
    BY DEF Closed
  <2> QED
    BY <2>1, <2>2 DEF LockTypes
<1>3. [pc |-> "start", open |-> TRUE, hop |-> hop, ticks |-> FALSE] \in AttemptType
  BY DEF AttemptType, Opening
<1> QED
  BY <1>1, <1>2, <1>3 DEF LockHandlebar, LockTypes

(* The two halves of a cancel.                                            *)
LEMMA CancelTypes ==
  ASSUME LockTypes, CancelLock \/ RestoreHandler
  PROVE  LockTypes'
<1>1. ASSUME CancelLock PROVE attempts' \in [Attempts -> AttemptType]
  <2>1. ASSUME NEW a \in Attempts
        PROVE  [attempts[a] EXCEPT !.open = @ /\ a # done, !.ticks = @ /\ a # timer] \in AttemptType
    <3>1. (attempts[a].open /\ a # done) \in BOOLEAN /\ (attempts[a].ticks /\ a # timer) \in BOOLEAN
      BY Zenon
    <3> QED
      BY <3>1 DEF LockTypes, AttemptType
  <2> QED
    BY <1>1, <2>1 DEF CancelLock
<1> QED
  BY <1>1 DEF CancelLock, RestoreHandler, LockTypes

(* An attempt at another step.                                            *)
LEMMA WaitTypes ==
  ASSUME LockTypes, NEW a \in Attempts,
         NEW step \in Opening \cup {"new", "waiting", "fired", "expired", "over"}, Wait(a, step)
  PROVE  attempts' \in [Attempts -> AttemptType]
<1>1. [attempts[a] EXCEPT !.pc = step] \in AttemptType
  BY DEF LockTypes, AttemptType
<1>2. attempts' = [attempts EXCEPT ![a] = [attempts[a] EXCEPT !.pc = step]]
  BY DEF Wait
<1> QED
  BY <1>1, <1>2 DEF LockTypes

-----------------------------------------------------------------------------
(* Each part of the types after each step.                                 *)
LEMMA MachineStep ==
  ASSUME MachineTypes, [Next]_vars
  PROVE  MachineTypes'
<1> USE DEF MachineTypes, machineVars
<1>1. CASE UNCHANGED machineVars
  BY <1>1
<1>2. ASSUME NEW s \in Leaves, NEW f, Enter(s, f) PROVE MachineTypes'
  BY <1>2, EntryOfTypes DEF Enter
<1>3. CASE EntryAction
  <2>1. CASE ExitRelease
    <3>1. next \in Leaves
      BY <2>1 DEF ExitRelease, ExitSteps
    <3> QED
      BY <1>2, <2>1, <3>1 DEF ExitRelease
  <2>2. CASE ~ExitRelease
    <3> USE DEF LoopSteps, ExitSteps, Goto
    <3>1. CASE EnterCancel \/ EnterRestore \/ EnterRead \/ EnterDecide \/ DriveGiveUp
      BY <3>1 DEF EnterCancel, EnterRestore, EnterRead, EnterDecide, DriveGiveUp
    <3>2. CASE StandbyResync \/ ShutLock \/ ShutForced \/ ShutForcedRestore \/ HopOnLock
      BY <3>2 DEF StandbyResync, ShutLock, ShutForced, ShutForcedRestore, HopOnLock
    <3>3. CASE ExitCancel \/ ExitRestore
      BY <3>3 DEF ExitCancel, ExitRestore
    <3> QED
      BY <1>3, <2>2, <3>1, <3>2, <3>3 DEF EntryAction
  <2> QED
    BY <2>1, <2>2
<1>4. CASE Dispatch
  <2>1. PICK e \in ExtEvents : \E free \in SUBSET GuardsFor(state, e) :
          \E t \in Selected(state, e, TrueGuards(free)) :
            IF state = "HopOn"
            THEN /\ pc' = "exitCancel" /\ next' = t.to /\ forced' = (e = "ForceLock")
                 /\ UNCHANGED state
            ELSE Enter(t.to, e = "ForceLock")
    BY <1>4 DEF Dispatch
  <2>2. PICK free \in SUBSET GuardsFor(state, e) :
          \E t \in Selected(state, e, TrueGuards(free)) :
            IF state = "HopOn"
            THEN /\ pc' = "exitCancel" /\ next' = t.to /\ forced' = (e = "ForceLock")
                 /\ UNCHANGED state
            ELSE Enter(t.to, e = "ForceLock")
    BY <2>1
  <2>3. PICK t \in Selected(state, e, TrueGuards(free)) :
          IF state = "HopOn"
          THEN /\ pc' = "exitCancel" /\ next' = t.to /\ forced' = (e = "ForceLock")
               /\ UNCHANGED state
          ELSE Enter(t.to, e = "ForceLock")
    BY <2>2
  <2>4. t.to \in Leaves
    BY SelectedReachesLeaf
  <2>5. CASE state = "HopOn"
    <3>1. forced' \in BOOLEAN
      BY <2>3, <2>5
    <3> QED
      BY <2>3, <2>4, <2>5, <3>1 DEF LoopSteps, ExitSteps
  <2>6. CASE state # "HopOn"
    BY <1>2, <2>3, <2>4, <2>6
  <2> QED
    BY <2>5, <2>6
<1>5. CASE ~EntryAction /\ ~Dispatch
  <2>1. ASSUME NEW a, AttemptStep(a) PROVE UNCHANGED machineVars
    BY <2>1 DEF AttemptStep, OnlyAttempt, AttemptStart, AttemptPlace, AttemptArm,
                AttemptRegister, AttemptLook, AttemptCancelled, AttemptFires, AttemptExpires, AttemptExpired
  <2>2. ASSUME NEW w, WorkerStep(w) PROVE UNCHANGED machineVars
    BY <2>2 DEF WorkerStep, OnlyWorker, WorkerCheck, PulseClose, PulseOpen, Rollback, CoastClose,
                CoastLast, CoastOpen, OnlyPulse,
                WorkerChecked, WorkerVerify, WorkerCleanup, WorkerRestore, ServiceCancel,
                ServiceRestore, ServiceLatch, ServiceRelock
  <2>3. CASE LockAfterDecline \/ OperatorPulse \/ ServiceMode
    BY <1>1, <2>3 DEF LockAfterDecline, OperatorPulse, ServiceMode
  <2>4. CASE BarMoves \/ BoltMoves \/ SensorEdge \/ PositionSeen \/ PositionLeft \/ PositionReached \/ WindowReached
    BY <1>1, <2>4 DEF BarMoves, BoltMoves, SensorEdge, PositionSeen, PositionLeft, PositionReached,
                      WindowReached, Delivered
  <2> QED
    BY <1>1, <1>5, <2>1, <2>2, <2>3, <2>4 DEF Next, vars
<1> QED
  BY <1>3, <1>4, <1>5

(* The attempts, by the operation each step performs on them.              *)
LEMMA LockStep ==
  ASSUME LockTypes, WorkTypes, [Next]_vars
  PROVE  LockTypes'
<1>1. CASE UNCHANGED lockVars
  BY <1>1 DEF LockTypes, lockVars
<1>2. CASE CancelLock \/ RestoreHandler \/ LockHandlebar(TRUE) \/ LockHandlebar(FALSE)
  BY <1>2, CancelTypes, LockHandlebarTypes
<1>3. CASE EntryAction \/ Dispatch \/ LockAfterDecline
  <2>1. CASE EnterCancel \/ EnterRestore \/ EnterRead \/ EnterDecide \/ DriveGiveUp
    BY <1>1, <1>2, <2>1 DEF EnterCancel, EnterRestore, EnterRead, EnterDecide, DriveGiveUp
  <2>2. CASE StandbyResync \/ ShutLock \/ ShutForced \/ ShutForcedRestore \/ HopOnLock
    BY <1>1, <1>2, <2>2 DEF StandbyResync, ShutLock, ShutForced, ShutForcedRestore, HopOnLock
  <2>3. CASE ExitCancel \/ ExitRestore \/ ExitRelease
    BY <1>1, <1>2, <2>3 DEF ExitCancel, ExitRestore, ExitRelease
  <2>4. CASE Dispatch \/ LockAfterDecline
    BY <1>1, <1>2, <2>4 DEF Dispatch, LockAfterDecline
  <2> QED
    BY <1>3, <2>1, <2>2, <2>3, <2>4 DEF EntryAction
<1>4. ASSUME NEW a \in Attempts, AttemptStep(a) PROVE LockTypes'
  <2> USE DEF Opening
  <2>1. CASE AttemptStart(a) \/ AttemptPlace(a) \/ AttemptLook(a) \/ AttemptCancelled(a)
    <3>1. \E step \in Opening \cup {"new", "waiting", "fired", "expired", "over"} : Wait(a, step)
      BY <2>1 DEF AttemptStart, AttemptPlace, AttemptLook, AttemptCancelled
    <3>2. attempts' \in [Attempts -> AttemptType]
      BY <3>1, WaitTypes
    <3> QED
      BY <2>1, <3>2 DEF AttemptStart, AttemptPlace, AttemptLook, AttemptCancelled, LockTypes
  <2>2. CASE AttemptArm(a)
    <3>1. ASSUME NEW b \in Attempts
          PROVE  /\ [attempts[b] EXCEPT !.ticks = @ /\ b # timer] \in AttemptType
                 /\ [attempts[a] EXCEPT !.pc = "register", !.ticks = TRUE] \in AttemptType
      <4>1. (attempts[b].ticks /\ b # timer) \in BOOLEAN
        BY Zenon
      <4> QED
        BY <4>1 DEF LockTypes, AttemptType
    <3>2. attempts' \in [Attempts -> AttemptType]
      BY <2>2, <3>1 DEF AttemptArm
    <3> QED
      BY <2>2, <3>2 DEF AttemptArm, LockTypes
  <2>3. CASE AttemptRegister(a) \/ AttemptExpires(a) \/ AttemptExpired(a)
    <3>1. attempts' \in [Attempts -> AttemptType]
      BY <2>3, WaitTypes DEF AttemptRegister, AttemptExpires, AttemptExpired
    <3> QED
      BY <2>3, <3>1 DEF AttemptRegister, AttemptExpires, AttemptExpired, LockTypes
  <2>4. CASE AttemptFires(a)
    <3>1. [attempts[a] EXCEPT !.pc = "fired", !.ticks = FALSE] \in AttemptType
      BY DEF LockTypes, AttemptType
    <3>2. attempts' =
            [attempts EXCEPT ![a] = [attempts[a] EXCEPT !.pc = "fired", !.ticks = FALSE]]
      BY <2>4 DEF AttemptFires, LockTypes
    <3>3. attempts' \in [Attempts -> AttemptType]
      BY <3>1, <3>2 DEF LockTypes
    <3> QED
      BY <2>4, <3>3 DEF AttemptFires, LockTypes
  <2> QED
    BY <1>4, <2>1, <2>2, <2>3, <2>4 DEF AttemptStep
<1>5. CASE BarMoves \/ BoltMoves \/ SensorEdge \/ PositionSeen \/ PositionLeft \/ PositionReached
  BY <1>1, <1>5 DEF BarMoves, BoltMoves, SensorEdge, PositionSeen, PositionLeft, PositionReached
<1>6. CASE WindowReached
  <2>1. attempts' \in [Attempts -> AttemptType]
    <3>1. [attempts[timer] EXCEPT !.ticks = FALSE] \in AttemptType \/ timer = None
      BY DEF LockTypes, AttemptType
    <3>2. \/ attempts' = attempts
          \/ /\ timer # None
             /\ attempts' = [attempts EXCEPT ![timer] = [attempts[timer] EXCEPT !.ticks = FALSE]]
      BY <1>6 DEF WindowReached
    <3> QED
      BY <3>1, <3>2 DEF LockTypes
  <2> QED
    BY <1>6, <2>1 DEF WindowReached, LockTypes
<1>7. ASSUME NEW w \in Workers, WorkerStep(w) PROVE LockTypes'
  <2>1. CASE WorkerCleanup(w)
    BY <2>1 DEF WorkerCleanup, LockTypes
  <2>2. CASE WorkerRestore(w) \/ ServiceCancel(w) \/ ServiceRestore(w) \/ ServiceRelock(w)
    BY <1>1, <1>2, <2>2 DEF WorkerRestore, ServiceCancel, ServiceRestore, ServiceRelock
  <2>3. CASE ~WorkerCleanup(w) /\ ~WorkerRestore(w) /\ ~ServiceCancel(w) /\ ~ServiceRestore(w)
               /\ ~ServiceRelock(w)
    BY <1>1, <1>7, <2>3 DEF WorkerStep, WorkerCheck, PulseClose, PulseOpen, Rollback, CoastClose,
                            CoastLast, CoastOpen, OnlyPulse,
                            WorkerChecked, WorkerVerify, ServiceLatch
  <2> QED
    BY <2>1, <2>2, <2>3
<1>8. CASE OperatorPulse \/ ServiceMode \/ UNCHANGED vars
  BY <1>1, <1>8 DEF OperatorPulse, ServiceMode, vars
<1> QED
  BY <1>3, <1>4, <1>5, <1>6, <1>7, <1>8 DEF Next

(* A new worker.                                                           *)
LEMMA HireTypes ==
  ASSUME WorkTypes, NEW w \in Idle, NEW kind \in Kinds, NEW step \in WorkerSteps,
         NEW of \in Attempts \cup {None},
         workers' = [workers EXCEPT ![w] = Start(w, kind, step, of)]
  PROVE  workers' \in [Workers -> WorkerType]
<1>1. Start(w, kind, step, of) \in WorkerType
  BY StartTypes
<1> QED
  BY <1>1 DEF WorkTypes

(* Where a worker goes when it ends.                                      *)
LEMMA EndedTypes == \A k : Ended(k) \in WorkerSteps
  BY DEF Ended, WorkerSteps

(* The step of a worker, and what it writes of itself.                     *)
LEMMA WorkerStepTypes ==
  ASSUME WorkTypes, NEW w \in Workers, WorkerStep(w)
  PROVE  WorkTypes'
<1>1. udone' \in Workers \cup {NoWorker}
  <2>1. OnlyWorker
    BY DEF WorkerStep, WorkerCheck, PulseClose, PulseOpen, Rollback, CoastClose, CoastLast,
           CoastOpen, OnlyPulse, WorkerChecked,
           WorkerVerify, WorkerCleanup, WorkerRestore, ServiceCancel, ServiceRestore,
           ServiceLatch, ServiceRelock
  <2> QED
    BY <2>1 DEF OnlyWorker, WorkTypes
<1>2. CASE WorkerVerify(w)
  <2> DEFINE k == workers[w]
  <2>1. k \in WorkerType
    BY DEF WorkTypes
  <2>2. At(k, Ended(k)) \in WorkerType
    BY <2>1, EndedTypes, AtWorkerTypes
  <2>3. ASSUME TriesAgain(k)
        PROVE  [k EXCEPT !.pc = "check", !.tries = IF Closing(k) THEN @ + 1 ELSE @] \in WorkerType
    <3>1. k.tries \in 0..Retries
      BY <2>1 DEF WorkerType
    <3>2. (IF Closing(k) THEN k.tries + 1 ELSE k.tries) \in 0..Retries
      BY <2>3, <3>1, HandlebarAssumption DEF TriesAgain, Closing
    <3>3. "check" \in WorkerSteps
      BY DEF WorkerSteps
    <3> HIDE DEF k
    <3> QED
      BY <2>1, <3>2, <3>3 DEF WorkerType
  <2>4. PICK r \in WorkerType : workers' = [workers EXCEPT ![w] = r]
    BY <1>2, <2>2, <2>3 DEF WorkerVerify
  <2> QED
    BY <1>1, <2>4 DEF WorkTypes
<1>3. CASE ~WorkerVerify(w)
  <2>1. \E step \in WorkerSteps : Step(w, step)
    <3> USE EndedTypes DEF WorkerSteps, PulseSteps
    <3>1. CASE WorkerCheck(w) \/ WorkerChecked(w)
      BY <3>1 DEF WorkerCheck, WorkerChecked
    <3>2. CASE Pulse(w)
      BY <3>2 DEF Pulse, PulseClose, PulseOpen, Rollback, CoastClose, CoastLast, CoastOpen,
                  OnlyPulse
    <3>3. CASE WorkerCleanup(w) \/ WorkerRestore(w)
      BY <3>3 DEF WorkerCleanup, WorkerRestore
    <3>4. CASE ServiceCancel(w) \/ ServiceRestore(w) \/ ServiceLatch(w) \/ ServiceRelock(w)
      BY <3>4 DEF ServiceCancel, ServiceRestore, ServiceLatch, ServiceRelock
    <3> QED
      BY <1>3, <3>1, <3>2, <3>3, <3>4 DEF WorkerStep, Pulse
  <2> QED
    BY <1>1, <2>1, StepTypes DEF WorkTypes
<1> QED
  BY <1>2, <1>3

(* Every step keeps the workers typed.                                    *)
LEMMA WorkStep ==
  ASSUME LockTypes, WorkTypes, [Next]_vars
  PROVE  WorkTypes'
<1>1. CASE UNCHANGED <<workers, udone>>
  BY <1>1 DEF WorkTypes
<1>2. CASE EntryAction
  <2>1. CASE EnterDecide \/ DriveGiveUp \/ StandbyResync \/ ShutLock \/ ShutForced
    BY <1>1, <2>1, UnlockTypes DEF EnterDecide, DriveGiveUp, StandbyResync, ShutLock, ShutForced
  <2>2. CASE ExitRelease
    <3>1. CASE owned
      <4>1. PICK w \in Idle : workers' = [workers EXCEPT ![w] = Start(w, "release", "close", None)]
        BY <2>2, <3>1 DEF ExitRelease
      <4>2. workers' \in [Workers -> WorkerType]
        BY <4>1, HireTypes DEF Kinds, WorkerSteps, PulseSteps
      <4> QED
        BY <2>2, <4>2 DEF ExitRelease, WorkTypes
    <3>2. CASE ~owned
      BY <1>1, <2>2, <3>2 DEF ExitRelease
    <3> QED
      BY <3>1, <3>2
  <2>3. CASE EnterCancel \/ EnterRestore \/ EnterRead \/ ShutForcedRestore \/ HopOnLock
             \/ ExitCancel \/ ExitRestore
    BY <1>1, <2>3 DEF EnterCancel, EnterRestore, EnterRead, ShutForcedRestore, HopOnLock,
                      ExitCancel, ExitRestore
  <2> QED
    BY <1>2, <2>1, <2>2, <2>3 DEF EntryAction
<1>3. CASE Dispatch \/ LockAfterDecline
  BY <1>1, <1>3 DEF Dispatch, LockAfterDecline
<1>4. ASSUME NEW a \in Attempts, AttemptStep(a) PROVE WorkTypes'
  <2>1. udone' = udone
    BY <1>4 DEF AttemptStep, OnlyAttempt, AttemptStart, AttemptPlace, AttemptArm,
                AttemptRegister, AttemptLook, AttemptCancelled, AttemptFires, AttemptExpires, AttemptExpired
  <2>2. \/ UNCHANGED workers
        \/ \E w \in Idle : workers' = [workers EXCEPT ![w] = Start(w, "direct", "check", a)]
    BY <1>4 DEF AttemptStep, AttemptStart, AttemptPlace, AttemptArm, AttemptRegister,
                AttemptLook, AttemptCancelled, AttemptFires, AttemptExpires, AttemptExpired
  <2> QED
    BY <2>1, <2>2, HireTypes DEF WorkTypes, Kinds, WorkerSteps
<1>5. CASE BarMoves \/ BoltMoves \/ SensorEdge \/ PositionSeen \/ PositionLeft
  BY <1>1, <1>5 DEF BarMoves, BoltMoves, SensorEdge, PositionSeen, PositionLeft
<1>6. CASE PositionReached
  BY <1>1, <1>6, UnlockTypes DEF PositionReached
<1>7. CASE WindowReached
  <2>1. \/ UNCHANGED workers
        \/ \E w \in Idle : workers' = [workers EXCEPT ![w] = Start(w, "lock", "check", handler)]
    BY <1>7 DEF WindowReached
  <2> QED
    BY <1>7, <2>1, HireTypes DEF WindowReached, LockTypes, WorkTypes, Kinds, WorkerSteps
<1>8. CASE OperatorPulse
  <2>1. PICK r \in {"lock", "unlock"}, w \in Idle :
          workers' = [workers EXCEPT ![w] =
            Start(w, IF r = "lock" THEN "opLock" ELSE "opUnlock", "close", None)]
    BY <1>8 DEF OperatorPulse
  <2>2. workers' \in [Workers -> WorkerType]
    BY <2>1, HireTypes DEF Kinds, WorkerSteps, PulseSteps
  <2> QED
    BY <1>8, <2>2 DEF OperatorPulse, WorkTypes
<1>9. CASE ServiceMode
  <2>1. PICK r \in {"serviceOn", "serviceOff"}, w \in Idle :
          workers' = [workers EXCEPT ![w] =
            Start(w, "service", IF r = "serviceOn" THEN "svcCancel" ELSE "svcRelock", None)]
    BY <1>9 DEF ServiceMode
  <2>2. workers' \in [Workers -> WorkerType]
    BY <2>1, HireTypes DEF Kinds, WorkerSteps
  <2> QED
    BY <1>9, <2>2 DEF ServiceMode, WorkTypes
<1>10. CASE UNCHANGED vars
  BY <1>1, <1>10 DEF vars
<1> QED
  BY <1>2, <1>3, <1>4, <1>5, <1>6, <1>7, <1>8, <1>9, <1>10, WorkerStepTypes DEF Next

(* The steps of a worker that write an output, and those that do not.      *)
LEMMA WorkerKeepsBody ==
  ASSUME NEW w \in Workers, WorkerStep(w)
  PROVE  /\ UNCHANGED <<bolt, place, cached, reported, service, pending, relock, asked, moves>>
         /\ UNCHANGED coilVars \/ Pulse(w)
         /\ UNCHANGED <<unlocked, latch, owned>> \/ WorkerVerify(w) \/ ServiceLatch(w)
  BY DEF WorkerStep, Pulse, bodyVars, OnlyWorker, WorkerCheck, PulseClose, PulseOpen, Rollback,
         CoastClose, CoastLast, CoastOpen, OnlyPulse,
         WorkerChecked, WorkerVerify, WorkerCleanup, WorkerRestore, ServiceCancel, ServiceRestore,
         ServiceLatch, ServiceRelock

(* An attempt changes windows only: neither outputs nor flags.            *)
LEMMA AttemptKeepsBody ==
  ASSUME NEW a, AttemptStep(a)
  PROVE  UNCHANGED <<bodyVars, flagVars, asked, moves, relock>>
  BY DEF AttemptStep, OnlyAttempt, AttemptStart, AttemptPlace, AttemptArm, AttemptRegister,
         AttemptLook, AttemptCancelled, AttemptFires, AttemptExpires, AttemptExpired

(* What an entry action may write of the flags.                           *)
LEMMA EntryKeepsBody ==
  ASSUME EntryAction
  PROVE  /\ UNCHANGED <<bodyVars, service, pending, asked, moves>>
         /\ UNCHANGED unlocked \/ unlocked' = ~bolt
         /\ UNCHANGED latch \/ latch' = bolt
         /\ UNCHANGED owned \/ owned' = FALSE
         /\ \/ UNCHANGED relock \/ relock' = FALSE
            \/ relock' = (\E w \in Workers : Busy(w) /\ workers[w].kind \in LockKinds)
  BY DEF EntryAction, OnlyLoop, Enter, EnterCancel, EnterRestore, EnterRead, EnterDecide,
         DriveGiveUp, StandbyResync, ShutLock, ShutForced, ShutForcedRestore, HopOnLock,
         ExitCancel, ExitRestore, ExitRelease

(* A write, with either outcome.                                           *)
LEMMA WriteTypes ==
  ASSUME BodyTypes, NEW side \in Sides, NEW value \in BOOLEAN,
         Written(side, value) \/ NotWritten(side, value)
  PROVE  coil' \in [close : BOOLEAN, open : BOOLEAN] /\ stuck' \subseteq Sides
  BY DEF BodyTypes, Sides, Written, NotWritten

(* Every step keeps outputs and sensors typed.                             *)
LEMMA BodyStep ==
  ASSUME BodyTypes, [Next]_vars
  PROVE  BodyTypes'
<1>1. CASE UNCHANGED bodyVars
  BY <1>1 DEF BodyTypes, bodyVars, coilVars
<1>2. ASSUME NEW w \in Workers, WorkerStep(w) PROVE BodyTypes'
  <2>1. CASE Pulse(w)
    <3>1. \E side \in Sides, value \in BOOLEAN : Written(side, value) \/ NotWritten(side, value)
      <4> DEFINE wanted == workers[w].kind \in LockKinds
                 other  == workers[w].kind \notin LockKinds
      <4>1. wanted \in BOOLEAN /\ other \in BOOLEAN
        OBVIOUS
      <4>2. CASE PulseClose(w)
        <5>1. Written("close", wanted) \/ NotWritten("close", wanted)
          BY <4>2 DEF PulseClose
        <5> HIDE DEF wanted
        <5> QED
          BY <4>1, <5>1 DEF Sides
      <4>3. CASE PulseOpen(w)
        <5>1. Written("open", other) \/ NotWritten("open", other)
          BY <4>3 DEF PulseOpen
        <5> HIDE DEF other
        <5> QED
          BY <4>1, <5>1 DEF Sides
      <4>4. CASE Rollback(w) \/ CoastClose(w) \/ CoastLast(w) \/ CoastOpen(w)
        BY <4>4 DEF Rollback, CoastClose, CoastLast, CoastOpen, Sides
      <4> QED
        BY <2>1, <4>2, <4>3, <4>4 DEF Pulse
    <3>2. coil' \in [close : BOOLEAN, open : BOOLEAN] /\ stuck' \subseteq Sides
      BY <3>1, WriteTypes
    <3> QED
      BY <1>2, <3>2, WorkerKeepsBody DEF BodyTypes
  <2>2. CASE ~Pulse(w)
    BY <1>1, <1>2, <2>2, WorkerKeepsBody DEF bodyVars
  <2> QED
    BY <2>1, <2>2
<1>3. CASE BarMoves \/ BoltMoves \/ SensorEdge \/ PositionSeen \/ PositionLeft \/ PositionReached \/ WindowReached
  BY <1>1, <1>3 DEF BarMoves, BoltMoves, SensorEdge, PositionSeen, PositionLeft, PositionReached, WindowReached,
                    Delivered, BodyTypes, coilVars
<1>4. CASE EntryAction \/ \E a \in Attempts : AttemptStep(a)
  BY <1>1, <1>4, EntryKeepsBody, AttemptKeepsBody
<1>5. CASE Dispatch \/ LockAfterDecline \/ OperatorPulse \/ ServiceMode \/ UNCHANGED vars
  BY <1>1, <1>5 DEF Dispatch, LockAfterDecline, OperatorPulse, ServiceMode, vars
<1> QED
  BY <1>2, <1>3, <1>4, <1>5 DEF Next

(* Every step keeps the flags typed.                                      *)
LEMMA FlagStep ==
  ASSUME FlagTypes, BodyTypes, [Next]_vars
  PROVE  FlagTypes'
<1> USE DEF FlagTypes, flagVars
<1>1. CASE UNCHANGED <<flagVars, relock>>
  BY <1>1
<1>2. (~bolt) \in BOOLEAN /\ bolt \in BOOLEAN
  BY DEF BodyTypes
<1>3. CASE EntryAction
  <2>1. (\E w \in Workers : Busy(w) /\ workers[w].kind \in LockKinds) \in BOOLEAN
    BY Zenon
  <2>2. relock' \in BOOLEAN
    BY <1>3, <2>1, EntryKeepsBody
  <2>3. unlocked' \in BOOLEAN /\ latch' \in BOOLEAN /\ owned' \in BOOLEAN
    BY <1>2, <1>3, EntryKeepsBody
  <2> QED
    BY <1>3, <2>2, <2>3, EntryKeepsBody
<1>4. CASE Dispatch \/ LockAfterDecline
  BY <1>4 DEF Dispatch, LockAfterDecline, Enter
<1>5. CASE \E a \in Attempts : AttemptStep(a)
  BY <1>1, <1>5, AttemptKeepsBody
<1>6. CASE BarMoves \/ BoltMoves \/ SensorEdge \/ PositionSeen \/ PositionLeft \/ PositionReached \/ WindowReached
  BY <1>1, <1>2, <1>6 DEF BarMoves, BoltMoves, SensorEdge, PositionSeen, PositionLeft, PositionReached,
                          WindowReached, Delivered
<1>7. ASSUME NEW w \in Workers, WorkerStep(w) PROVE FlagTypes'
  <2>1. CASE WorkerVerify(w)
    <3> DEFINE k == workers[w]
               wanted == k.kind \in LockKinds
               gained == owned \/ (bolt /\ Closing(k) /\ attempts[k.of].hop)
    <3>1. wanted \in BOOLEAN /\ gained \in BOOLEAN
      OBVIOUS
    <3>2. /\ unlocked' = ~bolt /\ owned' = gained
          /\ latch' = wanted \/ latch' = latch
      BY <2>1 DEF WorkerVerify
    <3> HIDE DEF wanted, gained
    <3> QED
      BY <1>2, <1>7, <3>1, <3>2, WorkerKeepsBody
  <2>2. CASE ~WorkerVerify(w)
    BY <1>7, <2>2, WorkerKeepsBody DEF ServiceLatch
  <2> QED
    BY <2>1, <2>2
<1>8. CASE OperatorPulse \/ UNCHANGED vars
  BY <1>1, <1>8 DEF OperatorPulse, vars
<1>9. CASE ServiceMode
  <2>1. service' \in BOOLEAN
    BY <1>9 DEF ServiceMode
  <2> QED
    BY <1>9, <2>1 DEF ServiceMode
<1> QED
  BY <1>3, <1>4, <1>5, <1>6, <1>7, <1>8, <1>9 DEF Next

(* Requests and failing writes share a bound.                              *)
LEMMA FaultTypes ==
  ASSUME CountTypes, Cardinality(asked) + faults < MaxRequests, faults' = faults + 1
  PROVE  faults' \in 0..MaxRequests
<1>1. IsFiniteSet({"lock", "unlock", "serviceOn", "serviceOff"})
  <2>1. IsFiniteSet({"lock"}) /\ IsFiniteSet({"unlock"})
        /\ IsFiniteSet({"serviceOn"}) /\ IsFiniteSet({"serviceOff"})
    BY FS_Singleton
  <2>2. IsFiniteSet({"lock"} \cup {"unlock"}) /\ IsFiniteSet({"serviceOn"} \cup {"serviceOff"})
    BY <2>1, FS_Union
  <2>3. IsFiniteSet(({"lock"} \cup {"unlock"}) \cup ({"serviceOn"} \cup {"serviceOff"}))
    BY <2>2, FS_Union
  <2>4. {"lock", "unlock", "serviceOn", "serviceOff"}
          = ({"lock"} \cup {"unlock"}) \cup ({"serviceOn"} \cup {"serviceOff"})
    OBVIOUS
  <2> QED
    BY <2>3, <2>4
<1>2. asked \subseteq {"lock", "unlock", "serviceOn", "serviceOff"}
  BY HandlebarAssumption DEF CountTypes
<1>3. Cardinality(asked) \in Nat
  BY <1>1, <1>2, FS_Subset, FS_CardinalityType
<1> QED
  BY <1>3, HandlebarAssumption DEF CountTypes

(* Every step keeps the bounds.                                            *)
LEMMA CountStep ==
  ASSUME CountTypes, [Next]_vars
  PROVE  CountTypes'
<1>1. CASE UNCHANGED <<asked, moves, faults>>
  BY <1>1 DEF CountTypes
<1>2. CASE BarMoves
  BY <1>2, HandlebarAssumption DEF BarMoves, CountTypes, coilVars
<1>3. CASE OperatorPulse \/ ServiceMode
  BY <1>3 DEF OperatorPulse, ServiceMode, Request, CountTypes, bodyVars, coilVars
<1>4. CASE BoltMoves \/ SensorEdge \/ PositionSeen \/ PositionLeft \/ PositionReached \/ WindowReached
  BY <1>1, <1>4 DEF BoltMoves, SensorEdge, PositionSeen, PositionLeft, PositionReached, WindowReached, Delivered,
                    bodyVars, coilVars
<1>5. CASE Dispatch \/ LockAfterDecline \/ UNCHANGED vars
  BY <1>1, <1>5 DEF Dispatch, LockAfterDecline, vars, bodyVars, coilVars
<1>6. CASE EntryAction \/ \E a \in Attempts : AttemptStep(a)
  BY <1>1, <1>6, EntryKeepsBody, AttemptKeepsBody DEF bodyVars, coilVars
<1>7. ASSUME NEW w \in Workers, WorkerStep(w) PROVE CountTypes'
  <2>1. UNCHANGED faults \/ /\ Cardinality(asked) + faults < MaxRequests
                            /\ faults' = faults + 1
    <3>1. CASE Pulse(w)
      BY <3>1 DEF Pulse, PulseClose, PulseOpen, Rollback, CoastClose, CoastLast, CoastOpen,
                  Written, NotWritten
    <3>2. CASE ~Pulse(w)
      BY <1>7, <3>2, WorkerKeepsBody DEF coilVars
    <3> QED
      BY <3>1, <3>2
  <2>2. UNCHANGED <<asked, moves>>
    BY <1>7, WorkerKeepsBody
  <2> QED
    BY <2>1, <2>2, FaultTypes DEF CountTypes
<1> QED
  BY <1>2, <1>3, <1>4, <1>5, <1>6, <1>7 DEF Next

(* The types hold after a boot.                                           *)
LEMMA TypesInit == Init => Types
<1> SUFFICES ASSUME Init PROVE Types
  OBVIOUS
<1>1. MachineTypes
  <2>1. state \in Leaves /\ pc \in LoopSteps \ ExitSteps
    BY EntryOfTypes DEF Init, Leaves, AtRestLeaves
  <2> QED
    BY <2>1 DEF Init, MachineTypes
<1>2. LockTypes
  <2>1. NewAttempt \in AttemptType
    BY DEF NewAttempt, AttemptType
  <2> QED
    BY <2>1, HandlebarAssumption DEF Init, LockTypes, None
<1>3. WorkTypes
  BY IdleTypes DEF Init, WorkTypes
<1>4. BodyTypes /\ CountTypes
  BY HandlebarAssumption DEF Init, BodyTypes, CountTypes, Sides
<1>5. FlagTypes
  <2>1. (~bolt) \in BOOLEAN
    BY DEF Init
  <2> QED
    BY <2>1 DEF Init, FlagTypes
<1> QED
  BY <1>1, <1>2, <1>3, <1>4, <1>5 DEF Types

(* Every step keeps all of them.                                          *)
LEMMA TypesStep == Types /\ [Next]_vars => Types'
<1> SUFFICES ASSUME Types, [Next]_vars PROVE Types'
  OBVIOUS
<1>1. MachineTypes' /\ LockTypes' /\ WorkTypes'
  BY MachineStep, LockStep, WorkStep DEF Types
<1>2. BodyTypes' /\ FlagTypes' /\ CountTypes'
  BY BodyStep, FlagStep, CountStep DEF Types
<1> QED
  BY <1>1, <1>2 DEF Types

(* Every variable of the steering lock keeps its type.                     *)
THEOREM HandlebarTypes == Spec => []TypeOK
  BY TypesInit, TypesStep, TypesImplyTypeOK, PTL DEF Spec
-----------------------------------------------------------------------------
(* The solenoid.  A side that is driven has a worker between the switching *)
(* on of that side and the switching off: what CoilsRest leaves out.       *)
Driven ==
  /\ coil \in [close : BOOLEAN, open : BOOLEAN]
  /\ coil.close => \/ "close" \in stuck
                   \/ \E w \in Workers : workers[w].pc \in {"open", "rollback", "coastClose"}
  /\ coil.open => \/ "open" \in stuck
                  \/ \E w \in Workers : workers[w].pc \in {"coastClose", "coastOpen", "coastLast"}

(* Nobody else touches a worker in the middle of its pulse.                *)
Spared ==
  \A w \in Workers :
    workers[w].pc \in PulseSteps \ {"close"} => workers'[w].pc = workers[w].pc

(* With no worker in its pulse, no side is driven.                        *)
LEMMA DrivenImpliesCoilsRest == Driven => CoilsRest
  BY DEF Driven, CoilsRest, PulseSteps

(* A new worker was idle.                                                  *)
LEMMA HireSpares ==
  ASSUME WorkTypes, NEW w \in Idle, NEW r, workers' = [workers EXCEPT ![w] = r]
  PROVE  Spared
  BY DEF WorkTypes, Idle, Busy, Spared, PulseSteps

(* Closing a channel stops a loop between its pulses only.                 *)
LEMMA CloseSpares ==
  ASSUME WorkTypes, CancelUnlock \/ \E w \in Idle : UnlockHandlebar(w)
  PROVE  Spared
<1>1. ASSUME NEW w \in Workers
      PROVE  UnlocksClosed[w].pc = workers[w].pc
  <2>1. UnlocksClosed[w] = IF w = udone THEN [workers[w] EXCEPT !.open = FALSE] ELSE workers[w]
    BY DEF UnlocksClosed
  <2>2. [workers[w] EXCEPT !.open = FALSE].pc = workers[w].pc
    BY DEF WorkTypes, WorkerType
  <2> QED
    BY <2>1, <2>2
<1>2. CASE CancelUnlock
  BY <1>1, <1>2 DEF CancelUnlock, Spared
<1>3. ASSUME NEW v \in Idle, UnlockHandlebar(v) PROVE Spared
  <2>1. ASSUME NEW w \in Workers, w # v PROVE workers'[w] = UnlocksClosed[w]
    BY <1>3, <2>1 DEF UnlockHandlebar, UnlocksClosed
  <2>2. workers[v].pc = "idle"
    BY DEF Idle, Busy
  <2> QED
    BY <1>1, <2>1, <2>2 DEF Spared, PulseSteps
<1> QED
  BY <1>2, <1>3

(* The loop, the attempts, the bar and the requests: whoever is no worker. *)
LEMMA OthersSpare ==
  ASSUME WorkTypes, [Next]_vars, ~\E w \in Workers : WorkerStep(w)
  PROVE  Spared /\ UNCHANGED coilVars
<1>1. ASSUME UNCHANGED workers PROVE Spared
  BY <1>1 DEF Spared
<1>2. CASE EntryAction
  <2>1. Spared
    <3>1. CASE EnterDecide \/ DriveGiveUp \/ StandbyResync \/ ShutLock \/ ShutForced
      BY <1>1, <3>1, CloseSpares DEF EnterDecide, DriveGiveUp, StandbyResync, ShutLock, ShutForced
    <3>2. CASE ExitRelease
      BY <1>1, <3>2, HireSpares DEF ExitRelease
    <3>3. CASE EnterCancel \/ EnterRestore \/ EnterRead \/ ShutForcedRestore \/ HopOnLock
               \/ ExitCancel \/ ExitRestore
      BY <1>1, <3>3 DEF EnterCancel, EnterRestore, EnterRead, ShutForcedRestore, HopOnLock,
                        ExitCancel, ExitRestore
    <3> QED
      BY <1>2, <3>1, <3>2, <3>3 DEF EntryAction
  <2> QED
    BY <1>2, <2>1, EntryKeepsBody DEF bodyVars
<1>3. ASSUME NEW a \in Attempts, AttemptStep(a) PROVE Spared /\ UNCHANGED coilVars
  <2>1. UNCHANGED workers
          \/ \E w \in Idle : workers' = [workers EXCEPT ![w] = Start(w, "direct", "check", a)]
    BY <1>3 DEF AttemptStep, AttemptStart, AttemptPlace, AttemptArm, AttemptRegister,
                AttemptLook, AttemptCancelled, AttemptFires, AttemptExpires, AttemptExpired
  <2> QED
    BY <1>1, <1>3, <2>1, HireSpares, AttemptKeepsBody DEF bodyVars
<1>4. CASE PositionReached
  BY <1>1, <1>4, CloseSpares DEF PositionReached, Delivered
<1>5. CASE WindowReached
  BY <1>1, <1>5, HireSpares DEF WindowReached, Delivered
<1>6. CASE OperatorPulse \/ ServiceMode
  BY <1>6, HireSpares DEF OperatorPulse, ServiceMode, bodyVars
<1>7. CASE BarMoves \/ BoltMoves \/ SensorEdge \/ PositionSeen \/ PositionLeft
  BY <1>1, <1>7 DEF BarMoves, BoltMoves, SensorEdge, PositionSeen, PositionLeft, Delivered, bodyVars
<1>8. CASE Dispatch \/ LockAfterDecline \/ UNCHANGED vars
  BY <1>1, <1>8 DEF Dispatch, LockAfterDecline, vars, bodyVars
<1> QED
  BY <1>2, <1>3, <1>4, <1>5, <1>6, <1>7, <1>8 DEF Next

(* A worker writes its own step only.                                      *)
LEMMA StepSparesOthers ==
  ASSUME WorkTypes, NEW w \in Workers, WorkerStep(w), NEW v \in Workers, v # w
  PROVE  workers'[v] = workers[v]
  BY DEF WorkerStep, Step, WorkTypes, WorkerCheck, PulseClose, PulseOpen, Rollback, CoastClose,
         CoastLast, CoastOpen, OnlyPulse,
         WorkerChecked, WorkerVerify, WorkerCleanup, WorkerRestore, ServiceCancel,
         ServiceRestore, ServiceLatch, ServiceRelock

(* Where a worker in its pulse goes next.                                  *)
LEMMA PulseGoesOn ==
  ASSUME WorkTypes, NEW w \in Workers, NEW step \in WorkerSteps \ {"idle"}, Step(w, step)
  PROVE  workers'[w].pc = step
<1>1. workers'[w] = [workers[w] EXCEPT !.pc = step]
  BY DEF Step, At, WorkTypes
<1> QED
  BY <1>1 DEF WorkTypes, WorkerType

(* One step of a worker.  The one that switches a side on stands for it.   *)
LEMMA WorkerDrives ==
  ASSUME WorkTypes, Driven, coil' \in [close : BOOLEAN, open : BOOLEAN],
         NEW w \in Workers, WorkerStep(w)
  PROVE  Driven'
<1> DEFINE k == workers[w]
<1> USE DEF Driven
<1>1. \A v \in Workers : v # w => workers'[v] = workers[v]
  BY StepSparesOthers
<1>2. ASSUME NEW side \in Sides, NEW value, Written(side, value)
      PROVE  /\ coil'[side] = value /\ side \notin stuck'
             /\ \A other \in Sides \ {side} :
                  coil'[other] = coil[other] /\ (other \in stuck' <=> other \in stuck)
  BY <1>2 DEF Written, Sides
<1>3. ASSUME NEW side \in Sides, NEW value, NotWritten(side, value)
      PROVE  /\ coil' = coil /\ stuck \subseteq stuck'
             /\ ~value => side \in stuck'
  BY <1>3 DEF NotWritten
<1> USE DEF Sides
<1>4. CASE PulseClose(w)
  <2>1. k.pc = "close"
    BY <1>4 DEF PulseClose
  <2>2. CASE Written("close", k.kind \in LockKinds) /\ Step(w, "open")
    <3>1. workers'[w].pc = "open"
      BY <2>2, PulseGoesOn DEF WorkerSteps, PulseSteps
    <3> QED
      BY <1>1, <1>2, <2>1, <2>2, <3>1
  <2>3. CASE NotWritten("close", k.kind \in LockKinds)
    BY <1>1, <1>3, <2>1, <2>3
  <2> QED
    BY <1>4, <2>2, <2>3 DEF PulseClose
<1>5. CASE PulseOpen(w)
  <2>1. k.pc = "open"
    BY <1>5 DEF PulseOpen
  <2>2. CASE Written("open", k.kind \notin LockKinds) /\ Step(w, "coastClose")
    <3>1. workers'[w].pc = "coastClose"
      BY <2>2, PulseGoesOn DEF WorkerSteps, PulseSteps
    <3> QED
      BY <1>1, <1>2, <2>1, <2>2, <3>1
  <2>3. CASE NotWritten("open", k.kind \notin LockKinds) /\ Step(w, "rollback")
    <3>1. workers'[w].pc = "rollback"
      BY <2>3, PulseGoesOn DEF WorkerSteps, PulseSteps
    <3> QED
      BY <1>1, <1>3, <2>1, <2>3, <3>1
  <2> QED
    BY <1>5, <2>2, <2>3 DEF PulseOpen
<1>6. CASE Rollback(w)
  <2>1. k.pc = "rollback" /\ (Written("close", FALSE) \/ NotWritten("close", FALSE))
    BY <1>6 DEF Rollback
  <2> QED
    BY <1>1, <1>2, <1>3, <2>1
<1>7. CASE CoastClose(w)
  <2>1. k.pc = "coastClose" /\ (Written("close", FALSE) \/ NotWritten("close", FALSE))
    BY <1>7 DEF CoastClose
  <2>2. workers'[w].pc \in {"coastOpen", "coastLast"}
    BY <1>7, PulseGoesOn DEF CoastClose, WorkerSteps, PulseSteps
  <2> QED
    BY <1>1, <1>2, <1>3, <2>1, <2>2
<1>8. CASE CoastLast(w) \/ CoastOpen(w)
  <2>1. /\ k.pc \in {"coastLast", "coastOpen"}
        /\ Written("open", FALSE) \/ NotWritten("open", FALSE)
    BY <1>8 DEF CoastLast, CoastOpen
  <2> QED
    BY <1>1, <1>2, <1>3, <2>1
<1>9. CASE ~Pulse(w)
  <2>1. k.pc \notin PulseSteps \ {"close"}
    BY <1>9 DEF WorkerStep, Pulse, PulseSteps, WorkerCheck, WorkerChecked, WorkerVerify,
                WorkerCleanup, WorkerRestore, ServiceCancel, ServiceRestore, ServiceLatch,
                ServiceRelock
  <2>2. UNCHANGED coilVars
    BY <1>9, WorkerKeepsBody
  <2> QED
    BY <1>1, <2>1, <2>2 DEF PulseSteps, coilVars
<1> QED
  BY <1>4, <1>5, <1>6, <1>7, <1>8, <1>9 DEF Pulse

(* Every step keeps the solenoid attended.                                *)
LEMMA DrivenStep ==
  ASSUME Types, Types', Driven, [Next]_vars
  PROVE  Driven'
<1>1. ASSUME NEW w \in Workers, WorkerStep(w) PROVE Driven'
  BY <1>1, WorkerDrives DEF Types, BodyTypes
<1>2. CASE ~\E w \in Workers : WorkerStep(w)
  <2>1. Spared /\ UNCHANGED coilVars
    BY <1>2, OthersSpare DEF Types
  <2> QED
    BY <2>1 DEF Driven, Spared, PulseSteps, coilVars
<1> QED
  BY <1>1, <1>2

(* Whoever pulses, and whatever is cancelled, restarted or expires between *)
(* two pulses, with the last pulse the current of the solenoid ends        *)
(* (pulseHandlebarLock).                                                   *)
THEOREM CoilsComeToRest == Spec => []CoilsRest
<1>1. Init => Types /\ Driven
  BY TypesInit DEF Init, Driven
<1>2. Types /\ Driven /\ [Next]_vars => (Types /\ Driven)'
  BY TypesStep, DrivenStep
<1> QED
  BY <1>1, <1>2, DrivenImpliesCoilsRest, PTL DEF Spec
=============================================================================
