--------------------------- MODULE DbcPowerProofs ---------------------------
(***************************************************************************)
(* The dashboard's rail for every set of requests and events, every number *)
(* of restarts, and every interleaving of the handlers.                    *)
(***************************************************************************)
EXTENDS DbcPower, FsmProofs

(* The variables typed apart, by the part of the service that owns them.   *)
BootTypes ==
  /\ up \in BOOLEAN /\ saved \in SystemStates \cup RestorableStates \cup {"none"}
  /\ requests \in 0..MaxRequests /\ restarts \in 0..MaxRestarts
QueueTypes == queue \in Seq([ev : Events, by : Handlers \cup {"none"}])
LoopTypes ==
  /\ state \in Leaves /\ from \in Leaves \cup {"none"} /\ vstate \in SystemStates
  /\ pc \in EntrySteps \cup {"idle"} /\ shutTimer \in BOOLEAN
RailTypes == dash \in BOOLEAN /\ manual \in BOOLEAN /\ gaps \in SUBSET Gaps /\ cuts \in Nat
HoldTypes ==
  /\ updating \in BOOLEAN /\ watchdog \in BOOLEAN /\ mapHold \in BOOLEAN
  /\ holdTimer \in BOOLEAN /\ deferred \in BOOLEAN
  /\ flag \in BOOLEAN /\ inhib \in SUBSET Inhibitors
RequestTypes ==
  /\ sent \in BOOLEAN /\ pending \in BOOLEAN /\ replay \in BOOLEAN
  /\ hibernating \in BOOLEAN /\ physical \in BOOLEAN
HandlerTypes ==
  /\ at \in [Handlers -> HandlerSteps]
  /\ seen \in [Handlers -> SystemStates \cup {"none"}]
  /\ cut \in [Handlers -> BOOLEAN]

(* TypeOK is the seven parts together, before and after a step.            *)
LEMMA TypeParts ==
  /\ TypeOK <=> /\ BootTypes /\ QueueTypes /\ LoopTypes /\ RailTypes /\ HoldTypes
                /\ RequestTypes /\ HandlerTypes
  /\ TypeOK' <=> /\ BootTypes' /\ QueueTypes' /\ LoopTypes' /\ RailTypes' /\ HoldTypes'
                 /\ RequestTypes' /\ HandlerTypes'
  BY DEF TypeOK, BootTypes, QueueTypes, LoopTypes, RailTypes, HoldTypes, RequestTypes,
         HandlerTypes

(* The steps a handler may be sent to.                                     *)
LEMMA StepType ==
  ASSUME HandlerTypes, NEW h \in Handlers, NEW step \in HandlerSteps, Step(h, step),
         UNCHANGED <<seen, cut>>
  PROVE  HandlerTypes'
  BY DEF HandlerTypes, Step

(* The events of the machine's timers and of its handlers are events.      *)
LEMMA SendType ==
  ASSUME QueueTypes, NEW e \in Events, NEW h \in Handlers \cup {"none"}, Send(e, h)
  PROVE  QueueTypes'
  BY DEF QueueTypes, Send

(* A switch of the rail.                                                   *)
LEMMA RailType ==
  ASSUME RailTypes, NEW on \in BOOLEAN, Rail(on), cuts' \in Nat
  PROVE  RailTypes'
  BY DEF RailTypes, Rail

(* The histories of holds, of updates and of what they overlap.            *)
LEMMA GapTypes ==
  ASSUME RailTypes
  PROVE  /\ \A b : UpdateGaps(b) \in SUBSET Gaps /\ MapGaps(b) \in SUBSET Gaps
         /\ Dropped \in SUBSET Gaps
         /\ Lag \in SUBSET Gaps /\ Overtakes \in SUBSET Gaps /\ TooLate \in SUBSET Gaps
  BY DEF RailTypes, UpdateGaps, MapGaps, Dropped, Lag, Overtakes, TooLate, Gaps

(* Entering a leaf.                                                        *)
LEMMA EnterType ==
  ASSUME LoopTypes, NEW s \in Leaves, Enter(s)
  PROVE  LoopTypes'
<1>1. EntryOf(s) \in EntrySteps
  BY DEF EntryOf, EntrySteps
<1> QED
  BY <1>1 DEF LoopTypes, Enter

(* The published state of a leaf is one of the published states.           *)
LEMMA SystemStateType == \A s \in Leaves : SystemStateOf(s) \in SystemStates
  BY DEF SystemStates

(* One request more, within the bound.                                     *)
LEMMA RequestType ==
  ASSUME BootTypes, Request, UNCHANGED bootVars
  PROVE  BootTypes'
  BY DbcPowerAssumption DEF BootTypes, Request, bootVars

-----------------------------------------------------------------------------
(* The first boot is well typed.                                           *)
LEMMA TypeInit == Init => TypeOK
<1> SUFFICES ASSUME Init PROVE TypeOK
  OBVIOUS
<1>1. BootTypes
  <2>1. 0 \in 0..MaxRequests /\ 0 \in 0..MaxRestarts
    BY DbcPowerAssumption
  <2>2. FirstSaved \subseteq RestorableStates \cup {"none"}
    BY DbcPowerAssumption
  <2> QED
    BY <2>1, <2>2 DEF Init, BootTypes
<1>2. InitialState \in Leaves /\ EntryOf(InitialState) \in EntrySteps
  BY DEF InitialState, Leaves, EntryOf, EntrySteps
<1>3. LoopTypes
  BY <1>2, SystemStateType DEF Init, LoopTypes
<1>4. QueueTypes /\ RailTypes /\ HoldTypes /\ RequestTypes
  <2>1. QueueTypes
    BY DEF Init, QueueTypes
  <2>2. RailTypes
    BY DEF Init, RailTypes
  <2>3. HoldTypes
    BY DEF Init, HoldTypes
  <2>4. RequestTypes
    BY DEF Init, RequestTypes
  <2> QED
    BY <2>1, <2>2, <2>3, <2>4
<1>5. HandlerTypes
  <2>1. "idle" \in HandlerSteps
    BY DEF HandlerSteps, Waiting
  <2>2. /\ at = [h \in Handlers |-> "idle"] /\ seen = [h \in Handlers |-> "none"]
        /\ cut = [h \in Handlers |-> FALSE]
    BY DEF Init
  <2> QED
    BY <2>1, <2>2 DEF HandlerTypes
<1> QED
  BY <1>1, <1>3, <1>4, <1>5, TypeParts

(* An entry action keeps the types.                                        *)
LEMMA EntryTypes ==
  ASSUME TypeOK, EntryAction
  PROVE  TypeOK'
<1>0. /\ BootTypes /\ QueueTypes /\ LoopTypes /\ RailTypes /\ HoldTypes
      /\ RequestTypes /\ HandlerTypes
  BY TypeParts
<1> USE DEF QueueTypes, LoopTypes, HoldTypes, RequestTypes, EntrySteps, OnlyLoop, Goto,
            bootVars, handlerVars, railVars, holdVars, unlockVars, hibernateVars, redisVars
<1>1. CASE RailOn
  BY <1>0, <1>1, RailType, TypeParts DEF RailOn, BootTypes, HandlerTypes, RailTypes
<1>2. CASE StandbyLook \/ StandbyCut
  <2>1. CASE StandbyLook
    BY <1>0, <2>1, TypeParts DEF StandbyLook, Defer, OnlyDeferral, BootTypes, HandlerTypes, RailTypes
  <2>2. CASE StandbyCut
    BY <1>0, <2>2, TypeParts DEF StandbyCut, BootTypes, HandlerTypes, RailTypes
  <2> QED
    BY <1>2, <2>1, <2>2
<1>3. CASE StandbyReplay
  BY <1>0, <1>3, TypeParts DEF StandbyReplay, BootTypes, HandlerTypes, RailTypes
<1>4. CASE ShutReset
  BY <1>0, <1>4, TypeParts DEF ShutReset, BootTypes, HandlerTypes, RailTypes
<1>5. CASE ShutHold
  <2>1. RailTypes'
    BY <1>0, <1>5, GapTypes DEF ShutHold, RailTypes
  <2>2. HoldTypes'
    BY <1>0, <1>5 DEF ShutHold
  <2> QED
    BY <1>0, <1>5, <2>1, <2>2, TypeParts DEF ShutHold, BootTypes, HandlerTypes
<1>6. CASE ShutInstall \/ ShutEnd
  <2>1. CASE ShutInstall
    BY <1>0, <2>1, TypeParts DEF ShutInstall, BootTypes, HandlerTypes, RailTypes
  <2>2. CASE ShutEnd
    <3>1. RailTypes'
      BY <1>0, <2>2, GapTypes DEF ShutEnd, RailTypes
    <3> QED
      BY <1>0, <2>2, <3>1, TypeParts DEF ShutEnd, BootTypes, HandlerTypes
  <2> QED
    BY <1>6, <2>1, <2>2
<1>7. CASE ShutRelease
  BY <1>0, <1>7, TypeParts DEF ShutRelease, BootTypes, HandlerTypes, RailTypes
<1>8. CASE ShutPoweroff
  BY <1>0, <1>8, TypeParts DEF ShutPoweroff, BootTypes, HandlerTypes, RailTypes
<1>9. CASE Publish
  <2>1. BootTypes'
    BY <1>0, <1>9, SystemStateType DEF Publish, BootTypes
  <2> QED
    BY <1>0, <1>9, <2>1, SystemStateType, TypeParts DEF Publish, HandlerTypes, RailTypes
<1>10. CASE PublishLost
  <2>1. BootTypes'
    BY <1>0, <1>10, SystemStateType, DbcPowerAssumption DEF PublishLost, Request, BootTypes
  <2>2. RailTypes'
    BY <1>0, <1>10 DEF PublishLost, RailTypes, Gaps
  <2> QED
    BY <1>0, <1>10, <2>1, <2>2, SystemStateType, TypeParts DEF PublishLost, HandlerTypes
<1> QED
  BY <1>1, <1>2, <1>3, <1>4, <1>5, <1>6, <1>7, <1>8, <1>9, <1>10 DEF EntryAction

(* The machine's other steps.                                              *)
LEMMA LoopTyped ==
  ASSUME TypeOK, Dispatch \/ ReplayUnlock \/ ShutdownTimer \/ ExtSend
  PROVE  TypeOK'
<1>0. /\ BootTypes /\ QueueTypes /\ LoopTypes /\ RailTypes /\ HoldTypes
      /\ RequestTypes /\ HandlerTypes
  BY TypeParts
<1> USE DEF HoldTypes, OnlyLoop, bootVars, handlerVars, railVars, holdVars, unlockVars,
            hibernateVars, redisVars
<1>1. CASE Dispatch
  <2>1. QueueTypes'
    BY <1>0, <1>1 DEF Dispatch, QueueTypes
  <2>2. CASE UNCHANGED <<state, from, vstate, pc, shutTimer, hibernateVars>>
    BY <1>0, <1>1, <2>1, <2>2, TypeParts
       DEF Dispatch, BootTypes, LoopTypes, RailTypes, RequestTypes, HandlerTypes
  <2>3. CASE \E t \in Table : t.to \in Leaves /\ Enter(t.to) /\ TransitionAction(t.act)
    <3>1. LoopTypes'
      BY <1>0, <2>3, EnterType
    <3>2. RequestTypes'
      BY <1>0, <1>1, <2>3 DEF Dispatch, TransitionAction, RequestTypes
    <3> QED
      BY <1>0, <1>1, <2>1, <3>1, <3>2, TypeParts DEF Dispatch, BootTypes, RailTypes, HandlerTypes
  <2> QED
    BY <1>1, <2>2, <2>3, SelectedRows, RowsReachLeaves DEF Dispatch
<1>2. CASE ReplayUnlock
  <2>1. QueueTypes'
    BY <1>0, <1>2 DEF ReplayUnlock, QueueTypes, Events, CommandEvents
  <2> QED
    BY <1>0, <1>2, <2>1, TypeParts
       DEF ReplayUnlock, BootTypes, LoopTypes, RailTypes, RequestTypes, HandlerTypes
<1>3. CASE ShutdownTimer
  <2>1. QueueTypes'
    BY <1>0, <1>3, SendType DEF ShutdownTimer, Events, TimerEvents
  <2> QED
    BY <1>0, <1>3, <2>1, TypeParts
       DEF ShutdownTimer, BootTypes, LoopTypes, RailTypes, RequestTypes, HandlerTypes
<1>4. CASE ExtSend
  <2>1. QueueTypes'
    BY <1>0, <1>4, SendType, DbcPowerAssumption DEF ExtSend
  <2>2. BootTypes'
    BY <1>0, <1>4, RequestType DEF ExtSend
  <2> QED
    BY <1>0, <1>4, <2>1, <2>2, TypeParts
       DEF ExtSend, LoopTypes, RailTypes, RequestTypes, HandlerTypes
<1> QED
  BY <1>1, <1>2, <1>3, <1>4

(* The requests on scooter:state, and the return of a SendSync.            *)
LEMMA StateTypes ==
  ASSUME TypeOK, StateHandler \/ \E h \in {"state", "update"} : SyncReturns(h)
  PROVE  TypeOK'
<1>0. /\ BootTypes /\ QueueTypes /\ LoopTypes /\ RailTypes /\ HoldTypes
      /\ RequestTypes /\ HandlerTypes
  BY TypeParts
<1>s. /\ {"idle", "sync", "unlockCancel", "unlockDecide"} \subseteq HandlerSteps
      /\ {"state", "update"} \subseteq Handlers
  BY DEF HandlerSteps, Waiting, Handlers
<1>e. {"Unlock", "Lock", "LockHibernate"} \subseteq Events
  BY DEF Events, CommandEvents
<1> USE DEF HoldTypes, LoopTypes, OnlyHandler, bootVars, machineVars, railVars, holdVars,
            unlockVars, hibernateVars, redisVars
<1>1. CASE UnlockArrives
  <2>1. BootTypes'
    BY <1>0, <1>1, RequestType DEF UnlockArrives
  <2>2. SystemStateOf(state) \in SystemStates
    BY <1>0, SystemStateType
  <2>3. HandlerTypes'
    BY <1>0, <1>s, <1>1, <2>2 DEF UnlockArrives, HandlerTypes, Step
  <2> QED
    BY <1>0, <1>1, <2>1, <2>3, TypeParts DEF UnlockArrives, QueueTypes, RailTypes, RequestTypes
<1>2. CASE UnlockCancel
  <2>1. HandlerTypes'
    BY <1>0, <1>s, <1>2, StepType DEF UnlockCancel
  <2>2. RequestTypes'
    BY <1>0, <1>2 DEF UnlockCancel, RequestTypes
  <2> QED
    BY <1>0, <1>2, <2>1, <2>2, TypeParts DEF UnlockCancel, BootTypes, QueueTypes, RailTypes
<1>3. CASE UnlockDecide
  <2>1. HandlerTypes'
    BY <1>0, <1>s, <1>3 DEF UnlockDecide, HandlerTypes, Step
  <2>2. RequestTypes'
    BY <1>0, <1>3 DEF UnlockDecide, RequestTypes
  <2>3. QueueTypes'
    BY <1>0, <1>s, <1>e, <1>3, SendType DEF UnlockDecide, QueueTypes
  <2> QED
    BY <1>0, <1>3, <2>1, <2>2, <2>3, TypeParts DEF UnlockDecide, BootTypes, RailTypes
<1>4. CASE OtherStateRequest
  <2>1. BootTypes'
    BY <1>0, <1>4, RequestType DEF OtherStateRequest
  <2>2. QueueTypes'
    BY <1>0, <1>s, <1>e, <1>4, SendType DEF OtherStateRequest
  <2>3. HandlerTypes'
    BY <1>0, <1>s, <1>4, StepType DEF OtherStateRequest
  <2> QED
    BY <1>0, <1>4, <2>1, <2>2, <2>3, TypeParts DEF OtherStateRequest, RailTypes, RequestTypes
<1>5. ASSUME NEW h \in {"state", "update"}, SyncReturns(h) PROVE TypeOK'
  <2>1. HandlerTypes'
    BY <1>0, <1>s, <1>5, StepType DEF SyncReturns
  <2> QED
    BY <1>0, <1>5, <2>1, TypeParts DEF SyncReturns, BootTypes, QueueTypes, RailTypes, RequestTypes
<1> QED
  BY <1>1, <1>2, <1>3, <1>4, <1>5 DEF StateHandler

(* A step of a handler that writes to Redis only.                          *)
LEMMA RedisStepType ==
  ASSUME TypeOK, NEW h \in Handlers, NEW step \in HandlerSteps, OnlyRedis(h, step),
         flag' \in BOOLEAN, inhib' \in SUBSET Inhibitors
  PROVE  TypeOK'
<1>0. /\ BootTypes /\ QueueTypes /\ LoopTypes /\ RailTypes /\ HoldTypes
      /\ RequestTypes /\ HandlerTypes
  BY TypeParts
<1>1. HandlerTypes'
  BY <1>0, StepType DEF OnlyRedis
<1> QED
  BY <1>0, <1>1, TypeParts
     DEF OnlyRedis, OnlyHandler, BootTypes, QueueTypes, LoopTypes, RailTypes, HoldTypes,
         RequestTypes, bootVars, railVars, holdVars, unlockVars, hibernateVars

(* The requests on scooter:update.                                         *)
LEMMA UpdateTypes ==
  ASSUME TypeOK, UpdateHandler \/ InstallBegins
  PROVE  TypeOK'
<1>0. /\ BootTypes /\ QueueTypes /\ LoopTypes /\ RailTypes /\ HoldTypes
      /\ RequestTypes /\ HandlerTypes
  BY TypeParts
<1>s. /\ {"idle", "sync", "completePersist", "completeInhibit"} \cup StartSteps
           \subseteq HandlerSteps
      /\ "update" \in Handlers /\ "DbcUpdateComplete" \in Events
  BY DEF HandlerSteps, Waiting, Handlers, Events, CommandEvents
<1> USE DEF LoopTypes, OnlyHandler, bootVars, machineVars, railVars, holdVars, unlockVars,
            hibernateVars, redisVars, handlerVars, StartSteps
<1>1. CASE StartDbc
  <2>1. BootTypes'
    BY <1>0, <1>1, RequestType DEF StartDbc
  <2>2. HandlerTypes'
    BY <1>0, <1>s, <1>1, StepType DEF StartDbc
  <2>3. RailTypes'
    BY <1>0, <1>1, GapTypes DEF StartDbc, RailTypes
  <2> QED
    BY <1>0, <1>1, <2>1, <2>2, <2>3, TypeParts
       DEF StartDbc, QueueTypes, HoldTypes, RequestTypes
<1>2. CASE StartPersist
  BY <1>0, <1>s, <1>2, RedisStepType DEF StartPersist, HoldTypes
<1>3. CASE StartInhibit
  BY <1>0, <1>s, <1>3, RedisStepType DEF StartInhibit, HoldTypes, Inhibitors
<1>4. CASE StartPower
  <2>1. HandlerTypes'
    BY <1>0, <1>s, <1>4, StepType DEF StartPower
  <2>2. RailTypes'
    BY <1>0, <1>4, RailType DEF StartPower, RailTypes
  <2> QED
    BY <1>0, <1>4, <2>1, <2>2, TypeParts
       DEF StartPower, BootTypes, QueueTypes, HoldTypes, RequestTypes
<1>5. CASE CompleteDbc
  <2>1. BootTypes'
    BY <1>0, <1>5, RequestType DEF CompleteDbc
  <2>2. HandlerTypes'
    BY <1>0, <1>s, <1>5 DEF CompleteDbc, HandlerTypes, Step
  <2>3. RailTypes'
    BY <1>0, <1>5, GapTypes DEF CompleteDbc, RailTypes
  <2> QED
    BY <1>0, <1>5, <2>1, <2>2, <2>3, TypeParts
       DEF CompleteDbc, QueueTypes, HoldTypes, RequestTypes
<1>6. CASE CompletePersist
  BY <1>0, <1>s, <1>6, RedisStepType DEF CompletePersist, HoldTypes
<1>7. CASE CompleteInhibit
  <2>1. HandlerTypes'
    BY <1>0, <1>s, <1>7 DEF CompleteInhibit, HandlerTypes, Step
  <2>2. QueueTypes'
    BY <1>0, <1>s, <1>7, SendType DEF CompleteInhibit, QueueTypes
  <2> QED
    BY <1>0, <1>7, <2>1, <2>2, TypeParts
       DEF CompleteInhibit, BootTypes, RailTypes, HoldTypes, RequestTypes
<1>8. CASE InstallBegins
  <2>1. BootTypes'
    BY <1>0, <1>8, RequestType DEF InstallBegins
  <2> QED
    BY <1>0, <1>8, <2>1, TypeParts
       DEF InstallBegins, QueueTypes, RailTypes, HoldTypes, RequestTypes, HandlerTypes, Inhibitors
<1> QED
  BY <1>1, <1>2, <1>3, <1>4, <1>5, <1>6, <1>7, <1>8 DEF UpdateHandler

(* The watchdog of an update.                                              *)
LEMMA WatchdogTypes ==
  ASSUME TypeOK, WatchdogHandler
  PROVE  TypeOK'
<1>0. /\ BootTypes /\ QueueTypes /\ LoopTypes /\ RailTypes /\ HoldTypes
      /\ RequestTypes /\ HandlerTypes
  BY TypeParts
<1>s. /\ {"idle", "expire", "expirePersist", "expireInhibit"} \subseteq HandlerSteps
      /\ "watchdog" \in Handlers
  BY DEF HandlerSteps, Waiting, Handlers
<1> USE DEF LoopTypes, OnlyHandler, bootVars, machineVars, railVars, holdVars, unlockVars,
            hibernateVars, redisVars
<1>1. CASE WatchdogFires
  <2>1. HandlerTypes'
    BY <1>0, <1>s, <1>1, StepType DEF WatchdogFires
  <2> QED
    BY <1>0, <1>1, <2>1, TypeParts
       DEF WatchdogFires, BootTypes, QueueTypes, RailTypes, HoldTypes, RequestTypes
<1>2. CASE Expire
  <2>1. (vstate = "stand-by" /\ ~mapHold) \in BOOLEAN
    OBVIOUS
  <2>2. HandlerTypes'
    BY <1>0, <1>s, <1>2, <2>1 DEF Expire, HandlerTypes, Step
  <2>3. RailTypes'
    BY <1>0, <1>2, GapTypes DEF Expire, RailTypes, Gaps
  <2> QED
    BY <1>0, <1>2, <2>2, <2>3, TypeParts
       DEF Expire, BootTypes, QueueTypes, HoldTypes, RequestTypes
<1>3. CASE ExpirePersist
  BY <1>0, <1>s, <1>3, RedisStepType DEF ExpirePersist, HoldTypes
<1>4. CASE ExpireInhibit
  <2>1. HandlerTypes'
    BY <1>0, <1>s, <1>4 DEF ExpireInhibit, HandlerTypes, Step
  <2>2. RailTypes'
    BY <1>0, <1>4 DEF ExpireInhibit, RailTypes
  <2> QED
    BY <1>0, <1>4, <2>1, <2>2, TypeParts
       DEF ExpireInhibit, BootTypes, QueueTypes, HoldTypes, RequestTypes
<1> QED
  BY <1>1, <1>2, <1>3, <1>4 DEF WatchdogHandler

(* The map hold, its cap, and the delayed cuts.                            *)
LEMMA HoldStepTypes ==
  ASSUME TypeOK, HoldHandler \/ DelayedCut
  PROVE  TypeOK'
<1>0. /\ BootTypes /\ QueueTypes /\ LoopTypes /\ RailTypes /\ HoldTypes
      /\ RequestTypes /\ HandlerTypes
  BY TypeParts
<1>s. /\ {"idle", "holdInhibit", "release", "releaseInhibit"} \subseteq HandlerSteps
      /\ {"hold", "cap"} \subseteq Handlers
  BY DEF HandlerSteps, Waiting, Handlers
<1> USE DEF LoopTypes, OnlyHandler, bootVars, machineVars, railVars, holdVars, unlockVars,
            hibernateVars, redisVars
<1>1. CASE HoldRequest
  <2>1. BootTypes'
    BY <1>0, <1>1, RequestType DEF HoldRequest
  <2>2. HandlerTypes'
    BY <1>0, <1>s, <1>1, StepType DEF HoldRequest
  <2>3. RailTypes'
    BY <1>0, <1>1, GapTypes DEF HoldRequest, RailTypes
  <2> QED
    BY <1>0, <1>1, <2>1, <2>2, <2>3, TypeParts
       DEF HoldRequest, QueueTypes, HoldTypes, RequestTypes
<1>2. CASE HoldInhibit
  BY <1>0, <1>s, <1>2, RedisStepType DEF HoldInhibit, HoldTypes, Inhibitors
<1>3. CASE ReleaseRequest
  <2>1. BootTypes'
    BY <1>0, <1>3, RequestType DEF ReleaseRequest
  <2>2. HandlerTypes'
    BY <1>0, <1>s, <1>3, StepType DEF ReleaseRequest
  <2> QED
    BY <1>0, <1>3, <2>1, <2>2, TypeParts
       DEF ReleaseRequest, QueueTypes, RailTypes, HoldTypes, RequestTypes
<1>4. CASE CapFires
  <2>1. HandlerTypes'
    BY <1>0, <1>s, <1>4, StepType DEF CapFires
  <2> QED
    BY <1>0, <1>4, <2>1, TypeParts
       DEF CapFires, BootTypes, QueueTypes, RailTypes, HoldTypes, RequestTypes
<1>5. ASSUME NEW h \in {"hold", "cap"}, Release(h) PROVE TypeOK'
  <2>1. /\ (deferred /\ ~updating /\ vstate = "stand-by") \in BOOLEAN
        /\ (deferred /\ updating) \in BOOLEAN
    OBVIOUS
  <2>2. HandlerTypes'
    BY <1>0, <1>s, <1>5, <2>1 DEF Release, HandlerTypes, Step
  <2>3. RailTypes'
    BY <1>0, <1>5, GapTypes DEF Release, RailTypes
  <2>4. HoldTypes'
    BY <1>0, <1>5, <2>1 DEF Release, HoldTypes
  <2> QED
    BY <1>0, <1>5, <2>2, <2>3, <2>4, TypeParts DEF Release, BootTypes, QueueTypes, RequestTypes
<1>6. ASSUME NEW h \in {"hold", "cap"}, ReleaseInhibit(h) PROVE TypeOK'
  <2>1. HandlerTypes'
    BY <1>0, <1>s, <1>6 DEF ReleaseInhibit, HandlerTypes, Step
  <2>2. RailTypes'
    BY <1>0, <1>6 DEF ReleaseInhibit, RailTypes
  <2> QED
    BY <1>0, <1>6, <2>1, <2>2, TypeParts
       DEF ReleaseInhibit, BootTypes, QueueTypes, HoldTypes, RequestTypes
<1>7. CASE DelayedCut
  <2>1. RailTypes'
    <3>1. cuts' \in Nat
      BY <1>0, <1>7 DEF DelayedCut, RailTypes
    <3> QED
      BY <1>0, <1>7, <3>1, RailType DEF DelayedCut
  <2> QED
    BY <1>0, <1>7, <2>1, TypeParts
       DEF DelayedCut, BootTypes, QueueTypes, HoldTypes, RequestTypes, HandlerTypes, handlerVars
<1> QED
  BY <1>1, <1>2, <1>3, <1>4, <1>5, <1>6, <1>7 DEF HoldHandler

(* The operator's requests on scooter:hardware.                            *)
LEMMA HardwareTypes ==
  ASSUME TypeOK, HardwareHandler
  PROVE  TypeOK'
<1>0. /\ BootTypes /\ QueueTypes /\ LoopTypes /\ RailTypes /\ HoldTypes
      /\ RequestTypes /\ HandlerTypes
  BY TypeParts
<1>s. {"idle", "wait"} \subseteq HandlerSteps /\ "hardware" \in Handlers
  BY DEF HandlerSteps, Waiting, Handlers
<1> USE DEF LoopTypes, OnlyHandler, bootVars, machineVars, railVars, holdVars, unlockVars,
            hibernateVars, redisVars, handlerVars, QueueTypes, HoldTypes, RequestTypes
<1>1. CASE DashboardOn
  <2>1. BootTypes'
    BY <1>0, <1>1, RequestType DEF DashboardOn
  <2> QED
    BY <1>0, <1>1, <2>1, TypeParts DEF DashboardOn, RailTypes, HandlerTypes
<1>2. CASE DashboardOff
  <2>1. BootTypes'
    BY <1>0, <1>2, RequestType DEF DashboardOff
  <2>2. HandlerTypes'
    BY <1>0, <1>s, <1>2, StepType DEF DashboardOff, HandlerTypes
  <2>3. RailTypes'
    BY <1>0, <1>2, RailType DEF DashboardOff, RailTypes
  <2> QED
    BY <1>0, <1>2, <2>1, <2>2, <2>3, TypeParts DEF DashboardOff
<1>3. CASE DashboardCut
  <2>1. HandlerTypes'
    BY <1>0, <1>s, <1>3, StepType DEF DashboardCut
  <2>2. RailTypes'
    BY <1>0, <1>3, RailType DEF DashboardCut, RailTypes
  <2> QED
    BY <1>0, <1>3, <2>1, <2>2, TypeParts DEF DashboardCut, BootTypes
<1>4. CASE DashboardForcedOff
  <2>1. BootTypes'
    BY <1>0, <1>4, RequestType DEF DashboardForcedOff
  <2>2. RailTypes'
    BY <1>0, <1>4, RailType DEF DashboardForcedOff, RailTypes
  <2> QED
    BY <1>0, <1>4, <2>1, <2>2, TypeParts DEF DashboardForcedOff, HandlerTypes
<1> QED
  BY <1>1, <1>2, <1>3, <1>4 DEF HardwareHandler

(* A restart and what follows it.                                          *)
LEMMA RestartTypes ==
  ASSUME TypeOK, Restart
  PROVE  TypeOK'
<1>0. BootTypes /\ RailTypes /\ HoldTypes /\ HandlerTypes
  BY TypeParts
<1>1. InitialState \in Leaves /\ EntryOf(InitialState) \in EntrySteps
  BY DEF InitialState, Leaves, EntryOf, EntrySteps
<1>2. PICK ota \in BOOLEAN : /\ RestoreHolds(flag \/ ota)
                             /\ dash' = (saved # "shutting-down" /\ (dash \/ flag \/ ota))
  BY DEF Restart
<1>3. BootTypes'
  <2>1. "stand-by" \in RestorableStates
    BY DEF RestorableStates
  <2>2. restarts' \in 0..MaxRestarts
    BY <1>0, DbcPowerAssumption DEF Restart, BootTypes
  <2> QED
    BY <1>0, <2>1, <2>2 DEF Restart, BootTypes
<1>4. LoopTypes'
  BY <1>1, SystemStateType DEF Restart, LoopTypes
<1>5. QueueTypes' /\ RequestTypes'
  <2>1. queue' = <<>>
    BY DEF Restart
  <2>2. RequestTypes'
    BY DEF Restart, RequestTypes
  <2> QED
    BY <2>1, <2>2 DEF QueueTypes
<1>6. RailTypes' /\ HoldTypes'
  <2>1. RailTypes'
    BY <1>0, <1>2 DEF Restart, RestoreHolds, RailTypes
  <2>2. inhib' \in SUBSET Inhibitors
    BY <1>0, <1>2 DEF RestoreHolds, HoldTypes, Inhibitors
  <2> QED
    BY <1>0, <1>2, <2>1, <2>2 DEF RestoreHolds, HoldTypes
<1>7. HandlerTypes'
  <2>1. "idle" \in HandlerSteps
    BY DEF HandlerSteps, Waiting
  <2>2. /\ at' = [h \in Handlers |-> "idle"] /\ seen' = [h \in Handlers |-> "none"]
        /\ cut' = [h \in Handlers |-> FALSE]
    BY DEF Restart
  <2> QED
    BY <2>1, <2>2 DEF HandlerTypes
<1> QED
  BY <1>3, <1>4, <1>5, <1>6, <1>7, TypeParts

(* The state restored is a leaf.                                           *)
LEMMA BootTyped ==
  ASSUME TypeOK, Boot
  PROVE  TypeOK'
<1>0. /\ BootTypes /\ QueueTypes /\ LoopTypes /\ RailTypes /\ HoldTypes
      /\ RequestTypes /\ HandlerTypes
  BY TypeParts
<1>1. /\ UNCHANGED <<restarts, queue, railVars, holdVars, cuts, unlockVars, hibernateVars,
                     redisVars, handlerVars, requests>>
      /\ up' = TRUE /\ saved' \in {saved, "stand-by"}
  BY DEF Boot, RestoreState, StayInStandby, BootVarsAfter
<1>2. BootTypes'
  <2>1. "stand-by" \in RestorableStates
    BY DEF RestorableStates
  <2> QED
    BY <1>0, <1>1, <2>1 DEF BootTypes
<1>3. LoopTypes'
  <2>1. CASE RestoreState
    <3>1. PICK s \in {LeafOf(saved)} \cup {"Parked"} : Enter(s)
      BY <2>1 DEF RestoreState
    <3>2. LeafOf(saved) \in Leaves
      <4>1. CASE saved \in RestorableStates
        BY <4>1, RestorableAreLeaves DEF RestorableLeaves
      <4>2. CASE saved = "shutting-down"
        BY <4>2 DEF LeafOf, Leaves
      <4> QED
        BY <2>1, <4>1, <4>2 DEF RestoreState
    <3>3. "Parked" \in Leaves
      BY DEF Leaves, AtRestLeaves
    <3> QED
      BY <1>0, <3>1, <3>2, <3>3, EnterType
  <2>2. CASE StayInStandby
    BY <1>0, <2>2 DEF StayInStandby, LoopTypes
  <2> QED
    BY <2>1, <2>2 DEF Boot
<1> QED
  BY <1>0, <1>1, <1>2, <1>3, TypeParts
     DEF QueueTypes, RailTypes, HoldTypes, RequestTypes, HandlerTypes, railVars, holdVars,
         unlockVars, hibernateVars, redisVars, handlerVars

(* Every step keeps the types.                                             *)
LEMMA TypeStep == TypeOK /\ [Next]_vars => TypeOK'
<1> SUFFICES ASSUME TypeOK, [Next]_vars PROVE TypeOK'
  OBVIOUS
<1>1. CASE Next
  BY <1>1, EntryTypes, LoopTyped, StateTypes, UpdateTypes, WatchdogTypes, HoldStepTypes,
     HardwareTypes, RestartTypes, BootTyped DEF Next
<1>2. CASE UNCHANGED vars
  BY <1>2 DEF TypeOK, vars, bootVars, machineVars, railVars, holdVars, unlockVars,
              hibernateVars, redisVars, handlerVars
<1> QED
  BY <1>1, <1>2

(* The rail's variables keep their types, for every value of the bounds    *)
(* and however the handlers interleave.                                    *)
THEOREM DbcPowerTypes == Spec => []TypeOK
  BY TypeInit, TypeStep, PTL DEF Spec

-----------------------------------------------------------------------------
(* UpdateIsWatched: an update without its watchdog has the watchdog's      *)
(* handler about to end it.                                                *)
Watched == updating => (watchdog \/ at["watchdog"] = "expire")

LEMMA WatchedInit == Init => Watched
  BY DEF Init, Watched

(* The machine starts no update and stops no watchdog.                     *)
LEMMA WatchedMachine ==
  ASSUME Watched, EntryAction \/ Dispatch \/ ReplayUnlock \/ ShutdownTimer \/ ExtSend \/ Boot
  PROVE  Watched'
<1>1. UNCHANGED <<watchdog, at>> /\ (updating' => updating)
  <2> USE DEF OnlyLoop, handlerVars, holdVars
  <2>1. CASE EntryAction
    <3>1. CASE RailOn \/ StandbyReplay \/ ShutReset \/ ShutRelease \/ ShutPoweroff
               \/ Publish \/ PublishLost
      BY <3>1 DEF RailOn, StandbyReplay, ShutReset, ShutRelease, ShutPoweroff, Publish,
                  PublishLost, Goto, Rail
    <3>2. CASE StandbyLook \/ StandbyCut
      BY <3>2 DEF StandbyLook, StandbyCut, Defer, OnlyDeferral
    <3>3. CASE ShutHold
      BY <3>3 DEF ShutHold
    <3>4. CASE ShutInstall \/ ShutEnd
      BY <3>4 DEF ShutInstall, ShutEnd
    <3> QED
      BY <2>1, <3>1, <3>2, <3>3, <3>4 DEF EntryAction
  <2>2. CASE Dispatch \/ ReplayUnlock \/ ShutdownTimer \/ ExtSend
    BY <2>2 DEF Dispatch, ReplayUnlock, ShutdownTimer, ExtSend
  <2>3. CASE Boot
    BY <2>3 DEF Boot, RestoreState, StayInStandby, BootVarsAfter
  <2> QED
    BY <2>1, <2>2, <2>3
<1> QED
  BY <1>1 DEF Watched

(* The other handlers leave the watchdog's alone.                          *)
LEMMA WatchedHandlers ==
  ASSUME TypeOK, Watched,
         StateHandler \/ HoldHandler \/ HardwareHandler \/ InstallBegins \/ DelayedCut
           \/ \E h \in {"state", "update"} : SyncReturns(h)
  PROVE  Watched'
<1>1. UNCHANGED <<watchdog, updating>> /\ at'["watchdog"] = at["watchdog"]
  <2>t. at \in [Handlers -> HandlerSteps] /\ "watchdog" \in Handlers
    BY DEF TypeOK, Handlers
  <2> USE <2>t DEF Step, OnlyRedis, handlerVars, holdVars
  <2>1. CASE StateHandler
    BY <2>1 DEF StateHandler, UnlockArrives, UnlockCancel, UnlockDecide, OtherStateRequest
  <2>2. CASE HoldRequest \/ HoldInhibit \/ ReleaseRequest \/ CapFires
    BY <2>2 DEF HoldRequest, HoldInhibit, ReleaseRequest, CapFires
  <2>3. ASSUME NEW h \in {"hold", "cap"}, Release(h) \/ ReleaseInhibit(h)
        PROVE  UNCHANGED <<watchdog, updating>> /\ at'["watchdog"] = at["watchdog"]
    BY <2>3 DEF Release, ReleaseInhibit
  <2>4. CASE HardwareHandler
    BY <2>4 DEF HardwareHandler, DashboardOn, DashboardOff, DashboardCut, DashboardForcedOff
  <2>5. CASE InstallBegins \/ DelayedCut
    BY <2>5 DEF InstallBegins, DelayedCut
  <2>6. ASSUME NEW h \in {"state", "update"}, SyncReturns(h)
        PROVE  UNCHANGED <<watchdog, updating>> /\ at'["watchdog"] = at["watchdog"]
    BY <2>6 DEF SyncReturns
  <2> QED
    BY <2>1, <2>2, <2>3, <2>4, <2>5, <2>6 DEF HoldHandler
<1> QED
  BY <1>1 DEF Watched

(* The update's own handlers, and a restart.                               *)
LEMMA WatchedUpdates ==
  ASSUME TypeOK, Watched, UpdateHandler \/ WatchdogHandler \/ Restart
  PROVE  Watched'
<1>t. at \in [Handlers -> HandlerSteps] /\ "watchdog" \in Handlers
  BY DEF TypeOK, Handlers
<1> USE <1>t DEF Watched, Step, OnlyRedis, holdVars
<1>1. CASE StartDbc \/ CompleteDbc
  BY <1>1 DEF StartDbc, CompleteDbc
<1>2. CASE StartPersist \/ StartInhibit \/ StartPower \/ CompletePersist \/ CompleteInhibit
  BY <1>2 DEF StartPersist, StartInhibit, StartPower, CompletePersist, CompleteInhibit
<1>3. CASE WatchdogFires \/ Expire
  BY <1>3 DEF WatchdogFires, Expire
<1>4. CASE ExpirePersist \/ ExpireInhibit
  BY <1>4 DEF ExpirePersist, ExpireInhibit
<1>5. CASE Restart
  BY <1>5 DEF Restart, RestoreHolds
<1> QED
  BY <1>1, <1>2, <1>3, <1>4, <1>5 DEF UpdateHandler, WatchdogHandler

LEMMA WatchedStep == TypeOK /\ Watched /\ [Next]_vars => Watched'
<1> SUFFICES ASSUME TypeOK, Watched, [Next]_vars PROVE Watched'
  OBVIOUS
<1>1. CASE Next
  BY <1>1, WatchedMachine, WatchedHandlers, WatchedUpdates DEF Next
<1>2. CASE UNCHANGED vars
  BY <1>2 DEF Watched, vars, holdVars, handlerVars
<1> QED
  BY <1>1, <1>2

(* An update that runs is watched, however the watchdog of an earlier one  *)
(* interleaves with it and through every restart.                          *)
THEOREM UpdatesAreWatched == Spec => []UpdateIsWatched
<1>1. Watched => UpdateIsWatched
  BY DEF Watched, UpdateIsWatched
<1> QED
  BY <1>1, TypeInit, TypeStep, WatchedInit, WatchedStep, PTL DEF Spec

-----------------------------------------------------------------------------
(* HibernationIsOneShutdown: a request stands while the machine shuts      *)
(* down, and until the stand-by that follows is published.                 *)
OneShutdown ==
  hibernating =>
    /\ up
    /\ \/ state = "ShuttingDown"
       \/ /\ state = "Standby" /\ from = "ShuttingDown"
          /\ pc # "idle" \/ "publication" \in gaps

(* Requests are made on the way to ShuttingDown, and an unlock clears them.*)
LEMMA RequestRows ==
  /\ \A t \in Table : t.from = "Standby" => t.to = "ShuttingDown" \/ t.act = "OnUnlock"
  /\ \A t \in Table : t.act \in {"OnLockHibernate", "OnHibernationComplete"}
                        => t.to = "ShuttingDown"
  /\ \A t \in Table : t.from = "ShuttingDown"
                        => (t.to = "Standby" /\ t.act = "none") \/ t.act = "OnUnlock"
  BY DEF Table, StandbyRows, AtRestRows, ParkedRows, HopOnRows, ReadyToDriveRows,
         ShuttingDownRows, WaitingSeatboxRows, HibernationRows, Row

LEMMA OneShutdownInit == Init => OneShutdown
  BY DEF Init, OneShutdown

(* The steps of an entry action stay in its leaf, and the last publishes.  *)
LEMMA OneShutdownEntry ==
  ASSUME OneShutdown, EntryAction
  PROVE  OneShutdown'
<1> USE DEF OneShutdown, OnlyLoop, Goto, Rail, bootVars, railVars, hibernateVars
<1>1. CASE Publish \/ PublishLost
  BY <1>1 DEF Publish, PublishLost
<1>2. CASE RailOn \/ StandbyLook \/ StandbyCut \/ StandbyReplay
  BY <1>2 DEF RailOn, StandbyLook, StandbyCut, Defer, OnlyDeferral, StandbyReplay
<1>3. CASE ShutReset \/ ShutHold \/ ShutInstall \/ ShutEnd
  BY <1>3 DEF ShutReset, ShutHold, ShutInstall, ShutEnd, Dropped, MapGaps, UpdateGaps
<1>4. CASE ShutRelease \/ ShutPoweroff
  BY <1>4 DEF ShutRelease, ShutPoweroff
<1> QED
  BY <1>1, <1>2, <1>3, <1>4 DEF EntryAction

(* A transition keeps the request only on its way to stand-by.             *)
LEMMA OneShutdownDispatch ==
  ASSUME OneShutdown, Dispatch
  PROVE  OneShutdown'
<1> USE DEF OneShutdown, OnlyLoop, bootVars, railVars, hibernateVars
<1>1. up /\ up' /\ pc = "idle" /\ UNCHANGED gaps
  BY DEF Dispatch
<1>2. CASE UNCHANGED <<state, from, vstate, pc, shutTimer, hibernateVars>>
  BY <1>1, <1>2
<1>3. ASSUME NEW t \in Table, t.from \in {state, Parent(state)}, Enter(t.to),
             TransitionAction(t.act)
      PROVE  OneShutdown'
  <2>1. CASE t.act \in {"OnLockHibernate", "OnHibernationComplete"}
    BY <1>1, <1>3, <2>1, RequestRows DEF Enter
  <2>2. CASE t.act = "OnUnlock"
    BY <1>3, <2>2 DEF TransitionAction
  <2>3. CASE t.act \notin {"OnLockHibernate", "OnHibernationComplete", "OnUnlock"}
    <3>1. hibernating' = hibernating
      BY <1>3, <2>3 DEF TransitionAction
    <3>2. SUFFICES ASSUME hibernating PROVE OneShutdown'
      BY <3>1
    <3>3. state \in {"ShuttingDown", "Standby"} /\ Parent(state) = state
      BY <1>1, <3>2 DEF Parent, AtRestLeaves, HibernationLeaves
    <3>4. CASE state = "ShuttingDown"
      <4>1. t.to = "Standby"
        BY <1>3, <2>3, <3>3, <3>4, RequestRows
      <4> QED
        BY <1>1, <1>3, <3>4, <4>1 DEF Enter, EntryOf
    <3>5. CASE state = "Standby"
      BY <1>1, <1>3, <2>3, <3>3, <3>5, RequestRows DEF Enter
    <3> QED
      BY <3>3, <3>4, <3>5
  <2> QED
    BY <2>1, <2>2, <2>3
<1> QED
  BY <1>2, <1>3, SelectedRows DEF Dispatch

(* Nobody else makes a request, and only a boot moves the machine.         *)
LEMMA OneShutdownOthers ==
  ASSUME OneShutdown,
         ReplayUnlock \/ ShutdownTimer \/ ExtSend \/ Boot \/ StateHandler \/ UpdateHandler
           \/ WatchdogHandler \/ HoldHandler \/ HardwareHandler \/ InstallBegins \/ DelayedCut
           \/ (\E h \in {"state", "update"} : SyncReturns(h)) \/ Restart
  PROVE  OneShutdown'
<1> USE DEF OneShutdown, OnlyLoop, OnlyHandler, OnlyRedis, Rail, bootVars, machineVars,
            railVars, hibernateVars
<1>1. CASE ReplayUnlock \/ ShutdownTimer \/ ExtSend
  BY <1>1 DEF ReplayUnlock, ShutdownTimer, ExtSend
<1>2. CASE Boot
  BY <1>2 DEF Boot, RestoreState, StayInStandby, BootVarsAfter
<1>3. CASE StateHandler
  BY <1>3 DEF StateHandler, UnlockArrives, UnlockCancel, UnlockDecide, OtherStateRequest
<1>4. CASE UpdateHandler
  <2>1. /\ UNCHANGED <<up, state, from, pc, hibernating>>
        /\ "publication" \in gaps => "publication" \in gaps'
    <3>1. CASE StartDbc \/ StartPersist \/ StartInhibit \/ StartPower
      BY <3>1 DEF StartDbc, UpdateGaps, StartPersist, StartInhibit, StartPower
    <3>2. CASE CompleteDbc \/ CompletePersist \/ CompleteInhibit
      BY <3>2 DEF CompleteDbc, UpdateGaps, CompletePersist, CompleteInhibit
    <3> QED
      BY <1>4, <3>1, <3>2 DEF UpdateHandler
  <2> QED
    BY <2>1
<1>5. CASE WatchdogHandler
  BY <1>5 DEF WatchdogHandler, WatchdogFires, Expire, UpdateGaps, ExpirePersist, ExpireInhibit
<1>6. CASE HoldHandler
  <2>1. ASSUME NEW h \in {"hold", "cap"}, Release(h) \/ ReleaseInhibit(h)
        PROVE  OneShutdown'
    BY <2>1 DEF Release, ReleaseInhibit, MapGaps
  <2>2. CASE HoldRequest \/ HoldInhibit \/ ReleaseRequest \/ CapFires
    BY <2>2 DEF HoldRequest, MapGaps, HoldInhibit, ReleaseRequest, CapFires
  <2> QED
    BY <1>6, <2>1, <2>2 DEF HoldHandler
<1>7. CASE HardwareHandler
  BY <1>7 DEF HardwareHandler, DashboardOn, DashboardOff, DashboardCut, DashboardForcedOff
<1>8. CASE InstallBegins \/ DelayedCut
  BY <1>8 DEF InstallBegins, DelayedCut
<1>9. ASSUME NEW h \in {"state", "update"}, SyncReturns(h) PROVE OneShutdown'
  BY <1>9 DEF SyncReturns
<1>10. CASE Restart
  BY <1>10 DEF Restart
<1> QED
  BY <1>1, <1>2, <1>3, <1>4, <1>5, <1>6, <1>7, <1>8, <1>9, <1>10

LEMMA OneShutdownStep == OneShutdown /\ [Next]_vars => OneShutdown'
<1> SUFFICES ASSUME OneShutdown, [Next]_vars PROVE OneShutdown'
  OBVIOUS
<1>1. CASE Next
  BY <1>1, OneShutdownEntry, OneShutdownDispatch, OneShutdownOthers DEF Next
<1>2. CASE UNCHANGED vars
  BY <1>2 DEF OneShutdown, vars, bootVars, machineVars, railVars, hibernateVars
<1> QED
  BY <1>1, <1>2

(* A hibernation request never survives the shutdown it was made for.      *)
THEOREM HibernationsEnd == Spec => []HibernationIsOneShutdown
<1>1. OneShutdown => HibernationIsOneShutdown
  BY DEF OneShutdown, HibernationIsOneShutdown
<1> QED
  BY <1>1, OneShutdownInit, OneShutdownStep, PTL DEF Spec

-----------------------------------------------------------------------------
(* UpdateOutlivesStandby: an update under the cut began after the look.    *)
CutOvertaken == (pc = "sbCut" /\ updating) => "overtaken" \in gaps

(* What a step must do to keep it.                                         *)
LEMMA StillOvertaken ==
  ASSUME CutOvertaken, (pc' = "sbCut") => (pc = "sbCut"), updating' => updating,
         "overtaken" \in gaps => "overtaken" \in gaps'
  PROVE  CutOvertaken'
  BY DEF CutOvertaken

LEMMA OvertakenInit == Init => CutOvertaken
  BY DEF Init, CutOvertaken

(* Only EnterStandby, having found no update, goes on to the cut.          *)
LEMMA OvertakenMachine ==
  ASSUME CutOvertaken,
         EntryAction \/ Dispatch \/ ReplayUnlock \/ ShutdownTimer \/ ExtSend \/ Boot \/ Restart
  PROVE  CutOvertaken'
<1> USE DEF Goto, Rail, railVars, holdVars
<1>1. CASE RailOn \/ StandbyReplay \/ ShutReset \/ ShutRelease \/ ShutPoweroff
           \/ Publish \/ PublishLost \/ StandbyCut
  BY <1>1 DEF RailOn, StandbyReplay, ShutReset, ShutRelease, ShutPoweroff, Publish, PublishLost,
              StandbyCut, CutOvertaken
<1>2. CASE StandbyLook
  BY <1>2 DEF StandbyLook, OnlyDeferral, CutOvertaken
<1>3. CASE ShutHold \/ ShutInstall \/ ShutEnd
  BY <1>3 DEF ShutHold, ShutInstall, ShutEnd, CutOvertaken
<1>4. CASE Dispatch \/ Boot \/ Restart
  <2>1. pc' # "sbCut" \/ (pc' = pc /\ UNCHANGED <<updating, gaps>>)
    BY <1>4 DEF Dispatch, Boot, RestoreState, StayInStandby, BootVarsAfter, Restart, Enter, EntryOf
  <2> QED
    BY <2>1 DEF CutOvertaken
<1>5. CASE ReplayUnlock \/ ShutdownTimer \/ ExtSend
  BY <1>5 DEF ReplayUnlock, ShutdownTimer, ExtSend, CutOvertaken
<1> QED
  BY <1>1, <1>2, <1>3, <1>4, <1>5 DEF EntryAction

(* Of the handlers only start-dbc begins an update, and it records it.     *)
LEMMA OvertakenHandlers ==
  ASSUME CutOvertaken,
         StateHandler \/ UpdateHandler \/ WatchdogHandler \/ HoldHandler \/ HardwareHandler
           \/ InstallBegins \/ DelayedCut \/ \E h \in {"state", "update"} : SyncReturns(h)
  PROVE  CutOvertaken'
<1> USE DEF OnlyHandler, OnlyRedis, Rail, machineVars, railVars, holdVars
<1>1. CASE StartDbc
  BY <1>1 DEF StartDbc, Overtakes, CutOvertaken
<1>2. pc' = pc /\ (~StartDbc => (updating' => updating))
      /\ (~StartDbc /\ "overtaken" \in gaps => "overtaken" \in gaps')
  <2>1. CASE StateHandler
    BY <2>1 DEF StateHandler, UnlockArrives, UnlockCancel, UnlockDecide, OtherStateRequest
  <2>2. CASE StartDbc \/ StartPersist \/ StartInhibit \/ StartPower
    BY <2>2 DEF StartDbc, StartPersist, StartInhibit, StartPower
  <2>3. CASE CompleteDbc \/ CompletePersist \/ CompleteInhibit \/ InstallBegins
    BY <2>3 DEF CompleteDbc, UpdateGaps, CompletePersist, CompleteInhibit, InstallBegins
  <2>4. CASE WatchdogHandler
    BY <2>4 DEF WatchdogHandler, WatchdogFires, Expire, UpdateGaps, ExpirePersist, ExpireInhibit
  <2>5. CASE HoldRequest \/ HoldInhibit \/ ReleaseRequest \/ CapFires
    BY <2>5 DEF HoldRequest, MapGaps, HoldInhibit, ReleaseRequest, CapFires
  <2>6. ASSUME NEW h \in {"hold", "cap"}, Release(h) \/ ReleaseInhibit(h)
        PROVE  UNCHANGED <<pc, updating>> /\ ("overtaken" \in gaps => "overtaken" \in gaps')
    BY <2>6 DEF Release, MapGaps, ReleaseInhibit
  <2>7. CASE HardwareHandler \/ DelayedCut
    BY <2>7 DEF HardwareHandler, DashboardOn, DashboardOff, DashboardCut, DashboardForcedOff,
                DelayedCut
  <2>8. ASSUME NEW h \in {"state", "update"}, SyncReturns(h)
        PROVE  UNCHANGED <<pc, updating, gaps>>
    BY <2>8 DEF SyncReturns
  <2> QED
    BY <2>1, <2>2, <2>3, <2>4, <2>5, <2>6, <2>7, <2>8 DEF UpdateHandler, HoldHandler
<1> QED
  BY <1>1, <1>2, StillOvertaken

LEMMA OvertakenStep == CutOvertaken /\ [Next]_vars => CutOvertaken'
<1> SUFFICES ASSUME CutOvertaken, [Next]_vars PROVE CutOvertaken'
  OBVIOUS
<1>1. CASE Next
  BY <1>1, OvertakenMachine, OvertakenHandlers DEF Next
<1>2. CASE UNCHANGED vars
  BY <1>2 DEF CutOvertaken, vars, machineVars, railVars, holdVars
<1> QED
  BY <1>1, <1>2

(* Of the machine's steps only EnterStandby's cut takes the rail.          *)
LEMMA MachineSparesUpdate ==
  ASSUME CutOvertaken, "overtaken" \notin gaps,
         EntryAction \/ Dispatch \/ ReplayUnlock \/ ShutdownTimer \/ ExtSend \/ Boot
  PROVE  (updating /\ dash) => dash'
<1> SUFFICES ASSUME updating, dash PROVE dash'
  OBVIOUS
<1> USE DEF Rail, Goto, railVars
<1>1. CASE RailOn \/ StandbyReplay \/ ShutReset \/ ShutRelease \/ ShutPoweroff
           \/ Publish \/ PublishLost
  BY <1>1 DEF RailOn, StandbyReplay, ShutReset, ShutRelease, ShutPoweroff, Publish, PublishLost
<1>2. CASE StandbyLook \/ StandbyCut
  BY <1>2 DEF StandbyLook, OnlyDeferral, StandbyCut, CutOvertaken
<1>3. CASE ShutHold \/ ShutInstall \/ ShutEnd
  BY <1>3 DEF ShutHold, ShutInstall, ShutEnd
<1>4. CASE Dispatch \/ ReplayUnlock \/ ShutdownTimer \/ ExtSend
  BY <1>4 DEF Dispatch, ReplayUnlock, ShutdownTimer, ExtSend
<1>5. CASE Boot
  BY <1>5 DEF Boot, RestoreState, StayInStandby, BootVarsAfter
<1> QED
  BY <1>1, <1>2, <1>3, <1>4, <1>5 DEF EntryAction

(* Of the handlers only start-dbc switches the rail, and it switches it on.*)
LEMMA HandlersSpareUpdate ==
  ASSUME StateHandler \/ UpdateHandler \/ WatchdogHandler \/ HoldHandler \/ InstallBegins
           \/ \E h \in {"state", "update"} : SyncReturns(h)
  PROVE  dash => dash'
<1> SUFFICES ASSUME dash PROVE dash'
  OBVIOUS
<1> USE DEF Rail, OnlyRedis, railVars
<1>1. CASE StateHandler
  BY <1>1 DEF StateHandler, UnlockArrives, UnlockCancel, UnlockDecide, OtherStateRequest
<1>2. CASE StartDbc \/ StartPersist \/ StartInhibit \/ StartPower
  BY <1>2 DEF StartDbc, StartPersist, StartInhibit, StartPower
<1>3. CASE CompleteDbc \/ CompletePersist \/ CompleteInhibit \/ InstallBegins
  BY <1>3 DEF CompleteDbc, CompletePersist, CompleteInhibit, InstallBegins
<1>4. CASE WatchdogHandler
  BY <1>4 DEF WatchdogHandler, WatchdogFires, Expire, ExpirePersist, ExpireInhibit
<1>5. CASE HoldRequest \/ HoldInhibit \/ ReleaseRequest \/ CapFires
  BY <1>5 DEF HoldRequest, HoldInhibit, ReleaseRequest, CapFires
<1>6. ASSUME NEW h \in {"hold", "cap"}, Release(h) \/ ReleaseInhibit(h) PROVE dash'
  BY <1>6 DEF Release, ReleaseInhibit
<1>7. ASSUME NEW h \in {"state", "update"}, SyncReturns(h) PROVE dash'
  BY <1>7 DEF SyncReturns
<1> QED
  BY <1>1, <1>2, <1>3, <1>4, <1>5, <1>6, <1>7 DEF UpdateHandler, HoldHandler

(* A delayed cut is one cut fewer, an operator's request one request more. *)
LEMMA OthersAreCounted ==
  ASSUME TypeOK, HardwareHandler \/ DelayedCut \/ Restart
  PROVE  (up' /\ dash /\ ~dash') => CutBySomebody
<1>t. cuts \in Nat /\ requests \in Nat
  BY DbcPowerAssumption DEF TypeOK
<1> USE <1>t DEF CutBySomebody
<1>1. CASE DashboardOn
  BY <1>1 DEF DashboardOn
<1>2. CASE DashboardOff \/ DashboardForcedOff
  <2>1. requests' = requests + 1
    BY <1>2 DEF DashboardOff, DashboardForcedOff, Request
  <2> QED
    BY <2>1
<1>3. CASE DashboardCut
  BY <1>3 DEF DashboardCut
<1>4. CASE DelayedCut
  BY <1>4 DEF DelayedCut
<1>5. CASE Restart
  BY <1>5 DEF Restart
<1> QED
  BY <1>1, <1>2, <1>3, <1>4, <1>5 DEF HardwareHandler

(* Only a delayed cut, an operator or a restart takes the rail from an     *)
(* update that EnterStandby could have seen, whichever way the machine     *)
(* comes to Standby and whatever runs meanwhile.                           *)
THEOREM UpdatesOutliveStandby == Spec => UpdateOutlivesStandby
<1> DEFINE Spared == (up /\ up' /\ updating /\ dash /\ ~dash')
                       => (CutBySomebody \/ "overtaken" \in gaps)
<1>1. TypeOK /\ CutOvertaken /\ [Next]_vars => Spared
  <2> SUFFICES ASSUME TypeOK, CutOvertaken, [Next]_vars PROVE Spared
    OBVIOUS
  <2>1. CASE Next
    <3>1. CASE EntryAction \/ Dispatch \/ ReplayUnlock \/ ShutdownTimer \/ ExtSend \/ Boot
      BY <3>1, MachineSparesUpdate
    <3>2. CASE \/ StateHandler \/ UpdateHandler \/ WatchdogHandler \/ HoldHandler
               \/ InstallBegins \/ \E h \in {"state", "update"} : SyncReturns(h)
      BY <3>2, HandlersSpareUpdate
    <3>3. CASE HardwareHandler \/ DelayedCut \/ Restart
      BY <3>3, OthersAreCounted
    <3> QED
      BY <2>1, <3>1, <3>2, <3>3 DEF Next
  <2>2. CASE UNCHANGED vars
    BY <2>2 DEF vars, railVars
  <2> QED
    BY <2>1, <2>2
<1> QED
  BY <1>1, TypeInit, TypeStep, OvertakenInit, OvertakenStep, PTL DEF Spec, UpdateOutlivesStandby
=============================================================================
