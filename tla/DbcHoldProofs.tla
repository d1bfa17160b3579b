---------------------------- MODULE DbcHoldProofs ----------------------------
(***************************************************************************)
(* Who keeps the dashboard powered and the vehicle awake, for every set of *)
(* requests and events, every number of restarts and every interleaving of *)
(* the handlers with the event loop and with each other.                   *)
(***************************************************************************)
EXTENDS DbcPowerProofs

(* Each entry action runs in the leaf it belongs to, and the state is      *)
(* published when it is over.                                              *)
LoopInLeaf ==
  /\ pc = "railOn" => state \in {"Parked", "ReadyToDrive"}
  /\ pc \in {"sbRail", "sbCut", "sbReplay"} => state = "Standby"
  /\ pc \in {"sdReset", "sdHold", "sdInstall", "sdEnd", "sdRelease", "sdPoweroff"}
       => state = "ShuttingDown"
  /\ pc = "idle" => vstate = SystemStateOf(state)

(* A handler's step moves no other handler, and neither the machine.       *)
Alone(h) ==
  /\ UNCHANGED <<up, state, vstate, pc>>
  /\ \A g \in Handlers \ {h} : at'[g] = at[g]

(* What the types say of the handlers.                                     *)
LEMMA HandlersTyped ==
  ASSUME TypeOK
  PROVE  /\ at \in [Handlers -> HandlerSteps]
         /\ Handlers = {"state", "update", "hold", "hardware", "watchdog", "cap"}
  BY DEF TypeOK, Handlers

(* Every handler's steps leave the others where they are.                  *)
LEMMA StateAlone == TypeOK /\ StateHandler => Alone("state")
  BY HandlersTyped DEF StateHandler, UnlockArrives, UnlockCancel, UnlockDecide, OtherStateRequest,
     Alone, Step, OnlyHandler, bootVars, machineVars

(* The update's handler.                                                   *)
LEMMA UpdateAlone == TypeOK /\ UpdateHandler => Alone("update")
<1> SUFFICES ASSUME TypeOK, UpdateHandler PROVE Alone("update")
  OBVIOUS
<1> USE HandlersTyped DEF Alone, Step, OnlyHandler, OnlyRedis, bootVars, machineVars
<1>1. CASE StartDbc \/ StartPersist \/ StartInhibit \/ StartPower
  BY <1>1 DEF StartDbc, StartPersist, StartInhibit, StartPower
<1>2. CASE CompleteDbc \/ CompletePersist \/ CompleteInhibit
  BY <1>2 DEF CompleteDbc, CompletePersist, CompleteInhibit
<1> QED
  BY <1>1, <1>2 DEF UpdateHandler

(* The watchdog.                                                           *)
LEMMA WatchdogAlone == TypeOK /\ WatchdogHandler => Alone("watchdog")
  BY HandlersTyped DEF WatchdogHandler, WatchdogFires, Expire, ExpirePersist, ExpireInhibit,
     Alone, Step, OnlyHandler, OnlyRedis, bootVars, machineVars

(* The map hold and its cap.                                               *)
LEMMA HoldAlone ==
  /\ TypeOK /\ (HoldRequest \/ HoldInhibit \/ ReleaseRequest) => Alone("hold")
  /\ TypeOK /\ CapFires => Alone("cap")
  /\ \A h \in {"hold", "cap"} : TypeOK /\ (Release(h) \/ ReleaseInhibit(h)) => Alone(h)
<1> USE HandlersTyped DEF Alone, Step, OnlyHandler, OnlyRedis, bootVars, machineVars
<1>1. TypeOK /\ (HoldRequest \/ HoldInhibit \/ ReleaseRequest) => Alone("hold")
  BY DEF HoldRequest, HoldInhibit, ReleaseRequest
<1>2. TypeOK /\ CapFires => Alone("cap")
  BY DEF CapFires
<1>3. ASSUME NEW h \in {"hold", "cap"}, TypeOK, Release(h) \/ ReleaseInhibit(h) PROVE Alone(h)
  BY <1>3 DEF Release, ReleaseInhibit
<1> QED
  BY <1>1, <1>2, <1>3

(* The operator's requests.                                                *)
LEMMA HardwareAlone == TypeOK /\ HardwareHandler => Alone("hardware")
  BY HandlersTyped DEF HardwareHandler, DashboardOn, DashboardOff, DashboardCut,
     DashboardForcedOff, Alone, Step, OnlyHandler, bootVars, machineVars, handlerVars

(* A handler step is the step of one handler alone.                        *)
LEMMA HandlerAlone ==
  ASSUME TypeOK,
         StateHandler \/ UpdateHandler \/ WatchdogHandler \/ HoldHandler \/ HardwareHandler
  PROVE  \E h \in Handlers : Alone(h)
  BY HandlersTyped, StateAlone, UpdateAlone, WatchdogAlone, HoldAlone, HardwareAlone
     DEF HoldHandler

-----------------------------------------------------------------------------
(* Where the loop is.                                                      *)

(* A leaf is entered at the first step of its entry action.                *)
LEMMA EnterInLeaf == \A s : Enter(s) => LoopInLeaf'
  BY DEF Enter, EntryOf, LoopInLeaf

(* Every step keeps the loop in its leaf.                                  *)
LEMMA LoopInLeafStep == TypeOK /\ LoopInLeaf /\ [Next]_vars => LoopInLeaf'
<1> SUFFICES ASSUME TypeOK, LoopInLeaf, [Next]_vars PROVE LoopInLeaf'
  OBVIOUS
<1>1. CASE EntryAction
  <2> USE DEF LoopInLeaf, Goto
  <2>1. CASE RailOn \/ StandbyLook \/ StandbyCut \/ StandbyReplay
    BY <2>1 DEF RailOn, StandbyLook, StandbyCut, StandbyReplay
  <2>2. CASE ShutReset \/ ShutHold \/ ShutInstall \/ ShutEnd \/ ShutRelease \/ ShutPoweroff
    BY <2>2 DEF ShutReset, ShutHold, ShutInstall, ShutEnd, ShutRelease, ShutPoweroff
  <2>3. CASE Publish \/ PublishLost
    BY <2>3 DEF Publish, PublishLost
  <2> QED
    BY <1>1, <2>1, <2>2, <2>3 DEF EntryAction
<1>2. CASE Dispatch
  BY <1>2, EnterInLeaf DEF Dispatch, LoopInLeaf
<1>3. CASE Boot
  BY <1>3, EnterInLeaf DEF Boot, RestoreState, StayInStandby, LoopInLeaf
<1>4. CASE Restart
  BY <1>4 DEF Restart, LoopInLeaf, EntryOf, InitialState
<1>5. CASE UNCHANGED <<state, vstate, pc>>
  BY <1>5 DEF LoopInLeaf
<1>6. CASE ReplayUnlock \/ ShutdownTimer \/ ExtSend \/ InstallBegins \/ DelayedCut \/ UNCHANGED vars
  BY <1>5, <1>6 DEF ReplayUnlock, ShutdownTimer, ExtSend, InstallBegins, DelayedCut, vars, machineVars
<1>7. ASSUME NEW h \in {"state", "update"}, SyncReturns(h) PROVE LoopInLeaf'
  BY <1>5, <1>7 DEF SyncReturns, OnlyHandler
<1>8. CASE StateHandler \/ UpdateHandler \/ WatchdogHandler \/ HoldHandler \/ HardwareHandler
  BY <1>5, <1>8, HandlerAlone DEF Alone
<1> QED
  BY <1>1, <1>2, <1>3, <1>4, <1>6, <1>7, <1>8 DEF Next

-----------------------------------------------------------------------------
(* The inhibitors.                                                         *)

(* Unless two of its beginnings and ends overlapped, an update that runs   *)
(* has its inhibitor, and one that does not is about to lose it.           *)
UpdateInhibited ==
  "update" \notin gaps =>
    /\ at["update"] \in StartSteps => updating
    /\ Ending => ~updating
    /\ (updating /\ at["update"] \notin {"startPersist", "startInhibit"})
         => "dbc-update" \in inhib
    /\ ("dbc-update" \in inhib /\ ~updating) => Ending

(* A map hold that has been taken back, its inhibitor not yet.             *)
Releasing == at["hold"] = "releaseInhibit" \/ at["cap"] = "releaseInhibit"

MapInhibited ==
  "map" \notin gaps =>
    /\ at["hold"] = "holdInhibit" => mapHold
    /\ (mapHold /\ at["hold"] # "holdInhibit") => "map-download" \in inhib
    /\ Releasing => ~mapHold
    /\ "map-download" \in inhib => (mapHold \/ "hibernation" \in gaps \/ Releasing)

(* Steps that do not concern the update.                                   *)
LEMMA UpdateKept ==
  ASSUME UpdateInhibited,
         UNCHANGED <<updating, at["update"], at["watchdog"]>>,
         "update" \in gaps => "update" \in gaps',
         "dbc-update" \in inhib' <=> "dbc-update" \in inhib,
         pc' = "sdRelease" <=> pc = "sdRelease"
  PROVE  UpdateInhibited'
  BY DEF UpdateInhibited, Ending

(* The loop ends an update in one step and releases it in the next.        *)
LEMMA LoopUpdateInhibited ==
  ASSUME TypeOK, UpdateInhibited,
         EntryAction \/ Dispatch \/ ReplayUnlock \/ ShutdownTimer \/ ExtSend \/ Boot
  PROVE  UpdateInhibited'
<1> USE DEF OnlyLoop, Goto, handlerVars, holdVars, redisVars, railVars
<1>1. CASE RailOn \/ StandbyLook \/ StandbyCut \/ StandbyReplay
  <2>1. /\ UNCHANGED <<updating, at, inhib>> /\ pc # "sdRelease" /\ pc' # "sdRelease"
        /\ "update" \in gaps => "update" \in gaps'
    BY <1>1 DEF RailOn, StandbyLook, Defer, OnlyDeferral, StandbyCut, StandbyReplay, Rail
  <2> QED
    BY <2>1, UpdateKept
<1>2. CASE ShutReset \/ ShutHold \/ ShutInstall \/ ShutPoweroff
  <2>1. /\ UNCHANGED <<updating, at, inhib>> /\ pc # "sdRelease" /\ pc' # "sdRelease"
        /\ "update" \in gaps => "update" \in gaps'
    BY <1>2 DEF ShutReset, ShutHold, Dropped, MapGaps, ShutInstall, ShutPoweroff
  <2> QED
    BY <2>1, UpdateKept
<1>3. CASE Publish \/ PublishLost
  <2>1. /\ UNCHANGED <<updating, at, inhib>> /\ pc # "sdRelease" /\ pc' # "sdRelease"
        /\ "update" \in gaps => "update" \in gaps'
    BY <1>3 DEF Publish, PublishLost
  <2> QED
    BY <2>1, UpdateKept
<1>4. CASE Dispatch \/ ReplayUnlock \/ ShutdownTimer \/ ExtSend \/ Boot
  <2>1. UNCHANGED <<updating, at, inhib, gaps>>
    BY <1>4 DEF Dispatch, ReplayUnlock, ShutdownTimer, ExtSend, Boot, RestoreState, StayInStandby,
       BootVarsAfter
  <2>2. pc' = pc \/ (pc = "idle" /\ pc' # "sdRelease")
    <3>1. \A s : Enter(s) => pc' # "sdRelease"
      BY DEF Enter, EntryOf
    <3>2. CASE Dispatch \/ ReplayUnlock \/ ShutdownTimer \/ ExtSend
      BY <3>1, <3>2 DEF Dispatch, ReplayUnlock, ShutdownTimer, ExtSend
    <3>3. CASE Boot
      BY <3>1, <3>3 DEF Boot, RestoreState, StayInStandby, BootVarsAfter
    <3> QED
      BY <1>4, <3>2, <3>3
  <2> QED
    BY <2>1, <2>2, UpdateKept
<1>5. CASE ShutEnd
  BY <1>5 DEF ShutEnd, UpdateGaps, Starting, UpdateInhibited, Ending
<1>6. CASE ShutRelease
  BY <1>6 DEF ShutRelease, UpdateInhibited, Ending
<1> QED
  BY <1>1, <1>2, <1>3, <1>4, <1>5, <1>6 DEF EntryAction

(* The handlers of the update.                                             *)
LEMMA UpdateHandlersInhibited ==
  ASSUME TypeOK, UpdateInhibited, UpdateHandler \/ WatchdogHandler
  PROVE  UpdateInhibited'
<1>t. at \in [Handlers -> HandlerSteps] /\ "update" \in Handlers /\ "watchdog" \in Handlers
  BY HandlersTyped
<1> USE <1>t DEF UpdateInhibited, Ending, StartSteps, Step
<1>1. CASE UpdateHandler
  <2>1. pc' = pc /\ at'["watchdog"] = at["watchdog"]
    BY <1>1, UpdateAlone DEF Alone
  <2>2. CASE StartDbc
    BY <2>1, <2>2 DEF StartDbc, UpdateGaps, Overtakes, redisVars
  <2>3. CASE StartPersist \/ StartInhibit
    BY <2>1, <2>3 DEF StartPersist, StartInhibit, OnlyRedis, holdVars, railVars
  <2>4. CASE StartPower
    BY <2>1, <2>4 DEF StartPower, Rail, holdVars, redisVars
  <2>5. CASE CompleteDbc
    BY <2>1, <2>5 DEF CompleteDbc, UpdateGaps, redisVars
  <2>6. CASE CompletePersist
    BY <2>1, <2>6 DEF CompletePersist, OnlyRedis, holdVars, railVars
  <2>7. CASE CompleteInhibit
    <3>1. /\ at["update"] = "completeInhibit" /\ at'["update"] \in {"sync", "idle"}
          /\ "dbc-update" \notin inhib' /\ UNCHANGED <<updating, gaps>>
      BY <2>7 DEF CompleteInhibit, holdVars, railVars
    <3> QED
      BY <2>1, <3>1
  <2> QED
    BY <1>1, <2>2, <2>3, <2>4, <2>5, <2>6, <2>7 DEF UpdateHandler
<1>2. CASE WatchdogHandler
  <2>1. pc' = pc /\ at'["update"] = at["update"]
    BY <1>2, WatchdogAlone DEF Alone
  <2>2. CASE WatchdogFires
    BY <2>1, <2>2 DEF WatchdogFires, redisVars, railVars
  <2>3. CASE Expire
    <3>1. CASE updating
      BY <2>1, <2>3, <3>1 DEF Expire, UpdateGaps, Starting, redisVars
    <3>2. CASE ~updating
      BY <2>1, <2>3, <3>2 DEF Expire, redisVars
    <3> QED
      BY <3>1, <3>2
  <2>4. CASE ExpirePersist
    BY <2>1, <2>4 DEF ExpirePersist, OnlyRedis, holdVars, railVars
  <2>5. CASE ExpireInhibit
    BY <2>1, <2>5 DEF ExpireInhibit, holdVars, railVars
  <2> QED
    BY <1>2, <2>2, <2>3, <2>4, <2>5 DEF WatchdogHandler
<1> QED
  BY <1>1, <1>2

(* Everybody else.                                                         *)
LEMMA OthersUpdateInhibited ==
  ASSUME TypeOK, UpdateInhibited,
         StateHandler \/ HoldHandler \/ HardwareHandler \/ InstallBegins \/ DelayedCut
           \/ (\E h \in {"state", "update"} : SyncReturns(h)) \/ Restart \/ UNCHANGED vars
  PROVE  UpdateInhibited'
<1> USE HandlersTyped DEF holdVars, redisVars, railVars, OnlyHandler, Step
<1>1. CASE StateHandler
  <2>1. UNCHANGED <<updating, inhib, gaps>>
    BY <1>1 DEF StateHandler, UnlockArrives, UnlockCancel, UnlockDecide, OtherStateRequest
  <2> QED
    BY <1>1, <2>1, StateAlone, UpdateKept DEF Alone
<1>2. CASE HoldRequest \/ HoldInhibit \/ ReleaseRequest \/ CapFires
  <2>1. /\ updating' = updating /\ ("dbc-update" \in inhib' <=> "dbc-update" \in inhib)
        /\ "update" \in gaps => "update" \in gaps'
    BY <1>2 DEF HoldRequest, MapGaps, HoldInhibit, ReleaseRequest, CapFires, OnlyRedis
  <2> QED
    BY <1>2, <2>1, HoldAlone, UpdateKept DEF Alone
<1>3. ASSUME NEW h \in {"hold", "cap"}, Release(h) \/ ReleaseInhibit(h) PROVE UpdateInhibited'
  <2>1. /\ updating' = updating /\ ("dbc-update" \in inhib' <=> "dbc-update" \in inhib)
        /\ "update" \in gaps => "update" \in gaps'
    BY <1>3 DEF Release, MapGaps, ReleaseInhibit
  <2> QED
    BY <1>3, <2>1, HoldAlone, UpdateKept DEF Alone
<1>4. CASE HardwareHandler
  <2>1. UNCHANGED <<updating, inhib>> /\ ("update" \in gaps => "update" \in gaps')
    BY <1>4 DEF HardwareHandler, DashboardOn, DashboardOff, DashboardCut, DashboardForcedOff, Rail
  <2> QED
    BY <1>4, <2>1, HardwareAlone, UpdateKept DEF Alone
<1>5. CASE InstallBegins \/ DelayedCut \/ UNCHANGED vars
  <2>1. /\ UNCHANGED <<updating, at, pc>> /\ ("dbc-update" \in inhib' <=> "dbc-update" \in inhib)
        /\ "update" \in gaps => "update" \in gaps'
    BY <1>5 DEF InstallBegins, DelayedCut, Rail, vars, machineVars, handlerVars
  <2> QED
    BY <2>1, UpdateKept
<1>6. ASSUME NEW h \in {"state", "update"}, SyncReturns(h) PROVE UpdateInhibited'
  BY <1>6 DEF SyncReturns, UpdateInhibited, Ending, StartSteps
<1>7. CASE Restart
  <2>1. at'["update"] = "idle" /\ at'["watchdog"] = "idle" /\ pc' # "sdRelease"
    BY <1>7 DEF Restart, EntryOf, InitialState
  <2>2. "dbc-update" \in inhib' <=> updating'
    BY <1>7 DEF Restart, RestoreHolds
  <2> QED
    BY <2>1, <2>2 DEF UpdateInhibited, Ending, StartSteps
<1> QED
  BY <1>1, <1>2, <1>3, <1>4, <1>5, <1>6, <1>7 DEF HoldHandler

(* Every step keeps the update's inhibitor.                                *)
LEMMA UpdateInhibitedStep == TypeOK /\ UpdateInhibited /\ [Next]_vars => UpdateInhibited'
  BY LoopUpdateInhibited, UpdateHandlersInhibited, OthersUpdateInhibited DEF Next

(* Steps that do not concern the map hold.                                 *)
LEMMA MapKept ==
  ASSUME MapInhibited,
         UNCHANGED <<mapHold, at["hold"], at["cap"]>>,
         "map-download" \in inhib' <=> "map-download" \in inhib,
         "hibernation" \in gaps => "hibernation" \in gaps',
         "map" \in gaps => "map" \in gaps'
  PROVE  MapInhibited'
  BY DEF MapInhibited, Releasing

(* What neither ends a hold nor overlaps an end.                           *)
KeepsMapGaps == \A gap \in {"hibernation", "map"} : gap \in gaps => gap \in gaps'

(* Only EnterShuttingDown touches a map hold, and only for a hibernation.  *)
LEMMA LoopMapInhibited ==
  ASSUME TypeOK, MapInhibited,
         EntryAction \/ Dispatch \/ ReplayUnlock \/ ShutdownTimer \/ ExtSend \/ Boot
  PROVE  MapInhibited'
<1> USE DEF OnlyLoop, Goto, handlerVars, holdVars, redisVars, railVars, KeepsMapGaps
<1>1. CASE RailOn \/ StandbyLook \/ StandbyCut \/ StandbyReplay
  <2>1. UNCHANGED <<mapHold, at, inhib>> /\ KeepsMapGaps
    BY <1>1 DEF RailOn, StandbyLook, Defer, OnlyDeferral, StandbyCut, StandbyReplay, Rail
  <2> QED
    BY <2>1, MapKept
<1>2. CASE ShutReset \/ ShutPoweroff \/ ShutInstall \/ ShutEnd \/ ShutRelease
  <2>1. /\ UNCHANGED <<mapHold, at>> /\ KeepsMapGaps
        /\ "map-download" \in inhib' <=> "map-download" \in inhib
    BY <1>2 DEF ShutReset, ShutPoweroff, ShutInstall, ShutEnd, UpdateGaps, ShutRelease
  <2> QED
    BY <2>1, MapKept
<1>3. CASE Publish \/ PublishLost
  <2>1. UNCHANGED <<mapHold, at, inhib>> /\ KeepsMapGaps
    BY <1>3 DEF Publish, PublishLost
  <2> QED
    BY <2>1, MapKept
<1>4. CASE Dispatch \/ ReplayUnlock \/ ShutdownTimer \/ ExtSend \/ Boot
  <2>1. UNCHANGED <<mapHold, at, inhib, gaps>>
    BY <1>4 DEF Dispatch, ReplayUnlock, ShutdownTimer, ExtSend, Boot, RestoreState, StayInStandby,
       BootVarsAfter
  <2> QED
    BY <2>1, MapKept
<1>5. CASE ShutHold
  <2>1. UNCHANGED <<at, inhib>>
    BY <1>5 DEF ShutHold
  <2>2. CASE mapHold /\ hibernating
    BY <1>5, <2>1, <2>2 DEF ShutHold, Dropped, MapGaps, MapInhibited, Releasing
  <2>3. CASE ~(mapHold /\ hibernating)
    BY <1>5, <2>1, <2>3, MapKept DEF ShutHold
  <2> QED
    BY <2>2, <2>3
<1> QED
  BY <1>1, <1>2, <1>3, <1>4, <1>5 DEF EntryAction

(* The requests of scooter:dbc-hold, and the cap.                          *)
LEMMA HoldMapInhibited ==
  ASSUME TypeOK, MapInhibited, HoldHandler
  PROVE  MapInhibited'
<1>t. at \in [Handlers -> HandlerSteps] /\ "hold" \in Handlers /\ "cap" \in Handlers
  BY HandlersTyped
<1> USE <1>t DEF MapInhibited, Releasing, Step
<1>1. CASE HoldRequest
  <2>1. CASE mapHold
    BY <1>1, <2>1 DEF HoldRequest, redisVars
  <2>2. CASE ~mapHold
    BY <1>1, <2>2 DEF HoldRequest, MapGaps, TooLate, redisVars
  <2> QED
    BY <2>1, <2>2
<1>2. CASE HoldInhibit
  BY <1>2 DEF HoldInhibit, OnlyRedis, holdVars, railVars
<1>3. CASE ReleaseRequest
  BY <1>3 DEF ReleaseRequest, holdVars, railVars, redisVars
<1>4. CASE CapFires
  BY <1>4 DEF CapFires, railVars, redisVars
<1>5. ASSUME NEW h \in {"hold", "cap"}, Release(h) PROVE MapInhibited'
  <2>1. /\ at[h] = "release" /\ UNCHANGED inhib
        /\ \A g \in {"hold", "cap"} : g # h => at'[g] = at[g]
    BY <1>5 DEF Release, redisVars
  <2>2. CASE ~mapHold
    <3>1. UNCHANGED <<mapHold, gaps>> /\ at'[h] = "idle"
      BY <1>5, <2>2 DEF Release
    <3> QED
      BY <2>1, <2>2, <3>1
  <2>3. CASE mapHold
    <3>1. /\ ~mapHold' /\ at'[h] = "releaseInhibit"
          /\ "map" \notin gaps' => ~(h = "cap" /\ at["hold"] = "holdInhibit")
      BY <1>5, <2>3 DEF Release, MapGaps
    <3> QED
      BY <2>1, <3>1
  <2> QED
    BY <2>2, <2>3
<1>6. ASSUME NEW h \in {"hold", "cap"}, ReleaseInhibit(h) PROVE MapInhibited'
  <2>1. /\ at[h] = "releaseInhibit" /\ at'[h] = "idle"
        /\ \A g \in {"hold", "cap"} : g # h => at'[g] = at[g]
        /\ UNCHANGED mapHold /\ "map-download" \notin inhib'
        /\ "map" \in gaps => "map" \in gaps'
    BY <1>6 DEF ReleaseInhibit, holdVars
  <2> QED
    BY <2>1
<1> QED
  BY <1>1, <1>2, <1>3, <1>4, <1>5, <1>6 DEF HoldHandler

(* Everybody else.                                                         *)
LEMMA OthersMapInhibited ==
  ASSUME TypeOK, MapInhibited,
         StateHandler \/ UpdateHandler \/ WatchdogHandler \/ HardwareHandler \/ InstallBegins
           \/ DelayedCut \/ (\E h \in {"state", "update"} : SyncReturns(h)) \/ Restart
           \/ UNCHANGED vars
  PROVE  MapInhibited'
<1> USE HandlersTyped DEF holdVars, redisVars, railVars, Rail, KeepsMapGaps
<1>1. CASE StateHandler
  <2>1. UNCHANGED <<mapHold, inhib, gaps>>
    BY <1>1 DEF StateHandler, UnlockArrives, UnlockCancel, UnlockDecide, OtherStateRequest
  <2> QED
    BY <1>1, <2>1, StateAlone, MapKept DEF Alone
<1>2. CASE UpdateHandler
  <2>1. /\ UNCHANGED mapHold
        /\ "map-download" \in inhib' <=> "map-download" \in inhib
        /\ KeepsMapGaps
    <3>1. CASE StartDbc \/ StartPersist \/ StartInhibit \/ StartPower
      BY <3>1 DEF StartDbc, UpdateGaps, StartPersist, StartInhibit, StartPower, OnlyRedis
    <3>2. CASE CompleteDbc \/ CompletePersist \/ CompleteInhibit
      BY <3>2 DEF CompleteDbc, UpdateGaps, CompletePersist, CompleteInhibit, OnlyRedis
    <3> QED
      BY <1>2, <3>1, <3>2 DEF UpdateHandler
  <2> QED
    BY <1>2, <2>1, UpdateAlone, MapKept DEF Alone
<1>3. CASE WatchdogHandler
  <2>1. /\ UNCHANGED mapHold
        /\ "map-download" \in inhib' <=> "map-download" \in inhib
        /\ KeepsMapGaps
    BY <1>3 DEF WatchdogHandler, WatchdogFires, Expire, UpdateGaps, ExpirePersist, ExpireInhibit,
       OnlyRedis
  <2> QED
    BY <1>3, <2>1, WatchdogAlone, MapKept DEF Alone
<1>4. CASE HardwareHandler
  <2>1. UNCHANGED <<mapHold, inhib>> /\ KeepsMapGaps
    BY <1>4 DEF HardwareHandler, DashboardOn, DashboardOff, DashboardCut, DashboardForcedOff
  <2> QED
    BY <1>4, <2>1, HardwareAlone, MapKept DEF Alone
<1>5. CASE InstallBegins \/ DelayedCut \/ UNCHANGED vars
  <2>1. /\ UNCHANGED <<mapHold, at>>
        /\ "map-download" \in inhib' <=> "map-download" \in inhib
        /\ KeepsMapGaps
    BY <1>5 DEF InstallBegins, DelayedCut, vars, handlerVars
  <2> QED
    BY <2>1, MapKept
<1>6. ASSUME NEW h \in {"state", "update"}, SyncReturns(h) PROVE MapInhibited'
  BY <1>6, MapKept DEF SyncReturns, Step
<1>7. CASE Restart
  <2>1. at'["hold"] = "idle" /\ at'["cap"] = "idle"
    BY <1>7 DEF Restart
  <2>2. ~mapHold' /\ "map-download" \notin inhib'
    BY <1>7 DEF Restart, RestoreHolds
  <2> QED
    BY <2>1, <2>2 DEF MapInhibited, Releasing
<1> QED
  BY <1>1, <1>2, <1>3, <1>4, <1>5, <1>6, <1>7

(* Every step keeps the map hold's inhibitor.                              *)
LEMMA MapInhibitedStep == TypeOK /\ MapInhibited /\ [Next]_vars => MapInhibited'
  BY LoopMapInhibited, HoldMapInhibited, OthersMapInhibited DEF Next

(* The inductive invariants hold at the first boot.                        *)
LEMMA HoldsInit == Init => LoopInLeaf /\ UpdateInhibited /\ MapInhibited
<1> SUFFICES ASSUME Init PROVE LoopInLeaf /\ UpdateInhibited /\ MapInhibited
  OBVIOUS
<1>1. \A h \in Handlers : at[h] = "idle"
  BY DEF Init
<1>2. pc = "sbRail" /\ state = "Standby" /\ ~updating /\ ~mapHold /\ inhib = {}
  BY DEF Init, EntryOf, InitialState
<1>3. {"update", "watchdog", "hold", "cap"} \subseteq Handlers
  BY DEF Handlers
<1> QED
  BY <1>1, <1>2, <1>3 DEF LoopInLeaf, UpdateInhibited, Ending, StartSteps, MapInhibited, Releasing

(* The suspend inhibitors follow the holds they stand for whenever no      *)
(* handler and no entry action is under way, unless the last beginning or  *)
(* end of the hold overlapped another.                                     *)
THEOREM InhibitorsFollow == Spec => []InhibitorsFollowHolds
<1>1. TypeOK /\ UpdateInhibited /\ MapInhibited => InhibitorsFollowHolds
  <2> SUFFICES ASSUME TypeOK, UpdateInhibited, MapInhibited, Settled PROVE
        /\ "update" \notin gaps => ("dbc-update" \in inhib <=> updating)
        /\ "map" \notin gaps =>
             /\ mapHold => "map-download" \in inhib
             /\ "map-download" \in inhib => (mapHold \/ "hibernation" \in gaps)
    BY DEF InhibitorsFollowHolds
  <2>1. pc = "idle" /\ \A h \in Handlers : at[h] \in {"idle", "sync", "wait"}
    BY DEF Settled, MidBody, Waiting
  <2>2. {"update", "watchdog", "hold", "cap"} \subseteq Handlers
    BY DEF Handlers
  <2>3. "update" \notin gaps => ("dbc-update" \in inhib <=> updating)
    BY <2>1, <2>2 DEF UpdateInhibited, Ending
  <2>4. "map" \notin gaps =>
          /\ mapHold => "map-download" \in inhib
          /\ "map-download" \in inhib => (mapHold \/ "hibernation" \in gaps)
    BY <2>1, <2>2 DEF MapInhibited, Releasing
  <2> QED
    BY <2>3, <2>4
<1> QED
  BY <1>1, UpdateInhibitedStep, MapInhibitedStep, TypeInit, TypeStep, HoldsInit, PTL DEF Spec

-----------------------------------------------------------------------------
(* The rail in stand-by.                                                   *)

(* A map hold is capped, unless it was asked for when the shutdown had     *)
(* looked already.                                                         *)
Capped == holdTimer \/ at["cap"] = "release" \/ "late" \in gaps

(* The machine is past the point of its shutdown that caps the hold.       *)
PastHold ==
  \/ state = "ShuttingDown" /\ pc \notin {"sdReset", "sdHold"}
  \/ pc = "sbRail"

HoldCapped ==
  /\ ~up => ~mapHold
  /\ (mapHold /\ PastHold) => Capped

(* Somebody is about to cut the rail, or the machine to shut down again.   *)
Coming == \E i \in DOMAIN queue : queue[i].ev = "DbcUpdateComplete"
Cutting ==
  \/ at["update"] \in {"completePersist", "completeInhibit"} /\ seen["update"] = "stand-by"
  \/ Coming
  \/ at["watchdog"] \in {"expirePersist", "expireInhibit"} /\ cut["watchdog"]
  \/ \E h \in {"hold", "cap"} : at[h] = "releaseInhibit" /\ cut[h]
  \/ cuts > 0

Held == \/ manual
        \/ updating
        \/ mapHold /\ deferred /\ Capped
        \/ Cutting
        \/ gaps \cap {"watchdog", "lag", "update"} # {}

(* The machine is in stand-by, past the step that switches the rail.       *)
InStandby == state = "Standby" /\ pc \notin {"sbRail", "sbCut"}

RailHeld == (InStandby /\ dash) => Held

(* Steps that do not concern the cap.                                      *)
LEMMA CapKept ==
  ASSUME HoldCapped, UNCHANGED <<up, mapHold>>, Capped => Capped', PastHold' => PastHold
  PROVE  HoldCapped'
  BY DEF HoldCapped

(* A machine that enters a leaf has not capped a hold there, but came to   *)
(* stand-by from a shutdown that has.                                      *)
LEMMA LoopCapped ==
  ASSUME TypeOK, LoopInLeaf, HoldCapped,
         EntryAction \/ Dispatch \/ ReplayUnlock \/ ShutdownTimer \/ ExtSend \/ Boot
  PROVE  HoldCapped'
<1> USE DEF OnlyLoop, Goto, Rail, handlerVars, holdVars, railVars, bootVars
<1>1. CASE RailOn \/ StandbyLook \/ StandbyCut \/ StandbyReplay
  <2>1. /\ UNCHANGED <<up, mapHold, holdTimer, at, state>>
        /\ "late" \in gaps => "late" \in gaps'
        /\ state # "ShuttingDown" /\ pc' # "sbRail"
    BY <1>1 DEF RailOn, StandbyLook, Defer, OnlyDeferral, StandbyCut, StandbyReplay, LoopInLeaf
  <2> QED
    BY <2>1, CapKept DEF Capped, PastHold
<1>2. CASE ShutReset
  BY <1>2, CapKept DEF ShutReset, Capped, PastHold
<1>3. CASE ShutHold
  <2>1. CASE mapHold /\ hibernating
    BY <1>3, <2>1 DEF ShutHold, HoldCapped
  <2>2. CASE ~(mapHold /\ hibernating)
    BY <1>3, <2>2 DEF ShutHold, HoldCapped, Capped
  <2> QED
    BY <2>1, <2>2
<1>4. CASE ShutInstall \/ ShutEnd \/ ShutRelease \/ ShutPoweroff
  <2>1. /\ UNCHANGED <<up, mapHold, holdTimer, at, state>>
        /\ "late" \in gaps => "late" \in gaps'
        /\ PastHold /\ pc' # "sbRail"
    BY <1>4 DEF ShutInstall, ShutEnd, UpdateGaps, ShutRelease, ShutPoweroff, LoopInLeaf, PastHold
  <2> QED
    BY <2>1, CapKept DEF Capped
<1>5. CASE Publish \/ PublishLost
  <2>1. /\ UNCHANGED <<up, mapHold, holdTimer, at, state>>
        /\ "late" \in gaps => "late" \in gaps'
        /\ pc = "publish" /\ pc' = "idle"
    BY <1>5 DEF Publish, PublishLost
  <2> QED
    BY <2>1, CapKept DEF Capped, PastHold
<1>6. CASE ReplayUnlock \/ ShutdownTimer \/ ExtSend
  <2>1. UNCHANGED <<up, mapHold, holdTimer, at, gaps, state, pc>>
    BY <1>6 DEF ReplayUnlock, ShutdownTimer, ExtSend
  <2> QED
    BY <2>1, CapKept DEF Capped, PastHold
<1>7. CASE Dispatch
  <2>1. UNCHANGED <<up, mapHold, holdTimer, at, gaps>> /\ pc = "idle"
    BY <1>7 DEF Dispatch
  <2>2. CASE UNCHANGED <<state, from, vstate, pc, shutTimer, hibernateVars>>
    BY <2>1, <2>2, CapKept DEF Capped, PastHold
  <2>3. ASSUME NEW to, Enter(to), to = "Standby" => state = "ShuttingDown"
        PROVE  HoldCapped'
    <3>1. PastHold' => PastHold
      BY <2>1, <2>3 DEF Enter, EntryOf, PastHold
    <3> QED
      BY <2>1, <3>1, CapKept DEF Capped
  <2> QED
    BY <1>7, <2>2, <2>3, SelectedStandby DEF Dispatch
<1>8. CASE Boot
  BY <1>8 DEF Boot, RestoreState, StayInStandby, BootVarsAfter, HoldCapped
<1> QED
  BY <1>1, <1>2, <1>3, <1>4, <1>5, <1>6, <1>7, <1>8 DEF EntryAction

(* A hold asked for during the shutdown is a late one, and the cap that    *)
(* fires takes its hold back.                                              *)
LEMMA HandlersCapped ==
  ASSUME TypeOK, HoldCapped, HoldHandler
  PROVE  HoldCapped'
<1>t. at \in [Handlers -> HandlerSteps] /\ "hold" \in Handlers /\ "cap" \in Handlers
  BY HandlersTyped
<1> USE <1>t DEF HoldCapped, Step
<1>1. CASE HoldRequest \/ HoldInhibit \/ ReleaseRequest
  <2>1. UNCHANGED <<up, state, pc>> /\ at'["cap"] = at["cap"]
    BY <1>1, HoldAlone DEF Alone
  <2>2. CASE HoldRequest
    <3>1. CASE mapHold
      BY <2>1, <2>2, <3>1 DEF HoldRequest, Capped, PastHold
    <3>2. CASE ~mapHold
      BY <2>1, <2>2, <3>2 DEF HoldRequest, TooLate, Capped, PastHold
    <3> QED
      BY <3>1, <3>2
  <2>3. CASE HoldInhibit \/ ReleaseRequest
    BY <2>1, <2>3 DEF HoldInhibit, ReleaseRequest, OnlyRedis, holdVars, railVars, Capped, PastHold
  <2> QED
    BY <1>1, <2>2, <2>3
<1>2. CASE CapFires
  <2>1. at'["cap"] = "release" /\ UNCHANGED <<up, mapHold, state, pc>>
    BY <1>2 DEF CapFires, OnlyHandler, bootVars
  <2> QED
    BY <2>1 DEF Capped, PastHold
<1>3. ASSUME NEW h \in {"hold", "cap"}, Release(h) \/ ReleaseInhibit(h) PROVE HoldCapped'
  <2>1. UNCHANGED <<up, state, pc>>
    BY <1>3, HoldAlone DEF Alone
  <2>2. CASE Release(h)
    <3>1. ~mapHold'
      BY <2>2 DEF Release
    <3> QED
      BY <3>1
  <2>3. CASE ReleaseInhibit(h)
    BY <2>1, <2>3 DEF ReleaseInhibit, holdVars, Capped, PastHold
  <2> QED
    BY <1>3, <2>2, <2>3
<1> QED
  BY <1>1, <1>2, <1>3 DEF HoldHandler

(* Everybody else leaves the holds and the machine alone.                  *)
LEMMA OthersCapped ==
  ASSUME TypeOK, HoldCapped,
         StateHandler \/ UpdateHandler \/ WatchdogHandler \/ HardwareHandler \/ InstallBegins
           \/ DelayedCut \/ (\E h \in {"state", "update"} : SyncReturns(h)) \/ Restart
           \/ UNCHANGED vars
  PROVE  HoldCapped'
<1> USE HandlersTyped DEF holdVars, railVars, Rail
<1>0. ASSUME UNCHANGED <<up, state, pc, mapHold, holdTimer>>, at'["cap"] = at["cap"],
             "late" \in gaps => "late" \in gaps'
      PROVE  HoldCapped'
  BY <1>0, CapKept DEF Capped, PastHold
<1>1. CASE StateHandler
  <2>1. UNCHANGED <<mapHold, holdTimer, gaps>>
    BY <1>1 DEF StateHandler, UnlockArrives, UnlockCancel, UnlockDecide, OtherStateRequest
  <2> QED
    BY <1>0, <1>1, <2>1, StateAlone DEF Alone
<1>2. CASE UpdateHandler
  <2>1. UNCHANGED <<mapHold, holdTimer>> /\ ("late" \in gaps => "late" \in gaps')
    <3>1. CASE StartDbc \/ StartPersist \/ StartInhibit \/ StartPower
      BY <3>1 DEF StartDbc, UpdateGaps, StartPersist, StartInhibit, StartPower, OnlyRedis
    <3>2. CASE CompleteDbc \/ CompletePersist \/ CompleteInhibit
      BY <3>2 DEF CompleteDbc, UpdateGaps, CompletePersist, CompleteInhibit, OnlyRedis
    <3> QED
      BY <1>2, <3>1, <3>2 DEF UpdateHandler
  <2> QED
    BY <1>0, <1>2, <2>1, UpdateAlone DEF Alone
<1>3. CASE WatchdogHandler
  <2>1. UNCHANGED <<mapHold, holdTimer>> /\ ("late" \in gaps => "late" \in gaps')
    BY <1>3 DEF WatchdogHandler, WatchdogFires, Expire, UpdateGaps, ExpirePersist, ExpireInhibit,
       OnlyRedis
  <2> QED
    BY <1>0, <1>3, <2>1, WatchdogAlone DEF Alone
<1>4. CASE HardwareHandler
  <2>1. UNCHANGED <<mapHold, holdTimer>> /\ ("late" \in gaps => "late" \in gaps')
    BY <1>4 DEF HardwareHandler, DashboardOn, DashboardOff, DashboardCut, DashboardForcedOff
  <2> QED
    BY <1>0, <1>4, <2>1, HardwareAlone DEF Alone
<1>5. CASE InstallBegins \/ DelayedCut \/ UNCHANGED vars
  <2>1. /\ UNCHANGED <<up, state, pc, at, mapHold, holdTimer>>
        /\ "late" \in gaps => "late" \in gaps'
    BY <1>5 DEF InstallBegins, DelayedCut, vars, handlerVars, bootVars, machineVars
  <2> QED
    BY <1>0, <2>1
<1>6. ASSUME NEW h \in {"state", "update"}, SyncReturns(h) PROVE HoldCapped'
  BY <1>0, <1>6 DEF SyncReturns, Step, OnlyHandler, bootVars
<1>7. CASE Restart
  BY <1>7 DEF Restart, RestoreHolds, HoldCapped
<1> QED
  BY <1>1, <1>2, <1>3, <1>4, <1>5, <1>6, <1>7

(* Every step keeps the hold capped.                                       *)
LEMMA HoldCappedStep == TypeOK /\ LoopInLeaf /\ HoldCapped /\ [Next]_vars => HoldCapped'
  BY LoopCapped, HandlersCapped, OthersCapped DEF Next

(* An event that is sent stays in the queue until it is dispatched.        *)
LEMMA ComingKept ==
  ASSUME TypeOK
  PROVE  /\ \A x : queue' = Append(queue, x)
                  => (Coming => Coming') /\ (x.ev = "DbcUpdateComplete" => Coming')
         /\ (queue # <<>> /\ Head(queue).ev # "DbcUpdateComplete" /\ queue' = Tail(queue))
              => (Coming => Coming')
<1>t. queue \in Seq([ev : Events, by : Handlers \cup {"none"}])
  BY DEF TypeOK
<1>1. ASSUME NEW x, queue' = Append(queue, x)
      PROVE  (Coming => Coming') /\ (x.ev = "DbcUpdateComplete" => Coming')
  <2>1. /\ \A i \in DOMAIN queue : i \in DOMAIN queue' /\ queue'[i] = queue[i]
        /\ Len(queue) + 1 \in DOMAIN queue' /\ queue'[Len(queue) + 1] = x
    BY <1>t, <1>1
  <2> QED
    BY <2>1 DEF Coming
<1>2. ASSUME queue # <<>>, Head(queue).ev # "DbcUpdateComplete", queue' = Tail(queue), Coming
      PROVE  Coming'
  <2>1. PICK i \in DOMAIN queue : queue[i].ev = "DbcUpdateComplete"
    BY <1>2 DEF Coming
  <2>2. i # 1
    BY <1>t, <1>2, <2>1
  <2>3. i - 1 \in DOMAIN queue' /\ queue'[i - 1] = queue[i]
    BY <1>t, <1>2, <2>2
  <2> QED
    BY <2>1, <2>3 DEF Coming
<1> QED
  BY <1>1, <1>2

(* Steps that leave every holder where it was.                             *)
LEMMA RailKept ==
  ASSUME RailHeld, InStandby' => InStandby,
         dash' => /\ dash
                  /\ manual => manual'
                  /\ updating => updating'
                  /\ (mapHold /\ deferred /\ Capped) => (mapHold' /\ deferred' /\ Capped')
                  /\ Cutting => Cutting'
                  /\ \A gap \in {"watchdog", "lag", "update"} : gap \in gaps => gap \in gaps'
  PROVE  RailHeld'
  BY DEF RailHeld, Held

(* EnterStandby defers its cut to a hold or carries it out.                *)
LEMMA EntryHeld ==
  ASSUME TypeOK, LoopInLeaf, HoldCapped, RailHeld, EntryAction
  PROVE  RailHeld'
<1> USE DEF OnlyLoop, Goto, handlerVars, holdVars, railVars
<1>1. CASE \/ RailOn \/ ShutReset \/ ShutHold \/ ShutInstall \/ ShutEnd \/ ShutRelease
            \/ ShutPoweroff
  <2>1. state # "Standby" /\ state' = state
    BY <1>1 DEF RailOn, ShutReset, ShutHold, ShutInstall, ShutEnd, ShutRelease, ShutPoweroff,
                LoopInLeaf
  <2> QED
    BY <2>1 DEF RailHeld, InStandby
<1>2. CASE StandbyLook
  <2>1. CASE updating
    BY <1>2, <2>1 DEF StandbyLook, OnlyDeferral, RailHeld, Held
  <2>2. CASE ~updating /\ mapHold
    <3>1. Capped
      BY <1>2, <2>2 DEF StandbyLook, HoldCapped, PastHold
    <3>2. mapHold' /\ deferred' /\ Capped'
      BY <1>2, <2>2, <3>1 DEF StandbyLook, Defer, OnlyDeferral, Capped
    <3> QED
      BY <3>2 DEF RailHeld, Held
  <2>3. CASE ~updating /\ ~mapHold
    BY <1>2, <2>3 DEF StandbyLook, RailHeld, InStandby
  <2> QED
    BY <2>1, <2>2, <2>3
<1>5. CASE StandbyCut
  BY <1>5 DEF StandbyCut, RailHeld
<1>3. CASE StandbyReplay
  <2>1. /\ UNCHANGED <<state, queue, seen, cut, cuts, at, dash, manual, updating, mapHold, deferred,
                       holdTimer, gaps>>
        /\ pc = "sbReplay"
    BY <1>3 DEF StandbyReplay
  <2> QED
    BY <2>1, RailKept DEF InStandby, Cutting, Coming, Capped
<1>4. CASE Publish \/ PublishLost
  <2>1. /\ UNCHANGED <<state, queue, seen, cut, cuts, at, dash, manual, updating, mapHold, deferred,
                       holdTimer>>
        /\ pc = "publish" /\ pc' = "idle"
        /\ \A gap \in gaps : gap # "publication" => gap \in gaps'
    BY <1>4 DEF Publish, PublishLost
  <2> QED
    BY <2>1, RailKept DEF InStandby, Cutting, Coming, Capped
<1> QED
  BY <1>1, <1>2, <1>3, <1>4, <1>5 DEF EntryAction

(* The loop never ignores the end of an update in stand-by.                *)
LEMMA LoopHeld ==
  ASSUME TypeOK, RailHeld, Dispatch \/ ReplayUnlock \/ ShutdownTimer \/ ExtSend \/ Boot
  PROVE  RailHeld'
<1> USE DEF OnlyLoop, handlerVars, holdVars, railVars
<1>0. UNCHANGED <<seen, cut, cuts, at, dash, manual, updating, mapHold, deferred, holdTimer, gaps>>
  BY DEF Dispatch, ReplayUnlock, ShutdownTimer, ExtSend, Boot, RestoreState, StayInStandby,
     BootVarsAfter
<1>e. ASSUME NEW s, Enter(s) PROVE RailHeld'
  BY <1>e DEF Enter, EntryOf, RailHeld, InStandby
<1>1. CASE Dispatch
  <2>1. queue # <<>> /\ queue' = Tail(queue)
    BY <1>1 DEF Dispatch
  <2>2. CASE \E s : Enter(s)
    BY <1>e, <2>2
  <2>3. CASE UNCHANGED <<state, from, vstate, pc, shutTimer, hibernateVars>> /\ ~\E s : Enter(s)
    <3>1. (state = "Standby") => Head(queue).ev # "DbcUpdateComplete"
      BY <1>1, <2>3, UpdateEndRow DEF Dispatch
    <3>2. InStandby => (Coming => Coming')
      BY <2>1, <3>1, ComingKept DEF InStandby
    <3>3. CASE InStandby
      BY <1>0, <2>3, <3>2, <3>3, RailKept DEF Cutting, Capped
    <3>4. CASE ~InStandby
      BY <2>3, <3>4 DEF RailHeld, InStandby
    <3> QED
      BY <3>3, <3>4
  <2> QED
    BY <1>1, <2>2, <2>3 DEF Dispatch
<1>2. CASE ReplayUnlock \/ ShutdownTimer \/ ExtSend
  <2>1. UNCHANGED <<state, pc>> /\ \E x : queue' = Append(queue, x)
    BY <1>2 DEF ReplayUnlock, ShutdownTimer, ExtSend, Send
  <2>2. Coming => Coming'
    BY <2>1, ComingKept
  <2> QED
    BY <1>0, <2>1, <2>2, RailKept DEF InStandby, Cutting, Capped
<1>3. CASE Boot
  <2>1. CASE \E s : Enter(s)
    BY <1>e, <2>1
  <2>2. CASE UNCHANGED <<state, pc, queue>>
    BY <1>0, <2>2, RailKept DEF InStandby, Cutting, Coming, Capped
  <2> QED
    BY <1>3, <2>1, <2>2 DEF Boot, RestoreState, StayInStandby, BootVarsAfter
<1> QED
  BY <1>1, <1>2, <1>3

(* An update that ends in stand-by sends the machine through another       *)
(* shutdown; one that expires schedules a cut.                             *)
LEMMA UpdateHeld ==
  ASSUME TypeOK, UpdateInhibited, RailHeld, UpdateHandler \/ WatchdogHandler
  PROVE  RailHeld'
<1>t. /\ at \in [Handlers -> HandlerSteps] /\ seen \in [Handlers -> SystemStates \cup {"none"}]
      /\ cut \in [Handlers -> BOOLEAN] /\ cuts \in Nat
      /\ {"update", "watchdog", "hold", "cap"} \subseteq Handlers
  BY DEF TypeOK, Handlers
<1> USE <1>t DEF Step, holdVars, railVars, OnlyHandler, OnlyRedis
<1>1. CASE UpdateHandler
  <2>1. /\ UNCHANGED <<pc, state, vstate>>
        /\ at'["watchdog"] = at["watchdog"] /\ at'["hold"] = at["hold"] /\ at'["cap"] = at["cap"]
    BY <1>1, UpdateAlone DEF Alone
  <2>2. CASE StartDbc
    BY <2>2 DEF StartDbc, RailHeld, Held
  <2>3. CASE StartPersist \/ StartInhibit
    <3>1. UNCHANGED <<queue, seen, cut, cuts, dash, manual, updating, mapHold, deferred, holdTimer, gaps>>
      BY <2>3 DEF StartPersist, StartInhibit
    <3>2. at["update"] \notin {"completePersist", "completeInhibit"}
      BY <2>3 DEF StartPersist, StartInhibit
    <3> QED
      BY <2>1, <3>1, <3>2, RailKept DEF InStandby, Cutting, Coming, Capped
  <2>4. CASE StartPower
    <3>1. UNCHANGED <<updating, gaps>> /\ at["update"] \in StartSteps
      BY <2>4 DEF StartPower, Rail, StartSteps
    <3>2. updating \/ "update" \in gaps
      BY <3>1 DEF UpdateInhibited
    <3> QED
      BY <3>1, <3>2 DEF RailHeld, Held
  <2>5. CASE CompleteDbc
    <3>1. CASE vstate = "stand-by"
      BY <2>5, <3>1 DEF CompleteDbc, Cutting, RailHeld, Held
    <3>2. CASE vstate # "stand-by"
      BY <2>1, <2>5, <3>2 DEF CompleteDbc, Lag, RailHeld, InStandby, Held
    <3> QED
      BY <3>1, <3>2
  <2>6. CASE CompletePersist
    <3>1. UNCHANGED <<queue, seen, cut, cuts, dash, manual, updating, mapHold, deferred, holdTimer, gaps>>
      BY <2>6 DEF CompletePersist
    <3>2. at'["update"] = "completeInhibit"
      BY <2>6 DEF CompletePersist
    <3> QED
      BY <2>1, <3>1, <3>2, RailKept DEF InStandby, Cutting, Coming, Capped
  <2>7. CASE CompleteInhibit
    <3>1. /\ UNCHANGED <<cut, cuts, dash, manual, updating, mapHold, deferred, holdTimer, gaps>>
          /\ at'["update"] \in {"sync", "idle"}
      BY <2>7 DEF CompleteInhibit
    <3>2. CASE seen["update"] = "stand-by"
      <4>1. Coming'
        BY <2>7, <3>2, ComingKept DEF CompleteInhibit, Send
      <4> QED
        BY <4>1 DEF RailHeld, Held, Cutting
    <3>3. CASE seen["update"] # "stand-by"
      <4>1. queue' = queue
        BY <2>7, <3>3 DEF CompleteInhibit
      <4> QED
        BY <2>1, <3>1, <3>3, <4>1, RailKept DEF InStandby, Cutting, Coming, Capped
    <3> QED
      BY <3>2, <3>3
  <2> QED
    BY <1>1, <2>2, <2>3, <2>4, <2>5, <2>6, <2>7 DEF UpdateHandler
<1>2. CASE WatchdogHandler
  <2>1. /\ UNCHANGED <<pc, state, vstate>>
        /\ at'["update"] = at["update"] /\ at'["hold"] = at["hold"] /\ at'["cap"] = at["cap"]
    BY <1>2, WatchdogAlone DEF Alone
  <2>2. CASE WatchdogFires
    <3>1. UNCHANGED <<queue, seen, cut, cuts, dash, manual, updating, mapHold, deferred, holdTimer, gaps>>
      BY <2>2 DEF WatchdogFires
    <3>2. at["watchdog"] = "idle"
      BY <2>2 DEF WatchdogFires
    <3> QED
      BY <2>1, <3>1, <3>2, RailKept DEF InStandby, Cutting, Coming, Capped
  <2>3. CASE Expire
    <3>1. CASE ~updating
      <4>1. UNCHANGED <<queue, seen, cut, cuts, dash, manual, updating, mapHold, deferred, holdTimer, gaps>>
        BY <2>3, <3>1 DEF Expire
      <4>2. at["watchdog"] = "expire"
        BY <2>3 DEF Expire
      <4> QED
        BY <2>1, <4>1, <4>2, RailKept DEF InStandby, Cutting, Coming, Capped
    <3>2. CASE updating /\ mapHold
      BY <2>3, <3>2 DEF Expire, RailHeld, Held
    <3>3. CASE updating /\ ~mapHold
      <4>1. at'["watchdog"] = "expirePersist" /\ cut'["watchdog"] = (vstate = "stand-by")
        BY <2>3, <3>3 DEF Expire
      <4>2. CASE vstate = "stand-by"
        BY <4>1, <4>2 DEF RailHeld, Held, Cutting
      <4>3. CASE vstate # "stand-by"
        BY <2>1, <2>3, <3>3, <4>3 DEF Expire, Lag, RailHeld, InStandby, Held
      <4> QED
        BY <4>2, <4>3
    <3> QED
      BY <3>1, <3>2, <3>3
  <2>4. CASE ExpirePersist
    <3>1. UNCHANGED <<queue, seen, cut, cuts, dash, manual, updating, mapHold, deferred, holdTimer, gaps>>
      BY <2>4 DEF ExpirePersist
    <3>2. at'["watchdog"] = "expireInhibit"
      BY <2>4 DEF ExpirePersist
    <3> QED
      BY <2>1, <3>1, <3>2, RailKept DEF InStandby, Cutting, Coming, Capped
  <2>5. CASE ExpireInhibit
    <3>1. /\ UNCHANGED <<queue, seen, dash, manual, updating, mapHold, deferred, holdTimer, gaps>>
          /\ \A g \in Handlers : g # "watchdog" => cut'[g] = cut[g]
      BY <2>5 DEF ExpireInhibit
    <3>2. (cut["watchdog"] => cuts' > 0) /\ (cuts > 0 => cuts' > 0)
      BY <2>5 DEF ExpireInhibit
    <3> QED
      BY <2>1, <3>1, <3>2, RailKept DEF InStandby, Cutting, Coming, Capped
  <2> QED
    BY <1>2, <2>2, <2>3, <2>4, <2>5 DEF WatchdogHandler
<1> QED
  BY <1>1, <1>2

(* A hold that ends carries out the cut that was deferred for it.          *)
LEMMA HoldHeld ==
  ASSUME TypeOK, RailHeld, HoldHandler
  PROVE  RailHeld'
<1>t. /\ at \in [Handlers -> HandlerSteps] /\ cut \in [Handlers -> BOOLEAN] /\ cuts \in Nat
      /\ {"update", "watchdog", "hold", "cap"} \subseteq Handlers
  BY DEF TypeOK, Handlers
<1> USE <1>t DEF Step, holdVars, railVars, OnlyHandler, OnlyRedis
<1>1. CASE HoldRequest \/ HoldInhibit \/ ReleaseRequest
  <2>1. UNCHANGED <<pc, state>> /\ \A g \in Handlers : g # "hold" => at'[g] = at[g]
    BY <1>1, HoldAlone DEF Alone
  <2>2. /\ UNCHANGED <<queue, seen, cut, cuts, dash, manual, updating, deferred, holdTimer>>
        /\ at["hold"] # "releaseInhibit" /\ (mapHold => mapHold')
        /\ \A gap \in gaps : gap # "map" => gap \in gaps'
    BY <1>1 DEF HoldRequest, MapGaps, HoldInhibit, ReleaseRequest, machineVars
  <2> QED
    BY <2>1, <2>2, RailKept DEF InStandby, Cutting, Coming, Capped
<1>2. CASE CapFires
  <2>1. UNCHANGED <<pc, state>> /\ \A g \in Handlers : g # "cap" => at'[g] = at[g]
    BY <1>2, HoldAlone DEF Alone
  <2>2. /\ UNCHANGED <<queue, seen, cut, cuts, dash, manual, updating, mapHold, deferred, gaps>>
        /\ at["cap"] = "idle" /\ at'["cap"] = "release"
    BY <1>2 DEF CapFires
  <2> QED
    BY <2>1, <2>2, RailKept DEF InStandby, Cutting, Coming, Capped
<1>3. ASSUME NEW h \in {"hold", "cap"}, Release(h) \/ ReleaseInhibit(h) PROVE RailHeld'
  <2>1. UNCHANGED <<pc, state, vstate>> /\ \A g \in Handlers : g # h => at'[g] = at[g]
    BY <1>3, HoldAlone DEF Alone
  <2>2. CASE Release(h)
    <3>1. UNCHANGED <<queue, seen, cuts, dash, manual, updating>> /\ at[h] = "release"
      BY <2>2 DEF Release
    <3>2. CASE ~mapHold
      <4>1. UNCHANGED <<mapHold, cut, gaps>> /\ at'[h] = "idle"
        BY <2>2, <3>2 DEF Release
      <4> QED
        BY <2>1, <3>1, <3>2, <4>1, RailKept DEF InStandby, Cutting, Coming
    <3>3. CASE mapHold
      <4>1. /\ at'[h] = "releaseInhibit"
            /\ \A gap \in {"watchdog", "lag", "update"} : gap \in gaps => gap \in gaps'
            /\ \A g \in Handlers : g # h => cut'[g] = cut[g]
            /\ cut'[h] <=> deferred /\ ~updating /\ vstate = "stand-by"
        BY <2>2, <3>3 DEF Release, MapGaps
      <4>2. Cutting => Cutting'
        BY <2>1, <3>1, <4>1 DEF Cutting, Coming
      <4>3. (state = "Standby" /\ deferred /\ ~updating) => (Cutting' \/ "lag" \in gaps')
        <5>1. CASE vstate = "stand-by"
          BY <4>1, <5>1 DEF Cutting
        <5>2. CASE vstate # "stand-by"
          BY <2>2, <3>3, <5>2 DEF Release, Lag
        <5> QED
          BY <5>1, <5>2
      <4> QED
        BY <2>1, <3>1, <4>1, <4>2, <4>3 DEF RailHeld, InStandby, Held
    <3> QED
      BY <3>2, <3>3
  <2>3. CASE ReleaseInhibit(h)
    <3>1. /\ UNCHANGED <<queue, seen, dash, manual, updating, mapHold, deferred, holdTimer>>
          /\ \A g \in Handlers : g # h => cut'[g] = cut[g]
          /\ at[h] = "releaseInhibit" /\ at'[h] = "idle"
          /\ \A gap \in gaps : gap # "hibernation" => gap \in gaps'
      BY <2>3 DEF ReleaseInhibit
    <3>2. (cut[h] => cuts' > 0) /\ (cuts > 0 => cuts' > 0)
      BY <2>3 DEF ReleaseInhibit
    <3>3. Cutting => Cutting'
      BY <2>1, <3>1, <3>2 DEF Cutting, Coming
    <3>4. Capped => Capped'
      BY <2>1, <3>1 DEF Capped
    <3> QED
      BY <2>1, <3>1, <3>3, <3>4, RailKept DEF InStandby
  <2> QED
    BY <1>3, <2>2, <2>3
<1> QED
  BY <1>1, <1>2, <1>3 DEF HoldHandler

(* An operator who switches the rail on holds it; everybody else keeps the *)
(* holders or switches it off.                                             *)
LEMMA OthersHeld ==
  ASSUME TypeOK, RailHeld,
         StateHandler \/ HardwareHandler \/ InstallBegins \/ DelayedCut
           \/ (\E h \in {"state", "update"} : SyncReturns(h)) \/ Restart \/ UNCHANGED vars
  PROVE  RailHeld'
<1>t. /\ at \in [Handlers -> HandlerSteps] /\ seen \in [Handlers -> SystemStates \cup {"none"}]
      /\ Handlers = {"state", "update", "hold", "hardware", "watchdog", "cap"}
  BY DEF TypeOK, Handlers
<1> USE <1>t DEF holdVars, railVars, handlerVars, machineVars, OnlyHandler
<1>1. CASE StateHandler
  <2>1. UNCHANGED <<cut, cuts, dash, manual, updating, mapHold, deferred, holdTimer, gaps>>
    BY <1>1 DEF StateHandler, UnlockArrives, UnlockCancel, UnlockDecide, OtherStateRequest
  <2>2. seen'["update"] = seen["update"]
    BY <1>1 DEF StateHandler, UnlockArrives, UnlockCancel, UnlockDecide, OtherStateRequest
  <2>3. queue' = queue \/ \E x : queue' = Append(queue, x)
    BY <1>1 DEF StateHandler, UnlockArrives, UnlockCancel, UnlockDecide, OtherStateRequest, Send
  <2>4. Coming => Coming'
    BY <2>3, ComingKept DEF Coming
  <2>5. /\ UNCHANGED <<state, pc>>
        /\ \A g \in {"update", "watchdog", "hold", "cap"} : at'[g] = at[g]
    BY <1>1, StateAlone DEF Alone
  <2> QED
    BY <2>1, <2>2, <2>4, <2>5, RailKept DEF InStandby, Cutting, Capped
<1>2. CASE HardwareHandler
  <2>1. /\ UNCHANGED <<state, pc>>
        /\ \A g \in {"update", "watchdog", "hold", "cap"} : at'[g] = at[g]
    BY <1>2, HardwareAlone DEF Alone
  <2>2. CASE DashboardOn
    BY <2>2 DEF DashboardOn, RailHeld, Held
  <2>3. CASE DashboardOff \/ DashboardCut \/ DashboardForcedOff
    <3>1. CASE Rail(FALSE)
      BY <3>1 DEF Rail, RailHeld
    <3>2. CASE UNCHANGED railVars
      <4>1. UNCHANGED <<queue, seen, cut, cuts, updating, mapHold, deferred, holdTimer>>
        BY <2>3 DEF DashboardOff, DashboardCut, DashboardForcedOff
      <4> QED
        BY <2>1, <3>2, <4>1, RailKept DEF InStandby, Cutting, Coming, Capped
    <3> QED
      BY <2>3, <3>1, <3>2 DEF DashboardOff, DashboardCut, DashboardForcedOff
  <2> QED
    BY <1>2, <2>2, <2>3 DEF HardwareHandler
<1>3. CASE InstallBegins \/ UNCHANGED vars
  <2>1. UNCHANGED <<state, pc, queue, at, seen, cut, cuts, dash, manual, gaps, updating, mapHold,
                    deferred, holdTimer>>
    BY <1>3 DEF InstallBegins, vars
  <2> QED
    BY <2>1, RailKept DEF InStandby, Cutting, Coming, Capped
<1>4. CASE DelayedCut
  BY <1>4 DEF DelayedCut, Rail, RailHeld
<1>5. ASSUME NEW h \in {"state", "update"}, SyncReturns(h) PROVE RailHeld'
  <2>1. UNCHANGED <<state, pc, queue, seen, cut, cuts, dash, manual, gaps, updating, mapHold,
                    deferred, holdTimer>>
    BY <1>5 DEF SyncReturns
  <2>2. /\ \A g \in {"watchdog", "hold", "cap"} : at'[g] = at[g]
        /\ at["update"] = at'["update"] \/ at["update"] = "sync"
    BY <1>5 DEF SyncReturns, Step
  <2> QED
    BY <2>1, <2>2, RailKept DEF InStandby, Cutting, Coming, Capped
<1>6. CASE Restart
  BY <1>6 DEF Restart, EntryOf, InitialState, RailHeld, InStandby
<1> QED
  BY <1>1, <1>2, <1>3, <1>4, <1>5, <1>6

(* Every step leaves a powered dashboard to somebody.                      *)
LEMMA RailHeldStep ==
  TypeOK /\ LoopInLeaf /\ UpdateInhibited /\ HoldCapped /\ RailHeld /\ [Next]_vars => RailHeld'
  BY EntryHeld, LoopHeld, UpdateHeld, HoldHeld, OthersHeld DEF Next

(* A dashboard that is powered in stand-by has somebody who will cut it,   *)
(* or has lost its end in one of the ways that gaps records.               *)
THEOREM RailsHaveHolders == Spec => []RailHasHolder
<1>1. TypeOK /\ Watched /\ RailHeld => RailHasHolder
  <2> SUFFICES ASSUME TypeOK, Watched, RailHeld, Settled, state = "Standby", dash
               PROVE  \/ manual
                      \/ updating /\ watchdog
                      \/ mapHold /\ holdTimer
                      \/ cuts > 0
                      \/ gaps \cap {"watchdog", "late", "lag", "update"} # {}
    BY DEF RailHasHolder
  <2>1. pc = "idle" /\ ~Coming /\ \A h \in Handlers : at[h] \in {"idle", "sync", "wait"}
    BY DEF Settled, MidBody, Waiting, Coming
  <2>2. {"update", "watchdog", "hold", "cap"} \subseteq Handlers
    BY DEF Handlers
  <2>3. ~Cutting \/ cuts > 0
    BY <2>1, <2>2 DEF Cutting
  <2>4. Held
    BY <2>1 DEF RailHeld, InStandby
  <2> QED
    BY <2>1, <2>2, <2>3, <2>4 DEF Held, Watched, Capped
<1>2. Init => HoldCapped /\ RailHeld
  BY DEF Init, EntryOf, InitialState, HoldCapped, RailHeld, InStandby
<1> QED
  BY <1>1, <1>2, UpdateInhibitedStep, HoldCappedStep, RailHeldStep, TypeInit, TypeStep,
     WatchedInit, WatchedStep, HoldsInit, LoopInLeafStep, PTL DEF Spec

-----------------------------------------------------------------------------
(* Unlocks that wait for stand-by.                                         *)

TimeoutQueued == \E i \in DOMAIN queue : queue[i].ev = "ShutdownTimeout"

(* A shutdown that has begun is to time out.                               *)
TimeoutComes == state = "ShuttingDown" => (shutTimer \/ TimeoutQueued)

(* The DBC was told to halt by this shutdown, once it has let go of every  *)
(* hold; stand-by forgets that before its entry action returns.            *)
HaltInShutdown ==
  sent => \/ state = "ShuttingDown" /\ pc \in {"publish", "idle"}
          \/ state = "Standby" /\ pc \in {"sbRail", "sbCut", "sbReplay"}

UnlockWaits ==
  /\ TimeoutComes
  /\ HaltInShutdown
  /\ pending => sent
  /\ ~up => state = "Standby"

(* Something is sent, or nothing.                                          *)
MaySend == queue' = queue \/ \E r : queue' = Append(queue, r)

(* A queued timeout stays queued.                                          *)
LEMMA SendKeepsTimeout == TypeOK /\ MaySend /\ TimeoutQueued => TimeoutQueued'
<1> SUFFICES ASSUME TypeOK, MaySend, TimeoutQueued PROVE TimeoutQueued'
  OBVIOUS
<1>1. PICK i \in DOMAIN queue : queue[i].ev = "ShutdownTimeout"
  BY DEF TimeoutQueued
<1>2. queue \in Seq([ev : Events, by : Handlers \cup {"none"}])
  BY DEF TypeOK
<1>3. ASSUME NEW r, queue' = Append(queue, r) PROVE i \in DOMAIN queue' /\ queue'[i] = queue[i]
  BY <1>1, <1>2, <1>3
<1> QED
  BY <1>1, <1>3 DEF MaySend, TimeoutQueued

(* A step that only sends, and defers an unlock only after the halt.       *)
LEMMA SendWaits ==
  ASSUME TypeOK, UnlockWaits, MaySend, UNCHANGED <<up, state, pc, shutTimer, sent>>,
         pending' => pending \/ sent
  PROVE  UnlockWaits'
  BY SendKeepsTimeout DEF UnlockWaits, TimeoutComes, HaltInShutdown

(* The entry actions.                                                      *)
LEMMA EntryWaits ==
  ASSUME TypeOK, LoopInLeaf, UnlockWaits, EntryAction
  PROVE  UnlockWaits'
<1>0. UNCHANGED <<state, queue, shutTimer, up>>
  BY DEF EntryAction, RailOn, StandbyLook, OnlyDeferral, StandbyCut, StandbyReplay, ShutReset,
     ShutHold, ShutInstall, ShutEnd, ShutRelease, ShutPoweroff, Publish, PublishLost, Goto,
     OnlyLoop, bootVars
<1>1. TimeoutComes' /\ (~up' => state' = "Standby")
  BY <1>0 DEF UnlockWaits, TimeoutComes, TimeoutQueued
<1> USE DEF UnlockWaits, HaltInShutdown, LoopInLeaf, Goto
<1>2. CASE RailOn
  BY <1>1, <1>2 DEF RailOn, unlockVars
<1>3. CASE StandbyLook \/ StandbyCut
  BY <1>1, <1>3 DEF StandbyLook, OnlyDeferral, StandbyCut, unlockVars
<1>4. CASE StandbyReplay \/ ShutReset
  BY <1>1, <1>4 DEF StandbyReplay, ShutReset
<1>5. CASE ShutHold \/ ShutInstall \/ ShutEnd \/ ShutRelease
  BY <1>1, <1>5 DEF ShutHold, ShutInstall, ShutEnd, ShutRelease, unlockVars
<1>6. CASE ShutPoweroff
  BY <1>0, <1>1, <1>6 DEF ShutPoweroff
<1>7. CASE Publish \/ PublishLost
  BY <1>0, <1>1, <1>7 DEF Publish, PublishLost, unlockVars
<1> QED
  BY <1>2, <1>3, <1>4, <1>5, <1>6, <1>7 DEF EntryAction

(* After the halt the shutdown is left for stand-by only, and its timeout, *)
(* which leads there, is never dispatched in vain.                         *)
LEMMA DispatchWaits ==
  ASSUME TypeOK, UnlockWaits, Dispatch
  PROVE  UnlockWaits'
<1> DEFINE e == Head(queue).ev
<1>1. /\ pc = "idle" /\ up' = up /\ up /\ queue # <<>> /\ queue' = Tail(queue)
      /\ UNCHANGED <<sent, pending>>
  BY DEF Dispatch, OnlyLoop, bootVars, unlockVars
<1>2. PICK free \in SUBSET GuardsFor(state, e) :
        \/ /\ Selected(state, e, TrueGuards(free)) = {}
           /\ UNCHANGED <<state, from, vstate, pc, shutTimer, hibernateVars>>
        \/ \E t \in Selected(state, e, TrueGuards(free)) : Enter(t.to) /\ TransitionAction(t.act)
  BY DEF Dispatch
<1>3. sent => state = "ShuttingDown"
  BY <1>1 DEF UnlockWaits, HaltInShutdown
<1> HIDE DEF e
<1>4. ASSUME NEW t \in Selected(state, e, TrueGuards(free)), Enter(t.to)
      PROVE  UnlockWaits'
  <2>1. sent => t.to = "Standby"
    <3>1. sent => "CanAbortShutdown" \notin TrueGuards(free)
      BY DEF TrueGuards
    <3> QED
      BY <1>3, <1>4, <3>1, ShutdownRow
  <2> QED
    BY <1>1, <1>4, <2>1 DEF Enter, EntryOf, UnlockWaits, TimeoutComes, HaltInShutdown
<1>5. ASSUME Selected(state, e, TrueGuards(free)) = {}, UNCHANGED <<state, pc, shutTimer>>
      PROVE  UnlockWaits'
  <2>1. state = "ShuttingDown" => e # "ShutdownTimeout"
    BY <1>5, TimeoutRow
  <2>2. ASSUME state = "ShuttingDown", TimeoutQueued PROVE TimeoutQueued'
    <3>1. PICK i \in DOMAIN queue : queue[i].ev = "ShutdownTimeout"
      BY <2>2 DEF TimeoutQueued
    <3>2. queue \in Seq([ev : Events, by : Handlers \cup {"none"}])
      BY DEF TypeOK
    <3>3. Head(queue) = queue[1]
      BY <1>1, <3>2
    <3>4. i # 1
      BY <2>1, <2>2, <3>1, <3>3 DEF e
    <3>5. i - 1 \in DOMAIN queue' /\ queue'[i - 1] = queue[i]
      BY <1>1, <3>1, <3>2, <3>4
    <3> QED
      BY <3>1, <3>5 DEF TimeoutQueued
  <2> QED
    BY <1>1, <1>5, <2>2 DEF UnlockWaits, TimeoutComes, HaltInShutdown
<1> QED
  BY <1>2, <1>4, <1>5

(* The requests: only the unlock defers, and it has looked at the halt.    *)
LEMMA HandlersWait ==
  ASSUME TypeOK, UnlockWaits,
         StateHandler \/ UpdateHandler \/ WatchdogHandler \/ HoldHandler \/ HardwareHandler
  PROVE  UnlockWaits'
<1>0. UNCHANGED <<up, state, pc>>
  BY HandlerAlone DEF Alone
<1> USE DEF MaySend, Send, OnlyHandler, OnlyRedis, machineVars, unlockVars
<1>1. CASE StateHandler
  <2>1. CASE UnlockArrives \/ UnlockCancel \/ OtherStateRequest
    BY <1>0, <2>1, SendWaits DEF UnlockArrives, UnlockCancel, OtherStateRequest
  <2>2. CASE UnlockDecide
    <3>1. MaySend /\ (pending' => pending \/ sent) /\ UNCHANGED <<shutTimer, sent>>
      BY <2>2 DEF UnlockDecide, Committed
    <3> QED
      BY <1>0, <3>1, SendWaits
  <2> QED
    BY <1>1, <2>1, <2>2 DEF StateHandler
<1>2. CASE UpdateHandler
  <2>1. CASE StartDbc \/ StartPersist \/ StartInhibit \/ StartPower
    <3>1. UNCHANGED <<queue, shutTimer, sent, pending>>
      BY <2>1 DEF StartDbc, StartPersist, StartInhibit, StartPower
    <3> QED
      BY <1>0, <3>1, SendWaits
  <2>2. CASE CompleteDbc \/ CompletePersist \/ CompleteInhibit
    <3>1. UNCHANGED <<shutTimer, sent, pending>>
      BY <2>2 DEF CompleteDbc, CompletePersist, CompleteInhibit
    <3>2. MaySend
      BY <2>2 DEF CompleteDbc, CompletePersist, CompleteInhibit
    <3> QED
      BY <1>0, <3>1, <3>2, SendWaits
  <2> QED
    BY <1>2, <2>1, <2>2 DEF UpdateHandler
<1>3. CASE WatchdogHandler
  BY <1>0, <1>3, SendWaits DEF WatchdogHandler, WatchdogFires, Expire, ExpirePersist, ExpireInhibit
<1>4. CASE HoldHandler
  <2>1. CASE HoldRequest \/ HoldInhibit \/ ReleaseRequest \/ CapFires
    BY <1>0, <2>1, SendWaits DEF HoldRequest, HoldInhibit, ReleaseRequest, CapFires
  <2>2. ASSUME NEW h \in {"hold", "cap"}, Release(h) \/ ReleaseInhibit(h) PROVE UnlockWaits'
    BY <1>0, <2>2, SendWaits DEF Release, ReleaseInhibit
  <2> QED
    BY <1>4, <2>1, <2>2 DEF HoldHandler
<1>5. CASE HardwareHandler
  <2>1. UNCHANGED <<queue, shutTimer, sent, pending>>
    BY <1>5 DEF HardwareHandler, DashboardOn, DashboardOff, DashboardCut, DashboardForcedOff
  <2> QED
    BY <1>0, <2>1, SendWaits
<1> QED
  BY <1>1, <1>2, <1>3, <1>4, <1>5

(* Every step leaves a waiting unlock on its way.                          *)
LEMMA UnlockWaitsStep == TypeOK /\ LoopInLeaf /\ UnlockWaits /\ [Next]_vars => UnlockWaits'
<1> SUFFICES ASSUME TypeOK, LoopInLeaf, UnlockWaits, [Next]_vars PROVE UnlockWaits'
  OBVIOUS
<1>1. CASE EntryAction
  BY <1>1, EntryWaits
<1>2. CASE Dispatch
  BY <1>2, DispatchWaits
<1>3. CASE StateHandler \/ UpdateHandler \/ WatchdogHandler \/ HoldHandler \/ HardwareHandler
  BY <1>3, HandlersWait
<1>4. CASE ShutdownTimer
  <2>1. queue' = Append(queue, [ev |-> "ShutdownTimeout", by |-> "none"])
        /\ queue \in Seq([ev : Events, by : Handlers \cup {"none"}])
    BY <1>4 DEF ShutdownTimer, Send, TypeOK
  <2>2. Len(queue) + 1 \in DOMAIN queue' /\ queue'[Len(queue) + 1].ev = "ShutdownTimeout"
    BY <2>1
  <2>3. TimeoutQueued'
    BY <2>2 DEF TimeoutQueued
  <2> QED
    BY <1>4, <2>3 DEF ShutdownTimer, OnlyLoop, bootVars, unlockVars, UnlockWaits, TimeoutComes,
       HaltInShutdown
<1>5. CASE Boot
  <2>1. ~sent /\ ~pending /\ up' /\ UNCHANGED <<sent, pending>>
    BY <1>5 DEF Boot, RestoreState, StayInStandby, BootVarsAfter, UnlockWaits, HaltInShutdown,
       unlockVars
  <2>2. CASE RestoreState
    BY <2>1, <2>2 DEF RestoreState, Enter, UnlockWaits, TimeoutComes, HaltInShutdown
  <2>3. CASE StayInStandby
    BY <2>1, <2>3 DEF StayInStandby, BootVarsAfter, UnlockWaits, TimeoutComes, HaltInShutdown
  <2> QED
    BY <1>5, <2>2, <2>3 DEF Boot
<1>6. CASE Restart
  BY <1>6 DEF Restart, InitialState, UnlockWaits, TimeoutComes, HaltInShutdown
<1>7. CASE ReplayUnlock \/ ExtSend
  <2>1. MaySend
    BY <1>7 DEF ReplayUnlock, ExtSend, Send, MaySend
  <2>2. UNCHANGED <<up, state, pc, shutTimer, sent, pending>>
    BY <1>7 DEF ReplayUnlock, ExtSend, OnlyLoop, bootVars, unlockVars
  <2> QED
    BY <2>1, <2>2, SendWaits
<1>8. CASE InstallBegins \/ DelayedCut \/ UNCHANGED vars
  <2>1. UNCHANGED <<up, state, pc, queue, shutTimer, sent, pending>>
    BY <1>8 DEF InstallBegins, DelayedCut, vars, bootVars, machineVars, unlockVars
  <2> QED
    BY <2>1, SendWaits DEF MaySend
<1>9. ASSUME NEW h \in {"state", "update"}, SyncReturns(h) PROVE UnlockWaits'
  BY <1>9, SendWaits DEF SyncReturns, OnlyHandler, MaySend, bootVars, unlockVars
<1> QED
  BY <1>1, <1>2, <1>3, <1>4, <1>5, <1>6, <1>7, <1>8, <1>9 DEF Next

(* An unlock that waits is on its way to stand-by, where it is replayed;   *)
(* it never waits in a later state.                                        *)
THEOREM UnlocksWaitForStandby == Spec => []UnlockWaitsForStandby
<1>1. UnlockWaits => UnlockWaitsForStandby
  BY DEF UnlockWaits, TimeoutComes, TimeoutQueued, HaltInShutdown, UnlockWaitsForStandby
<1>2. Init => UnlockWaits
  BY DEF Init, InitialState, UnlockWaits, TimeoutComes, HaltInShutdown
<1> QED
  BY <1>1, <1>2, TypeInit, TypeStep, HoldsInit, LoopInLeafStep, UnlockWaitsStep, PTL DEF Spec
=============================================================================
