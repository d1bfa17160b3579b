------------------------------ MODULE DbcPower ------------------------------
(***************************************************************************)
(* The dashboard computer's (DBC) power rail, and who may keep it on.      *)
(*                                                                         *)
(* The machine powers the rail in Parked and ReadyToDrive, tells the DBC   *)
(* to halt when it enters ShuttingDown and cuts the rail when it enters    *)
(* Standby.  A DBC update and a map download each defer that cut: the      *)
(* first is watched by a timer, the second capped by one.  An unlock that  *)
(* arrives after the DBC was told to halt waits for stand-by.              *)
(*                                                                         *)
(* The goroutines (Handlers): one per Redis list (scooter:state, :update,  *)
(* :dbc-hold, :hardware), the update watchdog and the cap of the map hold; *)
(* besides the event loop (pc) and the delayed cuts (cuts).  Each of their *)
(* steps is a section under v.mu, a Redis call or an output write, and all *)
(* of them interleave.  Outputs and Redis writes succeed here, but for the *)
(* DBC's poweroff message and the publication of the state; Ride models    *)
(* the outputs that fail.                                                  *)
(***************************************************************************)
EXTENDS VehicleFsm, Sequences, FiniteSets

CONSTANTS
  FirstSaved,       (* what Redis may hold at the first boot                     *)
  ExtEvents,        (* events other parts of the service send                    *)
  StateRequests,    (* requests on scooter:state                                 *)
  HardwareRequests, (* dashboard requests on scooter:hardware                    *)
  MaxQueue,         (* bound: no external event beyond this queue length         *)
  MaxRequests,      (* bound: requests, others' events, lost publications   *)
  MaxRestarts       (* bound: number of restarts                                 *)

ASSUME DbcPowerAssumption ==
  /\ FirstSaved \subseteq RestorableStates \cup {"none"}
  /\ ExtEvents \subseteq Events
  /\ StateRequests \subseteq {"unlock", "lock", "prepare-hibernate"}
  /\ HardwareRequests \subseteq {"on", "off", "force"}
  /\ MaxQueue \in Nat /\ MaxRequests \in Nat /\ MaxRestarts \in Nat

VARIABLES
  up,          \* Start() has returned
  saved,       \* Redis vehicle:state
  state,       \* machine.currentState
  from,        \* c.FromState of the transition under way
  vstate,      \* v.state
  pc,          \* next step of the event loop
  queue,       \* the machine's event queue: the event and the handler waiting for it
  shutTimer,   \* the timeout of ShuttingDown is armed
  dash,        \* the dashboard_power output
  updating,    \* v.dbcUpdating
  watchdog,    \* v.dbcWatchdogTimer is running
  mapHold,     \* v.mapDownloading
  holdTimer,   \* v.mapHoldTimer is running
  deferred,    \* v.deferredDashboardPower is an OFF: nothing ever defers an ON
  cuts,        \* delayed dashboard cuts (time.AfterFunc) still to run
  sent,        \* v.dbcPoweroffSent
  pending,     \* v.pendingUnlock
  replay,      \* the goroutine that replays it has not run yet
  hibernating, \* v.hibernationRequest
  physical,    \* v.physicalHibernationRequest
  flag,        \* Redis vehicle:dbc-updating
  inhib,       \* Redis power:inhibits
  at,          \* next step of each handler
  seen,        \* the state a handler has read
  cut,         \* a handler has decided to cut the rail
  manual,      \* history: an operator switched the rail on since it was last cut
  gaps,        \* history: how a hold, a deferral, an inhibitor or a request lost its end,
               \* or two steps overlapped
  requests,    \* requests so far
  restarts     \* restarts so far

machineVars == <<state, from, vstate, pc, queue, shutTimer>>
railVars    == <<dash, manual, gaps>>
holdVars    == <<updating, watchdog, mapHold, holdTimer, deferred>>
unlockVars  == <<sent, pending, replay>>
hibernateVars == <<hibernating, physical>>
redisVars   == <<flag, inhib>>
handlerVars == <<at, seen, cut>>
bootVars    == <<up, saved, restarts>>
vars == <<bootVars, machineVars, railVars, holdVars, cuts, unlockVars, hibernateVars,
          redisVars, handlerVars, requests>>

Handlers == {"state", "update", "hold", "hardware", "watchdog", "cap"}

(* Steps at which a handler waits for seconds, or for the event loop.      *)
Waiting == {"idle", "sync", "wait"}
StartSteps == {"startPersist", "startInhibit", "startPower"}
HandlerSteps == Waiting \cup StartSteps \cup
  {"unlockCancel", "unlockDecide", "complete", "completePersist", "completeInhibit",
   "holdInhibit", "release", "releaseInhibit", "expire", "expirePersist", "expireInhibit"}
EntrySteps == {"railOn", "sbRail", "sbCut", "sbReplay", "sdReset", "sdHold", "sdInstall",
               "sdEnd", "sdRelease", "sdPoweroff", "publish"}

Inhibitors == {"dbc-update", "install:dbc", "map-download"}
Gaps == {"watchdog", "late", "hibernation", "publication", "lag", "update", "map", "overtaken"}

(* The first step of the entry action of a leaf.                           *)
EntryOf(s) ==
  CASE s \in {"Parked", "ReadyToDrive"} -> "railOn"
    [] s = "Standby"                    -> "sbRail"
    [] s = "ShuttingDown"               -> "sdReset"
    [] OTHER                            -> "publish"

(* The first boot; no hold was left behind by an earlier one.              *)
Init ==
  /\ up = FALSE /\ saved \in FirstSaved /\ restarts = 0
  /\ state = InitialState /\ from = "none" /\ vstate = SystemStateOf(InitialState)
  /\ pc = EntryOf(InitialState) /\ queue = <<>> /\ shutTimer = FALSE
  /\ dash \in BOOLEAN /\ (saved \in {"none", "shutting-down"} => ~dash)
  /\ manual = FALSE /\ gaps = {}
  /\ updating = FALSE /\ watchdog = FALSE /\ mapHold = FALSE /\ holdTimer = FALSE
  /\ deferred = FALSE /\ cuts = 0
  /\ sent = FALSE /\ pending = FALSE /\ replay = FALSE
  /\ hibernating = FALSE /\ physical = FALSE
  /\ flag = FALSE /\ inhib = {}
  /\ at = [h \in Handlers |-> "idle"] /\ seen = [h \in Handlers |-> "none"]
  /\ cut = [h \in Handlers |-> FALSE]
  /\ requests = 0

-----------------------------------------------------------------------------
(* setPower("dashboard_power", on), whoever calls it.                      *)
Rail(on) ==
  /\ dash' = on
  /\ manual' = (manual /\ on)
  /\ gaps' = IF on THEN gaps ELSE gaps \ {"watchdog", "lag"}

Request == requests < MaxRequests /\ requests' = requests + 1

MidBody == { h \in Handlers : at[h] \notin Waiting }

-----------------------------------------------------------------------------
(* The event loop.                                                         *)

Goto(step) == pc' = step /\ UNCHANGED <<state, from, vstate, queue, shutTimer>>

OnlyLoop == UNCHANGED <<bootVars, handlerVars, requests, cuts>>

RailOn ==
  /\ pc = "railOn"
  /\ Rail(TRUE)
  /\ Goto("publish")
  /\ OnlyLoop /\ UNCHANGED <<holdVars, unlockVars, hibernateVars, redisVars>>

Defer == deferred' = TRUE /\ gaps' = gaps \ {"watchdog", "lag"}

OnlyDeferral ==
  /\ OnlyLoop
  /\ UNCHANGED <<dash, manual, updating, watchdog, mapHold, holdTimer, unlockVars, hibernateVars,
                 redisVars>>

(* Mutant: only the map hold defers the cut.                               *)
StandbyLookNoUpdate ==
  /\ pc = "sbRail"
  /\ IF mapHold
     THEN Defer /\ Goto("sbReplay")
     ELSE Goto("sbCut") /\ UNCHANGED <<deferred, gaps>>
  /\ OnlyDeferral

(* EnterStandby: a hold turns the cut into a deferred one,                 *)
StandbyLook ==
  /\ pc = "sbRail"
  /\ IF updating \/ mapHold
     THEN Defer /\ Goto("sbReplay")
     ELSE Goto("sbCut") /\ UNCHANGED <<deferred, gaps>>
  /\ OnlyDeferral

(* and without one the rail is cut after v.mu is released and the DBC's    *)
(* link is stopped, whatever has begun since.                              *)
StandbyCut ==
  /\ pc = "sbCut"
  /\ dash' = FALSE /\ manual' = FALSE /\ gaps' = gaps \ {"watchdog", "lag", "overtaken"}
  /\ Goto("sbReplay")
  /\ OnlyLoop /\ UNCHANGED <<holdVars, unlockVars, hibernateVars, redisVars>>

(* Mutant: the deferred unlock stays where it is.                          *)
StandbyReplayNothing ==
  /\ pc = "sbReplay"
  /\ sent' = FALSE
  /\ UNCHANGED <<pending, replay>>
  /\ Goto("publish")
  /\ OnlyLoop /\ UNCHANGED <<railVars, holdVars, hibernateVars, redisVars>>

(* The halt is over, and a deferred unlock is replayed by a goroutine.     *)
StandbyReplay ==
  /\ pc = "sbReplay"
  /\ sent' = FALSE
  /\ replay' = (replay \/ pending)
  /\ pending' = FALSE
  /\ Goto("publish")
  /\ OnlyLoop /\ UNCHANGED <<railVars, holdVars, hibernateVars, redisVars>>

ReplayUnlock ==
  /\ replay
  /\ replay' = FALSE
  /\ queue' = Append(queue, [ev |-> "Unlock", by |-> "none"])
  /\ OnlyLoop
  /\ UNCHANGED <<state, from, vstate, pc, shutTimer, railVars, holdVars, sent, pending,
                 hibernateVars, redisVars>>

(* EnterShuttingDown: the new lock intent overrides a deferred unlock.     *)
ShutReset ==
  /\ pc = "sdReset"
  /\ sent' = FALSE /\ pending' = FALSE
  /\ Goto("sdHold")
  /\ OnlyLoop /\ UNCHANGED <<replay, railVars, holdVars, hibernateVars, redisVars>>

(* A hold that begins or ends while the end or the beginning of another is *)
(* under way is on record, until one does alone.                           *)
MapGaps(overlaps) == (gaps \ {"map"}) \cup (IF overlaps THEN {"map"} ELSE {})

Dropped == (MapGaps(at["hold"] = "holdInhibit") \ {"late"}) \cup {"hibernation"}

(* Mutant: the hold is honoured but no timer caps it.                      *)
ShutHoldUncapped ==
  /\ pc = "sdHold"
  /\ IF mapHold /\ hibernating
     THEN mapHold' = FALSE /\ holdTimer' = FALSE /\ gaps' = Dropped
     ELSE gaps' = gaps \ {"late"} /\ UNCHANGED <<mapHold, holdTimer>>
  /\ Goto(IF updating /\ hibernating THEN "sdInstall"
          ELSE IF updating \/ (mapHold /\ ~hibernating) THEN "publish" ELSE "sdPoweroff")
  /\ OnlyLoop
  /\ UNCHANGED <<dash, manual, updating, watchdog, deferred, unlockVars, hibernateVars, redisVars>>

(* A map download holds the rail for a capped time, unless the vehicle     *)
(* hibernates: then the hold is dropped, but its inhibitor is left behind. *)
ShutHold ==
  /\ pc = "sdHold"
  /\ IF mapHold /\ hibernating
     THEN mapHold' = FALSE /\ holdTimer' = FALSE /\ gaps' = Dropped
     ELSE holdTimer' = (holdTimer \/ mapHold) /\ gaps' = gaps \ {"late"} /\ UNCHANGED mapHold
  /\ Goto(IF updating /\ hibernating THEN "sdInstall"
          ELSE IF updating \/ (mapHold /\ ~hibernating) THEN "publish" ELSE "sdPoweroff")
  /\ OnlyLoop
  /\ UNCHANGED <<dash, manual, updating, watchdog, deferred, unlockVars, hibernateVars, redisVars>>

(* An update that begins or ends while the end or the beginning of another *)
(* is under way is on record, until one does alone.                        *)
UpdateGaps(overlaps) == (gaps \ {"update"}) \cup (IF overlaps THEN {"update"} ELSE {})

Starting == at["update"] \in StartSteps

(* Hibernation interrupts an update that is not installing,                *)
ShutInstall ==
  /\ pc = "sdInstall"
  /\ \/ Goto("publish")                                     \* also if Redis does not answer
     \/ "install:dbc" \notin inhib /\ Goto("sdEnd")
  /\ OnlyLoop
  /\ UNCHANGED <<railVars, holdVars, unlockVars, hibernateVars, redisVars>>

(* and whichever update runs by then; its watchdog and its Redis flag stay *)
(* as they are.                                                            *)
ShutEnd ==
  /\ pc = "sdEnd"
  /\ updating' = FALSE /\ deferred' = FALSE /\ gaps' = UpdateGaps(Starting)
  /\ Goto("sdRelease")
  /\ OnlyLoop
  /\ UNCHANGED <<dash, manual, watchdog, mapHold, holdTimer, unlockVars, hibernateVars, redisVars>>

ShutRelease ==
  /\ pc = "sdRelease"
  /\ inhib' = inhib \ {"dbc-update"}
  /\ Goto("sdPoweroff")
  /\ OnlyLoop /\ UNCHANGED <<flag, railVars, holdVars, unlockVars, hibernateVars>>

(* Without a hold the DBC is told to halt, if Redis takes the message.     *)
ShutPoweroff ==
  /\ pc = "sdPoweroff"
  /\ sent' \in BOOLEAN
  /\ Goto("publish")
  /\ OnlyLoop /\ UNCHANGED <<pending, replay, railVars, holdVars, hibernateVars, redisVars>>

(* OnStateChange.  A published stand-by after a shutdown completes the     *)
(* hibernation request that led to it.                                     *)
Publish ==
  /\ pc = "publish"
  /\ vstate' = SystemStateOf(state)
  /\ pc' = "idle"
  /\ saved' = IF up THEN SystemStateOf(state) ELSE saved
  /\ IF state = "Standby" /\ from = "ShuttingDown"
     THEN hibernating' = FALSE /\ physical' = FALSE
     ELSE UNCHANGED hibernateVars
  /\ gaps' = gaps \ {"publication"}
  /\ UNCHANGED <<up, restarts, state, from, queue, shutTimer, dash, manual, holdVars, cuts,
                 unlockVars, redisVars, handlerVars, requests>>

(* A publication that fails, whether Redis took it or not, is not repeated: *)
(* the request of a shutdown that ends so is not completed.                *)
PublishLost ==
  /\ up /\ pc = "publish" /\ Request
  /\ vstate' = SystemStateOf(state)
  /\ pc' = "idle"
  /\ saved' \in {saved, SystemStateOf(state)}
  /\ gaps' = gaps \cup {"publication"}
  /\ UNCHANGED <<up, restarts, state, from, queue, shutTimer, dash, manual, holdVars, cuts,
                 unlockVars, hibernateVars, redisVars, handlerVars>>

Enter(s) ==
  /\ state' = s /\ from' = state
  /\ pc' = EntryOf(s)
  /\ shutTimer' = (s = "ShuttingDown")
  /\ UNCHANGED vstate

(* Mutant: an unlock leaves the hibernation request standing.              *)
TransitionActionKeeps(act) ==
  CASE act = "OnLockHibernate"       -> hibernating' = TRUE /\ physical' = FALSE
    [] act = "OnHibernationComplete" -> hibernating' = TRUE /\ physical' = TRUE
    [] OTHER                         -> UNCHANGED hibernateVars

(* The transition's own action, before the entry action.                   *)
TransitionAction(act) ==
  CASE act = "OnUnlock"              -> hibernating' = FALSE /\ physical' = FALSE
    [] act = "OnLockHibernate"       -> hibernating' = TRUE /\ physical' = FALSE
    [] act = "OnHibernationComplete" -> hibernating' = TRUE /\ physical' = TRUE
    [] OTHER                         -> UNCHANGED hibernateVars

(* Guards about parts that are not modelled here take any value.           *)
TrueGuards(free) ==
  (free \ {"CanAbortShutdown"}) \cup (IF sent THEN {} ELSE {"CanAbortShutdown"})

Dispatch ==
  /\ up /\ pc = "idle" /\ queue # <<>>
  /\ LET e == Head(queue).ev IN
     \E free \in SUBSET GuardsFor(state, e) :
       LET rows == Selected(state, e, TrueGuards(free)) IN
       \/ rows = {} /\ UNCHANGED <<state, from, vstate, pc, shutTimer, hibernateVars>>
       \/ \E t \in rows : Enter(t.to) /\ TransitionAction(t.act)
  /\ queue' = Tail(queue)
  /\ OnlyLoop /\ UNCHANGED <<railVars, holdVars, unlockVars, redisVars>>

Send(e, h) == queue' = Append(queue, [ev |-> e, by |-> h])

ShutdownTimer ==
  /\ shutTimer /\ pc = "idle" /\ state = "ShuttingDown"
  /\ shutTimer' = FALSE
  /\ Send("ShutdownTimeout", "none")
  /\ OnlyLoop
  /\ UNCHANGED <<state, from, vstate, pc, railVars, holdVars, unlockVars, hibernateVars, redisVars>>

ExtSend ==
  /\ up /\ Len(queue) < MaxQueue /\ Request
  /\ \E e \in ExtEvents : Send(e, "none")
  /\ UNCHANGED <<bootVars, state, from, vstate, pc, shutTimer, railVars, holdVars, cuts,
                 unlockVars, hibernateVars, redisVars, handlerVars>>

-----------------------------------------------------------------------------
(* scooter:state.                                                          *)

OnlyHandler ==
  UNCHANGED <<bootVars, state, from, vstate, pc, shutTimer, requests>>

Step(h, step) == at' = [at EXCEPT ![h] = step]

(* Mutant: the handler compares leaves where it should compare SystemStates. *)
UnlockArrivesUnmapped ==
  /\ up /\ at["state"] = "idle" /\ Request
  /\ "unlock" \in StateRequests
  /\ seen' = [seen EXCEPT !["state"] = state]
  /\ Step("state", "unlockCancel")
  /\ UNCHANGED <<bootVars, machineVars, railVars, holdVars, cuts, unlockVars, hibernateVars,
                 redisVars, cut>>

(* The unlock handler reads the state once and the halt flag twice.        *)
UnlockArrives ==
  /\ up /\ at["state"] = "idle" /\ Request
  /\ "unlock" \in StateRequests
  /\ seen' = [seen EXCEPT !["state"] = SystemStateOf(state)]
  /\ Step("state", "unlockCancel")
  /\ UNCHANGED <<bootVars, machineVars, railVars, holdVars, cuts, unlockVars, hibernateVars,
                 redisVars, cut>>

Committed == seen["state"] = "shutting-down" /\ sent

UnlockCancel ==
  /\ at["state"] = "unlockCancel"
  /\ IF Committed THEN hibernating' = FALSE /\ physical' = FALSE ELSE UNCHANGED hibernateVars
  /\ Step("state", "unlockDecide")
  /\ OnlyHandler
  /\ UNCHANGED <<queue, railVars, holdVars, cuts, unlockVars, redisVars, seen, cut>>

UnlockDecide ==
  /\ at["state"] = "unlockDecide"
  /\ IF Committed
     THEN pending' = TRUE /\ Step("state", "idle") /\ UNCHANGED queue
     ELSE Send("Unlock", "state") /\ Step("state", "sync") /\ UNCHANGED pending
  /\ seen' = [seen EXCEPT !["state"] = "none"]
  /\ OnlyHandler
  /\ UNCHANGED <<railVars, holdVars, cuts, sent, replay, hibernateVars, redisVars, cut>>

(* lock and prepare-hibernate: one check of the state, then SendSync.      *)
OtherStateRequest ==
  /\ up /\ at["state"] = "idle" /\ Request
  /\ \/ /\ "lock" \in StateRequests
        /\ SystemStateOf(state) \in {"parked", "waiting-seatbox"}
        /\ Send("Lock", "state")
     \/ /\ "prepare-hibernate" \in StateRequests
        /\ Send("LockHibernate", "state")
  /\ Step("state", "sync")
  /\ UNCHANGED <<bootVars, state, from, vstate, pc, shutTimer, railVars, holdVars, cuts,
                 unlockVars, hibernateVars, redisVars, seen, cut>>

(* SendSync returns once the event loop has handled the event.             *)
SyncReturns(h) ==
  /\ at[h] = "sync" /\ pc = "idle"
  /\ \A i \in DOMAIN queue : queue[i].by # h
  /\ Step(h, "idle")
  /\ OnlyHandler
  /\ UNCHANGED <<queue, railVars, holdVars, cuts, unlockVars, hibernateVars, redisVars, seen, cut>>

-----------------------------------------------------------------------------
(* scooter:update and the update's watchdog.                               *)

OnlyRedis(h, step) ==
  /\ Step(h, step)
  /\ OnlyHandler
  /\ UNCHANGED <<queue, railVars, holdVars, cuts, unlockVars, hibernateVars, seen, cut>>

(* The end of an update is under way, its inhibitor not yet removed.       *)
Ending == \/ at["update"] \in {"completePersist", "completeInhibit"}
          \/ at["watchdog"] \in {"expirePersist", "expireInhibit"}
          \/ pc = "sdRelease"

(* It begins after EnterStandby looked for it, and before the cut.         *)
Overtakes == IF pc = "sbCut" THEN {"overtaken"} ELSE {}

(* Mutant: the update starts without its watchdog.                         *)
StartDbcUnwatched ==
  /\ up /\ at["update"] = "idle" /\ Request
  /\ updating' = TRUE
  /\ gaps' = UpdateGaps(Ending) \cup Overtakes
  /\ Step("update", "startPersist")
  /\ UNCHANGED <<bootVars, machineVars, dash, manual, watchdog, mapHold, holdTimer, deferred, cuts,
                 unlockVars, hibernateVars, redisVars, seen, cut>>

StartDbc ==
  /\ up /\ at["update"] = "idle" /\ Request
  /\ updating' = TRUE /\ watchdog' = TRUE
  /\ gaps' = UpdateGaps(Ending) \cup Overtakes
  /\ Step("update", "startPersist")
  /\ UNCHANGED <<bootVars, machineVars, dash, manual, mapHold, holdTimer, deferred, cuts,
                 unlockVars, hibernateVars, redisVars, seen, cut>>

StartPersist ==
  /\ at["update"] = "startPersist"
  /\ flag' = TRUE /\ UNCHANGED inhib
  /\ OnlyRedis("update", "startInhibit")

StartInhibit ==
  /\ at["update"] = "startInhibit"
  /\ inhib' = inhib \cup {"dbc-update"} /\ UNCHANGED flag
  /\ OnlyRedis("update", "startPower")

StartPower ==
  /\ at["update"] = "startPower"
  /\ Rail(TRUE)
  /\ Step("update", "idle")
  /\ OnlyHandler
  /\ UNCHANGED <<queue, holdVars, cuts, unlockVars, hibernateVars, redisVars, seen, cut>>

(* update-service on the DBC blocks reboots while it installs.             *)
InstallBegins ==
  /\ updating /\ flag /\ "install:dbc" \notin inhib /\ Request
  /\ inhib' = inhib \cup {"install:dbc"}
  /\ UNCHANGED <<bootVars, machineVars, railVars, holdVars, cuts, unlockVars, hibernateVars,
                 flag, handlerVars>>

(* What ends while the machine is in stand-by and v.state not there yet    *)
(* leaves the rail to nobody.                                              *)
Lag == IF state = "Standby" /\ vstate # "stand-by" THEN {"lag"} ELSE {}

(* complete-dbc: one locked section takes the update's state, and reads    *)
(* v.state, which may lag behind the machine.                              *)
CompleteDbc ==
  /\ up /\ at["update"] = "idle" /\ Request
  /\ watchdog' = FALSE /\ updating' = FALSE /\ deferred' = FALSE
  /\ seen' = [seen EXCEPT !["update"] = vstate]
  /\ gaps' = UpdateGaps(FALSE) \cup Lag
  /\ Step("update", "completePersist")
  /\ UNCHANGED <<bootVars, machineVars, dash, manual, mapHold, holdTimer, cuts,
                 unlockVars, hibernateVars, redisVars, cut>>

CompletePersist ==
  /\ at["update"] = "completePersist"
  /\ flag' = FALSE /\ UNCHANGED inhib
  /\ OnlyRedis("update", "completeInhibit")

(* Mutant: complete-dbc forgets its own inhibitor.                         *)
CompleteInhibitInstallOnly ==
  /\ at["update"] = "completeInhibit"
  /\ inhib' = inhib \ {"install:dbc"}
  /\ IF seen["update"] = "stand-by"
     THEN Send("DbcUpdateComplete", "update") /\ Step("update", "sync")
     ELSE Step("update", "idle") /\ UNCHANGED queue
  /\ OnlyHandler
  /\ UNCHANGED <<flag, railVars, holdVars, cuts, unlockVars, hibernateVars, seen, cut>>

(* In stand-by the DBC gets a shutdown of its own.                         *)
CompleteInhibit ==
  /\ at["update"] = "completeInhibit"
  /\ inhib' = inhib \ {"dbc-update", "install:dbc"}
  /\ IF seen["update"] = "stand-by"
     THEN Send("DbcUpdateComplete", "update") /\ Step("update", "sync")
     ELSE Step("update", "idle") /\ UNCHANGED queue
  /\ seen' = [seen EXCEPT !["update"] = "none"]
  /\ OnlyHandler
  /\ UNCHANGED <<flag, railVars, holdVars, cuts, unlockVars, hibernateVars, cut>>

(* The timer's goroutine has found its generation to be the current one;   *)
(* an update that begins before it goes on does not stop it.               *)
WatchdogFires ==
  /\ watchdog /\ at["watchdog"] = "idle"
  /\ watchdog' = FALSE
  /\ Step("watchdog", "expire")
  /\ OnlyHandler
  /\ UNCHANGED <<queue, railVars, updating, mapHold, holdTimer, deferred, cuts, unlockVars,
                 hibernateVars, redisVars, seen, cut>>

(* Whichever update runs by then is over.  The deferral goes with it, even *)
(* when a map hold needs it still.                                         *)
Expire ==
  /\ at["watchdog"] = "expire"
  /\ IF ~updating
     THEN Step("watchdog", "idle") /\ UNCHANGED <<updating, deferred, cut, gaps>>
     ELSE /\ updating' = FALSE /\ deferred' = FALSE
          /\ cut' = [cut EXCEPT !["watchdog"] = (vstate = "stand-by" /\ ~mapHold)]
          /\ gaps' = UpdateGaps(Starting) \cup (IF mapHold THEN {"watchdog"} ELSE Lag)
          /\ Step("watchdog", "expirePersist")
  /\ OnlyHandler
  /\ UNCHANGED <<queue, dash, manual, watchdog, mapHold, holdTimer, cuts, unlockVars,
                 hibernateVars, redisVars, seen>>

ExpirePersist ==
  /\ at["watchdog"] = "expirePersist"
  /\ flag' = FALSE /\ UNCHANGED inhib
  /\ OnlyRedis("watchdog", "expireInhibit")

ExpireInhibit ==
  /\ at["watchdog"] = "expireInhibit"
  /\ inhib' = inhib \ {"dbc-update", "install:dbc"}
  /\ cuts' = cuts + (IF cut["watchdog"] THEN 1 ELSE 0)
  /\ Step("watchdog", "idle")
  /\ cut' = [cut EXCEPT !["watchdog"] = FALSE]
  /\ OnlyHandler
  /\ UNCHANGED <<flag, queue, railVars, holdVars, unlockVars, hibernateVars, seen>>

-----------------------------------------------------------------------------
(* scooter:dbc-hold, the cap on the hold, and the delayed cuts.            *)

(* The machine does not look at the hold again before stand-by.            *)
TooLate == IF state = "ShuttingDown" \/ pc = "sbRail" THEN {"late"} ELSE {}

HoldRequest ==
  /\ up /\ at["hold"] = "idle" /\ Request
  /\ mapHold' = TRUE
  /\ Step("hold", IF mapHold THEN "idle" ELSE "holdInhibit")
  /\ gaps' = IF mapHold THEN gaps
              ELSE MapGaps(at["cap"] = "releaseInhibit") \cup TooLate
  /\ UNCHANGED <<bootVars, machineVars, dash, manual, updating, watchdog, holdTimer, deferred,
                 cuts, unlockVars, hibernateVars, redisVars, seen, cut>>

HoldInhibit ==
  /\ at["hold"] = "holdInhibit"
  /\ inhib' = inhib \cup {"map-download"} /\ UNCHANGED flag
  /\ OnlyRedis("hold", "idle")

ReleaseRequest ==
  /\ up /\ at["hold"] = "idle" /\ Request
  /\ Step("hold", "release")
  /\ UNCHANGED <<bootVars, machineVars, railVars, holdVars, cuts, unlockVars, hibernateVars,
                 redisVars, seen, cut>>

CapFires ==
  /\ holdTimer /\ at["cap"] = "idle"
  /\ holdTimer' = FALSE
  /\ Step("cap", "release")
  /\ OnlyHandler
  /\ UNCHANGED <<queue, railVars, updating, watchdog, mapHold, deferred, cuts, unlockVars,
                 hibernateVars, redisVars, seen, cut>>

(* A running update keeps the deferral; otherwise it is this release's to  *)
(* carry out, in stand-by only.                                            *)
Release(h) ==
  /\ at[h] = "release"
  /\ IF ~mapHold
     THEN Step(h, "idle") /\ UNCHANGED <<mapHold, holdTimer, deferred, cut, gaps>>
     ELSE /\ mapHold' = FALSE /\ holdTimer' = FALSE
          /\ gaps' = (MapGaps(h = "cap" /\ at["hold"] = "holdInhibit") \ {"late"})
                      \cup (IF deferred /\ ~updating THEN Lag ELSE {})
          /\ deferred' = (deferred /\ updating)
          /\ cut' = [cut EXCEPT ![h] = (deferred /\ ~updating /\ vstate = "stand-by")]
          /\ Step(h, "releaseInhibit")
  /\ OnlyHandler
  /\ UNCHANGED <<queue, dash, manual, updating, watchdog, cuts, unlockVars, hibernateVars,
                 redisVars, seen>>

ReleaseInhibit(h) ==
  /\ at[h] = "releaseInhibit"
  /\ inhib' = inhib \ {"map-download"}
  /\ gaps' = gaps \ {"hibernation"}
  /\ cuts' = cuts + (IF cut[h] THEN 1 ELSE 0)
  /\ Step(h, "idle")
  /\ cut' = [cut EXCEPT ![h] = FALSE]
  /\ OnlyHandler
  /\ UNCHANGED <<flag, queue, dash, manual, holdVars, unlockVars, hibernateVars, seen>>

(* Five seconds later, whatever has happened since.                        *)
DelayedCut ==
  /\ cuts > 0
  /\ cuts' = cuts - 1
  /\ Rail(FALSE)
  /\ UNCHANGED <<bootVars, machineVars, holdVars, unlockVars, hibernateVars, redisVars,
                 handlerVars, requests>>

-----------------------------------------------------------------------------
(* scooter:hardware.                                                       *)

DashboardOn ==
  /\ up /\ at["hardware"] = "idle" /\ Request
  /\ "on" \in HardwareRequests
  /\ dash' = TRUE /\ manual' = TRUE
  /\ UNCHANGED <<bootVars, machineVars, gaps, holdVars, cuts, unlockVars, hibernateVars,
                 redisVars, handlerVars>>

(* The update is checked before the DBC is asked to halt; the rail is cut  *)
(* four seconds later, or at once if Redis refused the message.            *)
DashboardOff ==
  /\ up /\ at["hardware"] = "idle" /\ Request
  /\ "off" \in HardwareRequests /\ ~updating
  /\ Step("hardware", "wait")
  /\ UNCHANGED <<bootVars, machineVars, railVars, holdVars, cuts, unlockVars, hibernateVars,
                 redisVars, seen, cut>>

DashboardCut ==
  /\ at["hardware"] = "wait"
  /\ Rail(FALSE)
  /\ Step("hardware", "idle")
  /\ OnlyHandler
  /\ UNCHANGED <<queue, holdVars, cuts, unlockVars, hibernateVars, redisVars, seen, cut>>

DashboardForcedOff ==
  /\ up /\ at["hardware"] = "idle" /\ Request
  /\ "force" \in HardwareRequests
  /\ Rail(FALSE)
  /\ UNCHANGED <<bootVars, machineVars, holdVars, cuts, unlockVars, hibernateVars, redisVars,
                 handlerVars>>

-----------------------------------------------------------------------------
(* A restart.  Only Redis survives, and the update's OTA status, which may *)
(* name an update that the flag does not.                                  *)

RestoreHolds(resumed) ==
  /\ updating' = resumed /\ watchdog' = resumed /\ flag' = (flag \/ resumed)
  /\ mapHold' = FALSE /\ holdTimer' = FALSE /\ deferred' = FALSE /\ cuts' = 0
  /\ inhib' = IF resumed THEN (inhib \ {"map-download"}) \cup {"dbc-update"} ELSE {}

(* The rail comes up as Redis remembers it, or on for an update, except    *)
(* after a shutdown that was interrupted; then the machine starts in       *)
(* Standby, whose entry action runs before the saved state is restored.    *)
(* An earlier boot that found nothing saved has published stand-by.        *)
Restart ==
  /\ restarts < MaxRestarts /\ restarts' = restarts + 1
  /\ up' = FALSE /\ saved' = (IF saved = "none" THEN "stand-by" ELSE saved)
  /\ state' = InitialState /\ from' = "none" /\ vstate' = SystemStateOf(InitialState)
  /\ pc' = EntryOf(InitialState) /\ queue' = <<>> /\ shutTimer' = FALSE
  /\ \E ota \in BOOLEAN :
       /\ RestoreHolds(flag \/ ota)
       /\ dash' = (saved # "shutting-down" /\ (dash \/ flag \/ ota))
  /\ manual' = FALSE /\ gaps' = {}
  /\ sent' = FALSE /\ pending' = FALSE /\ replay' = FALSE
  /\ hibernating' = FALSE /\ physical' = FALSE
  /\ at' = [h \in Handlers |-> "idle"] /\ cut' = [h \in Handlers |-> FALSE]
  /\ seen' = [h \in Handlers |-> "none"]
  /\ UNCHANGED requests

BootVarsAfter(published) ==
  /\ ~up /\ pc = "idle"
  /\ up' = TRUE /\ saved' = published
  /\ UNCHANGED <<restarts, queue, railVars, holdVars, cuts, unlockVars, hibernateVars,
                 redisVars, handlerVars, requests>>

(* The saved state is restored, or finished in the case of a shutdown.     *)
(* A ride without a supply is restored as Parked.                          *)
RestoreState ==
  /\ saved \in RestorableStates \cup {"shutting-down"}
  /\ \E s \in {LeafOf(saved)} \cup (IF saved = "ready-to-drive" THEN {"Parked"} ELSE {}) :
       Enter(s)
  /\ BootVarsAfter(saved)

(* Nothing saved, or a restore declined: the machine stays in Standby.     *)
StayInStandby ==
  /\ BootVarsAfter("stand-by")
  /\ saved # "shutting-down"
  /\ UNCHANGED <<state, from, vstate, pc, shutTimer>>

-----------------------------------------------------------------------------
EntryAction ==
  \/ RailOn \/ StandbyLook \/ StandbyCut \/ StandbyReplay
  \/ ShutReset \/ ShutHold \/ ShutInstall \/ ShutEnd \/ ShutRelease \/ ShutPoweroff
  \/ Publish \/ PublishLost

Boot == RestoreState \/ StayInStandby

StateHandler == UnlockArrives \/ UnlockCancel \/ UnlockDecide \/ OtherStateRequest

UpdateHandler ==
  \/ StartDbc \/ StartPersist \/ StartInhibit \/ StartPower
  \/ CompleteDbc \/ CompletePersist \/ CompleteInhibit

WatchdogHandler == WatchdogFires \/ Expire \/ ExpirePersist \/ ExpireInhibit

HoldHandler ==
  \/ HoldRequest \/ HoldInhibit \/ ReleaseRequest \/ CapFires
  \/ \E h \in {"hold", "cap"} : Release(h) \/ ReleaseInhibit(h)

HardwareHandler == DashboardOn \/ DashboardOff \/ DashboardCut \/ DashboardForcedOff

Next ==
  \/ EntryAction \/ Dispatch \/ ReplayUnlock \/ ShutdownTimer \/ ExtSend \/ Boot
  \/ StateHandler \/ UpdateHandler \/ WatchdogHandler \/ HoldHandler \/ HardwareHandler
  \/ InstallBegins \/ DelayedCut
  \/ \E h \in {"state", "update"} : SyncReturns(h)
  \/ Restart

Spec == Init /\ [][Next]_vars

(* What a handler that has begun does to the end.                          *)
HandlerStep ==
  \/ UnlockCancel \/ UnlockDecide
  \/ StartPersist \/ StartInhibit \/ StartPower \/ CompletePersist \/ CompleteInhibit
  \/ Expire \/ ExpirePersist \/ ExpireInhibit
  \/ HoldInhibit \/ \E h \in {"hold", "cap"} : Release(h) \/ ReleaseInhibit(h)

(* The event loop, Start() and the handlers run on, and the timeout of     *)
(* ShuttingDown fires.                                                     *)
FairSpec ==
  /\ Spec
  /\ WF_vars(EntryAction) /\ WF_vars(Dispatch) /\ WF_vars(Boot)
  /\ WF_vars(ShutdownTimer) /\ WF_vars(HandlerStep)

-----------------------------------------------------------------------------
(* Properties.                                                             *)

(* Types of the variables.                                                 *)
TypeOK ==
  /\ up \in BOOLEAN /\ saved \in SystemStates \cup RestorableStates \cup {"none"}
  /\ state \in Leaves /\ from \in Leaves \cup {"none"} /\ vstate \in SystemStates
  /\ pc \in EntrySteps \cup {"idle"}
  /\ queue \in Seq([ev : Events, by : Handlers \cup {"none"}])
  /\ shutTimer \in BOOLEAN
  /\ dash \in BOOLEAN /\ manual \in BOOLEAN /\ gaps \in SUBSET Gaps
  /\ updating \in BOOLEAN /\ watchdog \in BOOLEAN /\ mapHold \in BOOLEAN
  /\ holdTimer \in BOOLEAN /\ deferred \in BOOLEAN
  /\ cuts \in Nat
  /\ sent \in BOOLEAN /\ pending \in BOOLEAN /\ replay \in BOOLEAN
  /\ hibernating \in BOOLEAN /\ physical \in BOOLEAN
  /\ flag \in BOOLEAN /\ inhib \in SUBSET Inhibitors
  /\ at \in [Handlers -> HandlerSteps]
  /\ seen \in [Handlers -> SystemStates \cup {"none"}]
  /\ cut \in [Handlers -> BOOLEAN]
  /\ requests \in 0..MaxRequests /\ restarts \in 0..MaxRestarts

(* No handler, entry action or event is under way.                         *)
Settled == up /\ pc = "idle" /\ MidBody = {} /\ queue = <<>> /\ ~replay

(* In stand-by a powered dashboard has somebody who will cut it: an update *)
(* and its watchdog, a hold and its cap, a delayed cut, an operator who    *)
(* switched it on; or its end was lost in one of the ways that gaps        *)
(* records: a hold asked for during the shutdown, EnterShuttingDown having *)
(* looked already; a watchdog that discards the deferral a hold relies on; *)
(* a holder that ended after EnterStandby looked for it and before v.state *)
(* said stand-by; a start-dbc that another goroutine took back meanwhile.  *)
RailHasHolder ==
  (Settled /\ state = "Standby" /\ dash)
    => \/ manual
       \/ updating /\ watchdog
       \/ mapHold /\ holdTimer
       \/ cuts > 0
       \/ gaps \cap {"watchdog", "late", "lag", "update"} # {}

(* A map hold in stand-by is capped (EnterStandby: "capped by              *)
(* startMapHoldTimer, which applies this deferral when it expires").       *)
HoldIsCapped ==
  (Settled /\ state = "Standby" /\ mapHold /\ deferred) => (holdTimer \/ updating)

(* The machine cuts the rail under an update only if the update began      *)
(* after EnterStandby had looked for one, whichever way it came to         *)
(* Standby, restarts included: else a delayed cut that an earlier hold     *)
(* scheduled, or an operator, does.                                        *)
CutBySomebody == cuts' < cuts \/ requests' > requests \/ at["hardware"] = "wait"

UpdateOutlivesStandby ==
  [][ (up /\ up' /\ updating /\ dash /\ ~dash')
        => (CutBySomebody \/ "overtaken" \in gaps) ]_vars

(* An update that runs is watched, so that no lost completion keeps the    *)
(* rail on for ever: through restarts, and when the watchdog of one update *)
(* fires as the next one starts.                                           *)
UpdateIsWatched == updating => (watchdog \/ at["watchdog"] # "idle")

(* The suspend inhibitors follow the holds they stand for: a stale one     *)
(* keeps the whole vehicle awake, a missing one suspends it under a        *)
(* download.  Hibernation alone drops a map hold without its inhibitor;    *)
(* besides, a beginning and an end that overlapped may leave either wrong, *)
(* until the next one that does not.                                       *)
InhibitorsFollowHolds ==
  Settled =>
    /\ "update" \notin gaps => ("dbc-update" \in inhib <=> updating)
    /\ "map" \notin gaps =>
         /\ mapHold => "map-download" \in inhib
         /\ "map-download" \in inhib => (mapHold \/ "hibernation" \in gaps)

(* A hibernation request belongs to one shutdown: it never survives into a *)
(* later one, where it would let EnterShuttingDown drop holds that nobody  *)
(* gave up.  It stays behind in stand-by if the publication that completes *)
(* it is lost, and no unlock takes it further.                             *)
HibernationIsOneShutdown ==
  (pc = "idle" /\ hibernating)
    => \/ state = "ShuttingDown"
       \/ state = "Standby" /\ "publication" \in gaps

(* An unlock that waits is on its way to stand-by: the DBC was told to     *)
(* halt, so that nothing aborts the shutdown, and its timeout is to come;  *)
(* or stand-by is about to replay it.  It never waits in a later state,    *)
(* from where the next stand-by would unlock a vehicle that was locked     *)
(* again (EnterShuttingDown, EnterStandby).                                *)
UnlockWaitsForStandby ==
  pending =>
    \/ /\ state = "ShuttingDown" /\ sent
       /\ shutTimer \/ \E i \in DOMAIN queue : queue[i].ev = "ShutdownTimeout"
    \/ state = "Standby" /\ pc \in {"sbRail", "sbCut", "sbReplay"}

(* An unlock that waits for stand-by is replayed there, or overridden by a *)
(* new lock.                                                               *)
DeferredUnlockServed == pending ~> ~pending

(* An unlock that reaches a shutdown which told the DBC to halt is kept    *)
(* for stand-by, never dropped (EnterShuttingDown: "a late unlock gets     *)
(* queued and replayed from Standby").                                     *)
UnlockNotDropped ==
  [][ (queue # <<>> /\ Head(queue).ev = "Unlock" /\ state = "ShuttingDown" /\ queue' = Tail(queue))
        => (state' = "Parked" \/ pending') ]_vars
=============================================================================
