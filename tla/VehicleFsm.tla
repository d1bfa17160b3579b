----------------------------- MODULE VehicleFsm -----------------------------
(***************************************************************************)
(* The transition table the vehicle service hands to librefsm              *)
(* (src/internal/fsm/definition.go), as data: the states, their hierarchy, *)
(* the events, and the rows of the table.  Selected(s, e, G) is the row    *)
(* the machine takes when event e is dispatched in leaf s while exactly    *)
(* the guards in G evaluate to true.  The modules that model what the      *)
(* entry actions do (Ride, DbcPower, Handlebar) all select rows with it.   *)
(***************************************************************************)
EXTENDS Integers

AtRestLeaves == {"Parked", "HopOn", "HopOnLearning"}

HibernationLeaves == {"HibernationInitialHold", "HibernationAwaitingConfirm",
                      "HibernationSeatbox", "HibernationConfirm"}

(* The states the machine can be in: parents are never current, they       *)
(* resolve to their default child.                                         *)
Leaves == AtRestLeaves \cup HibernationLeaves \cup
          {"Standby", "ReadyToDrive", "WaitingSeatbox", "ShuttingDown", "Updating"}

(* Where a row may start: the leaf itself, then its parent.                *)
Parent(s) == IF s \in AtRestLeaves THEN "AtRest"
             ELSE IF s \in HibernationLeaves THEN "Hibernation"
             ELSE s

InitialState == "Standby"

Guards == {"SeatboxClosed", "KickstandDown", "KickstandUp", "CanEnterReadyToDrive",
           "AreBrakesPressed", "HasDriveSupply", "BrakeHibernationEnabled",
           "HibernatePreparationCurrent", "CanAbortShutdown"}

TimerEvents == {"ShutdownTimeout", "AutoStandbyTimeout", "WaitingSeatboxTimeout",
                "HibernationInitialTimeout", "HibernationConfirmTimeout",
                "HibernationForceTimeout", "HibernationFinalTimeout"}

InputEvents == {"KickstandDown", "KickstandUp", "BrakesPressed", "BrakesReleased",
                "SeatboxButton", "SeatboxClosed"}

CommandEvents == {"Unlock", "Lock", "LockHibernate", "ForceLock", "DriveSupplyReady",
                  "DashboardReady", "DashboardNotReady", "KeycardAuth",
                  "DbcUpdateComplete", "HopOnEngage", "HopOnLearningEngage",
                  "HopOnRelease"}

Events == TimerEvents \cup InputEvents \cup CommandEvents

(* The hop-on leaves drop every physical input and dashboard event.        *)
Blocked(s) ==
  IF s \in {"HopOn", "HopOnLearning"}
  THEN InputEvents \cup {"DashboardReady", "DashboardNotReady"}
  ELSE {}

-----------------------------------------------------------------------------
(* A row of the table.  Rows of one source and event are tried in          *)
(* declaration order, which rank records where a pair has several.         *)
Row(from, on, rank, guards, to, act) ==
  [from |-> from, on |-> on, rank |-> rank, guards |-> guards, to |-> to, act |-> act]

StandbyRows ==
  { Row("Standby", "Unlock",            1, {}, "Parked",       "OnUnlock"),
    Row("Standby", "KeycardAuth",       1, {}, "Parked",       "OnUnlock"),
    Row("Standby", "DbcUpdateComplete", 1, {}, "ShuttingDown", "none") }

AtRestRows ==
  { Row("AtRest", "Lock",        1, {"SeatboxClosed"}, "ShuttingDown",   "none"),
    Row("AtRest", "Lock",        2, {},                "WaitingSeatbox", "none"),
    Row("AtRest", "ForceLock",   1, {},                "ShuttingDown",   "none"),
    Row("AtRest", "KeycardAuth", 1, {"KickstandDown", "SeatboxClosed"},
                                                       "ShuttingDown",   "none"),
    Row("AtRest", "KeycardAuth", 2, {"KickstandDown"}, "WaitingSeatbox", "none"),
    Row("AtRest", "AutoStandbyTimeout", 1, {},         "ShuttingDown",   "none") }

ParkedRows ==
  { Row("Parked", "Unlock",           1, {"CanEnterReadyToDrive"}, "ReadyToDrive", "OnUnlock"),
    Row("Parked", "KickstandUp",      1, {"CanEnterReadyToDrive"}, "ReadyToDrive", "none"),
    Row("Parked", "DashboardReady",   1, {"CanEnterReadyToDrive"}, "ReadyToDrive", "none"),
    Row("Parked", "DriveSupplyReady", 1, {"CanEnterReadyToDrive"}, "ReadyToDrive", "none"),
    Row("Parked", "LockHibernate",    1, {"HibernatePreparationCurrent"},
                                         "ShuttingDown", "OnLockHibernate"),
    Row("Parked", "SeatboxButton",    1, {"KickstandUp", "AreBrakesPressed", "HasDriveSupply"},
                                         "ReadyToDrive", "none"),
    Row("Parked", "SeatboxButton",    2, {"KickstandDown"}, "Parked", "OnSeatboxButton"),
    Row("Parked", "BrakesPressed",    1, {"BrakeHibernationEnabled", "AreBrakesPressed"},
                                         "HibernationInitialHold", "none"),
    Row("Parked", "HopOnEngage",         1, {}, "HopOn",         "none"),
    Row("Parked", "HopOnLearningEngage", 1, {}, "HopOnLearning", "none") }

HopOnRows ==
  { Row("HopOn", "HopOnRelease",         1, {}, "Parked", "OnUnlock"),
    Row("HopOn", "Unlock",               1, {}, "Parked", "OnUnlock"),
    Row("HopOn", "KeycardAuth",          1, {}, "Parked", "OnUnlock"),
    Row("HopOnLearning", "HopOnRelease", 1, {}, "Parked", "OnUnlock"),
    Row("HopOnLearning", "Unlock",       1, {}, "Parked", "OnUnlock") }

(* Drive mode ignores Lock and a single card tap on purpose.               *)
ReadyToDriveRows ==
  { Row("ReadyToDrive", "KickstandDown",     1, {}, "Parked",       "none"),
    Row("ReadyToDrive", "DashboardNotReady", 1, {}, "Parked",       "none"),
    Row("ReadyToDrive", "ForceLock",         1, {}, "ShuttingDown", "none") }

ShuttingDownRows ==
  { Row("ShuttingDown", "ShutdownTimeout", 1, {}, "Standby", "none"),
    Row("ShuttingDown", "Unlock", 1, {"CanAbortShutdown"}, "Parked", "OnUnlock") }

WaitingSeatboxRows ==
  { Row("WaitingSeatbox", e, 1, {}, "ShuttingDown", "none") :
      e \in {"WaitingSeatboxTimeout", "SeatboxClosed", "KeycardAuth", "Lock", "ForceLock"} }
  \cup { Row("WaitingSeatbox", "Unlock", 1, {}, "Parked", "OnUnlock") }

HibernationRows ==
  { Row("HibernationInitialHold", "SeatboxButton", 1,
        {"KickstandUp", "AreBrakesPressed", "HasDriveSupply"}, "ReadyToDrive", "none"),
    Row("HibernationInitialHold", "HibernationInitialTimeout", 1, {},
        "HibernationAwaitingConfirm", "none"),
    Row("HibernationInitialHold", "BrakesReleased", 1, {}, "Parked", "none"),
    Row("HibernationAwaitingConfirm", "KeycardAuth", 1, {"SeatboxClosed"},
        "HibernationConfirm", "none"),
    Row("HibernationAwaitingConfirm", "KeycardAuth", 2, {}, "HibernationSeatbox", "none"),
    Row("HibernationAwaitingConfirm", "SeatboxButton", 1, {}, "Parked", "none"),
    Row("HibernationAwaitingConfirm", "HibernationForceTimeout", 1, {"AreBrakesPressed"},
        "HibernationConfirm", "none"),
    Row("HibernationAwaitingConfirm", "HibernationConfirmTimeout", 1, {}, "Parked", "none"),
    Row("HibernationSeatbox", "SeatboxClosed", 1, {}, "HibernationConfirm", "none"),
    Row("HibernationSeatbox", "SeatboxButton", 1, {}, "Parked", "none"),
    Row("HibernationConfirm", "HibernationFinalTimeout", 1, {},
        "ShuttingDown", "OnHibernationComplete"),
    Row("HibernationConfirm", "SeatboxButton", 1, {}, "Parked", "none"),
    Row("Hibernation", "Unlock",      1, {}, "Parked", "OnUnlock"),
    Row("Hibernation", "KickstandUp", 1, {"CanEnterReadyToDrive"}, "ReadyToDrive", "none"),
    Row("Hibernation", "KickstandUp", 2, {}, "Parked", "none") }

Table == StandbyRows \cup AtRestRows \cup ParkedRows \cup HopOnRows \cup
         ReadyToDriveRows \cup ShuttingDownRows \cup WaitingSeatboxRows \cup HibernationRows

-----------------------------------------------------------------------------
(* The rows leaf s has for event e, its own and its parent's, unless the   *)
(* leaf blocks the event; and those of them whose guards all hold.         *)
RowsFor(s, e) ==
  { t \in Table : t.from \in {s, Parent(s)} /\ t.on = e /\ e \notin Blocked(s) }

GuardsFor(s, e) == UNION { t.guards : t \in RowsFor(s, e) }

Candidates(s, e, G) == { t \in RowsFor(s, e) : t.guards \subseteq G }

(* The leaf's rows go before its parent's, earlier rows before later ones. *)
Before(t, u, s) == \/ t.from = s /\ u.from # s
                   \/ t.from = u.from /\ t.rank < u.rank

Selected(s, e, G) ==
  { t \in Candidates(s, e, G) : \A u \in Candidates(s, e, G) : ~Before(u, t, s) }

(* The state-scoped timeout of each leaf.                                  *)
TimeoutOf(s) ==
  CASE s = "ShuttingDown"               -> {"ShutdownTimeout"}
    [] s = "WaitingSeatbox"             -> {"WaitingSeatboxTimeout"}
    [] s = "HibernationInitialHold"     -> {"HibernationInitialTimeout"}
    [] s = "HibernationAwaitingConfirm" -> {"HibernationConfirmTimeout", "HibernationForceTimeout"}
    [] s = "HibernationConfirm"         -> {"HibernationFinalTimeout"}
    [] OTHER                            -> {}

(* The SystemState the service publishes for a leaf.                       *)
SystemStateOf(s) ==
  CASE s = "HibernationInitialHold"     -> "parked"
    [] s = "HibernationAwaitingConfirm" -> "waiting-hibernation"
    [] s = "HibernationSeatbox"         -> "waiting-hibernation-seatbox"
    [] s = "HibernationConfirm"         -> "waiting-hibernation-confirm"
    [] s = "Standby"                    -> "stand-by"
    [] s = "Parked"                     -> "parked"
    [] s = "ReadyToDrive"               -> "ready-to-drive"
    [] s = "WaitingSeatbox"             -> "waiting-seatbox"
    [] s = "ShuttingDown"               -> "shutting-down"
    [] s = "Updating"                   -> "updating"
    [] s = "HopOn"                      -> "hop-on"
    [] s = "HopOnLearning"              -> "hop-on-learning"

SystemStates == { SystemStateOf(s) : s \in Leaves }

(* The SystemStates a restart may resume into, and the leaf each names:    *)
(* "waiting-hibernation" resumes at the first step of the hold.            *)
RestorableStates == {"stand-by", "parked", "ready-to-drive", "hop-on", "hop-on-learning",
                     "waiting-seatbox", "waiting-hibernation", "waiting-hibernation-advanced",
                     "waiting-hibernation-seatbox", "waiting-hibernation-confirm"}

LeafOf(saved) ==
  CASE saved = "stand-by"                     -> "Standby"
    [] saved = "parked"                       -> "Parked"
    [] saved = "ready-to-drive"               -> "ReadyToDrive"
    [] saved = "hop-on"                       -> "HopOn"
    [] saved = "hop-on-learning"              -> "HopOnLearning"
    [] saved = "waiting-seatbox"              -> "WaitingSeatbox"
    [] saved = "shutting-down"                -> "ShuttingDown"
    [] saved = "updating"                     -> "Updating"
    [] saved = "waiting-hibernation"          -> "HibernationInitialHold"
    [] saved = "waiting-hibernation-advanced" -> "HibernationAwaitingConfirm"
    [] saved = "waiting-hibernation-seatbox"  -> "HibernationSeatbox"
    [] saved = "waiting-hibernation-confirm"  -> "HibernationConfirm"

RestorableLeaves == { LeafOf(saved) : saved \in RestorableStates }
=============================================================================
