------------------------------- MODULE AtRest -------------------------------
(***************************************************************************)
(* The timer that locks a vehicle at rest.  It is armed by the entry into  *)
(* the at-rest group and stopped by its exit; rider input restarts it; a   *)
(* phone that disconnects while the vehicle is parked replaces it by a     *)
(* short countdown (keyless), which a reconnect or rider input cancels.    *)
(* The handlers run in goroutines of their own, between the machine's      *)
(* steps: what they have read of the state may be over when they act.      *)
(***************************************************************************)
EXTENDS Loop

CONSTANT
  IdleSettings   (* values of scooter.auto-standby-seconds; 0 is off *)

ASSUME AtRestAssumption ==
  IdleSettings \subseteq Nat /\ \A s \in Scenarios : s.secs \in IdleSettings

VARIABLES
  timer,      \* TimerAutoStandby: what it was armed for
  counting,   \* v.keylessCountdownActive
  secs,       \* v.autoStandbySeconds
  grace,      \* v.lockOnBleDisconnectSeconds > 0
  ble,        \* v.lastBleStatus
  lapses      \* history: how the timer came to be armed outside, or stopped inside

settingVars == <<secs, grace, ble>>
restVars    == <<timer, counting, lapses, settingVars>>

Lapses == {"late", "hold", "hopOn", "setting", "raced", "copied"}

AtRestInit(first) ==
  /\ secs = first
  /\ timer = IF state \in AtRestLeaves /\ secs > 0 THEN "idle" ELSE "none"
  /\ counting = FALSE /\ grace = TRUE /\ ble = "connected" /\ lapses = {}

-----------------------------------------------------------------------------
(* The machine's part.                                                     *)

(* Mutant: leaving the group forgets the timer.                            *)
ExitAtRestArmed == counting' = FALSE /\ UNCHANGED <<timer, lapses>>

(* Mutant: leaving the group forgets the countdown.                        *)
ExitAtRestCounting == timer' = "none" /\ lapses' = {} /\ UNCHANGED counting

ExitAtRest == timer' = "none" /\ counting' = FALSE /\ lapses' = {}

(* A countdown left over is not cleared when auto-standby is off.          *)
EnterAtRest ==
  IF secs = 0 THEN UNCHANGED <<timer, counting, lapses>>
  ELSE timer' = "idle" /\ counting' = FALSE /\ lapses' = {}

TimerFires ==
  /\ timer # "none"
  /\ timer' = "none"
  /\ Send("AutoStandbyTimeout")
  /\ UNCHANGED <<state, from, vstate, pc, target, threadVars, counting, lapses, settingVars, left>>

-----------------------------------------------------------------------------
(* What resetAutoStandbyTimer, clearKeylessCountdown and the settings      *)
(* handler do to the timer: stop it, clear its deadline in Redis, and      *)
(* start it again if the vehicle is still parked.  The caller goes on with *)
(* after.                                                                  *)

(* getCurrentState() = StateParked: the published state, which the first   *)
(* hold of a hibernation has too.                                          *)
Parked == SystemStateOf(state) = "parked"

(* Where resetAutoStandbyTimer begins, for a caller that goes on with after. *)
ResetFirst(after) ==
  IF counting THEN "clear" ELSE IF Parked /\ secs > 0 THEN "stop" ELSE after

OnlyRest == UNCHANGED <<machineVars, arg, left, settingVars>>

(* The flag is cleared and the setting copied together; with a copy of 0   *)
(* the timer is stopped for good.                                          *)
Clear(t) ==
  /\ at[t] = "clear"
  /\ counting' = FALSE
  /\ Goto(t, IF secs > 0 THEN "stop" ELSE "cancel")
  /\ OnlyRest /\ UNCHANGED <<timer, lapses>>

(* The countdown under way loses its timer.                                *)
Overrules(t) == IF ~counting THEN {} ELSE IF t = "settings" THEN {"setting"} ELSE {"raced"}

(* What is set outside the group: in the hold, which counts as parked, or  *)
(* after the machine has gone.                                             *)
Outside == IF Heading \in AtRestLeaves THEN {}
           ELSE IF Heading = "HibernationInitialHold" THEN {"hold"} ELSE {"late"}

(* cancelAutoStandbyTimer before a restart,                                *)
Stop(t) ==
  /\ at[t] = "stop"
  /\ timer' = "none"
  /\ Goto(t, "recheck")
  /\ lapses' = lapses \cup Overrules(t)
  /\ OnlyRest /\ UNCHANGED counting

(* and without one: the setting may have been switched on again since.     *)
Cancel(t, after) ==
  /\ at[t] = "cancel"
  /\ timer' = "none"
  /\ Goto(t, after)
  /\ lapses' = lapses \cup Overrules(t) \cup (IF secs > 0 THEN {"copied"} ELSE {})
  /\ OnlyRest /\ UNCHANGED counting

(* startAutoStandbyTimer looks at the state and the setting afresh.        *)
Recheck(t, after) ==
  /\ at[t] = "recheck"
  /\ Goto(t, IF Parked /\ secs > 0 THEN "arm" ELSE after)
  /\ lapses' = IF state \in HopOnFamily THEN lapses \cup {"hopOn"} ELSE lapses
  /\ OnlyRest /\ UNCHANGED <<timer, counting>>

(* Mutant: the restart is left out.                                        *)
ArmNothing(t, after) ==
  /\ at[t] = "arm"
  /\ Goto(t, after)
  /\ OnlyRest /\ UNCHANGED <<timer, counting, lapses>>

(* StartTimer, after the check.                                            *)
Arm(t, after) ==
  /\ at[t] = "arm"
  /\ timer' = "idle"
  /\ lapses' = lapses \cup Overrules(t) \cup Outside
  /\ Goto(t, after)
  /\ OnlyRest /\ UNCHANGED counting

Rearm(t, after) == Clear(t) \/ Stop(t) \/ Cancel(t, after) \/ Recheck(t, after) \/ Arm(t, after)

-----------------------------------------------------------------------------
(* handleBleStatusChange: the flag is set in a step after the check, the   *)
(* timer in one after the flag.                                            *)

BleChange ==
  /\ at["ble"] = "idle" /\ Spend("ble")
  /\ ble' = IF ble = "connected" THEN "disconnected" ELSE "connected"
  /\ Goto("ble", IF ble = "connected"
                 THEN IF grace /\ ~counting THEN "check" ELSE "idle"
                 ELSE IF counting THEN "clear" ELSE "idle")
  /\ UNCHANGED <<machineVars, arg, timer, counting, lapses, secs, grace>>

BleCheck ==
  /\ at["ble"] = "check"
  /\ Goto("ble", IF Parked THEN "flag" ELSE "idle")
  /\ OnlyRest /\ UNCHANGED <<timer, counting, lapses>>

BleFlag ==
  /\ at["ble"] = "flag"
  /\ counting' = TRUE
  /\ lapses' = lapses \cup Outside
  /\ Goto("ble", "count")
  /\ OnlyRest /\ UNCHANGED timer

BleCount ==
  /\ at["ble"] = "count"
  /\ timer' = "keyless"
  /\ lapses' = lapses \cup Outside
  /\ Goto("ble", "idle")
  /\ OnlyRest /\ UNCHANGED counting

(* handleSettingsUpdate: auto-standby, which looks at v.state, and the     *)
(* grace of the countdown.                                                 *)
SettingIdle ==
  /\ at["settings"] = "idle" /\ Spend("setting")
  /\ \E n \in IdleSettings :
       /\ secs' = n
       /\ Goto("settings", IF vstate # "parked" \/ (n > 0 /\ n = secs) THEN "idle"
                           ELSE IF n = 0 THEN "cancel" ELSE "stop")
       /\ lapses' = lapses \cup
            (IF vstate # "parked" /\ state \in AtRestLeaves
             THEN {IF state \in HopOnFamily THEN "hopOn" ELSE "late"} ELSE {})
  /\ UNCHANGED <<machineVars, arg, timer, counting, grace, ble>>

SettingGrace ==
  /\ at["settings"] = "idle" /\ Spend("setting")
  /\ grace' = ~grace
  /\ UNCHANGED <<machineVars, threadVars, timer, counting, lapses, secs, ble>>

RestThreads == {"ble", "settings"}

RestHandler ==
  \/ BleChange \/ BleCheck \/ BleFlag \/ BleCount \/ SettingIdle \/ SettingGrace
  \/ \E t \in RestThreads : Rearm(t, "idle")

RestSteps == {"clear", "stop", "cancel", "recheck", "arm", "check", "flag", "count"}

AtRestTypeOK ==
  /\ timer \in {"none", "idle", "keyless"} /\ counting \in BOOLEAN
  /\ secs \in IdleSettings /\ grace \in BOOLEAN
  /\ ble \in {"connected", "disconnected"} /\ lapses \subseteq Lapses
=============================================================================
