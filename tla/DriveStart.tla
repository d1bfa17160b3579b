----------------------------- MODULE DriveStart -----------------------------
(***************************************************************************)
(* The kickstand and the start of a drive.  The callback of the kickstand  *)
(* (handleInputChange) turns its level into an event for the machine; an   *)
(* event "down" within a second of the drive's start is deferred by a      *)
(* timer that looks at the switch again.  A monitor starts the drive of a  *)
(* parked vehicle once everything it needs is there.  Guards read the raw  *)
(* level from the cache, callbacks get the debounced one.                  *)
(***************************************************************************)
EXTENDS Inputs, AtRest

VARIABLES
  fresh,      \* less than parkDebounceTime since readyToDriveEntryTime
  deferral,   \* v.kickstandDebounceTimer is pending
  rejected,   \* v.driveStart.entryRejected
  lost        \* history: how an event "down" came to be lost

driveVars == <<fresh, deferral, rejected, lost>>

StandDown == active["kickstand"]

(* A restart that found a ride without its supply is parked and rejected;  *)
(* a behaviour that begins with a drive begins with its entry.  A ride     *)
(* that is restored is not asked for its kickstand, which was down before  *)
(* anybody listened to it.                                                 *)
DriveInit(refused) ==
  /\ fresh = (state = "ReadyToDrive") /\ deferral = FALSE /\ rejected = refused
  /\ lost = IF state = "ReadyToDrive" /\ reported["kickstand"] THEN {"restart"} ELSE {}

-----------------------------------------------------------------------------
(* The callback.  Each one reads the state once, restarts the auto-standby *)
(* timer, publishes the level (which may take long, or fail) and sends.    *)

KickBegin(t) ==
  /\ at[t] = "call" /\ arg[t].ch = "kickstand"
  /\ IF state \in HopOnFamily
     THEN Return(t) /\ UNCHANGED lost
     ELSE /\ arg' = [arg EXCEPT ![t].seen = state]
          /\ Goto(t, ResetFirst("kickPublish"))
          /\ lost' = IF arg[t].val THEN {} ELSE lost
  /\ UNCHANGED <<machineVars, inputVars, restVars, fresh, deferral, rejected, left>>

(* An error ends the callback; in stand-by nothing is published.           *)
KickPublish(t) ==
  /\ at[t] = "kickPublish"
  /\ \/ Goto(t, "kickSend") /\ UNCHANGED <<arg, left, lost>>
     \/ /\ arg[t].seen # "Standby" /\ Spend("publish")
        /\ Return(t)
        /\ lost' = IF arg[t].val THEN lost \cup {"publish"} ELSE lost
  /\ UNCHANGED <<machineVars, inputVars, restVars, fresh, deferral, rejected>>

(* Mutant: an event within the first second is dropped.                    *)
KickSendDrops(t) ==
  /\ at[t] = "kickSend"
  /\ IF arg[t].val
     THEN /\ rejected' = FALSE /\ deferral' = FALSE
          /\ IF arg[t].seen = "ReadyToDrive" /\ fresh
             THEN UNCHANGED queue ELSE Send("KickstandDown")
          /\ UNCHANGED lost
     ELSE /\ deferral' = FALSE /\ Send("KickstandUp")
          /\ UNCHANGED <<rejected, lost>>
  /\ Return(t)
  /\ UNCHANGED <<state, from, vstate, pc, target, inputVars, restVars, fresh, left>>

(* A pending deferral is stopped, also by the callback of an earlier       *)
(* "up" that is late.                                                      *)
KickSend(t) ==
  /\ at[t] = "kickSend"
  /\ IF arg[t].val
     THEN /\ rejected' = FALSE
          /\ deferral' = (arg[t].seen = "ReadyToDrive" /\ fresh)
          /\ IF deferral' THEN UNCHANGED queue ELSE Send("KickstandDown")
          /\ UNCHANGED lost
     ELSE /\ deferral' = FALSE /\ Send("KickstandUp")
          /\ lost' = IF deferral /\ reported["kickstand"] THEN lost \cup {"stopped"} ELSE lost
          /\ UNCHANGED rejected
  /\ Return(t)
  /\ UNCHANGED <<state, from, vstate, pc, target, inputVars, restVars, fresh, left>>

(* The deferred event looks at the raw level: a bounce at that moment,     *)
(* which the debounced callback never hears of, loses it.                  *)
DeferralFires ==
  /\ deferral /\ deferral' = FALSE
  /\ IF StandDown
     THEN Send("KickstandDown") /\ UNCHANGED lost
     ELSE /\ lost' = IF reported["kickstand"] THEN lost \cup {"bounce"} ELSE lost
          /\ UNCHANGED queue
  /\ UNCHANGED <<state, from, vstate, pc, target, threadVars, inputVars, restVars, fresh,
                 rejected, left>>

SecondPasses ==
  /\ fresh /\ fresh' = FALSE
  /\ UNCHANGED <<machineVars, threadVars, inputVars, restVars, deferral, rejected, lost, left>>

(* The callback's own calls into AtRest.                                   *)
KickReset(t) ==
  /\ Rearm(t, "kickPublish")
  /\ UNCHANGED <<inputVars, driveVars>>

KickStep(t) == KickBegin(t) \/ KickReset(t) \/ KickPublish(t) \/ KickSend(t)

-----------------------------------------------------------------------------
(* checkDriveStart, every 100 ms.  What else a drive needs may be there or *)
(* not.                                                                    *)
MonitorTick ==
  /\ rejected' = (rejected /\ ~StandDown /\ state \notin {"Standby", "ShuttingDown"})
  /\ IF state = "Parked" /\ ~StandDown /\ ~rejected
     THEN /\ \A i \in DOMAIN queue : queue[i] # "DriveSupplyReady"
          /\ Len(queue) < MaxQueue
          /\ Send("DriveSupplyReady")
     ELSE UNCHANGED queue
  /\ UNCHANGED <<state, from, vstate, pc, target, threadVars, inputVars, restVars, fresh,
                 deferral, lost, left>>

(* CanEnterReadyToDrive and HasDriveSupply, given that the dashboard, the  *)
(* handlebar and the battery are ready; the raw kickstand.                 *)
DriveGuards ==
  (IF StandDown THEN {"KickstandDown"} ELSE {"KickstandUp"}) \cup
  (IF StandDown \/ rejected THEN {} ELSE {"CanEnterReadyToDrive"}) \cup
  (IF rejected THEN {} ELSE {"HasDriveSupply"})

StandGuards == {"KickstandDown", "KickstandUp"}

(* The stand alone decides its guards; the drive's may fail for other      *)
(* reasons.                                                                *)
ForcedGuards == StandGuards \cup ({"CanEnterReadyToDrive", "HasDriveSupply"} \ DriveGuards)

(* EnterReadyToDrive: a second look at what the guard has read.            *)
EnterDrive ==
  /\ fresh' = TRUE
  /\ \/ ~StandDown /\ ~rejected /\ UNCHANGED queue
     \/ Send("DashboardNotReady")
  /\ UNCHANGED <<deferral, rejected, lost>>

DriveTypeOK ==
  /\ fresh \in BOOLEAN /\ deferral \in BOOLEAN /\ rejected \in BOOLEAN
  /\ lost \subseteq {"stopped", "bounce", "publish", "restart"}
=============================================================================
