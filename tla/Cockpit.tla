------------------------------- MODULE Cockpit ------------------------------
(***************************************************************************)
(* The composition: the state machine's loop with the parts of its entry,  *)
(* exit and guard code that belong to the switch inputs, the drive's       *)
(* start, the timer at rest and the blinkers, and the goroutines of these. *)
(***************************************************************************)
EXTENDS DriveStart, Blinkers, Horn

signalVars == <<blinkVars, hornVars>>

vars == <<machineVars, threadVars, inputVars, restVars, driveVars, signalVars, left>>

Init ==
  /\ \E s \in Scenarios :
       /\ state = s.state /\ left = s.budget
       /\ InputsInit(s.down) /\ AtRestInit(s.secs) /\ DriveInit(s.rejected)
  /\ from = "none" /\ vstate = SystemStateOf(state)
  /\ pc = "idle" /\ target = "none" /\ queue = <<>>
  /\ at = [t \in Threads |-> "idle"] /\ arg = [t \in Threads |-> NoArg]
  /\ BlinkInit /\ HornInit

-----------------------------------------------------------------------------
(* The event loop: dispatch with the exit action, the move, the entry      *)
(* actions, the publication.                                               *)

OnlyLoop == UNCHANGED <<threadVars, inputVars, left>>

LeavesGroup(s) == state \in AtRestLeaves /\ s \notin AtRestLeaves

Dispatch ==
  /\ pc = "idle" /\ queue # <<>>
  /\ queue' = Tail(queue)
  /\ \E free \in SUBSET (GuardsFor(state, Head(queue)) \ ForcedGuards) :
       LET rows == Selected(state, Head(queue), free \cup (StandGuards \cap DriveGuards)) IN
       \/ /\ rows = {}
          /\ UNCHANGED <<pc, target, timer, counting, lapses, lost>>
       \/ \E row \in rows :
            /\ pc' = "move" /\ target' = row.to
            /\ IF LeavesGroup(row.to) THEN ExitAtRest ELSE UNCHANGED <<timer, counting, lapses>>
            /\ lost' = IF row.to = "ReadyToDrive" /\ reported["kickstand"]
                       THEN lost \cup {"bounce"} ELSE lost
  /\ OnlyLoop
  /\ UNCHANGED <<state, from, vstate, settingVars, fresh, deferral, rejected, signalVars>>

(* The group's entry action comes before the leaf's.                       *)
EntryOf(s, old) ==
  CASE s \in AtRestLeaves /\ old \notin AtRestLeaves -> "atRest"
    [] s = "ReadyToDrive"                            -> "drive"
    [] s = "Standby"                                 -> "dark"
    [] OTHER                                         -> "publish"

Move ==
  /\ pc = "move"
  /\ state' = target /\ from' = state /\ target' = "none"
  /\ pc' = EntryOf(target, state)
  /\ BlinkersPass
  /\ OnlyLoop /\ UNCHANGED <<vstate, queue, restVars, driveVars, hornVars>>

Entry(step, next) == pc = step /\ pc' = next /\ UNCHANGED <<state, from, vstate, target>>

EntryAtRest ==
  /\ Entry("atRest", IF from = "Standby" THEN "parked" ELSE "publish")
  /\ EnterAtRest
  /\ OnlyLoop /\ UNCHANGED <<queue, settingVars, driveVars, signalVars>>

EntryParked ==
  /\ Entry("parked", "publish")
  /\ BlinkersRestore
  /\ OnlyLoop /\ UNCHANGED <<queue, restVars, driveVars, hornVars>>

EntryDrive ==
  /\ Entry("drive", "publish")
  /\ EnterDrive
  /\ OnlyLoop /\ UNCHANGED <<restVars, signalVars>>

EntryStandby ==
  /\ Entry("dark", "publish")
  /\ BlinkersOff
  /\ OnlyLoop /\ UNCHANGED <<queue, restVars, driveVars, hornVars>>

(* OnStateChange.                                                          *)
Publish ==
  /\ pc = "publish" /\ pc' = "idle"
  /\ vstate' = SystemStateOf(state) /\ from' = "none"
  /\ OnlyLoop /\ UNCHANGED <<state, target, queue, restVars, driveVars, signalVars>>

LoopStep ==
  \/ Dispatch \/ Move \/ EntryAtRest \/ EntryParked \/ EntryDrive \/ EntryStandby \/ Publish

(* The timeout of the state the machine is in.                             *)
StateTimeout ==
  /\ pc = "idle"
  /\ \E e \in TimeoutOf(state) :
       /\ \A i \in DOMAIN queue : queue[i] # e
       /\ Send(e)
  /\ OnlyLoop
  /\ UNCHANGED <<state, from, vstate, pc, target, restVars, driveVars, signalVars>>

ExtSend ==
  /\ Len(queue) < MaxQueue /\ Spend("event")
  /\ \E e \in ExtEvents : Send(e)
  /\ UNCHANGED <<state, from, vstate, pc, target, threadVars, inputVars, restVars, driveVars,
                 signalVars>>

-----------------------------------------------------------------------------
OthersOfInputs == UNCHANGED <<machineVars, restVars, driveVars, signalVars>>

Inputting ==
  \/ InputStep /\ OthersOfInputs
  \/ World /\ OthersOfInputs
  \/ \E c \in Debounced : Settle(c) /\ OthersOfInputs

Resting == (RestHandler \/ TimerFires) /\ UNCHANGED <<inputVars, driveVars, signalVars>>

Driving ==
  /\ \/ DeferralFires \/ SecondPasses \/ MonitorTick
     \/ \E t \in InputThreads : KickStep(t)
  /\ UNCHANGED signalVars

Blinking ==
  /\ BlinkRequest \/ \E t \in InputThreads : BlinkStep(t)
  /\ UNCHANGED <<restVars, driveVars, hornVars>>

Honking ==
  /\ HornRequest \/ \E t \in InputThreads : HornStep(t)
  /\ UNCHANGED <<restVars, driveVars, blinkVars>>

Next == LoopStep \/ StateTimeout \/ ExtSend \/ Inputting \/ Resting \/ Driving \/ Blinking \/ Honking

Spec == Init /\ [][Next]_vars

(* What goroutine t does next; none of them waits for another for ever.    *)
Goes(t) ==
  \/ t = "monitor" /\ TakeEvent /\ OthersOfInputs
  \/ t = "power" /\ PowerRunning /\ OthersOfInputs
  \/ t \in ResyncThreads /\ Resync(t) /\ OthersOfInputs
  \/ KickStep(t) /\ UNCHANGED signalVars
  \/ BlinkStep(t) /\ UNCHANGED <<restVars, driveVars, hornVars>>
  \/ HornStep(t) /\ UNCHANGED <<restVars, driveVars, blinkVars>>

(* The goroutines of the inputs run on, the debounce timers expire, and    *)
(* pm-service publishes "running" after a suspend.                         *)
FairSpec ==
  /\ Spec
  /\ \A c \in Debounced : WF_vars(Settle(c) /\ OthersOfInputs)
  /\ \A t \in InputThreads : WF_vars(Goes(t))

-----------------------------------------------------------------------------
(* Properties.                                                             *)

(* Types of the variables.                                                 *)
TypeOK ==
  /\ state \in Leaves /\ from \in Leaves \cup {"none"} /\ vstate \in SystemStates
  /\ pc \in LoopSteps /\ target \in Leaves \cup {"none"}
  /\ queue \in Seq(Events)
  /\ at \in [Threads -> {"idle", "kickPublish", "kickSend", "blink", "horn"} \cup InputStepsOf \cup RestSteps]
  /\ arg \in [Threads -> [ch : Channels \cup {"none"}, val : BOOLEAN,
                          seen : Leaves \cup {"none"}]]
  /\ left \in [InputKinds -> Nat]
  /\ InputsTypeOK /\ AtRestTypeOK /\ DriveTypeOK /\ BlinkTypeOK /\ HornTypeOK

Settled ==
  /\ pc = "idle" /\ queue = <<>> /\ \A t \in Threads : at[t] = "idle"
  /\ InputsQuiet /\ ~deferral

(* A vehicle does not stay in drive mode on its kickstand: the event that  *)
(* says so may be deferred, queued or overtaken, but it arrives.  It is    *)
(* lost only when the callback of an earlier "up" stops the deferral, when *)
(* the publication before it fails, when the guard or the deferral's timer *)
(* looks at a bounce that is shorter than the debounce, or when a restart  *)
(* has restored the ride with the stand down already.                      *)
StandEndsDrive ==
  (Settled /\ state = "ReadyToDrive" /\ active["kickstand"] /\ reported["kickstand"])
    => lost # {}

(* A countdown that has begun ends: its timer is there to lock the         *)
(* vehicle, unless a handler that was overtaken, or the setting 0, has     *)
(* taken the timer away and left the flag, or the countdown began in the   *)
(* hold of a hibernation, where the timer's event is ignored.              *)
CountdownIsTimed ==
  (Settled /\ counting)
    => (timer = "keyless" \/ lapses \cap {"late", "hold", "setting", "raced"} # {})

(* The timer runs at rest only, unless a handler armed it after the exit   *)
(* that stopped it, or in the hold of a hibernation, which the handlers    *)
(* take for parked; then it is left to fire in another state.              *)
TimerOnlyAtRest ==
  (Settled /\ timer # "none")
    => (state \in AtRestLeaves \/ lapses \cap {"late", "hold"} # {})

(* A parked vehicle locks itself if nobody touches it (auto-standby).      *)
IdleVehicleLocks == (Settled /\ state = "Parked" /\ secs > 0) => timer # "none"

(* It does, if nothing stopped the timer during hop-on, or because of a    *)
(* setting that has changed since.                                         *)
IdleVehicleLocksUnless ==
  (Settled /\ state = "Parked" /\ secs > 0)
    => (timer # "none" \/ lapses \cap {"hopOn", "late", "copied"} # {})

(* In stand-by nothing blinks but what a command has asked for, and what a *)
(* switch that was let through just before has started.                    *)
StandbyIsDark ==
  (Settled /\ state = "Standby" /\ lamp # {}) => (by = "command" \/ "late" \in missed)

(* Where switches work the blinkers follow them, both of them, through     *)
(* stand-by and back, and through resyncs that race; an edge that was      *)
(* dropped in another state is made up for only by a restore from stand-by *)
(* to Parked, and stand-by left for an update is followed by no restore.   *)
BlinkersFollowSwitches ==
  (Settled /\ SwitchesWork(state) /\ by = "switch" /\ missed \subseteq {"late"}
     /\ \A c \in Switches : sure[c])
    => \A c \in Switches : c \in lamp <=> line[c]

(* The horn its button has started ends with the button, unless the        *)
(* release came in hop-on or stand-by, where it is dropped and the horn    *)
(* stays on, or was overtaken by the callback of the press.                *)
HornEndsWithButton ==
  (Settled /\ horn /\ blower = "button" /\ sure["horn"]) => (line["horn"] \/ deaf # {})
=============================================================================
