-------------------------------- MODULE Ride --------------------------------
(***************************************************************************)
(* The motor interlock: who may write the engine brake and the engine      *)
(* controller's power, and in which order.                                 *)
(*                                                                         *)
(* Three kinds of goroutine write these outputs:                           *)
(*   - the event loop of the machine, inside entry actions (pc), which     *)
(*     publishes v.state (vstate) only after the entry action returned;    *)
(*   - the brake lever callbacks (cb), one goroutine per debounced edge,   *)
(*     which choose the brake from a copy of v.state and write it later;   *)
(*   - Start() (main), which restores or declines the saved state and then *)
(*     engages the brake unless the machine drives.                        *)
(*                                                                         *)
(* Only the machine's own sends keep their identity in the queue: whatever *)
(* anybody else sends is "Ext", and becomes one of ExtEvents when it is    *)
(* dispatched.  Guards about parts that are not modelled here (seatbox,    *)
(* kickstand, battery, settings) take any value at every evaluation.       *)
(* The operator's "engine:on" and "engine:off" on scooter:hardware write   *)
(* engine_power whatever the state is and are not part of this module.     *)
(***************************************************************************)
EXTENDS VehicleFsm, Sequences

CONSTANTS
  Levers,         (* brake_left, brake_right                                   *)
  Callbacks,      (* goroutines that may run a lever callback at one time      *)
  SavedStates,    (* what Redis may hold as the saved state                    *)
  ExtEvents,      (* events other parts of the service send                    *)
  WriteOutcomes,  (* what a GPIO write may return: TRUE is success             *)
  CueOutcomes,    (* what PlayPwmCue may return                                *)
  ReadsBlock,     (* whether CurrentState() waits for a transition to finish   *)
  MaxQueue,       (* bound: no external send beyond this queue length          *)
  MaxEdges        (* bound: number of lever edges                              *)

(* What a restart may find: a leaf it restores, the shutdown it finishes,  *)
(* a state it must refuse, or nothing.                                     *)
SavedDomain == RestorableLeaves \cup {"ShuttingDown", "Refused", "None"}

ASSUME RideAssumption ==
  /\ SavedStates \subseteq SavedDomain
  /\ ExtEvents \subseteq Events
  /\ TRUE \in WriteOutcomes /\ WriteOutcomes \subseteq BOOLEAN
  /\ TRUE \in CueOutcomes /\ CueOutcomes \subseteq BOOLEAN
  /\ ReadsBlock \in BOOLEAN
  /\ MaxQueue \in Nat
  /\ MaxEdges \in Nat

VARIABLES
  main,      \* step of Start()
  saved,     \* what Redis held at boot
  state,     \* machine.currentState
  vstate,    \* v.state, the SystemState last published
  pc,        \* next step of the event loop
  bySet,     \* the entry action runs with c.Event = nil (Start, SetState)
  queue,     \* the machine's event queue
  brake,     \* engine_brake output: TRUE disables the motor
  power,     \* engine_power output
  faults,    \* vehicle:fault, the codes about these outputs
  effects,   \* fault updates EnterReadyToDrive defers to its join
  held,      \* lever reading of EnterReadyToDrive
  lever,     \* activeKeys of the brake channels
  reported,  \* lastReported of the brake channels
  cb,        \* lever callbacks in flight
  edges,     \* lever edges so far
  late,      \* history: the last brake write released it outside drive mode
  refused    \* history: why this drive entry sent itself back, if it did

machineVars == <<state, vstate, pc, bySet, queue>>
outputVars  == <<brake, power>>
faultVars   == <<faults, effects>>
inputVars   == <<lever, reported, cb, edges>>
vars == <<main, saved, machineVars, outputVars, faultVars, held, inputVars, late, refused>>

EnginePowerFault == "FaultEnginePowerOutput"
EngineBrakeFault == "FaultEngineBrakeOutput"
EcuHeldFault     == "FaultEcuHeldUnpowered"
Faults == {EnginePowerFault, EngineBrakeFault, EcuHeldFault}

Boot == {"start", "declineBrake", "declinePower", "restore"}
AfterBoot == {"check", "engage", "engaged", "engageFailed", "resume", "done"}

EntrySteps == {"parkBrake", "parkCut", "parkPower", "drivePower", "driveDash", "driveCheck",
               "driveHold", "driveHoldCut", "driveCut", "driveLevers", "driveBrake",
               "shutPower", "publish"}

Refusals == {"no", "condition", "dashboard"}

NoLever == "none"
IdleCallback == [pc |-> "idle", lever |-> NoLever, value |-> FALSE,
                 drive |-> FALSE, engage |-> FALSE]
CallbackRecords == [pc : {"idle", "gate", "sample", "read", "write", "report"},
                    lever : Levers \cup {NoLever}, value : BOOLEAN,
                    drive : BOOLEAN, engage : BOOLEAN]
NoEffects == [raise |-> {}, clear |-> {}]

(* Mutant: Parked powers the controller without touching the brake.        *)
EntryOfPowerFirst(s) ==
  CASE s = "Parked"       -> "parkPower"
    [] s = "ReadyToDrive" -> "drivePower"
    [] s = "ShuttingDown" -> "shutPower"
    [] OTHER              -> "publish"

(* The first step of the entry action of a leaf.                           *)
EntryOf(s) ==
  CASE s = "Parked"       -> "parkBrake"
    [] s = "ReadyToDrive" -> "drivePower"
    [] s = "ShuttingDown" -> "shutPower"
    [] OTHER              -> "publish"

(* GPIO initial values.  Nothing sets one for engine_brake, which comes up *)
(* released; engine_power comes up as the saved state had it, even when    *)
(* the restore of that state is going to be declined.                      *)
InitialPower(s) == s \in AtRestLeaves \cup {"ReadyToDrive"}

Init ==
  /\ main = "start"
  /\ saved \in SavedStates
  /\ state = InitialState /\ vstate = SystemStateOf(InitialState)
  /\ pc = EntryOf(InitialState) /\ bySet = TRUE
  /\ queue = <<>>
  /\ brake = FALSE /\ power = InitialPower(saved)
  /\ faults = {} /\ effects = NoEffects
  /\ held = FALSE
  /\ lever \in [Levers -> BOOLEAN] /\ reported = lever
  /\ cb = [g \in Callbacks |-> IdleCallback]
  /\ edges = 0 /\ late = FALSE /\ refused = "no"

-----------------------------------------------------------------------------
(* Outputs.  A failed write leaves the line as it was.                     *)

Written(old, value, ok) == IF ok THEN value ELSE old

(* The GPIO write of engine_brake; its fault report is a later step.       *)
WriteBrake(value, ok) ==
  /\ brake' = Written(brake, value, ok)
  /\ late' = Written(late, ~value /\ state # "ReadyToDrive", ok)

(* What the report of an output write does to the fault set.               *)
Report(code, ok) == [raise |-> IF ok THEN {} ELSE {code}, clear |-> IF ok THEN {code} ELSE {}]

(* setPower("engine_power", value): besides the output's own report, a     *)
(* successful power-up resolves the held-unpowered code.                   *)
PowerEffects(value, ok) ==
  [raise |-> Report(EnginePowerFault, ok).raise,
   clear |-> Report(EnginePowerFault, ok).clear \cup (IF value /\ ok THEN {EcuHeldFault} ELSE {})]

Both(fx, gx) == [raise |-> fx.raise \cup gx.raise, clear |-> fx.clear \cup gx.clear]

Apply(fs, fx) == (fs \ fx.clear) \cup fx.raise

-----------------------------------------------------------------------------
(* The event loop.                                                         *)

Goto(step) == pc' = step /\ UNCHANGED <<state, vstate, bySet, queue>>

(* Mutant: the Parked entry powers the controller whatever the brake did.  *)
ParkBrakeUnchecked ==
  /\ pc = "parkBrake"
  /\ \E ok \in WriteOutcomes : WriteBrake(TRUE, ok)
  /\ Goto("parkPower")
  /\ UNCHANGED <<main, saved, power, faultVars, held, inputVars, refused>>

(* EnterParked: brake first, power only behind a confirmed brake.          *)
ParkBrake ==
  /\ pc = "parkBrake"
  /\ \E ok \in WriteOutcomes :
       /\ WriteBrake(TRUE, ok)
       /\ Goto(IF ok THEN "parkPower" ELSE "parkCut")
  /\ UNCHANGED <<main, saved, power, faultVars, held, inputVars, refused>>

(* Mutant: the interlock raises no code of its own.                        *)
ParkCutSilent ==
  /\ pc = "parkCut"
  /\ \E ok \in WriteOutcomes :
       /\ power' = Written(power, FALSE, ok)
       /\ faults' = Apply(faults, Both(Report(EngineBrakeFault, FALSE), PowerEffects(FALSE, ok)))
  /\ Goto("publish")
  /\ UNCHANGED <<main, saved, brake, effects, held, inputVars, late, refused>>

(* Without a confirmed brake the controller is driven dark, and the code   *)
(* for that stands until the controller is powered again.                  *)
ParkCut ==
  /\ pc = "parkCut"
  /\ \E ok \in WriteOutcomes :
       /\ power' = Written(power, FALSE, ok)
       /\ faults' = Apply(faults, Both(Report(EngineBrakeFault, FALSE), PowerEffects(FALSE, ok)))
                    \cup {EcuHeldFault}
  /\ Goto("publish")
  /\ UNCHANGED <<main, saved, brake, effects, held, inputVars, late, refused>>

ParkPower ==
  /\ pc = "parkPower"
  /\ \E ok \in WriteOutcomes :
       /\ power' = Written(power, TRUE, ok)
       /\ faults' = Apply(faults, Both(Report(EngineBrakeFault, TRUE), PowerEffects(TRUE, ok)))
  /\ Goto("publish")
  /\ UNCHANGED <<main, saved, brake, effects, held, inputVars, late, refused>>

(* EnterReadyToDrive.  Fault updates wait for the join at the end.         *)
DrivePower ==
  /\ pc = "drivePower"
  /\ \E ok \in WriteOutcomes :
       /\ power' = Written(power, TRUE, ok)
       /\ effects' = PowerEffects(TRUE, ok)
  /\ Goto("driveDash")
  /\ UNCHANGED <<main, saved, brake, faults, held, inputVars, late, refused>>

(* Mutant: the refusal is remembered but nothing is sent.                  *)
RefuseDriveQuietly(why) ==
  /\ refused' = why
  /\ pc' = "publish"
  /\ UNCHANGED <<state, vstate, bySet, queue>>

(* Mutant: the refusal sends an event of the kickstand instead.            *)
RefuseDriveAsKickstand(why) ==
  /\ refused' = why
  /\ queue' = Append(queue, "KickstandDown")
  /\ pc' = "publish"
  /\ UNCHANGED <<state, vstate, bySet>>

(* A drive start that is refused sends DashboardNotReady to itself, which  *)
(* takes it back to Parked once it is dispatched.                          *)
RefuseDrive(why) ==
  /\ refused' = why
  /\ queue' = Append(queue, "DashboardNotReady")
  /\ pc' = "publish"
  /\ UNCHANGED <<state, vstate, bySet>>

(* The dashboard's rail could not be switched on: cut the controller.      *)
DriveDash ==
  /\ pc = "driveDash"
  /\ \E ok \in WriteOutcomes :
       Goto(IF ~ok THEN "driveCut" ELSE IF bySet THEN "driveLevers" ELSE "driveCheck")
  /\ UNCHANGED <<main, saved, outputVars, faultVars, held, inputVars, late, refused>>

(* Mutant: a failed cut reports only the power-up that preceded it.        *)
DriveCutHidden(ok) ==
  /\ power' = Written(power, FALSE, ok)
  /\ effects' = IF ok THEN PowerEffects(FALSE, TRUE) ELSE effects

(* After a cut the earlier power-up is not reported as resolved; after a   *)
(* failed cut it is.                                                       *)
DriveCutWith(ok) ==
  /\ power' = Written(power, FALSE, ok)
  /\ effects' = IF ok THEN PowerEffects(FALSE, TRUE)
                ELSE [raise |-> {EnginePowerFault}, clear |-> effects.clear]

DriveCut ==
  /\ pc = "driveCut"
  /\ \E ok \in WriteOutcomes : DriveCutWith(ok)
  /\ RefuseDrive("dashboard")
  /\ UNCHANGED <<main, saved, brake, faults, held, inputVars, late>>

(* Kickstand and battery are read again: either may have changed.          *)
DriveCheck ==
  /\ pc = "driveCheck"
  /\ \E admitted \in BOOLEAN : Goto(IF admitted THEN "driveLevers" ELSE "driveHold")
  /\ UNCHANGED <<main, saved, outputVars, faultVars, held, inputVars, late, refused>>

DriveHold ==
  /\ pc = "driveHold"
  /\ \/ /\ WriteBrake(TRUE, TRUE)
        /\ effects' = Both(effects, Report(EngineBrakeFault, TRUE))
        /\ RefuseDrive("condition")
        /\ UNCHANGED faults
     \/ /\ FALSE \in WriteOutcomes
        /\ WriteBrake(TRUE, FALSE)
        /\ Goto("driveHoldCut")
        /\ UNCHANGED <<faultVars, refused>>
  /\ UNCHANGED <<main, saved, power, held, inputVars>>

DriveHoldCut ==
  /\ pc = "driveHoldCut"
  /\ \E ok \in WriteOutcomes :
       /\ power' = Written(power, FALSE, ok)
       /\ effects' = Both(Report(EngineBrakeFault, FALSE),
                          IF ok THEN PowerEffects(FALSE, TRUE)
                          ELSE [raise |-> {EnginePowerFault}, clear |-> effects.clear])
  /\ RefuseDrive("condition")
  /\ UNCHANGED <<main, saved, brake, faults, held, inputVars, late>>

DriveLevers ==
  /\ pc = "driveLevers"
  /\ held' = (\E l \in Levers : lever[l])
  /\ Goto("driveBrake")
  /\ UNCHANGED <<main, saved, outputVars, faultVars, inputVars, late, refused>>

DriveBrake ==
  /\ pc = "driveBrake"
  /\ \E ok \in WriteOutcomes :
       /\ WriteBrake(held, ok)
       /\ effects' = Both(effects, Report(EngineBrakeFault, ok))
  /\ Goto("publish")
  /\ held' = FALSE
  /\ UNCHANGED <<main, saved, power, faults, inputVars, refused>>

(* Mutant: a failed power cut at shutdown is logged and not reported.      *)
ShutPowerSilent ==
  /\ pc = "shutPower"
  /\ \E ok \in WriteOutcomes :
       /\ power' = Written(power, FALSE, ok)
       /\ faults' = IF ok THEN Apply(faults, PowerEffects(FALSE, TRUE)) ELSE faults
  /\ Goto("publish")
  /\ UNCHANGED <<main, saved, brake, effects, held, inputVars, late, refused>>

(* EnterShuttingDown, as far as these outputs go; EnterStandby leaves the  *)
(* engine's outputs alone.                                                 *)
ShutPower ==
  /\ pc = "shutPower"
  /\ \E ok \in WriteOutcomes :
       /\ power' = Written(power, FALSE, ok)
       /\ faults' = Apply(faults, PowerEffects(FALSE, ok))
  /\ Goto("publish")
  /\ UNCHANGED <<main, saved, brake, effects, held, inputVars, late, refused>>

(* The entry action joins its effects and returns; then OnStateChange      *)
(* publishes the state and v.state catches up with the machine.            *)
Publish ==
  /\ pc = "publish"
  /\ vstate' = SystemStateOf(state)
  /\ faults' = Apply(faults, effects)
  /\ effects' = NoEffects
  /\ pc' = "idle"
  /\ UNCHANGED <<main, saved, state, bySet, queue, outputVars, held, inputVars, late, refused>>

(* currentState moves before the entry action of the new state runs.       *)
Enter(s, set) ==
  /\ state' = s
  /\ pc' = EntryOf(s)
  /\ bySet' = set
  /\ refused' = "no"
  /\ UNCHANGED <<saved, vstate, outputVars, faultVars, held, inputVars, late>>

(* No lever edge is settling or being handled.                             *)
HandsOff == lever = reported /\ \A g \in Callbacks : cb[g].pc = "idle"

(* What "Ext" may stand for: Redis commands are not read before Start()    *)
(* has returned.                                                           *)
Arriving(head) ==
  IF head # "Ext" THEN {head}
  ELSE IF main = "done" THEN ExtEvents
  ELSE ExtEvents \cap (InputEvents \cup TimerEvents)

(* The guards that hold now: unmodelled ones are free.                     *)
TrueGuards(free) ==
  { g \in free : g = "AreBrakesPressed" => \A l \in Levers : lever[l] }

Dispatch ==
  /\ pc = "idle" /\ main \in AfterBoot \cup {"restore"}
  /\ queue # <<>>
  /\ \E e \in Arriving(Head(queue)) : \E free \in SUBSET GuardsFor(state, e) :
       LET rows == Selected(state, e, TrueGuards(free)) IN
       \/ /\ rows = {}
          /\ UNCHANGED <<state, vstate, pc, bySet, outputVars, saved,
                         faultVars, held, inputVars, late, refused>>
       \/ \E t \in rows : Enter(t.to, FALSE)
  /\ queue' = Tail(queue)
  /\ UNCHANGED main

ExtSend ==
  /\ main \in AfterBoot /\ ExtEvents # {}
  /\ Len(queue) < MaxQueue
  /\ queue' = Append(queue, "Ext")
  /\ UNCHANGED <<main, saved, state, vstate, pc, bySet, outputVars, faultVars,
                 held, inputVars, late, refused>>

-----------------------------------------------------------------------------
(* Start().                                                                *)

MainStep(step) ==
  /\ main' = step
  /\ UNCHANGED <<saved, machineVars, held, inputVars, refused>>

(* restoreFSMState: a saved state that names a leaf is entered, a ride     *)
(* without a supply as Parked; one whose restore was already interrupted,  *)
(* and one that may not be restored, are declined.  SetState returns no    *)
(* error here: the leaf is one of the definition's, and no entry action    *)
(* returns one.                                                            *)
Restore ==
  /\ main = "start" /\ pc = "idle"
  /\ saved \in RestorableLeaves
  /\ \E s \in {saved} \cup (IF saved = "ReadyToDrive" THEN {"Parked"} ELSE {}) : Enter(s, TRUE)
  /\ main' = "restore"
  /\ UNCHANGED queue

NothingToRestore ==
  /\ main = "start" /\ pc = "idle"
  /\ saved \in {"None", "ShuttingDown"}
  /\ MainStep("restore")
  /\ UNCHANGED <<outputVars, faultVars, late>>

Decline ==
  /\ main = "start" /\ pc = "idle"
  /\ saved \in RestorableLeaves \cup {"Refused"}
  /\ MainStep("declineBrake")
  /\ UNCHANGED <<outputVars, faultVars, late>>

(* assertMotorSafeOutputs: brake, then power, whatever the brake did.      *)
DeclineBrake ==
  /\ main = "declineBrake"
  /\ \E ok \in WriteOutcomes :
       /\ WriteBrake(TRUE, ok)
       /\ faults' = Apply(faults, Report(EngineBrakeFault, ok))
  /\ MainStep("declinePower")
  /\ UNCHANGED <<power, effects>>

DeclinePower ==
  /\ main = "declinePower"
  /\ \E ok \in WriteOutcomes :
       /\ power' = Written(power, FALSE, ok)
       /\ faults' = Apply(faults, PowerEffects(FALSE, ok))
  /\ MainStep("restore")
  /\ UNCHANGED <<brake, effects, late>>

(* SetState has returned: the input callbacks are registered.              *)
Register ==
  /\ main = "restore" /\ pc = "idle"
  /\ MainStep("check")
  /\ UNCHANGED <<outputVars, faultVars, late>>

CanReadState == ReadsBlock => pc = "idle"

StartCheck ==
  /\ main = "check" /\ CanReadState
  /\ MainStep(IF state = "ReadyToDrive" THEN "resume" ELSE "engage")
  /\ UNCHANGED <<outputVars, faultVars, late>>

StartEngage ==
  /\ main = "engage"
  /\ \E ok \in WriteOutcomes :
       /\ WriteBrake(TRUE, ok)
       /\ MainStep(IF ok THEN "engaged" ELSE "engageFailed")
  /\ UNCHANGED <<power, faultVars>>

StartReport ==
  /\ main \in {"engaged", "engageFailed"}
  /\ faults' = Apply(faults, Report(EngineBrakeFault, main = "engaged"))
  /\ MainStep("resume")
  /\ UNCHANGED <<outputVars, effects, late>>

(* A shutdown that the restart interrupted is entered again.               *)
Resume ==
  /\ main = "resume" /\ pc = "idle"
  /\ main' = "done"
  /\ IF saved = "ShuttingDown" /\ state \notin {"ReadyToDrive", "Parked"}
     THEN Enter("ShuttingDown", TRUE) /\ UNCHANGED queue
     ELSE UNCHANGED <<saved, machineVars, outputVars, faultVars, held, inputVars, late, refused>>

-----------------------------------------------------------------------------
(* The brake levers.                                                       *)

(* A raw edge: activeKeys changes at once, the callback waits for the      *)
(* debounce.                                                               *)
LeverEdge(l) ==
  /\ edges < MaxEdges
  /\ edges' = edges + 1
  /\ lever' = [lever EXCEPT ![l] = ~@]
  /\ UNCHANGED <<main, saved, machineVars, outputVars, faultVars, held, reported, cb,
                 late, refused>>

(* The debounce settles on a value not reported yet: its callback starts,  *)
(* or is lost when no callback is registered yet.                          *)
LeverSettles(g, l) ==
  /\ lever[l] # reported[l] /\ cb[g].pc = "idle"
  /\ reported' = [reported EXCEPT ![l] = lever[l]]
  /\ cb' = IF main \in Boot THEN cb
           ELSE [cb EXCEPT ![g] = [IdleCallback EXCEPT !.pc = "gate", !.lever = l,
                                                       !.value = lever[l]]]
  /\ UNCHANGED <<main, saved, machineVars, outputVars, faultVars, held, lever, edges,
                 late, refused>>

OnlyCallback ==
  UNCHANGED <<main, saved, machineVars, power, effects, held, lever, reported, edges, refused>>

(* Hop-on and stand-by ignore the lever.                                   *)
LeverGate(g) ==
  /\ cb[g].pc = "gate" /\ CanReadState
  /\ cb' = [cb EXCEPT ![g] = IF state \in {"HopOn", "HopOnLearning", "Standby"}
                             THEN IdleCallback ELSE [@ EXCEPT !.pc = "sample"]]
  /\ OnlyCallback /\ UNCHANGED <<brake, faults, late>>

(* v.state is copied under v.mu and used after the lock is gone.           *)
LeverSample(g) ==
  /\ cb[g].pc = "sample"
  /\ cb' = [cb EXCEPT ![g].pc = "read", ![g].drive = (vstate = "ready-to-drive")]
  /\ OnlyCallback /\ UNCHANGED <<brake, faults, late>>

(* Both levers are read and the light cue is played: the on-cue for the    *)
(* first lever (a menu may mute it), the off-cue for the last.  A cue that *)
(* fails ends the callback.                                                *)
LeverRead(g) ==
  LET c      == cb[g]
      either == \E l \in Levers : lever[l]
      cued   == IF c.value THEN ~\E l \in Levers \ {c.lever} : lever[l] ELSE ~either IN
  /\ c.pc = "read"
  /\ \E ok \in CueOutcomes :
       cb' = [cb EXCEPT ![g] = IF cued /\ ~ok THEN IdleCallback
                               ELSE [c EXCEPT !.pc = "write", !.engage = (c.drive => either)]]
  /\ OnlyCallback /\ UNCHANGED <<brake, faults, late>>

LeverWrite(g) ==
  /\ cb[g].pc = "write"
  /\ \E ok \in WriteOutcomes :
       /\ WriteBrake(cb[g].engage, ok)
       /\ cb' = [cb EXCEPT ![g] = [IdleCallback EXCEPT !.pc = "report", !.value = ok]]
  /\ OnlyCallback /\ UNCHANGED faults

(* The report ends the part of the callback modelled here; the brake       *)
(* events it then sends are among the external ones.                       *)
LeverReport(g) ==
  /\ cb[g].pc = "report"
  /\ faults' = Apply(faults, Report(EngineBrakeFault, cb[g].value))
  /\ cb' = [cb EXCEPT ![g] = IdleCallback]
  /\ OnlyCallback /\ UNCHANGED <<brake, late>>

-----------------------------------------------------------------------------
EntryAction ==
  \/ ParkBrake \/ ParkCut \/ ParkPower
  \/ DrivePower \/ DriveDash \/ DriveCut \/ DriveCheck \/ DriveHold \/ DriveHoldCut
  \/ DriveLevers \/ DriveBrake
  \/ ShutPower \/ Publish

StartStep ==
  \/ Restore \/ NothingToRestore \/ Decline \/ DeclineBrake \/ DeclinePower
  \/ Register \/ StartCheck \/ StartEngage \/ StartReport \/ Resume

LeverCallback(g) ==
  \/ \E l \in Levers : LeverSettles(g, l)
  \/ LeverGate(g) \/ LeverSample(g) \/ LeverRead(g) \/ LeverWrite(g) \/ LeverReport(g)

Next ==
  \/ EntryAction
  \/ Dispatch
  \/ ExtSend
  \/ StartStep
  \/ \E l \in Levers : LeverEdge(l)
  \/ \E g \in Callbacks : LeverCallback(g)

Spec == Init /\ [][Next]_vars

(* The event loop is a goroutine that never stops serving its queue.       *)
FairSpec == Spec /\ WF_vars(EntryAction) /\ WF_vars(Dispatch) /\ WF_vars(StartStep)

-----------------------------------------------------------------------------
(* Properties.                                                             *)

(* Types of the variables.                                                 *)
TypeOK ==
  /\ main \in Boot \cup AfterBoot
  /\ saved \in SavedStates
  /\ state \in Leaves /\ vstate \in SystemStates
  /\ pc \in EntrySteps \cup {"idle"} /\ bySet \in BOOLEAN
  /\ queue \in Seq({"Ext", "DashboardNotReady"})
  /\ brake \in BOOLEAN /\ power \in BOOLEAN
  /\ faults \in SUBSET Faults
  /\ effects \in [raise : SUBSET Faults, clear : SUBSET Faults]
  /\ held \in BOOLEAN
  /\ lever \in [Levers -> BOOLEAN] /\ reported \in [Levers -> BOOLEAN]
  /\ cb \in [Callbacks -> CallbackRecords]
  /\ edges \in 0..MaxEdges
  /\ late \in BOOLEAN /\ refused \in Refusals

(* A locked vehicle whose controller still has power says so: once the     *)
(* entry into shutting-down or stand-by has returned, a powered engine     *)
(* rail stands in the fault set, through every boot and every later        *)
(* rewrite of that code (EnterShuttingDown, assertMotorSafeOutputs).       *)
LockedIsDark ==
  (state \in {"Standby", "ShuttingDown"} /\ pc = "idle" /\ power)
    => (EnginePowerFault \in faults \/ main \in Boot)

(* A parked vehicle never sits with a dark controller and an empty fault   *)
(* set, although the brake fault that darkened it clears with the next     *)
(* lever edge that succeeds (EnterParked's comment on FaultEcuHeldUnpowered). *)
DarkEcuIsReported ==
  (state = "Parked" /\ pc = "idle" /\ ~power)
    => {EnginePowerFault, EcuHeldFault} \cap faults # {}

(* Parked, a controller with power means a confirmed brake, or a power     *)
(* write that failed and is reported; only a lever callback that decided   *)
(* before the machine left drive mode can have undone it.                  *)
ParkedInterlock ==
  (state = "Parked" /\ pc = "idle" /\ power /\ ~brake)
    => (late \/ EnginePowerFault \in faults)

(* The same in every leaf outside drive mode once Start() has finished,    *)
(* where the restored leaves whose entry writes no brake rely on the       *)
(* engage in Start() or on its fault report.                               *)
InterlockHolds ==
  (state # "ReadyToDrive" /\ pc = "idle" /\ main = "done" /\ power /\ ~brake)
    => (late \/ {EnginePowerFault, EngineBrakeFault} \cap faults # {})

(* The controller is never switched on outside drive mode over a brake     *)
(* that was not engaged first (EnterParked: brake before power).           *)
PoweredAfterBrake ==
  [][ (power' /\ ~power /\ state # "ReadyToDrive") => (brake \/ late) ]_vars

(* A drive entry whose dashboard rail could not be switched on does not    *)
(* leave the controller powered, unless the cut failed too and is          *)
(* reported, whatever order its deferred effects take at the join.         *)
DarkDashboardEntry ==
  (state = "ReadyToDrive" /\ pc = "idle" /\ refused = "dashboard")
    => (~power \/ EnginePowerFault \in faults)

(* Nothing about the levers or the machine is under way.                   *)
Settled == main = "done" /\ pc = "idle" /\ HandsOff

(* In drive mode a lever that is held brakes the motor (handleInputChange: *)
(* "In READY_TO_DRIVE: follows brake levers (enable if either pressed)").  *)
HeldLeverBrakes ==
  (Settled /\ state = "ReadyToDrive" /\ \E l \in Levers : lever[l]) => brake

(* Parked, the motor is disabled once every lever callback has finished.   *)
ParkedBrakeEngaged ==
  (Settled /\ state = "Parked") => brake

(* The event with which a drive entry refuses itself is on its way as long *)
(* as the drive lasts: none of the events that go first, and no restore,   *)
(* takes it away and leaves the machine in drive mode (EnterReadyToDrive   *)
(* sends EvDashboardNotReady and returns).                                 *)
RefusalIsQueued ==
  refused # "no" => \E i \in DOMAIN queue : queue[i] = "DashboardNotReady"

(* A refused drive start does not stay in drive mode: the event it sent    *)
(* itself is dispatched behind whatever was queued before it.              *)
RefusedDriveEnds == refused # "no" ~> state # "ReadyToDrive"
=============================================================================
