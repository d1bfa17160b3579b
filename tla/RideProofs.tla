------------------------------ MODULE RideProofs ------------------------------
(***************************************************************************)
(* The safety of the motor interlock for every number of levers and lever  *)
(* callbacks, every set of external events and every outcome of a write.   *)
(***************************************************************************)
EXTENDS Ride, FsmProofs

(* Each entry action runs in the leaf it belongs to, and only drive mode   *)
(* leaves fault updates for its join.                                      *)
EntryInLeaf ==
  /\ pc \in {"parkBrake", "parkCut", "parkPower"} => state = "Parked"
  /\ pc = "shutPower" => state = "ShuttingDown"
  /\ pc \in {"drivePower", "driveDash", "driveCut", "driveCheck", "driveHold",
             "driveHoldCut", "driveLevers", "driveBrake"} => state = "ReadyToDrive"
  /\ (pc = "idle" \/ state # "ReadyToDrive") => effects = NoEffects

(* The boot runs in stand-by until it restores a leaf.                     *)
BootInStandby ==
  main \in {"start", "declineBrake", "declinePower"}
    => state = "Standby" /\ pc \in {"publish", "idle"}

BootPower == main = "start" => power = InitialPower(saved)

(* A locked leaf without power, or with the failure in the fault set.      *)
DarkOrReported ==
  ( /\ state \in {"Standby", "ShuttingDown"} /\ pc # "shutPower"
    /\ main \notin {"start", "declineBrake", "declinePower"} )
    => (~power \/ EnginePowerFault \in faults)

EcuReported ==
  (state = "Parked" /\ pc \in {"publish", "idle"} /\ ~power)
    => (EnginePowerFault \in faults \/ EcuHeldFault \in faults)

(* Between the brake write of the Parked entry and its power write.        *)
BrakeBeforePower == pc = "parkPower" => (brake \/ late)

ParkedOrdered ==
  (state = "Parked" /\ pc \in {"publish", "idle"} /\ power /\ ~brake)
    => (late \/ EnginePowerFault \in faults)

(* What a refused drive entry leaves for its join, and what the join made  *)
(* of it.                                                                  *)
RefusalDark ==
  refused = "dashboard" =>
    /\ pc = "publish" => (~power \/ EnginePowerFault \in effects.raise)
    /\ pc = "idle" => (~power \/ EnginePowerFault \in faults)

RefusalAtEnd == refused # "no" => pc \in {"publish", "idle"} /\ state = "ReadyToDrive"

-----------------------------------------------------------------------------
(* Fault sets.                                                             *)

(* A fault report raises or clears codes of these outputs only.            *)
LEMMA ReportType ==
  \A code \in Faults, ok \in BOOLEAN :
    Report(code, ok) \in [raise : SUBSET Faults, clear : SUBSET Faults]
  BY DEF Report

(* So does the report of a power write.                                    *)
LEMMA PowerEffectsType ==
  \A value, ok \in BOOLEAN :
    PowerEffects(value, ok) \in [raise : SUBSET Faults, clear : SUBSET Faults]
  BY DEF PowerEffects, Report, Faults

(* So do two reports joined.                                               *)
LEMMA BothType ==
  \A fx, gx \in [raise : SUBSET Faults, clear : SUBSET Faults] :
    Both(fx, gx) \in [raise : SUBSET Faults, clear : SUBSET Faults]
  BY DEF Both

(* Applied to a fault set they leave a fault set.                          *)
LEMMA ApplyType ==
  \A fs \in SUBSET Faults, fx \in [raise : SUBSET Faults, clear : SUBSET Faults] :
    Apply(fs, fx) \in SUBSET Faults
  BY DEF Apply

(* The report of a brake write leaves the other codes alone.               *)
LEMMA BrakeReportKeeps ==
  \A fs, ok : \A code \in {EnginePowerFault, EcuHeldFault} :
    code \in Apply(fs, Report(EngineBrakeFault, ok)) <=> code \in fs
  BY DEF Apply, Report, EnginePowerFault, EngineBrakeFault, EcuHeldFault

(* The report of a power write tells whether it failed.                    *)
LEMMA PowerReport ==
  \A fs : \A value, ok \in BOOLEAN :
    EnginePowerFault \in Apply(fs, PowerEffects(value, ok)) <=> ~ok
  BY DEF Apply, PowerEffects, Report, EnginePowerFault, EcuHeldFault

-----------------------------------------------------------------------------
(* Types.                                                                  *)

FaultUpdates == [raise : SUBSET Faults, clear : SUBSET Faults]

(* The four facts above, over the named set of updates.                    *)
LEMMA FaultTypes ==
  /\ NoEffects \in FaultUpdates
  /\ \A code \in Faults, ok \in BOOLEAN : Report(code, ok) \in FaultUpdates
  /\ \A value, ok \in BOOLEAN : PowerEffects(value, ok) \in FaultUpdates
  /\ \A fx, gx \in FaultUpdates : Both(fx, gx) \in FaultUpdates
  /\ \A fs \in SUBSET Faults, fx \in FaultUpdates : Apply(fs, fx) \in SUBSET Faults
  /\ Faults = {EnginePowerFault, EngineBrakeFault, EcuHeldFault}
  BY ReportType, PowerEffectsType, BothType, ApplyType DEF FaultUpdates, NoEffects, Faults

(* A write or a cue succeeds or fails.                                     *)
LEMMA OutcomesAreBoolean == WriteOutcomes \subseteq BOOLEAN /\ CueOutcomes \subseteq BOOLEAN
  BY RideAssumption

(* An output stays Boolean whatever is written to it.                      *)
LEMMA WrittenType == \A old, value, ok \in BOOLEAN : Written(old, value, ok) \in BOOLEAN
  BY DEF Written

(* So do the brake and the history of its last write.                      *)
LEMMA WriteBrakeType ==
  ASSUME brake \in BOOLEAN, late \in BOOLEAN, NEW value \in BOOLEAN, NEW ok \in BOOLEAN,
         WriteBrake(value, ok)
  PROVE  brake' \in BOOLEAN /\ late' \in BOOLEAN
<1> (~value /\ state # "ReadyToDrive") \in BOOLEAN
  OBVIOUS
<1> QED
  BY WrittenType DEF WriteBrake

(* The variables each actor owns, typed apart.                             *)
MachineTypes ==
  /\ state \in Leaves /\ vstate \in SystemStates
  /\ pc \in EntrySteps \cup {"idle"} /\ bySet \in BOOLEAN
  /\ queue \in Seq({"Ext", "DashboardNotReady"})
  /\ refused \in Refusals
OutputTypes == brake \in BOOLEAN /\ power \in BOOLEAN /\ late \in BOOLEAN
FaultTyping == faults \in SUBSET Faults /\ effects \in FaultUpdates
InputTypes ==
  /\ lever \in [Levers -> BOOLEAN] /\ reported \in [Levers -> BOOLEAN]
  /\ cb \in [Callbacks -> CallbackRecords]
  /\ edges \in 0..MaxEdges
  /\ held \in BOOLEAN
MainTypes == main \in Boot \cup AfterBoot /\ saved \in SavedStates

(* TypeOK is the five parts together, before and after a step.             *)
LEMMA TypeParts ==
  /\ TypeOK <=> (MachineTypes /\ OutputTypes /\ FaultTyping /\ InputTypes /\ MainTypes)
  /\ TypeOK' <=> (MachineTypes' /\ OutputTypes' /\ FaultTyping' /\ InputTypes' /\ MainTypes')
  BY DEF TypeOK, MachineTypes, OutputTypes, FaultTyping, InputTypes, MainTypes, FaultUpdates

(* The boot starts well typed.                                             *)
LEMMA TypeInit == Init => TypeOK
<1> SUFFICES ASSUME Init PROVE TypeOK
  OBVIOUS
<1>1. MachineTypes
  BY DEF Init, MachineTypes, InitialState, EntryOf, EntrySteps, Leaves, SystemStates, Refusals
<1>2. OutputTypes
  <2>1. InitialPower(saved) \in BOOLEAN
    BY DEF InitialPower
  <2> QED
    BY <2>1 DEF Init, OutputTypes
<1>3. FaultTyping
  BY FaultTypes DEF Init, FaultTyping
<1>4. InputTypes
  <2>1. IdleCallback \in CallbackRecords
    BY DEF IdleCallback, CallbackRecords
  <2>2. 0 \in 0..MaxEdges
    BY RideAssumption
  <2> QED
    BY <2>1, <2>2 DEF Init, InputTypes
<1>5. MainTypes
  BY DEF Init, MainTypes, Boot
<1> QED
  BY <1>1, <1>2, <1>3, <1>4, <1>5, TypeParts

(* One step of the event loop inside an entry action.                      *)
LEMMA EntryTypes ==
  ASSUME TypeOK, EntryAction
  PROVE  TypeOK'
<1> USE DEF MachineTypes, OutputTypes, FaultTyping, InputTypes, MainTypes
<1>0. MachineTypes /\ OutputTypes /\ FaultTyping /\ InputTypes /\ MainTypes
  BY TypeParts
<1>1. CASE ParkBrake
  <2>1. PICK ok \in BOOLEAN : WriteBrake(TRUE, ok) /\ Goto(IF ok THEN "parkPower" ELSE "parkCut")
    BY <1>1, OutcomesAreBoolean DEF ParkBrake
  <2>2. brake' \in BOOLEAN /\ late' \in BOOLEAN
    BY <1>0, <2>1, WriteBrakeType
  <2>3. MachineTypes'
    BY <1>0, <1>1, <2>1 DEF ParkBrake, Goto, EntrySteps
  <2> QED
    BY <1>0, <1>1, <2>2, <2>3, TypeParts DEF ParkBrake, faultVars, inputVars
<1>2. CASE ParkCut
  <2>1. PICK ok \in BOOLEAN :
          /\ power' = Written(power, FALSE, ok)
          /\ faults' = Apply(faults, Both(Report(EngineBrakeFault, FALSE), PowerEffects(FALSE, ok)))
                       \cup {EcuHeldFault}
    BY <1>2, OutcomesAreBoolean DEF ParkCut
  <2>2. power' \in BOOLEAN
    BY <1>0, <2>1, WrittenType
  <2>3. faults' \in SUBSET Faults
    BY <1>0, <2>1, FaultTypes
  <2> QED
    BY <1>0, <1>2, <2>2, <2>3, TypeParts DEF ParkCut, Goto, EntrySteps, inputVars
<1>3. CASE ParkPower
  <2>1. PICK ok \in BOOLEAN :
          /\ power' = Written(power, TRUE, ok)
          /\ faults' = Apply(faults, Both(Report(EngineBrakeFault, TRUE), PowerEffects(TRUE, ok)))
    BY <1>3, OutcomesAreBoolean DEF ParkPower
  <2>2. power' \in BOOLEAN
    BY <1>0, <2>1, WrittenType
  <2>3. faults' \in SUBSET Faults
    BY <1>0, <2>1, FaultTypes
  <2> QED
    BY <1>0, <1>3, <2>2, <2>3, TypeParts DEF ParkPower, Goto, EntrySteps, inputVars
<1>4. CASE DrivePower
  <2>1. PICK ok \in BOOLEAN : power' = Written(power, TRUE, ok) /\ effects' = PowerEffects(TRUE, ok)
    BY <1>4, OutcomesAreBoolean DEF DrivePower
  <2>2. power' \in BOOLEAN /\ effects' \in FaultUpdates
    BY <1>0, <2>1, WrittenType, FaultTypes
  <2> QED
    BY <1>0, <1>4, <2>2, TypeParts DEF DrivePower, Goto, EntrySteps, inputVars
<1>5. CASE DriveDash
  BY <1>0, <1>5, OutcomesAreBoolean, TypeParts
     DEF DriveDash, Goto, EntrySteps, inputVars, outputVars, faultVars
<1>6. CASE DriveCut
  <2>1. PICK ok \in BOOLEAN : DriveCutWith(ok)
    BY <1>6, OutcomesAreBoolean DEF DriveCut
  <2>2. power' \in BOOLEAN
    BY <1>0, <2>1, WrittenType DEF DriveCutWith
  <2>3. effects' \in FaultUpdates
    BY <1>0, <2>1, FaultTypes DEF DriveCutWith, FaultUpdates
  <2>4. MachineTypes'
    BY <1>0, <1>6 DEF DriveCut, RefuseDrive, EntrySteps, Refusals
  <2> QED
    BY <1>0, <1>6, <2>2, <2>3, <2>4, TypeParts DEF DriveCut, inputVars
<1>7. CASE DriveCheck
  BY <1>0, <1>7, TypeParts DEF DriveCheck, Goto, EntrySteps, inputVars, outputVars, faultVars
<1>8. CASE DriveHold
  <2>1. CASE WriteBrake(TRUE, TRUE) /\ effects' = Both(effects, Report(EngineBrakeFault, TRUE))
             /\ RefuseDrive("condition") /\ UNCHANGED faults
    <3>1. brake' \in BOOLEAN /\ late' \in BOOLEAN
      BY <1>0, <2>1, WriteBrakeType
    <3>2. effects' \in FaultUpdates
      BY <1>0, <2>1, FaultTypes
    <3>3. MachineTypes'
      BY <1>0, <2>1 DEF RefuseDrive, EntrySteps, Refusals
    <3> QED
      BY <1>0, <1>8, <2>1, <3>1, <3>2, <3>3, TypeParts DEF DriveHold, inputVars
  <2>2. CASE WriteBrake(TRUE, FALSE) /\ Goto("driveHoldCut") /\ UNCHANGED <<faultVars, refused>>
    <3>1. brake' \in BOOLEAN /\ late' \in BOOLEAN
      BY <1>0, <2>2, WriteBrakeType
    <3>2. MachineTypes'
      BY <1>0, <2>2 DEF Goto, EntrySteps
    <3> QED
      BY <1>0, <1>8, <2>2, <3>1, <3>2, TypeParts DEF DriveHold, inputVars, faultVars
  <2> QED
    BY <1>8, <2>1, <2>2 DEF DriveHold
<1>9. CASE DriveHoldCut
  <2>1. PICK ok \in BOOLEAN :
          /\ power' = Written(power, FALSE, ok)
          /\ effects' = Both(Report(EngineBrakeFault, FALSE),
                             IF ok THEN PowerEffects(FALSE, TRUE)
                             ELSE [raise |-> {EnginePowerFault}, clear |-> effects.clear])
    BY <1>9, OutcomesAreBoolean DEF DriveHoldCut
  <2>2. power' \in BOOLEAN
    BY <1>0, <2>1, WrittenType
  <2>3. [raise |-> {EnginePowerFault}, clear |-> effects.clear] \in FaultUpdates
    BY <1>0, FaultTypes DEF FaultUpdates
  <2>4. effects' \in FaultUpdates
    BY <2>1, <2>3, FaultTypes
  <2>5. MachineTypes'
    BY <1>0, <1>9 DEF DriveHoldCut, RefuseDrive, EntrySteps, Refusals
  <2> QED
    BY <1>0, <1>9, <2>2, <2>4, <2>5, TypeParts DEF DriveHoldCut, inputVars
<1>10. CASE DriveLevers
  <2>1. (\E l \in Levers : lever[l]) \in BOOLEAN
    OBVIOUS
  <2> QED
    BY <1>0, <1>10, <2>1, TypeParts
       DEF DriveLevers, Goto, EntrySteps, inputVars, outputVars, faultVars
<1>11. CASE DriveBrake
  <2>1. PICK ok \in BOOLEAN :
          WriteBrake(held, ok) /\ effects' = Both(effects, Report(EngineBrakeFault, ok))
    BY <1>11, OutcomesAreBoolean DEF DriveBrake
  <2>2. brake' \in BOOLEAN /\ late' \in BOOLEAN
    BY <1>0, <2>1, WriteBrakeType
  <2>3. effects' \in FaultUpdates
    BY <1>0, <2>1, FaultTypes
  <2> QED
    BY <1>0, <1>11, <2>2, <2>3, TypeParts DEF DriveBrake, Goto, EntrySteps, inputVars
<1>12. CASE ShutPower
  <2>1. PICK ok \in BOOLEAN :
          power' = Written(power, FALSE, ok) /\ faults' = Apply(faults, PowerEffects(FALSE, ok))
    BY <1>12, OutcomesAreBoolean DEF ShutPower
  <2>2. power' \in BOOLEAN /\ faults' \in SUBSET Faults
    BY <1>0, <2>1, WrittenType, FaultTypes
  <2> QED
    BY <1>0, <1>12, <2>2, TypeParts DEF ShutPower, Goto, EntrySteps, inputVars
<1>13. CASE Publish
  <2>1. faults' \in SUBSET Faults /\ effects' \in FaultUpdates
    BY <1>0, <1>13, FaultTypes DEF Publish
  <2> QED
    BY <1>0, <1>13, <2>1, TypeParts DEF Publish, SystemStates, inputVars, outputVars
<1> QED
  BY <1>1, <1>2, <1>3, <1>4, <1>5, <1>6, <1>7, <1>8, <1>9, <1>10, <1>11, <1>12, <1>13
     DEF EntryAction

(* Entering a leaf keeps the types.                                        *)
LEMMA EnterTypes ==
  ASSUME TypeOK, NEW s \in Leaves, NEW set \in BOOLEAN, Enter(s, set), queue' \in Seq({"Ext", "DashboardNotReady"}),
         main' \in Boot \cup AfterBoot
  PROVE  TypeOK'
<1>1. EntryOf(s) \in EntrySteps
  BY DEF EntryOf, EntrySteps
<1>2. MachineTypes'
  BY <1>1, TypeParts DEF Enter, MachineTypes, Refusals
<1> QED
  BY <1>2, TypeParts DEF Enter, OutputTypes, FaultTyping, InputTypes, MainTypes,
     outputVars, faultVars, inputVars

(* The event loop keeps the types: every row leads to a leaf.              *)
LEMMA DispatchTypes ==
  ASSUME TypeOK, Dispatch
  PROVE  TypeOK'
<1>1. queue' \in Seq({"Ext", "DashboardNotReady"})
  BY DEF Dispatch, TypeOK
<1>2. CASE UNCHANGED <<state, vstate, pc, bySet, outputVars, saved, faultVars, held, inputVars,
                       late, refused>>
  BY <1>1, <1>2, TypeParts DEF Dispatch, MachineTypes, OutputTypes, FaultTyping, InputTypes,
     MainTypes, outputVars, faultVars, inputVars
<1>3. CASE \E t \in Table : t.to \in Leaves /\ Enter(t.to, FALSE)
  <2>1. main' \in Boot \cup AfterBoot
    BY DEF Dispatch, TypeOK
  <2> QED
    BY <1>1, <1>3, <2>1, EnterTypes
<1> QED
  BY <1>2, <1>3, SelectedRows, RowsReachLeaves DEF Dispatch

(* Start() keeps the types.                                                *)
LEMMA StartTypes ==
  ASSUME TypeOK, StartStep
  PROVE  TypeOK'
<1> USE DEF MachineTypes, OutputTypes, FaultTyping, InputTypes, MainTypes, Boot, AfterBoot
<1>0. MachineTypes /\ OutputTypes /\ FaultTyping /\ InputTypes /\ MainTypes
  BY TypeParts
<1>1. CASE Restore
  <2>1. RestorableLeaves \subseteq Leaves /\ "Parked" \in Leaves
    BY RestorableAreLeaves DEF Leaves, AtRestLeaves
  <2>2. PICK s \in Leaves : Enter(s, TRUE)
    BY <1>1, <2>1 DEF Restore
  <2> QED
    BY <1>0, <1>1, <2>2, EnterTypes DEF Restore
<1>2. CASE NothingToRestore
  BY <1>0, <1>2, TypeParts DEF NothingToRestore, MainStep, machineVars, outputVars, faultVars, inputVars
<1>3. CASE Decline
  BY <1>0, <1>3, TypeParts DEF Decline, MainStep, machineVars, outputVars, faultVars, inputVars
<1>4. CASE DeclineBrake
  <2>1. PICK ok \in BOOLEAN :
          WriteBrake(TRUE, ok) /\ faults' = Apply(faults, Report(EngineBrakeFault, ok))
    BY <1>4, OutcomesAreBoolean DEF DeclineBrake
  <2>2. brake' \in BOOLEAN /\ late' \in BOOLEAN
    BY <1>0, <2>1, WriteBrakeType
  <2>3. faults' \in SUBSET Faults
    BY <1>0, <2>1, FaultTypes
  <2> QED
    BY <1>0, <1>4, <2>2, <2>3, TypeParts DEF DeclineBrake, MainStep, machineVars, inputVars
<1>5. CASE DeclinePower
  <2>1. PICK ok \in BOOLEAN :
          power' = Written(power, FALSE, ok) /\ faults' = Apply(faults, PowerEffects(FALSE, ok))
    BY <1>5, OutcomesAreBoolean DEF DeclinePower
  <2>2. power' \in BOOLEAN /\ faults' \in SUBSET Faults
    BY <1>0, <2>1, WrittenType, FaultTypes
  <2> QED
    BY <1>0, <1>5, <2>2, TypeParts DEF DeclinePower, MainStep, machineVars, inputVars
<1>6. CASE Register
  BY <1>0, <1>6, TypeParts DEF Register, MainStep, machineVars, outputVars, faultVars, inputVars
<1>7. CASE StartCheck
  BY <1>0, <1>7, TypeParts DEF StartCheck, MainStep, machineVars, outputVars, faultVars, inputVars
<1>8. CASE StartEngage
  <2>1. PICK ok \in BOOLEAN :
          WriteBrake(TRUE, ok) /\ MainStep(IF ok THEN "engaged" ELSE "engageFailed")
    BY <1>8, OutcomesAreBoolean DEF StartEngage
  <2>2. brake' \in BOOLEAN /\ late' \in BOOLEAN
    BY <1>0, <2>1, WriteBrakeType
  <2> QED
    BY <1>0, <1>8, <2>1, <2>2, TypeParts DEF StartEngage, MainStep, machineVars, faultVars, inputVars
<1>9. CASE StartReport
  <2>1. (main = "engaged") \in BOOLEAN
    OBVIOUS
  <2>2. faults' \in SUBSET Faults
    BY <1>0, <1>9, <2>1, FaultTypes DEF StartReport
  <2> QED
    BY <1>0, <1>9, <2>2, TypeParts DEF StartReport, MainStep, machineVars, outputVars, inputVars
<1>10. CASE Resume
  <2>1. CASE Enter("ShuttingDown", TRUE) /\ UNCHANGED queue
    <3>1. "ShuttingDown" \in Leaves
      BY DEF Leaves
    <3>2. main' \in Boot \cup AfterBoot
      BY <1>10 DEF Resume
    <3> QED
      BY <1>0, <2>1, <3>1, <3>2, EnterTypes
  <2>2. CASE UNCHANGED <<saved, machineVars, outputVars, faultVars, held, inputVars, late, refused>>
    BY <1>0, <1>10, <2>2, TypeParts DEF Resume, machineVars, outputVars, faultVars, inputVars
  <2> QED
    BY <1>10, <2>1, <2>2 DEF Resume
<1> QED
  BY <1>1, <1>2, <1>3, <1>4, <1>5, <1>6, <1>7, <1>8, <1>9, <1>10 DEF StartStep

(* A lever callback keeps the types.                                       *)
LEMMA LeverTypes ==
  ASSUME TypeOK, NEW g \in Callbacks, LeverCallback(g)
  PROVE  TypeOK'
<1> USE DEF MachineTypes, OutputTypes, FaultTyping, InputTypes, MainTypes
<1>0. MachineTypes /\ OutputTypes /\ FaultTyping /\ InputTypes /\ MainTypes
  BY TypeParts
<1>a. IdleCallback \in CallbackRecords /\ cb[g] \in CallbackRecords
  BY <1>0 DEF IdleCallback, CallbackRecords
<1>1. ASSUME NEW l \in Levers, LeverSettles(g, l) PROVE TypeOK'
  <2>1. lever[l] \in BOOLEAN
    BY <1>0
  <2>2. [IdleCallback EXCEPT !.pc = "gate", !.lever = l, !.value = lever[l]] \in CallbackRecords
    BY <2>1 DEF IdleCallback, CallbackRecords
  <2>3. InputTypes'
    BY <1>0, <1>1, <2>1, <2>2 DEF LeverSettles
  <2> QED
    BY <1>0, <1>1, <2>3, TypeParts DEF LeverSettles, machineVars, outputVars, faultVars
<1>2. CASE LeverGate(g)
  <2>1. [cb[g] EXCEPT !.pc = "sample"] \in CallbackRecords
    BY <1>a DEF CallbackRecords
  <2>2. InputTypes'
    BY <1>0, <1>2, <1>a, <2>1 DEF LeverGate, OnlyCallback
  <2> QED
    BY <1>0, <1>2, <2>2, TypeParts DEF LeverGate, OnlyCallback, machineVars
<1>3. CASE LeverSample(g)
  <2>1. (vstate = "ready-to-drive") \in BOOLEAN
    OBVIOUS
  <2>2. [cb[g] EXCEPT !.pc = "read", !.drive = (vstate = "ready-to-drive")] \in CallbackRecords
    BY <1>a, <2>1 DEF CallbackRecords
  <2>3. cb' = [cb EXCEPT ![g] = [cb[g] EXCEPT !.pc = "read", !.drive = (vstate = "ready-to-drive")]]
    BY <1>0, <1>3, <1>a DEF LeverSample, CallbackRecords
  <2>4. InputTypes'
    BY <1>0, <1>3, <2>2, <2>3 DEF LeverSample, OnlyCallback
  <2> QED
    BY <1>0, <1>3, <2>4, TypeParts DEF LeverSample, OnlyCallback, machineVars
<1>4. CASE LeverRead(g)
  <2> DEFINE engage == cb[g].drive => \E l \in Levers : lever[l]
  <2>1. engage \in BOOLEAN
    OBVIOUS
  <2>2. [cb[g] EXCEPT !.pc = "write", !.engage = engage] \in CallbackRecords
    BY <1>a, <2>1 DEF CallbackRecords
  <2>3. \/ cb' = [cb EXCEPT ![g] = IdleCallback]
        \/ cb' = [cb EXCEPT ![g] = [cb[g] EXCEPT !.pc = "write", !.engage = engage]]
    BY <1>4 DEF LeverRead
  <2>4. InputTypes'
    BY <1>0, <1>4, <1>a, <2>2, <2>3 DEF LeverRead, OnlyCallback
  <2> QED
    BY <1>0, <1>4, <2>4, TypeParts DEF LeverRead, OnlyCallback, machineVars
<1>5. CASE LeverWrite(g)
  <2>1. PICK ok \in BOOLEAN :
          /\ WriteBrake(cb[g].engage, ok)
          /\ cb' = [cb EXCEPT ![g] = [IdleCallback EXCEPT !.pc = "report", !.value = ok]]
    BY <1>5, OutcomesAreBoolean DEF LeverWrite
  <2>2. cb[g].engage \in BOOLEAN
    BY <1>a DEF CallbackRecords
  <2>3. brake' \in BOOLEAN /\ late' \in BOOLEAN
    BY <1>0, <2>1, <2>2, WriteBrakeType
  <2>4. [IdleCallback EXCEPT !.pc = "report", !.value = ok] \in CallbackRecords
    BY DEF IdleCallback, CallbackRecords
  <2>5. InputTypes'
    BY <1>0, <1>5, <2>1, <2>4 DEF LeverWrite, OnlyCallback
  <2> QED
    BY <1>0, <1>5, <2>3, <2>5, TypeParts DEF LeverWrite, OnlyCallback, machineVars
<1>6. CASE LeverReport(g)
  <2>1. cb[g].value \in BOOLEAN
    BY <1>a DEF CallbackRecords
  <2>2. faults' \in SUBSET Faults
    BY <1>0, <1>6, <2>1, FaultTypes DEF LeverReport
  <2>3. InputTypes'
    BY <1>0, <1>6, <1>a DEF LeverReport, OnlyCallback
  <2> QED
    BY <1>0, <1>6, <2>2, <2>3, TypeParts DEF LeverReport, OnlyCallback, machineVars
<1> QED
  BY <1>1, <1>2, <1>3, <1>4, <1>5, <1>6 DEF LeverCallback

(* Every step keeps the types.                                             *)
LEMMA TypeStep == TypeOK /\ [Next]_vars => TypeOK'
<1> SUFFICES ASSUME TypeOK, [Next]_vars PROVE TypeOK'
  OBVIOUS
<1> USE DEF MachineTypes, OutputTypes, FaultTyping, InputTypes, MainTypes,
            machineVars, outputVars, faultVars, inputVars
<1>0. MachineTypes /\ OutputTypes /\ FaultTyping /\ InputTypes /\ MainTypes
  BY TypeParts
<1>1. CASE ExtSend
  BY <1>0, <1>1, TypeParts DEF ExtSend
<1>2. ASSUME NEW l \in Levers, LeverEdge(l) PROVE TypeOK'
  <2>1. edges' \in 0..MaxEdges
    BY <1>0, <1>2, RideAssumption DEF LeverEdge
  <2>2. lever' \in [Levers -> BOOLEAN]
    BY <1>0, <1>2 DEF LeverEdge
  <2> QED
    BY <1>0, <1>2, <2>1, <2>2, TypeParts DEF LeverEdge
<1>3. CASE UNCHANGED vars
  BY <1>0, <1>3, TypeParts DEF vars
<1> QED
  BY <1>1, <1>2, <1>3, EntryTypes, DispatchTypes, StartTypes, LeverTypes DEF Next

(* Every variable keeps its type.                                          *)
THEOREM TypeCorrect == Spec => []TypeOK
  BY TypeInit, TypeStep, PTL DEF Spec

-----------------------------------------------------------------------------
(* Safety.                                                                 *)

(* What is raised stands, and an empty update changes nothing.             *)
LEMMA FaultLaws ==
  /\ \A fs, fx : \A code \in fx.raise : code \in Apply(fs, fx)
  /\ \A fs : Apply(fs, NoEffects) = fs
  /\ \A value, ok \in BOOLEAN : EnginePowerFault \in PowerEffects(value, ok).raise <=> ~ok
  BY DEF Apply, NoEffects, PowerEffects, Report

(* A written brake is engaged, or the release is remembered as late when   *)
(* the machine is not in drive mode.                                       *)
LEMMA WriteBrakeLaw ==
  ASSUME TypeOK, NEW value \in BOOLEAN, NEW ok \in BOOLEAN, WriteBrake(value, ok)
  PROVE  /\ (brake \/ late) /\ state # "ReadyToDrive" => (brake' \/ late')
         /\ (ok /\ value) => brake'
  BY DEF WriteBrake, Written, TypeOK

Safe == /\ EntryInLeaf /\ BootInStandby /\ BootPower
        /\ DarkOrReported /\ EcuReported
        /\ BrakeBeforePower /\ ParkedOrdered
        /\ RefusalDark /\ RefusalAtEnd

(* The inductive invariant holds at boot.                                  *)
LEMMA SafeInit == Init => Safe
  BY DEF Init, Safe, EntryInLeaf, BootInStandby, BootPower, DarkOrReported, EcuReported,
     BrakeBeforePower, ParkedOrdered, RefusalDark, RefusalAtEnd, InitialState, EntryOf

(* The steps of the entry actions keep it.                                 *)
LEMMA EntrySafe ==
  ASSUME TypeOK, Safe, EntryAction
  PROVE  Safe'
<1> USE DEF Safe, EntryInLeaf, BootInStandby, BootPower, DarkOrReported, EcuReported,
            BrakeBeforePower, ParkedOrdered, RefusalDark, RefusalAtEnd,
            Goto, faultVars, outputVars, NoEffects
<1>0. EcuHeldFault # EnginePowerFault /\ EngineBrakeFault # EnginePowerFault
  BY DEF EcuHeldFault, EnginePowerFault, EngineBrakeFault
<1>1. CASE ParkBrake
  <2>1. PICK ok \in BOOLEAN : WriteBrake(TRUE, ok) /\ Goto(IF ok THEN "parkPower" ELSE "parkCut")
    BY <1>1, OutcomesAreBoolean DEF ParkBrake
  <2>2. ok => brake'
    BY <2>1, WriteBrakeLaw
  <2> QED
    BY <1>1, <2>1, <2>2 DEF ParkBrake
<1>2. CASE ParkCut
  <2>1. PICK ok \in BOOLEAN :
          /\ power' = Written(power, FALSE, ok)
          /\ faults' = Apply(faults, Both(Report(EngineBrakeFault, FALSE), PowerEffects(FALSE, ok)))
                       \cup {EcuHeldFault}
    BY <1>2, OutcomesAreBoolean DEF ParkCut
  <2>2. ok => ~power'
    BY <2>1 DEF Written
  <2>3. ~ok => EnginePowerFault \in PowerEffects(FALSE, ok).raise
    BY FaultLaws
  <2>4. ~ok => EnginePowerFault \in Both(Report(EngineBrakeFault, FALSE), PowerEffects(FALSE, ok)).raise
    BY <2>3 DEF Both
  <2>5. ~ok => EnginePowerFault \in faults'
    BY <2>1, <2>4, FaultLaws
  <2> QED
    BY <2>5, <1>2, <2>1, <2>2, <2>3 DEF ParkCut
<1>3. CASE ParkPower
  <2>1. PICK ok \in BOOLEAN :
          /\ power' = Written(power, TRUE, ok)
          /\ faults' = Apply(faults, Both(Report(EngineBrakeFault, TRUE), PowerEffects(TRUE, ok)))
    BY <1>3, OutcomesAreBoolean DEF ParkPower
  <2>2. ok => power'
    BY <2>1 DEF Written
  <2>3. ~ok => EnginePowerFault \in PowerEffects(TRUE, ok).raise
    BY FaultLaws
  <2>4. ~ok => EnginePowerFault \in Both(Report(EngineBrakeFault, TRUE), PowerEffects(TRUE, ok)).raise
    BY <2>3 DEF Both
  <2>5. ~ok => EnginePowerFault \in faults'
    BY <2>1, <2>4, FaultLaws
  <2>6. brake' \/ late'
    BY <1>3 DEF ParkPower
  <2> QED
    BY <1>3, <2>2, <2>5, <2>6 DEF ParkPower
<1>4. CASE DriveCut
  <2>1. PICK ok \in BOOLEAN : DriveCutWith(ok)
    BY <1>4, OutcomesAreBoolean DEF DriveCut
  <2>2. ~power' \/ EnginePowerFault \in effects'.raise
    BY <2>1 DEF DriveCutWith, Written
  <2> QED
    BY <1>4, <2>2 DEF DriveCut, RefuseDrive
<1>5. CASE ShutPower
  <2>1. PICK ok \in BOOLEAN :
          power' = Written(power, FALSE, ok) /\ faults' = Apply(faults, PowerEffects(FALSE, ok))
    BY <1>5, OutcomesAreBoolean DEF ShutPower
  <2>2. ~power' \/ EnginePowerFault \in faults'
    BY <2>1, FaultLaws DEF Written
  <2> QED
    BY <1>5, <2>2 DEF ShutPower
<1>6. CASE Publish
  <2>1. state # "ReadyToDrive" => faults' = faults
    BY <1>6, FaultLaws DEF Publish
  <2>2. EnginePowerFault \in effects.raise => EnginePowerFault \in faults'
    BY <1>6, FaultLaws DEF Publish
  <2> QED
    BY <1>6, <2>1, <2>2 DEF Publish
<1>7. CASE DrivePower \/ DriveDash \/ DriveCheck \/ DriveLevers \/ DriveBrake
  BY <1>7 DEF DrivePower, DriveDash, DriveCheck, DriveLevers, DriveBrake
<1>8. CASE DriveHold \/ DriveHoldCut
  BY <1>8 DEF DriveHold, DriveHoldCut, RefuseDrive
<1> QED
  BY <1>1, <1>2, <1>3, <1>4, <1>5, <1>6, <1>7, <1>8 DEF EntryAction

(* The event loop moves to stand-by from shutting-down only.               *)
LEMMA DispatchSafe ==
  ASSUME TypeOK, Safe, Dispatch
  PROVE  Safe'
<1> USE DEF Safe, EntryInLeaf, BootInStandby, BootPower, DarkOrReported, EcuReported,
            BrakeBeforePower, ParkedOrdered, RefusalDark, RefusalAtEnd,
            faultVars, outputVars, AfterBoot
<1>1. CASE UNCHANGED <<state, vstate, pc, bySet, outputVars, saved, faultVars, held, inputVars,
                       late, refused>>
  BY <1>1 DEF Dispatch
<1>2. ASSUME NEW to \in Leaves, Enter(to, FALSE), to = "Standby" => state = "ShuttingDown"
      PROVE  Safe'
  BY <1>2 DEF Dispatch, Enter, EntryOf
<1> QED
  BY <1>1, <1>2, SelectedReachesLeaf, SelectedStandby DEF Dispatch

(* The steps of Start() keep it: what a restart finds powered is declined. *)
LEMMA StartSafe ==
  ASSUME TypeOK, Safe, StartStep
  PROVE  Safe'
<1> USE DEF Safe, EntryInLeaf, BootInStandby, BootPower, DarkOrReported, EcuReported,
            BrakeBeforePower, ParkedOrdered, RefusalDark, RefusalAtEnd,
            MainStep, machineVars, faultVars, outputVars
<1>1. CASE Restore
  <2>1. PICK s \in {saved, "Parked"} : Enter(s, TRUE)
    BY <1>1 DEF Restore
  <2>2. s \in {"Standby", "ShuttingDown"} => ~power
    <3>1. saved # "Refused" /\ saved # "ShuttingDown"
      BY <1>1, RestorableAreLeaves DEF Restore, Leaves, AtRestLeaves, HibernationLeaves
    <3> QED
      BY <1>1, <2>1, <3>1 DEF Restore, InitialPower, AtRestLeaves
  <2> QED
    BY <1>1, <2>1, <2>2 DEF Restore, Enter, EntryOf
<1>2. CASE NothingToRestore
  <2>1. ~InitialPower(saved)
    BY <1>2 DEF NothingToRestore, InitialPower, AtRestLeaves
  <2>2. ~power
    BY <1>2, <2>1 DEF NothingToRestore, TypeOK
  <2> QED
    BY <1>2, <2>2 DEF NothingToRestore
<1>3. CASE Decline
  BY <1>3 DEF Decline
<1>4. CASE DeclineBrake
  <2>1. PICK ok \in BOOLEAN :
          WriteBrake(TRUE, ok) /\ faults' = Apply(faults, Report(EngineBrakeFault, ok))
    BY <1>4, OutcomesAreBoolean DEF DeclineBrake
  <2> QED
    BY <1>4 DEF DeclineBrake
<1>5. CASE DeclinePower
  <2>1. PICK ok \in BOOLEAN :
          power' = Written(power, FALSE, ok) /\ faults' = Apply(faults, PowerEffects(FALSE, ok))
    BY <1>5, OutcomesAreBoolean DEF DeclinePower
  <2>2. ~power' \/ EnginePowerFault \in faults'
    BY <2>1, FaultLaws DEF Written
  <2> QED
    BY <1>5, <2>2 DEF DeclinePower
<1>6. CASE Register \/ StartCheck
  BY <1>6 DEF Register, StartCheck
<1>7. CASE StartEngage
  <2>1. PICK ok \in BOOLEAN :
          WriteBrake(TRUE, ok) /\ MainStep(IF ok THEN "engaged" ELSE "engageFailed")
    BY <1>7, OutcomesAreBoolean DEF StartEngage
  <2>2. (brake \/ late) /\ state # "ReadyToDrive" => (brake' \/ late')
    BY <2>1, WriteBrakeLaw
  <2> QED
    BY <1>7, <2>1, <2>2 DEF StartEngage, TypeOK
<1>8. CASE StartReport
  <2>1. \A code \in {EnginePowerFault, EcuHeldFault} : code \in faults' <=> code \in faults
    BY <1>8, BrakeReportKeeps DEF StartReport
  <2> QED
    BY <1>8, <2>1 DEF StartReport
<1>9. CASE Resume
  BY <1>9 DEF Resume, Enter, EntryOf
<1> QED
  BY <1>1, <1>2, <1>3, <1>4, <1>5, <1>6, <1>7, <1>8, <1>9 DEF StartStep

(* A lever callback writes the brake and its fault code, nothing else.     *)
LEMMA LeverSafe ==
  ASSUME TypeOK, Safe, NEW g \in Callbacks, LeverCallback(g)
  PROVE  Safe'
<1> USE DEF Safe, EntryInLeaf, BootInStandby, BootPower, DarkOrReported, EcuReported,
            BrakeBeforePower, ParkedOrdered, RefusalDark, RefusalAtEnd,
            OnlyCallback, machineVars, faultVars, outputVars
<1>1. CASE \E l \in Levers : LeverSettles(g, l)
  BY <1>1 DEF LeverSettles
<1>2. CASE LeverGate(g) \/ LeverSample(g) \/ LeverRead(g)
  <2>1. UNCHANGED <<main, saved, machineVars, outputVars, faultVars, late, refused>>
    BY <1>2 DEF LeverGate, LeverSample, LeverRead
  <2> QED
    BY <2>1
<1>3. CASE LeverWrite(g)
  <2>1. PICK ok \in BOOLEAN : WriteBrake(cb[g].engage, ok)
    BY <1>3, OutcomesAreBoolean DEF LeverWrite
  <2>2. cb[g].engage \in BOOLEAN
    BY DEF TypeOK, CallbackRecords
  <2>3. (brake \/ late) /\ state # "ReadyToDrive" => (brake' \/ late')
    BY <2>1, <2>2, WriteBrakeLaw
  <2> QED
    BY <1>3, <2>3 DEF LeverWrite
<1>4. CASE LeverReport(g)
  <2>1. \A code \in {EnginePowerFault, EcuHeldFault} : code \in faults' <=> code \in faults
    BY <1>4, BrakeReportKeeps DEF LeverReport
  <2> QED
    BY <1>4, <2>1 DEF LeverReport
<1> QED
  BY <1>1, <1>2, <1>3, <1>4 DEF LeverCallback

(* Every step keeps it.                                                    *)
LEMMA SafeStep == TypeOK /\ Safe /\ [Next]_vars => Safe'
<1> SUFFICES ASSUME TypeOK, Safe, [Next]_vars PROVE Safe'
  OBVIOUS
<1>1. CASE ExtSend \/ (\E l \in Levers : LeverEdge(l)) \/ UNCHANGED vars
  BY <1>1 DEF ExtSend, LeverEdge, vars, machineVars, outputVars, faultVars, Safe, EntryInLeaf,
     BootInStandby, BootPower, DarkOrReported, EcuReported, BrakeBeforePower, ParkedOrdered,
     RefusalDark, RefusalAtEnd
<1> QED
  BY <1>1, EntrySafe, DispatchSafe, StartSafe, LeverSafe DEF Next

(* The inductive invariant behind the interlock holds at every moment.     *)
THEOREM SafetyCorrect == Spec => []Safe
  BY TypeInit, TypeStep, SafeInit, SafeStep, PTL DEF Spec

(* A locked vehicle is dark, or the fault set says that it is not.         *)
THEOREM LockedIsDarkHolds == Spec => []LockedIsDark
<1>1. Safe => LockedIsDark
  BY DEF Safe, DarkOrReported, LockedIsDark, Boot
<1> QED
  BY <1>1, SafetyCorrect, PTL

(* A dark controller in Parked is always in the fault set.                 *)
THEOREM DarkEcuIsReportedHolds == Spec => []DarkEcuIsReported
<1>1. Safe => DarkEcuIsReported
  BY DEF Safe, EcuReported, DarkEcuIsReported
<1> QED
  BY <1>1, SafetyCorrect, PTL

(* Parked, power means brake, but for reported failures and late releases. *)
THEOREM ParkedInterlockHolds == Spec => []ParkedInterlock
<1>1. Safe => ParkedInterlock
  BY DEF Safe, ParkedOrdered, ParkedInterlock
<1> QED
  BY <1>1, SafetyCorrect, PTL

(* A drive entry without a dashboard leaves the controller dark.           *)
THEOREM DarkDashboardEntryHolds == Spec => []DarkDashboardEntry
<1>1. Safe => DarkDashboardEntry
  BY DEF Safe, RefusalDark, DarkDashboardEntry
<1> QED
  BY <1>1, SafetyCorrect, PTL

(* The controller is switched on outside drive mode over an engaged brake. *)
THEOREM PoweredAfterBrakeHolds == Spec => PoweredAfterBrake
<1> DEFINE Ordered == (power' /\ ~power /\ state # "ReadyToDrive") => (brake \/ late)
<1>1. TypeOK /\ Safe /\ [Next]_vars => Ordered
  <2> SUFFICES ASSUME TypeOK, Safe, [Next]_vars, power', ~power, state # "ReadyToDrive"
               PROVE  brake \/ late
    OBVIOUS
  <2>1. CASE EntryAction
    <3>1. ~(ParkBrake \/ ParkCut \/ ShutPower \/ DriveHold \/ DriveCheck \/ DriveDash \/ DriveLevers
            \/ DriveBrake \/ Publish)
      BY DEF ParkBrake, ParkCut, ShutPower, DriveHold, DriveCheck, DriveDash, DriveLevers,
             DriveBrake, Publish, outputVars, Written, TypeOK
    <3>2. ~(DrivePower \/ DriveCut \/ DriveHoldCut)
      BY DEF Safe, EntryInLeaf, DrivePower, DriveCut, DriveHoldCut
    <3>3. ParkPower
      BY <2>1, <3>1, <3>2 DEF EntryAction
    <3> QED
      BY <3>3 DEF Safe, BrakeBeforePower, ParkPower
  <2>2. ~Dispatch
    BY DEF Dispatch, Enter, outputVars
  <2>3. ~StartStep
    BY DEF StartStep, Restore, NothingToRestore, Decline, DeclineBrake, DeclinePower, Register,
           StartCheck, StartEngage, StartReport, Resume, Enter, outputVars, Written, TypeOK
  <2>4. ~(ExtSend \/ (\E l \in Levers : LeverEdge(l)) \/ UNCHANGED vars)
    BY DEF ExtSend, LeverEdge, vars, outputVars
  <2>5. ~\E g \in Callbacks : LeverCallback(g)
    BY DEF LeverCallback, LeverSettles, LeverGate, LeverSample, LeverRead, LeverWrite, LeverReport,
           OnlyCallback, outputVars
  <2> QED
    BY <2>1, <2>2, <2>3, <2>4, <2>5 DEF Next
<1> QED
  BY <1>1, TypeInit, TypeStep, SafeInit, SafeStep, PTL DEF Spec, PoweredAfterBrake
-----------------------------------------------------------------------------
(* InterlockHolds: the leaves that are restored with power and write no    *)
(* brake.  The boot may find the motor enabled; until somebody has written *)
(* the brake, no report of a success can clear what StartEngage reports.   *)
Unwritten ==
  /\ \A g \in Callbacks : cb[g].pc = "report" => ~cb[g].value
  /\ main # "engaged"
  /\ main \in {"resume", "done"} => EngineBrakeFault \in faults

Interlocked ==
  (state # "ReadyToDrive" /\ pc \in {"publish", "idle"} /\ power /\ ~brake /\ ~late)
    => (EnginePowerFault \in faults \/ Unwritten)

(* Callbacks are registered late in the boot.                              *)
BootQuiet == main \in Boot => \A g \in Callbacks : cb[g].pc = "idle"

(* So no callback runs before.                                            *)
LEMMA BootQuietStep == TypeOK /\ BootQuiet /\ [Next]_vars => BootQuiet'
<1> SUFFICES ASSUME TypeOK, BootQuiet, [Next]_vars PROVE BootQuiet'
  OBVIOUS
<1> USE DEF BootQuiet, Boot, AfterBoot, inputVars
<1>1. CASE EntryAction
  BY <1>1 DEF EntryAction, ParkBrake, ParkCut, ParkPower, DrivePower, DriveDash, DriveCut,
     DriveCheck, DriveHold, DriveHoldCut, DriveLevers, DriveBrake, ShutPower, Publish
<1>2. CASE Dispatch
  BY <1>2 DEF Dispatch, Enter
<1>3. CASE StartStep
  BY <1>3 DEF StartStep, MainStep, Enter, Restore, NothingToRestore, Decline, DeclineBrake,
     DeclinePower, Register, StartCheck, StartEngage, StartReport, Resume
<1>4. CASE ExtSend \/ (\E l \in Levers : LeverEdge(l)) \/ UNCHANGED vars
  BY <1>4 DEF ExtSend, LeverEdge, vars
<1>5. ASSUME NEW g \in Callbacks, LeverCallback(g) PROVE BootQuiet'
  <2>1. main' = main
    BY <1>5 DEF LeverCallback, LeverSettles, LeverGate, LeverSample, LeverRead, LeverWrite,
       LeverReport, OnlyCallback
  <2>2. SUFFICES ASSUME main \in Boot PROVE cb' = cb
    BY <2>1
  <2> QED
    BY <1>5, <2>2 DEF LeverCallback, LeverSettles, LeverGate, LeverSample, LeverRead, LeverWrite,
       LeverReport
<1> QED
  BY <1>1, <1>2, <1>3, <1>4, <1>5 DEF Next

(* What a write of the brake does for the interlock outside drive mode.    *)
LEMMA BrakeWritten ==
  ASSUME TypeOK, NEW value \in BOOLEAN, NEW ok \in BOOLEAN, WriteBrake(value, ok),
         state # "ReadyToDrive"
  PROVE  /\ ok => (brake' \/ late')
         /\ ~ok => UNCHANGED <<brake, late>>
  BY DEF WriteBrake, Written, TypeOK

(* The report of a brake write.                                            *)
LEMMA BrakeReport ==
  \A fs : /\ EngineBrakeFault \in Apply(fs, Report(EngineBrakeFault, FALSE))
          /\ \A ok : EnginePowerFault \in fs => EnginePowerFault \in Apply(fs, Report(EngineBrakeFault, ok))
  BY DEF Apply, Report, EnginePowerFault, EngineBrakeFault

(* The entry actions: Parked and ShuttingDown leave the controller dark,   *)
(* reported, or behind a written brake.                                    *)
LEMMA EntryInterlocked ==
  ASSUME TypeOK, Safe, Safe', Interlocked, EntryAction
  PROVE  Interlocked'
<1> USE DEF Interlocked, Unwritten, Goto, faultVars, outputVars, inputVars
<1>1. CASE ParkBrake
  BY <1>1 DEF ParkBrake
<1>2. CASE ParkCut \/ ParkPower
  <2>1. state' = "Parked" /\ pc' = "publish"
    BY <1>2 DEF ParkCut, ParkPower, Safe, EntryInLeaf
  <2> QED
    BY <2>1 DEF Safe, ParkedOrdered
<1>3. CASE ShutPower
  <2>1. state' = "ShuttingDown" /\ pc' = "publish" /\ UNCHANGED main
    BY <1>3 DEF ShutPower, Safe, EntryInLeaf
  <2>2. main \notin {"start", "declineBrake", "declinePower"}
    BY <1>3 DEF ShutPower, Safe, BootInStandby, EntryInLeaf
  <2> QED
    BY <2>1, <2>2 DEF Safe, DarkOrReported
<1>4. CASE Publish
  <2>1. state # "ReadyToDrive" => faults' = faults
    BY <1>4, FaultLaws DEF Publish, Safe, EntryInLeaf
  <2> QED
    BY <1>4, <2>1 DEF Publish
<1>5. CASE \/ DrivePower \/ DriveDash \/ DriveCut \/ DriveCheck \/ DriveHold \/ DriveHoldCut
           \/ DriveLevers \/ DriveBrake
  <2>1. state' = "ReadyToDrive"
    BY <1>5 DEF DrivePower, DriveDash, DriveCut, DriveCheck, DriveHold, DriveHoldCut, DriveLevers,
       DriveBrake, RefuseDrive, Safe, EntryInLeaf
  <2> QED
    BY <2>1
<1> QED
  BY <1>1, <1>2, <1>3, <1>4, <1>5 DEF EntryAction

(* Leaving drive mode, the machine is about to run one of these entries.   *)
LEMMA DispatchInterlocked ==
  ASSUME TypeOK, Interlocked, Dispatch
  PROVE  Interlocked'
<1> USE DEF Interlocked, Unwritten, faultVars, outputVars, inputVars
<1>1. CASE UNCHANGED <<state, vstate, pc, bySet, outputVars, saved, faultVars, held, inputVars,
                       late, refused>>
  BY <1>1 DEF Dispatch
<1>2. ASSUME NEW to \in Leaves, Enter(to, FALSE),
             state = "ReadyToDrive" => to \in {"Parked", "ShuttingDown"}
      PROVE  Interlocked'
  <2>1. CASE state = "ReadyToDrive"
    BY <1>2, <2>1 DEF Enter, EntryOf
  <2>2. CASE state # "ReadyToDrive"
    BY <1>2, <2>2 DEF Dispatch, Enter
  <2> QED
    BY <2>1, <2>2
<1> QED
  BY <1>1, <1>2, SelectedReachesLeaf, SelectedFromDrive DEF Dispatch

(* Start() reports the engage that fails, and nothing has cleared that.    *)
LEMMA StartInterlocked ==
  ASSUME TypeOK, Safe, Safe', BootQuiet, Interlocked, StartStep
  PROVE  Interlocked'
<1> USE DEF Interlocked, Unwritten, MainStep, machineVars, faultVars, outputVars, inputVars
<1>1. CASE Restore
  <2>1. PICK s \in {saved, "Parked"} : Enter(s, TRUE)
    BY <1>1 DEF Restore
  <2>2. cb' = cb /\ main' = "restore" /\ \A g \in Callbacks : cb[g].pc = "idle"
    BY <1>1, <2>1 DEF Restore, Enter, BootQuiet, Boot
  <2> QED
    BY <2>2
<1>2. CASE NothingToRestore \/ Decline
  BY <1>2 DEF NothingToRestore, Decline
<1>3. CASE DeclineBrake
  <2>1. PICK ok \in BOOLEAN :
          WriteBrake(TRUE, ok) /\ faults' = Apply(faults, Report(EngineBrakeFault, ok))
    BY <1>3, OutcomesAreBoolean DEF DeclineBrake
  <2>2. cb' = cb /\ main' = "declinePower" /\ \A g \in Callbacks : cb[g].pc = "idle"
    BY <1>3 DEF DeclineBrake, BootQuiet, Boot
  <2> QED
    BY <2>2
<1>4. CASE DeclinePower
  <2>1. cb' = cb /\ main' = "restore" /\ \A g \in Callbacks : cb[g].pc = "idle"
    BY <1>4 DEF DeclinePower, BootQuiet, Boot
  <2> QED
    BY <2>1
<1>5. CASE Register
  BY <1>5 DEF Register
<1>6. CASE StartCheck
  BY <1>6 DEF StartCheck
<1>7. CASE StartEngage
  <2>1. PICK ok \in BOOLEAN :
          WriteBrake(TRUE, ok) /\ MainStep(IF ok THEN "engaged" ELSE "engageFailed")
    BY <1>7, OutcomesAreBoolean DEF StartEngage
  <2>2. state # "ReadyToDrive" => (ok => (brake' \/ late')) /\ (~ok => UNCHANGED <<brake, late>>)
    BY <2>1, BrakeWritten
  <2> QED
    BY <1>7, <2>1, <2>2 DEF StartEngage
<1>8. CASE StartReport
  <2>1. EnginePowerFault \in faults => EnginePowerFault \in faults'
    BY <1>8, BrakeReport DEF StartReport
  <2>2. main = "engageFailed" => EngineBrakeFault \in faults'
    BY <1>8, BrakeReport DEF StartReport
  <2> QED
    BY <1>8, <2>1, <2>2 DEF StartReport
<1>9. CASE Resume
  BY <1>9 DEF Resume, Enter, EntryOf
<1> QED
  BY <1>1, <1>2, <1>3, <1>4, <1>5, <1>6, <1>7, <1>8, <1>9 DEF StartStep

(* A callback that succeeds writes the brake; one that fails reports it.   *)
LEMMA LeverInterlocked ==
  ASSUME TypeOK, BootQuiet, Interlocked, NEW g \in Callbacks, LeverCallback(g)
  PROVE  Interlocked'
<1> USE DEF Interlocked, Unwritten, OnlyCallback, machineVars, faultVars, outputVars
<1>t. cb \in [Callbacks -> CallbackRecords] /\ cb[g] \in CallbackRecords
  BY DEF TypeOK
<1>1. CASE (\E l \in Levers : LeverSettles(g, l)) \/ LeverGate(g) \/ LeverSample(g) \/ LeverRead(g)
  <2>1. UNCHANGED <<main, state, pc, power, brake, late, faults>>
    BY <1>1 DEF LeverSettles, LeverGate, LeverSample, LeverRead
  <2>2. cb'[g].pc \in {"idle", "gate", "sample", "read", "write"} \/ cb' = cb
    <3>1. CASE \E l \in Levers : LeverSettles(g, l)
      BY <1>t, <3>1 DEF LeverSettles, IdleCallback
    <3>2. CASE LeverGate(g)
      BY <1>t, <3>2 DEF LeverGate, IdleCallback, CallbackRecords
    <3>3. CASE LeverSample(g)
      BY <1>t, <3>3 DEF LeverSample, CallbackRecords
    <3>4. CASE LeverRead(g)
      <4>1. CASE cb' = [cb EXCEPT ![g] = IdleCallback]
        BY <1>t, <4>1 DEF IdleCallback
      <4>2. ASSUME NEW engage,
                   cb' = [cb EXCEPT ![g] = [cb[g] EXCEPT !.pc = "write", !.engage = engage]]
            PROVE  cb'[g].pc = "write"
        <5>1. cb'[g] = [cb[g] EXCEPT !.pc = "write", !.engage = engage]
          BY <1>t, <4>2
        <5> QED
          BY <1>t, <5>1 DEF CallbackRecords
      <4> QED
        BY <3>4, <4>1, <4>2 DEF LeverRead
    <3> QED
      BY <1>1, <3>1, <3>2, <3>3, <3>4
  <2>3. \A h \in Callbacks : h # g => cb'[h] = cb[h]
    BY <1>1, <1>t DEF LeverSettles, LeverGate, LeverSample, LeverRead
  <2>4. \A h \in Callbacks : cb'[h].pc = "report" => cb'[h] = cb[h]
    BY <2>2, <2>3
  <2> QED
    BY <2>1, <2>4
<1>2. CASE LeverWrite(g)
  <2>1. PICK ok \in BOOLEAN :
          /\ WriteBrake(cb[g].engage, ok)
          /\ cb' = [cb EXCEPT ![g] = [IdleCallback EXCEPT !.pc = "report", !.value = ok]]
    BY <1>2, OutcomesAreBoolean DEF LeverWrite
  <2>2. cb[g].engage \in BOOLEAN
    BY <1>t DEF CallbackRecords
  <2>3. state # "ReadyToDrive" => (ok => (brake' \/ late')) /\ (~ok => UNCHANGED <<brake, late>>)
    BY <2>1, <2>2, BrakeWritten
  <2>4. /\ \A h \in Callbacks : h # g => cb'[h] = cb[h]
        /\ cb'[g].value = ok
    BY <1>t, <2>1 DEF IdleCallback
  <2> QED
    BY <1>2, <2>3, <2>4 DEF LeverWrite
<1>3. CASE LeverReport(g)
  <2>1. EnginePowerFault \in faults => EnginePowerFault \in faults'
    BY <1>3, BrakeReport DEF LeverReport
  <2>2. cb[g].value \in BOOLEAN
    BY <1>t DEF CallbackRecords
  <2>3. ~cb[g].value => EngineBrakeFault \in faults'
    BY <1>3, <2>2, BrakeReport DEF LeverReport
  <2>4. /\ \A h \in Callbacks : h # g => cb'[h] = cb[h]
        /\ cb'[g].pc = "idle"
    BY <1>3, <1>t DEF LeverReport, IdleCallback
  <2> QED
    BY <1>3, <2>1, <2>3, <2>4 DEF LeverReport
<1> QED
  BY <1>1, <1>2, <1>3 DEF LeverCallback

(* Every step keeps the interlock.                                         *)
LEMMA InterlockedStep ==
  TypeOK /\ Safe /\ Safe' /\ BootQuiet /\ Interlocked /\ [Next]_vars => Interlocked'
<1> SUFFICES ASSUME TypeOK, Safe, Safe', BootQuiet, Interlocked, [Next]_vars PROVE Interlocked'
  OBVIOUS
<1>1. CASE ExtSend \/ (\E l \in Levers : LeverEdge(l)) \/ UNCHANGED vars
  BY <1>1 DEF ExtSend, LeverEdge, Interlocked, Unwritten, vars, machineVars, outputVars, faultVars,
     inputVars
<1> QED
  BY <1>1, EntryInterlocked, DispatchInterlocked, StartInterlocked, LeverInterlocked DEF Next

(* Outside drive mode power over a released brake is reported, or the work *)
(* of a callback that decided in drive mode, whatever the boot restored.   *)
THEOREM InterlockCorrect == Spec => []InterlockHolds
<1>1. Init => BootQuiet /\ Interlocked
  BY DEF Init, BootQuiet, Interlocked, Unwritten, IdleCallback
<1>2. Interlocked => InterlockHolds
  BY DEF Interlocked, Unwritten, InterlockHolds
<1> QED
  BY <1>1, <1>2, TypeInit, TypeStep, SafeInit, SafeStep, BootQuietStep, InterlockedStep, PTL
     DEF Spec

-----------------------------------------------------------------------------
(* Refused drive starts.                                                   *)

(* What is queued stays queued when something is appended.                 *)
LEMMA QueuedStays ==
  ASSUME NEW q \in Seq({"Ext", "DashboardNotReady"}), NEW e \in {"Ext", "DashboardNotReady"},
         NEW i \in DOMAIN q
  PROVE  i \in DOMAIN Append(q, e) /\ Append(q, e)[i] = q[i]
  OBVIOUS

(* The refusal is the last of the queue it is appended to.                 *)
LEMMA RefusalQueued ==
  ASSUME TypeOK, NEW why, RefuseDrive(why)
  PROVE  RefusalIsQueued'
<1>1. queue' = Append(queue, "DashboardNotReady") /\ queue \in Seq({"Ext", "DashboardNotReady"})
  BY DEF RefuseDrive, TypeOK
<1>2. Len(queue) + 1 \in DOMAIN queue' /\ queue'[Len(queue) + 1] = "DashboardNotReady"
  BY <1>1
<1> QED
  BY <1>2 DEF RefusalIsQueued

(* The rest of an entry action leaves the queue and the refusal alone.     *)
LEMMA EntryQueued ==
  ASSUME TypeOK, RefusalIsQueued, EntryAction
  PROVE  RefusalIsQueued'
<1>1. CASE UNCHANGED <<queue, refused>>
  BY <1>1 DEF RefusalIsQueued
<1>2. CASE \E why : RefuseDrive(why)
  BY <1>2, RefusalQueued
<1>3. CASE DriveHold
  BY <1>1, <1>2, <1>3 DEF DriveHold, Goto
<1>4. CASE DriveCut \/ DriveHoldCut
  BY <1>2, <1>4 DEF DriveCut, DriveHoldCut
<1>5. CASE ParkBrake \/ ParkCut \/ ParkPower \/ DrivePower \/ DriveDash \/ DriveCheck
  BY <1>1, <1>5 DEF ParkBrake, ParkCut, ParkPower, DrivePower, DriveDash, DriveCheck, Goto
<1>6. CASE DriveLevers \/ DriveBrake \/ ShutPower \/ Publish
  BY <1>1, <1>6 DEF DriveLevers, DriveBrake, ShutPower, Publish, Goto
<1> QED
  BY <1>3, <1>4, <1>5, <1>6 DEF EntryAction

(* An event that goes first and leads nowhere leaves the refusal behind it *)
(* in the queue; the refusal itself always leads out of drive mode.        *)
LEMMA DispatchQueued ==
  ASSUME TypeOK, Safe, RefusalIsQueued, Dispatch
  PROVE  RefusalIsQueued'
<1>1. CASE refused' = "no"
  BY <1>1 DEF RefusalIsQueued
<1>2. CASE refused' # "no"
  <2>1. refused' = refused /\ state = "ReadyToDrive"
    BY <1>2 DEF Dispatch, Enter, Safe, RefusalAtEnd
  <2>2. Head(queue) # "DashboardNotReady"
    <3> SUFFICES ASSUME Head(queue) = "DashboardNotReady" PROVE FALSE
      OBVIOUS
    <3>1. Arriving(Head(queue)) = {"DashboardNotReady"}
      BY DEF Arriving
    <3>2. PICK free : Selected("ReadyToDrive", "DashboardNotReady", TrueGuards(free)) = {}
      BY <1>2, <2>1, <3>1 DEF Dispatch, Enter
    <3> QED
      BY <3>2, RefusalRow
  <2>3. PICK i \in DOMAIN queue : queue[i] = "DashboardNotReady"
    BY <1>2, <2>1 DEF RefusalIsQueued
  <2>4. queue \in Seq({"Ext", "DashboardNotReady"}) /\ queue # <<>> /\ queue' = Tail(queue)
    BY DEF Dispatch, TypeOK
  <2>5. i # 1
    BY <2>2, <2>3, <2>4
  <2>6. i - 1 \in DOMAIN queue' /\ queue'[i - 1] = "DashboardNotReady"
    BY <2>3, <2>4, <2>5
  <2> QED
    BY <2>6 DEF RefusalIsQueued
<1> QED
  BY <1>1, <1>2

(* Start() either leaves both alone or enters a leaf afresh.               *)
LEMMA StartQueued ==
  ASSUME RefusalIsQueued, StartStep
  PROVE  RefusalIsQueued'
<1>1. CASE UNCHANGED <<queue, refused>>
  BY <1>1 DEF RefusalIsQueued
<1>2. CASE refused' = "no"
  BY <1>2 DEF RefusalIsQueued
<1>3. CASE Restore \/ Resume
  BY <1>1, <1>2, <1>3 DEF Restore, Resume, Enter, machineVars
<1>4. CASE NothingToRestore \/ Decline \/ DeclineBrake \/ DeclinePower
  BY <1>1, <1>4 DEF NothingToRestore, Decline, DeclineBrake, DeclinePower, MainStep, machineVars
<1>5. CASE Register \/ StartCheck \/ StartEngage \/ StartReport
  BY <1>1, <1>5 DEF Register, StartCheck, StartEngage, StartReport, MainStep, machineVars
<1> QED
  BY <1>3, <1>4, <1>5 DEF StartStep

(* Every step keeps the refusal in the queue.                              *)
LEMMA QueuedStep == TypeOK /\ Safe /\ RefusalIsQueued /\ [Next]_vars => RefusalIsQueued'
<1> SUFFICES ASSUME TypeOK, Safe, RefusalIsQueued, [Next]_vars PROVE RefusalIsQueued'
  OBVIOUS
<1>1. CASE EntryAction
  BY <1>1, EntryQueued
<1>2. CASE Dispatch
  BY <1>2, DispatchQueued
<1>3. CASE ExtSend
  <2>1. queue' = Append(queue, "Ext") /\ refused' = refused
        /\ queue \in Seq({"Ext", "DashboardNotReady"})
    BY <1>3 DEF ExtSend, TypeOK
  <2> QED
    BY <2>1, QueuedStays DEF RefusalIsQueued
<1>4. CASE StartStep
  BY <1>4, StartQueued
<1>5. CASE UNCHANGED <<queue, refused>>
  BY <1>5 DEF RefusalIsQueued
<1>6. CASE \E l \in Levers : LeverEdge(l)
  BY <1>5, <1>6 DEF LeverEdge, machineVars
<1>7. ASSUME NEW g \in Callbacks, LeverCallback(g) PROVE RefusalIsQueued'
  BY <1>5, <1>7 DEF LeverCallback, LeverSettles, LeverGate, LeverSample, LeverRead, LeverWrite,
     LeverReport, OnlyCallback, machineVars
<1>8. CASE UNCHANGED vars
  BY <1>5, <1>8 DEF vars, machineVars
<1> QED
  BY <1>1, <1>2, <1>3, <1>4, <1>6, <1>7, <1>8 DEF Next

(* A drive start that refused itself is always about to be taken back: its *)
(* event is in the queue until the machine leaves drive mode.              *)
THEOREM RefusalsAreQueued == Spec => []RefusalIsQueued
<1>1. Init => RefusalIsQueued
  BY DEF Init, RefusalIsQueued
<1> QED
  BY <1>1, QueuedStep, TypeCorrect, SafetyCorrect, PTL DEF Spec
=============================================================================
