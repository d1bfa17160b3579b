------------------------------ MODULE Blinkers ------------------------------
(***************************************************************************)
(* The blinkers: two switches, commands from Redis, and the worker that    *)
(* blinks.  All of them hold blinkerMu from the stop of the old worker to  *)
(* the start of the new one, so what happens under it is one step; the     *)
(* state that lets a switch through is read before.                        *)
(***************************************************************************)
EXTENDS Inputs

VARIABLES
  lamp,     \* the sides the worker blinks, {} without a worker
  by,       \* history: who has set it last
  missed    \* history: a switch was not heeded, heeded too late, or in vain

blinkVars == <<lamp, by, missed>>

Switches == {"left", "right"} \cap Channels

ActiveSystemStates ==
  {"parked", "ready-to-drive", "waiting-seatbox", "waiting-hibernation",
   "waiting-hibernation-advanced", "waiting-hibernation-seatbox",
   "waiting-hibernation-confirm"}

SwitchesWork(s) == SystemStateOf(s) \in ActiveSystemStates

BlinkInit == lamp = {} /\ by = "switch" /\ missed = {}

-----------------------------------------------------------------------------
(* handleInputChange lets a switch through in some states only; in the     *)
(* others the edge is dropped.                                             *)
BlinkGate(t) ==
  /\ at[t] = "call" /\ arg[t].ch \in Switches
  /\ IF SwitchesWork(state)
     THEN Goto(t, "blink") /\ UNCHANGED <<arg, missed>>
     ELSE Return(t) /\ missed' = missed \cup {"ignored"}
  /\ UNCHANGED <<machineVars, inputVars, lamp, by, left>>

Pressed(c) == { d \in Switches \ {c} : active[d] }

(* Another goroutine has been told a later value of the switch, or the     *)
(* cache is ahead of what was reported of the other one.                   *)
Overtaken(t) ==
  IF /\ reported[arg[t].ch] = arg[t].val
     /\ \A d \in Switches \ {arg[t].ch} : active[d] = reported[d]
  THEN {} ELSE {"overtaken"}

(* Mutant: the other switch is not looked at.                              *)
BlinkAlone(t) ==
  /\ at[t] = "blink"
  /\ lamp' = (IF arg[t].val THEN {arg[t].ch} ELSE {})
  /\ by' = "switch"
  /\ missed' = Overtaken(t) \cup (IF SwitchesWork(Heading) THEN {} ELSE {"late"})
  /\ Return(t)
  /\ UNCHANGED <<machineVars, inputVars, left>>

(* This switch as called, the other from the cache.                        *)
Sides(t) == (IF arg[t].val THEN {arg[t].ch} ELSE {}) \cup Pressed(arg[t].ch)

(* The old worker is stopped and the switch cannot be published: the       *)
(* handler returns before it starts the new one.                           *)
NoWorker == lamp' = {} /\ missed' = {"failed"}

(* handleBlinkerChange.                                                    *)
Blink(t) ==
  /\ at[t] = "blink"
  /\ \/ /\ lamp' = Sides(t)
        /\ missed' = Overtaken(t) \cup (IF SwitchesWork(Heading) THEN {} ELSE {"late"})
     \/ Sides(t) # {} /\ NoWorker
  /\ by' = "switch"
  /\ Return(t)
  /\ UNCHANGED <<machineVars, inputVars, left>>

(* handleBlinkerRequest, in whatever state.                                *)
BlinkRequest ==
  /\ Spend("command")
  /\ \E sides \in SUBSET Switches : lamp' = sides
  /\ by' = "command"
  /\ UNCHANGED <<machineVars, threadVars, inputVars, missed>>

BlinkStep(t) == BlinkGate(t) \/ Blink(t)

-----------------------------------------------------------------------------
(* The machine's part.                                                     *)

(* Mutant: stand-by leaves the blinkers alone.                             *)
BlinkersKept == UNCHANGED <<lamp, by, missed>>

(* EnterStandby.                                                           *)
BlinkersOff == lamp' = {} /\ by' = "switch" /\ UNCHANGED missed

(* From stand-by the machine may also go through a shutdown to Parked,     *)
(* which restores nothing then.                                            *)
BlinkersPass ==
  /\ missed' = IF state = "Standby" /\ target # "Parked" THEN missed \cup {"unlit"} ELSE missed
  /\ UNCHANGED <<lamp, by>>

(* The cache and the handlers disagree: a resync is under way, or two have *)
(* overtaken each other.                                                   *)
Stale == IF \A c \in Switches : active[c] = reported[c] THEN {} ELSE {"overtaken"}

(* EnterParked, coming from stand-by: the switch that is still held.       *)
BlinkersRestore ==
  IF \E c \in Switches : active[c]
  THEN /\ \/ lamp' = { c \in Switches : active[c] } /\ missed' = Stale
          \/ NoWorker
       /\ by' = "switch"
  ELSE /\ missed' = Stale \cup (IF lamp = {} THEN missed \cap {"late"} ELSE missed)
       /\ UNCHANGED <<lamp, by>>

BlinkTypeOK ==
  /\ lamp \subseteq Switches /\ by \in {"switch", "command"}
  /\ missed \subseteq {"ignored", "late", "overtaken", "unlit", "failed"}
=============================================================================
