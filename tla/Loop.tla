-------------------------------- MODULE Loop --------------------------------
(***************************************************************************)
(* What the components of the cockpit share: the state machine's position  *)
(* and its event queue, the goroutines that call into the service besides  *)
(* the event loop, and the budget of inputs a behaviour may spend.         *)
(*                                                                         *)
(* The goroutines: the reader of the input device (monitor), which also    *)
(* runs the callbacks of inputs without debounce; two debounce timers that *)
(* have expired (d1, d2) and run the callbacks of debounced inputs; and    *)
(* one each for the Redis watchers of power-manager, ble and settings.     *)
(***************************************************************************)
EXTENDS VehicleFsm, Sequences, FiniteSets

CONSTANTS
  Scenarios,     (* how a behaviour may begin once Start() has returned,   *)
                 (* and how often each input may occur in it (a bound)     *)
  ExtEvents,     (* events other parts of the service send                 *)
  MaxQueue       (* bound: no external event beyond this queue length      *)

VARIABLES
  state,    \* machine.currentState
  from,     \* c.FromState of the transition under way
  vstate,   \* v.state
  pc,       \* next step of the event loop
  target,   \* the state a transition under way moves to
  queue,    \* the machine's event queue
  at,       \* next step of each goroutine
  arg,      \* its local variables: channel, value, the state it has read
  left      \* what is left of the scenario's budget

machineVars == <<state, from, vstate, pc, target, queue>>
threadVars  == <<at, arg>>

DebounceThreads == {"d1", "d2"}
ResyncThreads   == {"monitor", "power"}
InputThreads    == DebounceThreads \cup ResyncThreads
Threads         == InputThreads \cup {"ble", "settings"}

InputKinds == {"kickstand", "left", "right", "suspend", "overflow", "publish",
           "event", "ble", "setting", "command", "horn", "honk"}

ASSUME LoopAssumption ==
  /\ \A s \in Scenarios :
       /\ s.state \in Leaves /\ s.budget \in [InputKinds -> Nat]
       /\ s.secs \in Nat /\ s.down \in BOOLEAN /\ s.rejected \in BOOLEAN
       /\ s.rejected => s.state = "Parked"
  /\ ExtEvents \subseteq Events
  /\ MaxQueue \in Nat

LoopSteps == {"idle", "move", "atRest", "parked", "drive", "dark", "publish"}

NoArg == [ch |-> "none", val |-> FALSE, seen |-> "none"]

Send(e) == queue' = Append(queue, e)

Goto(t, step) == at' = [at EXCEPT ![t] = step]

Spend(i) == left[i] > 0 /\ left' = [left EXCEPT ![i] = @ - 1]

(* Where the machine is, or is about to be: the exit action has run.       *)
Heading == IF pc = "move" THEN target ELSE state

HopOnFamily == {"HopOn", "HopOnLearning"}
=============================================================================
