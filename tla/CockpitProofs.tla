---------------------------- MODULE CockpitProofs ----------------------------
(***************************************************************************)
(* The cockpit for every set of beginnings and inputs, every set of        *)
(* channels, and every interleaving of its goroutines.                     *)
(***************************************************************************)
EXTENDS Cockpit, FsmProofs, SequenceTheorems

(* The transition moves to the leaf whose entry actions come next.         *)
LEMMA EntryPlaces ==
  \A s, old : /\ EntryOf(s, old) \notin {"move", "idle", "parked"}
              /\ EntryOf(s, old) = "atRest" => s \in AtRestLeaves
              /\ s = "Standby" => EntryOf(s, old) = "dark"
  BY DEF EntryOf, AtRestLeaves

-----------------------------------------------------------------------------
(* TimerOnlyAtRest.  While the machine moves, the timer belongs to where   *)
(* it moves to: the exit action has already run.                           *)
Placed ==
  /\ pc \in {"atRest", "parked"} => state \in AtRestLeaves
  /\ timer # "none" => (Heading \in AtRestLeaves \/ lapses \cap {"late", "hold"} # {})

(* A behaviour begins between two events.                                  *)
LEMMA PlacedInit == Init => Placed
  BY DEF Init, AtRestInit, Placed, Heading

(* The event loop: the exit action stops what the group has armed.         *)
LEMMA PlacedLoop ==
  ASSUME Placed, LoopStep
  PROVE  Placed'
<1> USE DEF Placed, Heading
<1>1. CASE Dispatch
  <2>1. UNCHANGED state /\ pc = "idle"
    BY <1>1 DEF Dispatch
  <2>2. CASE UNCHANGED <<pc, target, timer, lapses>>
    BY <2>1, <2>2
  <2>3. ASSUME NEW s, pc' = "move", target' = s,
               IF LeavesGroup(s) THEN ExitAtRest ELSE UNCHANGED <<timer, counting, lapses>>
        PROVE  Placed'
    BY <2>1, <2>3 DEF LeavesGroup, ExitAtRest
  <2> QED
    BY <1>1, <2>2, <2>3 DEF Dispatch
<1>2. CASE Move
  BY <1>2, EntryPlaces DEF Move, restVars
<1>3. CASE EntryAtRest
  BY <1>3 DEF EntryAtRest, Entry, EnterAtRest
<1>4. CASE EntryParked \/ EntryDrive \/ EntryStandby
  BY <1>4 DEF EntryParked, EntryDrive, EntryStandby, Entry, restVars
<1>5. CASE Publish
  BY <1>5 DEF Publish, restVars
<1> QED
  BY <1>1, <1>2, <1>3, <1>4, <1>5 DEF LoopStep

(* Whoever arms the timer without the machine leaves a trace if the        *)
(* machine has gone.                                                       *)
LEMMA PlacedResting ==
  ASSUME Placed, RestHandler \/ TimerFires \/ \E t \in InputThreads : KickReset(t)
  PROVE  Placed'
<1> USE DEF Placed, Heading, machineVars, OnlyRest
<1>1. UNCHANGED <<state, pc, target>>
  BY DEF RestHandler, TimerFires, KickReset, BleChange, BleCheck, BleFlag, BleCount, SettingIdle,
         SettingGrace, Rearm, Clear, Stop, Cancel, Recheck, Arm
<1>2. CASE TimerFires
  BY <1>1, <1>2 DEF TimerFires
<1>3. CASE BleChange \/ BleCheck \/ BleFlag \/ SettingIdle \/ SettingGrace
  BY <1>1, <1>3 DEF BleChange, BleCheck, BleFlag, SettingIdle, SettingGrace
<1>4. CASE BleCount
  BY <1>1, <1>4 DEF BleCount, Outside
<1>5. ASSUME NEW t, NEW after, Rearm(t, after)
      PROVE  Placed'
  BY <1>1, <1>5 DEF Outside, Rearm, Clear, Stop, Cancel, Recheck, Arm
<1> QED
  BY <1>2, <1>3, <1>4, <1>5 DEF RestHandler, KickReset

(* The others leave the timer and the place of the machine alone.          *)
LEMMA PlacedOthers ==
  ASSUME Placed, UNCHANGED <<state, pc, target, timer, lapses>>
  PROVE  Placed'
  BY DEF Placed, Heading

(* The goroutines that neither move the machine nor touch the timer.       *)
LEMMA OthersStayPut ==
  ASSUME \/ StateTimeout \/ ExtSend \/ Inputting \/ DeferralFires \/ SecondPasses \/ MonitorTick
         \/ \E t \in InputThreads : KickBegin(t) \/ KickPublish(t) \/ KickSend(t)
         \/ Blinking \/ Honking
  PROVE  UNCHANGED <<state, pc, target, timer, lapses>>
<1> USE DEF machineVars, restVars
<1>1. CASE StateTimeout \/ ExtSend \/ Inputting
  BY <1>1 DEF StateTimeout, ExtSend, Inputting, OthersOfInputs
<1>2. CASE DeferralFires \/ SecondPasses \/ MonitorTick
  BY <1>2 DEF DeferralFires, SecondPasses, MonitorTick
<1>3. ASSUME NEW t, KickBegin(t) \/ KickPublish(t) \/ KickSend(t)
      PROVE  UNCHANGED <<state, pc, target, timer, lapses>>
  BY <1>3 DEF KickBegin, KickPublish, KickSend
<1>4. CASE Blinking
  BY <1>4 DEF Blinking, BlinkRequest, BlinkStep, BlinkGate, Blink
<1>5. CASE Honking
  BY <1>5 DEF Honking, HornRequest, HornStep, HornGate, HornWrite
<1> QED
  BY <1>1, <1>2, <1>3, <1>4, <1>5

(* Placed is inductive.                                                    *)
LEMMA PlacedStep == Placed /\ [Next]_vars => Placed'
<1> SUFFICES ASSUME Placed, [Next]_vars PROVE Placed'
  OBVIOUS
<1>1. CASE LoopStep
  BY <1>1, PlacedLoop
<1>2. CASE Resting \/ \E t \in InputThreads : KickReset(t)
  BY <1>2, PlacedResting DEF Resting
<1>3. CASE UNCHANGED vars
  BY <1>3, PlacedOthers DEF vars, machineVars, restVars
<1> QED
  BY <1>1, <1>2, <1>3, PlacedOthers, OthersStayPut DEF Next, Driving, KickStep

(* The timer that locks the vehicle runs at rest only, unless a handler    *)
(* was overtaken by the exit or took the hold of a hibernation for parked, *)
(* for any settings and inputs.                                            *)
THEOREM TimerRunsAtRest == Spec => []TimerOnlyAtRest
<1>1. Placed => TimerOnlyAtRest
  BY DEF Placed, Heading, TimerOnlyAtRest, Settled
<1> QED
  BY <1>1, PlacedInit, PlacedStep, PTL DEF Spec

-----------------------------------------------------------------------------
(* StandbyIsDark.  From the entry action on.                               *)
Dark ==
  (state = "Standby" /\ pc \notin {"move", "dark"} /\ lamp # {})
    => (by = "command" \/ "late" \in missed)

(* A behaviour begins without a worker.                                    *)
LEMMA DarkInit == Init => Dark
  BY DEF Init, BlinkInit, Dark

(* No switch works in stand-by.                                            *)
LEMMA StandbyIgnoresSwitches == ~SwitchesWork("Standby")
  BY DEF SwitchesWork, ActiveSystemStates, SystemStateOf

(* The entry of stand-by stops the worker; that of Parked is not reached.  *)
LEMMA DarkLoop ==
  ASSUME Placed, Dark, LoopStep
  PROVE  Dark'
<1> USE DEF Dark, signalVars, blinkVars
<1>1. CASE Dispatch
  BY <1>1 DEF Dispatch
<1>2. CASE Move
  BY <1>2, EntryPlaces DEF Move
<1>3. CASE EntryAtRest \/ EntryDrive \/ Publish
  BY <1>3 DEF EntryAtRest, EntryDrive, Publish, Entry
<1>4. CASE EntryParked
  BY <1>4 DEF EntryParked, Entry, Placed, AtRestLeaves
<1>5. CASE EntryStandby
  BY <1>5 DEF EntryStandby, Entry, BlinkersOff
<1> QED
  BY <1>1, <1>2, <1>3, <1>4, <1>5 DEF LoopStep

(* A switch that acts in stand-by was let through elsewhere.               *)
LEMMA DarkBlinking ==
  ASSUME Dark, Blinking
  PROVE  Dark'
<1> USE DEF Dark, machineVars
<1>1. CASE BlinkRequest
  BY <1>1 DEF BlinkRequest
<1>2. ASSUME NEW t, BlinkGate(t)
      PROVE  Dark'
  BY <1>2 DEF BlinkGate
<1>3. ASSUME NEW t, Blink(t)
      PROVE  Dark'
  <2>1. UNCHANGED <<state, pc>>
    BY <1>3 DEF Blink
  <2>2. (state = "Standby" /\ pc # "move") => (lamp' = {} \/ "late" \in missed')
    BY <1>3, StandbyIgnoresSwitches DEF Blink, NoWorker, Heading
  <2> QED
    BY <2>1, <2>2
<1> QED
  BY <1>1, <1>2, <1>3 DEF Blinking, BlinkStep

(* The goroutines that leave the lamps alone.                              *)
LEMMA OthersKeepLamps ==
  ASSUME StateTimeout \/ ExtSend \/ Inputting \/ Resting \/ Driving \/ Honking
  PROVE  UNCHANGED <<state, pc, blinkVars>>
<1> USE DEF machineVars, signalVars, OnlyRest
<1>1. CASE StateTimeout \/ ExtSend \/ Inputting
  BY <1>1 DEF StateTimeout, ExtSend, Inputting, OthersOfInputs
<1>2. CASE Resting
  BY <1>2 DEF Resting, RestHandler, TimerFires, BleChange, BleCheck, BleFlag, BleCount, SettingIdle,
              SettingGrace, Rearm, Clear, Stop, Cancel, Recheck, Arm
<1>3. CASE Driving
  BY <1>3 DEF Driving, DeferralFires, SecondPasses, MonitorTick, KickStep, KickBegin, KickPublish,
              KickSend, KickReset, Rearm, Clear, Stop, Cancel, Recheck, Arm
<1>4. CASE Honking
  BY <1>4 DEF Honking, HornRequest, HornStep, HornGate, HornWrite
<1> QED
  BY <1>1, <1>2, <1>3, <1>4

(* Dark is inductive, where the machine is placed.                         *)
LEMMA DarkStep == Placed /\ Dark /\ [Next]_vars => Dark'
<1> SUFFICES ASSUME Placed, Dark, [Next]_vars PROVE Dark'
  OBVIOUS
<1>1. CASE LoopStep
  BY <1>1, DarkLoop
<1>2. CASE Blinking
  BY <1>2, DarkBlinking
<1>3. CASE UNCHANGED <<state, pc, blinkVars>>
  BY <1>3 DEF Dark, blinkVars
<1> QED
  BY <1>1, <1>2, <1>3, OthersKeepLamps DEF Next, vars, machineVars, signalVars

(* In stand-by nothing blinks that a command has not asked for, unless a   *)
(* switch was let through just before.                                     *)
THEOREM StandbyStaysDark == Spec => []StandbyIsDark
<1>1. Dark => StandbyIsDark
  BY DEF Dark, StandbyIsDark, Settled
<1> QED
  BY <1>1, PlacedInit, PlacedStep, DarkInit, DarkStep, PTL DEF Spec

-----------------------------------------------------------------------------
(* The steps of the refinement to InputLine.                               *)

(* The parts of the inputs' state that the actions of others leave alone.  *)
LEMMA OthersKeepInputs ==
  ASSUME [Next]_vars, ~Inputting
  PROVE  UNCHANGED inputVars
<1> USE DEF machineVars, OnlyLoop, OnlyRest
<1>1. CASE LoopStep
  BY <1>1 DEF LoopStep, Dispatch, Move, EntryAtRest, EntryParked, EntryDrive, EntryStandby, Publish
<1>2. CASE StateTimeout \/ ExtSend
  BY <1>2 DEF StateTimeout, ExtSend
<1>3. CASE Resting
  BY <1>3 DEF Resting
<1>4. CASE Driving
  BY <1>4 DEF Driving, DeferralFires, SecondPasses, MonitorTick, KickStep, KickBegin, KickPublish,
              KickSend, KickReset
<1>5. CASE Blinking
  BY <1>5 DEF Blinking, BlinkRequest, BlinkStep, BlinkGate, Blink
<1>6. CASE Honking
  BY <1>6 DEF Honking, HornRequest, HornStep, HornGate, HornWrite
<1>7. CASE UNCHANGED vars
  BY <1>7 DEF vars
<1> QED
  BY <1>1, <1>2, <1>3, <1>4, <1>5, <1>6, <1>7 DEF Next

(* The lines, the cache and the queue begin with their types,              *)
LEMMA InputsTypedInit == Init => InputsTypeOK
<1> SUFFICES ASSUME NEW down, InputsInit(down) PROVE InputsTypeOK
  BY DEF Init
<1>1. line \in [Channels -> BOOLEAN]
  BY DEF InputsInit
<1>2. events \in Seq([ch : Channels \cup {"dropped"}, val : BOOLEAN])
  BY DEF InputsInit
<1>3. snap \in [ResyncThreads -> [Channels -> BOOLEAN]] /\ last \in [Channels -> BOOLEAN]
  BY DEF InputsInit, AllLow
<1> QED
  BY <1>1, <1>2, <1>3 DEF InputsInit, InputsTypeOK

(* A report keeps the types of what it writes.                             *)
LEMMA DeliverTypes ==
  ASSUME InputsTypeOK, NEW t, NEW c, NEW v \in BOOLEAN, Deliver(t, c, v)
  PROVE  reported' \in [Channels -> BOOLEAN]
  BY DEF Deliver, InputsTypeOK

(* and so does the choice between timer and report,                        *)
LEMMA DebounceTypes ==
  ASSUME InputsTypeOK, NEW t, NEW c, NEW v \in BOOLEAN, DebounceInput(t, c, v)
  PROVE  /\ last' \in [Channels -> BOOLEAN] /\ armed' \subseteq Debounced
         /\ reported' \in [Channels -> BOOLEAN]
<1>1. CASE c \in Debounced
  BY <1>1 DEF DebounceInput, InputsTypeOK
<1>2. CASE c \notin Debounced
  BY <1>2, DeliverTypes DEF DebounceInput, InputsTypeOK
<1> QED
  BY <1>1, <1>2

(* and the history of looks.                                               *)
LEMMA LooksAtTypes ==
  ASSUME InputsTypeOK, NEW c, NEW v, NEW rest, LooksAt(c, v, rest)
  PROVE  sure' \in [Channels -> BOOLEAN]
<1>1. ((v = line[c]) \/ Followed(c, rest, ResyncThreads)) \in BOOLEAN
  BY DEF Followed
<1> QED
  BY <1>1 DEF LooksAt, InputsTypeOK

(* The inputs' types are inductive.                                        *)
LEMMA InputsTypedStep == InputsTypeOK /\ [Next]_vars => InputsTypeOK'
<1> SUFFICES ASSUME InputsTypeOK, [Next]_vars PROVE InputsTypeOK'
  OBVIOUS
<1>1. CASE ~Inputting
  BY <1>1, OthersKeepInputs DEF InputsTypeOK, inputVars, lineVars, cacheVars, syncVars
<1>2. ASSUME NEW c \in Channels, Edge(c) PROVE InputsTypeOK'
  <2>1. line' \in [Channels -> BOOLEAN]
    BY <1>2 DEF Edge, InputsTypeOK
  <2>2. events' \in Seq([ch : Channels \cup {"dropped"}, val : BOOLEAN])
    <3>1. line'[c] \in BOOLEAN /\ line'[c] = ~line[c]
      BY <1>2, <2>1 DEF Edge, InputsTypeOK
    <3>2. events' = Append(events, [ch |-> c, val |-> line'[c]])
      BY <1>2, <3>1 DEF Edge
    <3>3. [ch |-> c, val |-> line'[c]] \in [ch : Channels \cup {"dropped"}, val : BOOLEAN]
      BY <3>1
    <3> QED
      BY <3>2, <3>3 DEF InputsTypeOK
  <2> QED
    BY <1>2, <2>1, <2>2 DEF Edge, InputsTypeOK, cacheVars, syncVars
<1>3. CASE Overflow
  BY <1>3 DEF Overflow, InputsTypeOK, cacheVars, syncVars, Dropped
<1>4. CASE Suspend
  <2>1. PICK masked : line' = [c \in Channels |-> (c \in masked) # line[c]]
    BY <1>4 DEF Suspend
  <2>2. line' \in [Channels -> BOOLEAN]
    BY <2>1
  <2> QED
    BY <1>4, <2>2 DEF Suspend, InputsTypeOK, cacheVars, syncVars
<1>5. CASE TakeEvent
  <2>1. Head(events) \in [ch : Channels \cup {"dropped"}, val : BOOLEAN]
        /\ Tail(events) \in Seq([ch : Channels \cup {"dropped"}, val : BOOLEAN])
    <3>1. events # <<>> /\ events \in Seq([ch : Channels \cup {"dropped"}, val : BOOLEAN])
      BY <1>5 DEF TakeEvent, InputsTypeOK
    <3> QED
      BY <3>1, HeadTailProperties
  <2>2. CASE Head(events) = Dropped
    BY <1>5, <2>1, <2>2 DEF TakeEvent, InputsTypeOK, cacheVars, syncVars
  <2>3. CASE Head(events) # Dropped
    <3> DEFINE e == Head(events)
    <3>1. /\ active' = [active EXCEPT ![e.ch] = e.val]
          /\ DebounceInput("monitor", e.ch, e.val)
          /\ LooksAt(e.ch, e.val, Tail(events))
          /\ events' = Tail(events) /\ UNCHANGED <<line, owed, syncVars>>
      BY <1>5, <2>3 DEF TakeEvent
    <3>2. e.val \in BOOLEAN
      BY <2>1
    <3>3. /\ last' \in [Channels -> BOOLEAN] /\ armed' \subseteq Debounced
          /\ reported' \in [Channels -> BOOLEAN]
      BY <3>1, <3>2, DebounceTypes
    <3>4. sure' \in [Channels -> BOOLEAN]
      BY <3>1, LooksAtTypes
    <3>5. active' \in [Channels -> BOOLEAN]
      BY <3>1, <3>2 DEF InputsTypeOK
    <3> HIDE DEF e
    <3> QED
      BY <2>1, <3>1, <3>3, <3>4, <3>5 DEF InputsTypeOK, syncVars
  <2> QED
    BY <2>2, <2>3
<1>6. CASE PowerRunning
  BY <1>6 DEF PowerRunning, InputsTypeOK, cacheVars, syncVars
<1>7. ASSUME NEW t \in ResyncThreads, ResyncRead(t) \/ ResyncFails(t) \/ ResyncCache(t)
      PROVE  InputsTypeOK'
  <2>1. CASE ResyncRead(t) \/ ResyncCache(t)
    BY <1>7, <2>1 DEF ResyncRead, ResyncCache, InputsTypeOK, lineVars, cacheVars
  <2>2. CASE ResyncFails(t)
    <3>1. \A c : (sure[c] /\ (Known(c) = line[c] \/ Followed(c, events, ResyncThreads \ {t})))
                  \in BOOLEAN
      BY DEF Followed
    <3>2. sure' \in [Channels -> BOOLEAN]
      BY <2>2, <3>1, Zenon DEF ResyncFails
    <3> QED
      BY <2>2, <3>2 DEF ResyncFails, InputsTypeOK, lineVars, syncVars
  <2> QED
    BY <1>7, <2>1, <2>2
<1>8. ASSUME NEW t \in ResyncThreads, ResyncReport(t) PROVE InputsTypeOK'
  <2>1. PICK c \in pend[t] :
          /\ pend' = [pend EXCEPT ![t] = @ \ {c}]
          /\ snap' = [snap EXCEPT ![t][c] = FALSE]
          /\ DebounceInput(t, c, snap[t][c])
          /\ LooksAt(c, snap[t][c], events)
    BY <1>8 DEF ResyncReport
  <2>2. snap[t][c] \in BOOLEAN
    BY DEF InputsTypeOK
  <2>3. /\ last' \in [Channels -> BOOLEAN] /\ armed' \subseteq Debounced
        /\ reported' \in [Channels -> BOOLEAN]
    BY <2>1, <2>2, DebounceTypes
  <2>4. sure' \in [Channels -> BOOLEAN]
    BY <2>1, LooksAtTypes
  <2>5. snap' \in [ResyncThreads -> [Channels -> BOOLEAN]]
        /\ pend' \in [ResyncThreads -> SUBSET Channels]
    BY <2>1 DEF InputsTypeOK
  <2> QED
    BY <1>8, <2>3, <2>4, <2>5 DEF ResyncReport, InputsTypeOK, lineVars
<1>9. ASSUME NEW c \in Debounced, Settle(c) PROVE InputsTypeOK'
  <2>1. last[c] \in BOOLEAN
    BY InputsAssumption DEF InputsTypeOK
  <2>2. reported' \in [Channels -> BOOLEAN]
    BY <1>9, <2>1, DeliverTypes DEF Settle
  <2> QED
    BY <1>9, <2>2 DEF Settle, InputsTypeOK, lineVars, syncVars
<1> QED
  BY <1>1, <1>2, <1>3, <1>4, <1>5, <1>6, <1>7, <1>8, <1>9
     DEF Inputting, InputStep, World, Resync
-----------------------------------------------------------------------------
(* What the handler of the kickstand has been told changes by Deliver      *)
(* only, and then to the other value.                                      *)
LEMMA DebounceTells ==
  ASSUME "kickstand" \in Channels, InputsTypeOK, NEW t, NEW c, NEW v \in BOOLEAN,
         Deliver(t, c, v) \/ DebounceInput(t, c, v)
  PROVE  reported'["kickstand"] \in {reported["kickstand"], ~reported["kickstand"]}
<1>1. CASE UNCHANGED reported
  BY <1>1
<1>2. CASE reported' = [reported EXCEPT ![c] = v]
  <2>1. reported'["kickstand"] \in BOOLEAN /\ reported["kickstand"] \in BOOLEAN
    BY <1>2 DEF InputsTypeOK
  <2> QED
    BY <2>1
<1> QED
  BY <1>1, <1>2 DEF DebounceInput, Deliver

(* An edge, a telling or neither, seen from the kickstand.                 *)
LEMMA KickstandTold ==
  ASSUME "kickstand" \in Channels, InputsTypeOK, [Next]_vars
  PROVE  \/ /\ line'["kickstand"] = ~line["kickstand"]
            /\ UNCHANGED <<reported["kickstand"], sure["kickstand"]>>
         \/ /\ UNCHANGED line["kickstand"]
            /\ reported'["kickstand"] \in {reported["kickstand"], ~reported["kickstand"]}
<1>1. CASE ~Inputting
  BY <1>1, OthersKeepInputs DEF inputVars, lineVars, cacheVars
<1>2. ASSUME NEW c \in Channels, Edge(c) 
      PROVE  \/ /\ line'["kickstand"] = ~line["kickstand"]
                /\ UNCHANGED <<reported["kickstand"], sure["kickstand"]>>
             \/ UNCHANGED <<line["kickstand"], reported["kickstand"]>>
  BY <1>2 DEF Edge, InputsTypeOK, cacheVars
<1>3. CASE Overflow \/ PowerRunning
  BY <1>3 DEF Overflow, PowerRunning, cacheVars
<1>4. CASE Suspend
  <2>1. PICK masked : line' = [c \in Channels |-> (c \in masked) # line[c]]
    BY <1>4 DEF Suspend
  <2>2. CASE "kickstand" \in masked
    BY <1>4, <2>1, <2>2 DEF Suspend, cacheVars, InputsTypeOK
  <2>3. CASE "kickstand" \notin masked
    BY <1>4, <2>1, <2>3 DEF Suspend, cacheVars, InputsTypeOK
  <2> QED
    BY <2>2, <2>3
<1>5. CASE TakeEvent
  <2>1. Head(events).val \in BOOLEAN
    <3>1. events # <<>> /\ events \in Seq([ch : Channels \cup {"dropped"}, val : BOOLEAN])
      BY <1>5 DEF TakeEvent, InputsTypeOK
    <3>2. Head(events) \in [ch : Channels \cup {"dropped"}, val : BOOLEAN]
      BY <3>1, HeadTailProperties
    <3> QED
      BY <3>2
  <2>2. \/ UNCHANGED reported
        \/ DebounceInput("monitor", Head(events).ch, Head(events).val)
    BY <1>5 DEF TakeEvent, cacheVars
  <2> QED
    BY <1>5, <2>1, <2>2, DebounceTells DEF TakeEvent
<1>6. ASSUME NEW t \in ResyncThreads, Resync(t)
      PROVE  /\ UNCHANGED line["kickstand"]
             /\ reported'["kickstand"] \in {reported["kickstand"], ~reported["kickstand"]}
  <2>1. CASE ResyncRead(t) \/ ResyncFails(t) \/ ResyncCache(t)
    BY <2>1 DEF ResyncRead, ResyncFails, ResyncCache, lineVars, cacheVars
  <2>2. CASE ResyncReport(t)
    <3>1. PICK c \in pend[t] : DebounceInput(t, c, snap[t][c])
      BY <2>2 DEF ResyncReport
    <3>2. snap[t][c] \in BOOLEAN
      BY DEF InputsTypeOK
    <3> QED
      BY <2>2, <3>1, <3>2, DebounceTells DEF ResyncReport, lineVars
  <2> QED
    BY <1>6, <2>1, <2>2 DEF Resync
<1>7. ASSUME NEW c \in Debounced, Settle(c)
      PROVE  /\ UNCHANGED line["kickstand"]
             /\ reported'["kickstand"] \in {reported["kickstand"], ~reported["kickstand"]}
  <2>1. last[c] \in BOOLEAN
    BY InputsAssumption DEF InputsTypeOK
  <2> QED
    BY <1>7, <2>1, DebounceTells DEF Settle, lineVars
<1> QED
  BY <1>1, <1>2, <1>3, <1>4, <1>5, <1>6, <1>7 DEF Inputting, InputStep, World

(* Every behaviour of the cockpit, seen through the kickstand, is one of   *)
(* InputLine as far as safety goes: its handler is never told the same     *)
(* value twice in a row, through bounces, overflows, suspends and resyncs. *)
THEOREM KickstandStepsAreHeard ==
  ASSUME "kickstand" \in Channels
  PROVE  Spec => Kickstand!Init /\ [][Kickstand!Next]_(Kickstand!vars)
<1>1. Init => InputsTypeOK /\ Kickstand!Init
  <2> SUFFICES ASSUME Init PROVE Kickstand!Init
    BY InputsTypedInit
  <2>1. InputsTypeOK
    BY InputsTypedInit
  <2>2. reported = line /\ sure["kickstand"] = TRUE
    BY DEF Init, InputsInit
  <2> QED
    BY <2>1, <2>2 DEF Kickstand!Init, InputsTypeOK
<1>2. InputsTypeOK /\ [Next]_vars => InputsTypeOK'
  BY InputsTypedStep
<1>3. InputsTypeOK /\ InputsTypeOK' /\ [Next]_vars => [Kickstand!Next]_(Kickstand!vars)
  <2> SUFFICES ASSUME InputsTypeOK, InputsTypeOK', [Next]_vars
               PROVE  [Kickstand!Next]_(Kickstand!vars)
    OBVIOUS
  <2>1. sure["kickstand"] \in BOOLEAN /\ sure'["kickstand"] \in BOOLEAN
    BY DEF InputsTypeOK
  <2>2. sure'["kickstand"] \in {sure["kickstand"], ~sure["kickstand"]}
    BY <2>1
  <2> QED
    BY <2>1, <2>2, KickstandTold
       DEF Kickstand!Next, Kickstand!Flip, Kickstand!Tell, Kickstand!Doubt, Kickstand!vars
<1> QED
  BY <1>1, <1>2, <1>3, PTL DEF Spec

-----------------------------------------------------------------------------
(* TypeOK, with what a move and an event of the reader need besides.       *)
MachineTypes ==
  /\ state \in Leaves /\ from \in Leaves \cup {"none"} /\ vstate \in SystemStates
  /\ pc \in LoopSteps /\ target \in Leaves \cup {"none"}
  /\ queue \in Seq(Events) /\ Heading \in Leaves

Steps ==
  {"idle", "kickPublish", "kickSend", "blink", "horn"} \cup InputStepsOf \cup RestSteps

Args == [ch : Channels \cup {"none"}, val : BOOLEAN, seen : Leaves \cup {"none"}]

AtTypes   == at \in [Threads -> Steps]
ArgTypes  == arg \in [Threads -> Args]
LeftTypes == left \in [InputKinds -> Nat]

(* A goroutine that is about to set the lamps was called with a switch.    *)
BlinkArgs == \A t \in Threads : at[t] = "blink" => arg[t].ch \in Switches

(* What is read is an edge of a channel or the marker.                     *)
EdgeTypes == events \in Seq([ch : Channels, val : BOOLEAN] \cup {Dropped})

Types ==
  /\ MachineTypes /\ AtTypes /\ ArgTypes /\ BlinkArgs /\ LeftTypes /\ EdgeTypes
  /\ InputsTypeOK
  /\ AtRestTypeOK /\ DriveTypeOK /\ BlinkTypeOK /\ HornTypeOK

(* The parts together are TypeOK.                                          *)
LEMMA TypesImplyTypeOK == Types => TypeOK
  BY DEF Types, TypeOK, MachineTypes, AtTypes, ArgTypes, LeftTypes, Steps, Args

(* The conversions and timeouts of the leaves have their types.            *)
LEMMA CockpitSystemState == \A s \in Leaves : SystemStateOf(s) \in SystemStates
  BY DEF SystemStates

(* State timeouts are events of the machine.                               *)
LEMMA TimeoutsAreEvents == \A s : TimeoutOf(s) \subseteq Events
<1> TAKE s
<1>1. {"ShutdownTimeout", "WaitingSeatboxTimeout", "HibernationInitialTimeout",
       "HibernationConfirmTimeout", "HibernationForceTimeout", "HibernationFinalTimeout"}
        \subseteq Events
  BY DEF Events, TimerEvents
<1>2. TimeoutOf(s) \subseteq
      {"ShutdownTimeout", "WaitingSeatboxTimeout", "HibernationInitialTimeout",
       "HibernationConfirmTimeout", "HibernationForceTimeout", "HibernationFinalTimeout"}
  BY DEF TimeoutOf
<1> QED
  BY <1>1, <1>2

(* Sending an event keeps the queue typed.                                 *)
LEMMA SendTypes ==
  ASSUME queue \in Seq(Events), NEW e \in Events, Send(e)
  PROVE  queue' \in Seq(Events)
  BY DEF Send

(* The events the cockpit's own goroutines send.                           *)
LEMMA OwnEvents ==
  {"KickstandDown", "KickstandUp", "DriveSupplyReady", "DashboardNotReady",
   "AutoStandbyTimeout"} \subseteq Events
  BY DEF Events, TimerEvents, InputEvents, CommandEvents

(* The entry actions are steps of the loop.                                *)
LEMMA EntryOfTypes == \A s, old : EntryOf(s, old) \in {"atRest", "drive", "dark", "publish"}
  BY DEF EntryOf

(* The machine begins in a leaf.                                           *)
LEMMA MachineTypesInit == Init => MachineTypes
<1> SUFFICES ASSUME Init PROVE MachineTypes
  OBVIOUS
<1>1. state \in Leaves
  BY LoopAssumption DEF Init
<1>2. /\ from = "none" /\ vstate = SystemStateOf(state)
      /\ pc = "idle" /\ target = "none" /\ queue = <<>>
  BY DEF Init
<1> QED
  BY <1>1, <1>2, CockpitSystemState DEF MachineTypes, LoopSteps, Heading

(* It moves to the target of a row, which is a leaf.                       *)
LEMMA MachineTypesLoop ==
  ASSUME MachineTypes, LoopStep
  PROVE  MachineTypes'
<1> USE DEF MachineTypes, LoopSteps, Heading
<1>1. CASE Dispatch
  <2>1. queue' \in Seq(Events)
    <3>1. queue # <<>> /\ queue' = Tail(queue)
      BY <1>1 DEF Dispatch
    <3> QED
      BY <3>1, HeadTailProperties
  <2>2. UNCHANGED <<state, from, vstate>> /\ pc = "idle"
    BY <1>1 DEF Dispatch
  <2>3. \/ UNCHANGED <<pc, target>>
        \/ \E G : \E row \in Selected(state, Head(queue), G) :
             pc' = "move" /\ target' = row.to
    BY <1>1 DEF Dispatch
  <2> QED
    BY <2>1, <2>2, <2>3, SelectedReachesLeaf
<1>2. CASE Move
  BY <1>2, EntryOfTypes DEF Move
<1>3. CASE EntryAtRest \/ EntryParked \/ EntryStandby
  BY <1>3 DEF EntryAtRest, EntryParked, EntryStandby, Entry
<1>4. CASE EntryDrive
  <2>1. queue' = queue \/ Send("DashboardNotReady")
    BY <1>4 DEF EntryDrive, EnterDrive
  <2>2. queue' \in Seq(Events)
    BY <2>1, SendTypes, OwnEvents
  <2> QED
    BY <1>4, <2>2 DEF EntryDrive, Entry
<1>5. CASE Publish
  BY <1>5, CockpitSystemState DEF Publish
<1> QED
  BY <1>1, <1>2, <1>3, <1>4, <1>5 DEF LoopStep

(* The others add to the queue at most, and what they add is an event.     *)
LEMMA OthersSend ==
  ASSUME MachineTypes, [Next]_vars, ~LoopStep
  PROVE  /\ UNCHANGED <<state, from, vstate, pc, target>>
         /\ queue' = queue \/ \E e \in Events : Send(e)
<1> USE OwnEvents DEF machineVars
<1>1. CASE StateTimeout
  BY <1>1, TimeoutsAreEvents DEF StateTimeout
<1>2. CASE ExtSend
  BY <1>2, LoopAssumption DEF ExtSend
<1>3. CASE Inputting
  BY <1>3 DEF Inputting, OthersOfInputs
<1>4. CASE Resting
  <2>1. CASE TimerFires
    BY <2>1 DEF TimerFires
  <2>2. CASE RestHandler
    BY <2>2 DEF RestHandler, BleChange, BleCheck, BleFlag, BleCount, SettingIdle, SettingGrace, Rearm, Clear, Stop, Cancel,
                Recheck, Arm, OnlyRest
  <2> QED
    BY <1>4, <2>1, <2>2 DEF Resting
<1>5. CASE Driving
  <2>1. CASE DeferralFires \/ SecondPasses \/ MonitorTick
    BY <2>1 DEF DeferralFires, SecondPasses, MonitorTick
  <2>2. ASSUME NEW t, KickBegin(t) \/ KickReset(t) \/ KickPublish(t)
        PROVE  UNCHANGED <<state, from, vstate, pc, target, queue>>
    BY <2>2 DEF KickBegin, KickReset, KickPublish, Rearm, Clear, Stop, Cancel, Recheck, Arm, OnlyRest
  <2>3. ASSUME NEW t, KickSend(t)
        PROVE  /\ UNCHANGED <<state, from, vstate, pc, target>>
               /\ queue' = queue \/ \E e \in Events : Send(e)
    BY <2>3 DEF KickSend
  <2> QED
    BY <1>5, <2>1, <2>2, <2>3 DEF Driving, KickStep
<1>6. CASE Blinking
  BY <1>6 DEF Blinking, BlinkRequest, BlinkStep, BlinkGate, Blink
<1>7. CASE Honking
  BY <1>7 DEF Honking, HornRequest, HornStep, HornGate, HornWrite
<1> QED
  BY <1>1, <1>2, <1>3, <1>4, <1>5, <1>6, <1>7 DEF Next, vars

(* The machine's types are inductive.                                      *)
LEMMA MachineTypesStep ==
  ASSUME MachineTypes, [Next]_vars
  PROVE  MachineTypes'
<1>1. CASE LoopStep
  BY <1>1, MachineTypesLoop
<1>2. CASE ~LoopStep
  <2>1. queue' \in Seq(Events)
    BY <1>2, OthersSend, SendTypes DEF MachineTypes
  <2> QED
    BY <1>2, <2>1, OthersSend DEF MachineTypes, Heading
<1> QED
  BY <1>1, <1>2

-----------------------------------------------------------------------------
(* The goroutines' steps and locals.                                       *)
LEMMA StepNames ==
  /\ {"idle", "kickPublish", "kickSend", "blink", "horn", "snap", "cache", "report", "call",
      "clear", "stop", "cancel", "recheck", "arm", "check", "flag", "count"} \subseteq Steps
  /\ NoArg \in Args
  BY DEF Steps, InputStepsOf, RestSteps, NoArg, Args

(* A goroutine that goes on, or returns, has a step again.                 *)
LEMMA GotoTypes ==
  ASSUME AtTypes, NEW t, NEW step \in Steps, Goto(t, step)
  PROVE  AtTypes'
  BY DEF AtTypes, Goto

(* A return also forgets the locals.                                       *)
LEMMA ReturnTypes ==
  ASSUME AtTypes, ArgTypes, NEW t, Return(t)
  PROVE  AtTypes' /\ ArgTypes'
<1> USE StepNames
<1>1. AtTypes'
  BY DEF AtTypes, Return
<1>2. ArgTypes'
  BY DEF ArgTypes, Return
<1> QED
  BY <1>1, <1>2

(* The resync's next step.                                                 *)
LEMMA NextOfTypes == \A t : NextOf(t) \in Steps
  BY StepNames DEF NextOf

(* The first step of a callback that resets the timer.                     *)
LEMMA ResetFirstTypes == \A after \in Steps : ResetFirst(after) \in Steps
  BY StepNames DEF ResetFirst

(* A report calls with a channel and a level.                              *)
LEMMA DeliverGoes ==
  ASSUME AtTypes, ArgTypes, NEW t, NEW c \in Channels, NEW v \in BOOLEAN,
         Deliver(t, c, v) \/ DebounceInput(t, c, v)
  PROVE  AtTypes' /\ ArgTypes'
<1>1. AtTypes'
  <2>1. Goto(t, NextOf(t)) \/ Goto(t, "call")
    BY DEF Deliver, DebounceInput
  <2> QED
    BY <2>1, GotoTypes, NextOfTypes, StepNames
<1>2. ArgTypes'
  <2>1. [NoArg EXCEPT !.ch = c, !.val = v] \in Args
    BY DEF NoArg, Args
  <2>2. \/ UNCHANGED arg
        \/ arg' = [arg EXCEPT ![t] = [NoArg EXCEPT !.ch = c, !.val = v]]
    BY DEF Deliver, DebounceInput
  <2> QED
    BY <2>1, <2>2 DEF ArgTypes
<1> QED
  BY <1>1, <1>2

(* The input layer: what the reader finds is a channel's edge or the marker.*)
LEMMA ThreadsInput ==
  ASSUME AtTypes, ArgTypes, InputsTypeOK, EdgeTypes, Inputting
  PROVE  AtTypes' /\ ArgTypes' /\ EdgeTypes'
<1> USE DEF lineVars, threadVars
<1>1. ASSUME NEW c \in Channels, Edge(c) PROVE AtTypes' /\ ArgTypes' /\ EdgeTypes'
  <2>1. UNCHANGED <<at, arg>>
    BY <1>1 DEF Edge
  <2>2. line' \in [Channels -> BOOLEAN]
    BY <1>1 DEF Edge, InputsTypeOK
  <2>3. line'[c] \in BOOLEAN /\ line'[c] = ~line[c]
    BY <1>1, <2>2 DEF Edge, InputsTypeOK
  <2>4. events' = Append(events, [ch |-> c, val |-> line'[c]])
    BY <1>1, <2>3 DEF Edge
  <2>5. [ch |-> c, val |-> line'[c]] \in [ch : Channels, val : BOOLEAN] \cup {Dropped}
    BY <2>3
  <2> QED
    BY <2>1, <2>4, <2>5 DEF AtTypes, ArgTypes, EdgeTypes
<1>2. CASE Overflow \/ Suspend
  <2>1. <<Dropped>> \in Seq([ch : Channels, val : BOOLEAN] \cup {Dropped})
    OBVIOUS
  <2> QED
    BY <1>2, <2>1 DEF Overflow, Suspend, AtTypes, ArgTypes, EdgeTypes
<1>3. CASE TakeEvent
  <2> DEFINE e == Head(events)
  <2>1. events # <<>> /\ events' = Tail(events)
    BY <1>3 DEF TakeEvent
  <2>2. e \in [ch : Channels, val : BOOLEAN] \cup {Dropped} /\ EdgeTypes'
    BY <2>1, HeadTailProperties DEF EdgeTypes
  <2>3. CASE e = Dropped
    <3>1. Goto("monitor", "snap") /\ UNCHANGED arg
      BY <1>3, <2>3 DEF TakeEvent
    <3> QED
      BY <2>2, <3>1, GotoTypes, StepNames DEF ArgTypes
  <2>4. CASE e # Dropped
    <3>1. e.ch \in Channels /\ e.val \in BOOLEAN
      BY <2>2, <2>4
    <3>2. DebounceInput("monitor", e.ch, e.val)
      BY <1>3, <2>4 DEF TakeEvent
    <3> QED
      BY <2>2, <3>1, <3>2, DeliverGoes
  <2> QED
    BY <2>3, <2>4
<1>4. CASE PowerRunning
  BY <1>4, GotoTypes, StepNames DEF PowerRunning, ArgTypes, EdgeTypes
<1>5. ASSUME NEW t \in ResyncThreads, Resync(t) PROVE AtTypes' /\ ArgTypes' /\ EdgeTypes'
  <2>1. CASE ResyncRead(t) \/ ResyncFails(t) \/ ResyncCache(t)
    BY <2>1, GotoTypes, StepNames DEF ResyncRead, ResyncFails, ResyncCache, ArgTypes, EdgeTypes
  <2>2. CASE ResyncReport(t)
    <3>1. PICK c \in pend[t] : DebounceInput(t, c, snap[t][c])
      BY <2>2 DEF ResyncReport
    <3>2. snap[t][c] \in BOOLEAN /\ c \in Channels
      BY DEF InputsTypeOK
    <3> QED
      BY <2>2, <3>1, <3>2, DeliverGoes DEF ResyncReport, EdgeTypes
  <2> QED
    BY <1>5, <2>1, <2>2 DEF Resync
<1>6. ASSUME NEW c \in Debounced, Settle(c) PROVE AtTypes' /\ ArgTypes' /\ EdgeTypes'
  <2>1. last[c] \in BOOLEAN /\ c \in Channels
    BY InputsAssumption DEF InputsTypeOK
  <2> QED
    BY <1>6, <2>1, DeliverGoes DEF Settle, EdgeTypes
<1> QED
  BY <1>1, <1>2, <1>3, <1>4, <1>5, <1>6 DEF Inputting, InputStep, World

(* The watchers and the callbacks that reset the timer.                    *)
LEMMA ThreadsRest ==
  ASSUME AtTypes, ArgTypes, RestHandler \/ \E t \in InputThreads : KickReset(t)
  PROVE  AtTypes' /\ ArgTypes'
<1> USE StepNames
<1>1. UNCHANGED arg
  BY DEF RestHandler, KickReset, BleChange, BleCheck, BleFlag, BleCount, SettingIdle, SettingGrace, Rearm, Clear, Stop, Cancel,
         Recheck, Arm, OnlyRest, threadVars
<1>2. ASSUME NEW t, NEW after \in Steps, Rearm(t, after)
      PROVE  AtTypes'
  <2>1. \E step \in Steps : Goto(t, step)
    BY <1>2 DEF Rearm, Clear, Stop, Cancel, Recheck, Arm
  <2> QED
    BY <2>1, GotoTypes
<1>3. ASSUME BleChange \/ BleCheck \/ BleFlag \/ BleCount PROVE AtTypes'
  <2>1. \E step \in Steps : Goto("ble", step)
    BY <1>3 DEF BleChange, BleCheck, BleFlag, BleCount
  <2> QED
    BY <2>1, GotoTypes
<1>4. ASSUME SettingIdle PROVE AtTypes'
  <2>1. \E step \in Steps : Goto("settings", step)
    BY <1>4 DEF SettingIdle
  <2> QED
    BY <2>1, GotoTypes
<1>5. ASSUME SettingGrace PROVE AtTypes'
  BY <1>5 DEF SettingGrace, threadVars, AtTypes
<1> QED
  BY <1>1, <1>2, <1>3, <1>4, <1>5 DEF RestHandler, KickReset, ArgTypes

(* The goroutines' types are inductive.                                    *)
LEMMA ThreadsStep ==
  ASSUME AtTypes, ArgTypes, EdgeTypes, InputsTypeOK, MachineTypes, [Next]_vars
  PROVE  AtTypes' /\ ArgTypes' /\ EdgeTypes'
<1> USE StepNames
<1> DEFINE Goal == AtTypes' /\ ArgTypes'
<1>1. ASSUME UNCHANGED threadVars PROVE Goal
  BY <1>1 DEF threadVars, AtTypes, ArgTypes
<1>2. ASSUME LoopStep \/ StateTimeout \/ ExtSend PROVE Goal
  BY <1>1, <1>2 DEF LoopStep, Dispatch, Move, EntryAtRest, EntryParked, EntryDrive, EntryStandby,
                    Publish, StateTimeout, ExtSend, OnlyLoop
<1>3. ASSUME Resting PROVE Goal
  BY <1>1, <1>3, ThreadsRest DEF Resting, TimerFires
<1>4. ASSUME Driving PROVE Goal
  <2>1. CASE DeferralFires \/ SecondPasses \/ MonitorTick
    BY <1>1, <2>1 DEF DeferralFires, SecondPasses, MonitorTick
  <2>2. ASSUME NEW t \in InputThreads, KickBegin(t) PROVE Goal
    <3>1. CASE Return(t)
      BY <3>1, ReturnTypes
    <3>2. CASE arg' = [arg EXCEPT ![t].seen = state] /\ Goto(t, ResetFirst("kickPublish"))
      <4>1. AtTypes'
        BY <3>2, GotoTypes, ResetFirstTypes
      <4>2. ArgTypes'
        BY <3>2 DEF ArgTypes, Args, MachineTypes
      <4> QED
        BY <4>1, <4>2
    <3> QED
      BY <2>2, <3>1, <3>2 DEF KickBegin
  <2>3. ASSUME NEW t \in InputThreads, KickPublish(t) PROVE Goal
    BY <2>3, ReturnTypes, GotoTypes DEF KickPublish, ArgTypes
  <2>4. ASSUME NEW t \in InputThreads, KickSend(t) PROVE Goal
    BY <2>4, ReturnTypes DEF KickSend
  <2> QED
    BY <1>4, <2>1, <2>2, <2>3, <2>4, ThreadsRest DEF Driving, KickStep
<1>5. ASSUME Blinking PROVE Goal
  <2>1. ASSUME NEW t, BlinkStep(t) PROVE Goal
    BY <2>1, ReturnTypes, GotoTypes DEF BlinkStep, BlinkGate, Blink, ArgTypes
  <2> QED
    BY <1>1, <1>5, <2>1 DEF Blinking, BlinkRequest
<1>6. ASSUME Honking PROVE Goal
  <2>1. ASSUME NEW t, HornStep(t) PROVE Goal
    BY <2>1, ReturnTypes, GotoTypes DEF HornStep, HornGate, HornWrite, ArgTypes
  <2> QED
    BY <1>1, <1>6, <2>1 DEF Honking, HornRequest
<1>7. ASSUME UNCHANGED vars PROVE Goal
  BY <1>1, <1>7 DEF vars
<1>8. CASE ~Inputting
  <2>1. EdgeTypes'
    BY <1>8, OthersKeepInputs DEF inputVars, lineVars, EdgeTypes
  <2> QED
    BY <1>2, <1>3, <1>4, <1>5, <1>6, <1>7, <1>8, <2>1 DEF Next
<1> QED
  BY <1>8, ThreadsInput

(* A goroutine that goes elsewhere.                                        *)
LEMMA SteerAway ==
  ASSUME AtTypes, ArgTypes, BlinkArgs, NEW t, NEW step, step # "blink", Goto(t, step),
         NEW a, arg' = arg \/ arg' = [arg EXCEPT ![t] = a]
  PROVE  BlinkArgs'
<1> SUFFICES ASSUME NEW u \in Threads, at'[u] = "blink" PROVE arg'[u].ch \in Switches'
  BY DEF BlinkArgs
<1>1. u # t /\ at[u] = "blink"
  BY DEF Goto, AtTypes
<1>2. arg'[u] = arg[u]
  BY <1>1 DEF ArgTypes
<1> QED
  BY <1>1, <1>2 DEF BlinkArgs, Switches

(* The same with its locals kept,                                          *)
LEMMA SteerOff ==
  ASSUME AtTypes, ArgTypes, BlinkArgs, NEW t, NEW step, step # "blink", Goto(t, step),
         UNCHANGED arg
  PROVE  BlinkArgs'
  BY SteerAway

(* after a return,                                                         *)
LEMMA SteerBack ==
  ASSUME AtTypes, ArgTypes, BlinkArgs, NEW t, Return(t)
  PROVE  BlinkArgs'
<1> DEFINE step == IF t \in ResyncThreads /\ pend[t] # {} THEN "report" ELSE "idle"
<1>1. step # "blink" /\ Goto(t, step) /\ arg' = [arg EXCEPT ![t] = NoArg]
  BY DEF Return, Goto
<1> HIDE DEF step
<1> QED
  BY <1>1, SteerAway

(* and after a report.                                                     *)
LEMMA SteerDeliver ==
  ASSUME AtTypes, ArgTypes, BlinkArgs, NEW t, NEW c, NEW v,
         Deliver(t, c, v) \/ DebounceInput(t, c, v)
  PROVE  BlinkArgs'
<1>1. CASE Goto(t, NextOf(t)) /\ UNCHANGED arg
  <2>1. NextOf(t) # "blink"
    BY DEF NextOf
  <2> QED
    BY <1>1, <2>1, SteerOff
<1>2. CASE Goto(t, "call") /\ arg' = [arg EXCEPT ![t] = [NoArg EXCEPT !.ch = c, !.val = v]]
  BY <1>2, SteerAway
<1> QED
  BY <1>1, <1>2 DEF Deliver, DebounceInput

(* The watchers never set the lamps.                                       *)
LEMMA BlinkArgsRest ==
  ASSUME AtTypes, ArgTypes, BlinkArgs,
         RestHandler \/ \E t \in InputThreads : KickReset(t)
  PROVE  BlinkArgs'
<1>1. UNCHANGED arg
  BY DEF RestHandler, KickReset, BleChange, BleCheck, BleFlag, BleCount, SettingIdle, SettingGrace, Rearm, Clear, Stop, Cancel,
         Recheck, Arm, OnlyRest, threadVars
<1>2. ASSUME NEW t, NEW after, after # "blink", Rearm(t, after)
      PROVE  BlinkArgs'
  <2>1. \E step : step # "blink" /\ Goto(t, step)
    BY <1>2 DEF Rearm, Clear, Stop, Cancel, Recheck, Arm
  <2> QED
    BY <1>1, <2>1, SteerOff
<1>3. CASE BleChange \/ BleCheck \/ BleFlag \/ BleCount
  <2>1. \E step : step # "blink" /\ Goto("ble", step)
    BY <1>3 DEF BleChange, BleCheck, BleFlag, BleCount
  <2> QED
    BY <1>1, <2>1, SteerOff
<1>4. CASE SettingIdle
  <2>1. \E step : step # "blink" /\ Goto("settings", step)
    BY <1>4 DEF SettingIdle
  <2> QED
    BY <1>1, <2>1, SteerOff
<1>5. CASE SettingGrace
  BY <1>5 DEF SettingGrace, threadVars, BlinkArgs, Switches
<1> QED
  BY <1>2, <1>3, <1>4, <1>5 DEF RestHandler, KickReset

(* Only the gate lets a goroutine set them, and it looks at the channel.   *)
LEMMA BlinkArgsStep ==
  ASSUME AtTypes, ArgTypes, BlinkArgs, [Next]_vars
  PROVE  BlinkArgs'
<1> USE DEF Switches
<1>1. CASE UNCHANGED threadVars
  BY <1>1 DEF threadVars, BlinkArgs
<1>2. CASE LoopStep \/ StateTimeout \/ ExtSend
  BY <1>1, <1>2 DEF LoopStep, Dispatch, Move, EntryAtRest, EntryParked, EntryDrive, EntryStandby,
                    Publish, StateTimeout, ExtSend, OnlyLoop
<1>3. CASE Inputting
  <2>1. CASE World
    BY <1>1, <2>1 DEF World, Overflow, Suspend, Edge
  <2>2. CASE TakeEvent
    BY <2>2, SteerOff, SteerDeliver DEF TakeEvent
  <2>3. CASE PowerRunning
    BY <2>3, SteerOff DEF PowerRunning
  <2>4. ASSUME NEW t, Resync(t) PROVE BlinkArgs'
    BY <2>4, SteerOff, SteerDeliver DEF Resync, ResyncRead, ResyncFails, ResyncCache, ResyncReport
  <2>5. ASSUME NEW c, Settle(c) PROVE BlinkArgs'
    BY <2>5, SteerDeliver DEF Settle
  <2> QED
    BY <1>3, <2>1, <2>2, <2>3, <2>4, <2>5 DEF Inputting, InputStep
<1>4. CASE Resting
  BY <1>1, <1>4, BlinkArgsRest DEF Resting, TimerFires
<1>5. CASE Driving
  <2>1. CASE DeferralFires \/ SecondPasses \/ MonitorTick
    BY <1>1, <2>1 DEF DeferralFires, SecondPasses, MonitorTick
  <2>2. ASSUME NEW t, KickBegin(t) PROVE BlinkArgs'
    <3>1. CASE Return(t)
      BY <3>1, SteerBack
    <3>2. CASE arg' = [arg EXCEPT ![t].seen = state] /\ Goto(t, ResetFirst("kickPublish"))
      <4>1. ResetFirst("kickPublish") # "blink"
        BY DEF ResetFirst
      <4>2. arg' = [arg EXCEPT ![t] = [arg[t] EXCEPT !.seen = state]]
        BY <3>2
      <4> QED
        BY <3>2, <4>1, <4>2, SteerAway
    <3> QED
      BY <2>2, <3>1, <3>2 DEF KickBegin
  <2>3. ASSUME NEW t, KickPublish(t) \/ KickSend(t) PROVE BlinkArgs'
    BY <2>3, SteerOff, SteerBack DEF KickPublish, KickSend
  <2> QED
    BY <1>5, <2>1, <2>2, <2>3, BlinkArgsRest DEF Driving, KickStep
<1>6. CASE Blinking
  <2>1. ASSUME NEW t, BlinkGate(t) PROVE BlinkArgs'
    <3>1. CASE Return(t)
      BY <3>1, SteerBack
    <3>2. CASE Goto(t, "blink") /\ UNCHANGED arg
      BY <2>1, <3>2 DEF BlinkGate, Goto, AtTypes, BlinkArgs
    <3> QED
      BY <2>1, <3>1, <3>2 DEF BlinkGate
  <2>2. ASSUME NEW t, Blink(t) PROVE BlinkArgs'
    BY <2>2, SteerBack DEF Blink
  <2> QED
    BY <1>1, <1>6, <2>1, <2>2 DEF Blinking, BlinkRequest, BlinkStep
<1>7. CASE Honking
  <2>1. ASSUME NEW t, HornStep(t) PROVE BlinkArgs'
    BY <2>1, SteerOff, SteerBack DEF HornStep, HornGate, HornWrite
  <2> QED
    BY <1>1, <1>7, <2>1 DEF Honking, HornRequest
<1>8. CASE UNCHANGED vars
  BY <1>1, <1>8 DEF vars
<1> QED
  BY <1>2, <1>3, <1>4, <1>5, <1>6, <1>7, <1>8 DEF Next

-----------------------------------------------------------------------------
(* The budget, the timer at rest, the drive, the blinkers and the horn.    *)
LEMMA SpendTypes ==
  ASSUME LeftTypes, NEW i, Spend(i)
  PROVE  LeftTypes'
<1>1. CASE i \in InputKinds
  <2>1. left[i] - 1 \in Nat /\ left' = [left EXCEPT ![i] = left[i] - 1]
    BY <1>1 DEF LeftTypes, Spend
  <2> QED
    BY <2>1 DEF LeftTypes, Spend
<1>2. CASE i \notin InputKinds
  BY <1>2 DEF LeftTypes, Spend
<1> QED
  BY <1>1, <1>2

(* The budget is inductive.                                                *)
LEMMA LeftStep ==
  ASSUME LeftTypes, [Next]_vars
  PROVE  LeftTypes'
<1> USE SpendTypes
<1>1. CASE UNCHANGED left
  BY <1>1 DEF LeftTypes
<1>2. CASE LoopStep \/ StateTimeout \/ ExtSend
  BY <1>1, <1>2 DEF LoopStep, Dispatch, Move, EntryAtRest, EntryParked, EntryDrive, EntryStandby,
                    Publish, StateTimeout, ExtSend, OnlyLoop
<1>3. CASE Inputting
  <2>1. CASE Suspend
    <3>1. PICK masked \in {{}} \cup { {c} : c \in { d \in Channels : left[d] > 0 } } :
            left' = [i \in InputKinds |-> IF i \in masked \cup {"suspend"}
                                          THEN left[i] - 1 ELSE left[i]]
      BY <2>1 DEF Suspend
    <3>2. left["suspend"] > 0 /\ \A i \in masked : left[i] > 0
      BY <2>1 DEF Suspend
    <3>3. \A i \in InputKinds : (IF i \in masked \cup {"suspend"}
                                 THEN left[i] - 1 ELSE left[i]) \in Nat
      BY <3>2 DEF LeftTypes
    <3> QED
      BY <3>1, <3>3 DEF LeftTypes
  <2>2. CASE Overflow \/ \E c \in Channels : Edge(c)
    BY <2>2 DEF Overflow, Edge
  <2>3. CASE InputStep \/ \E c \in Debounced : Settle(c)
    BY <1>1, <2>3 DEF InputStep, TakeEvent, PowerRunning, Resync, ResyncRead, ResyncFails, ResyncCache,
                      ResyncReport, Settle
  <2> QED
    BY <1>3, <2>1, <2>2, <2>3 DEF Inputting, World
<1>4. CASE Resting
  <2>1. UNCHANGED left \/ Spend("ble") \/ Spend("setting")
    BY <1>4 DEF Resting, TimerFires, RestHandler, BleChange, BleCheck, BleFlag, BleCount, SettingIdle,
                SettingGrace, Rearm, Clear, Stop, Cancel, Recheck, Arm, OnlyRest
  <2> QED
    BY <1>1, <2>1
<1>5. CASE Driving
  <2>1. UNCHANGED left \/ Spend("publish")
    BY <1>5 DEF Driving, DeferralFires, SecondPasses, MonitorTick, KickStep, KickBegin,
                KickPublish, KickSend, KickReset, Rearm, Clear, Stop, Cancel, Recheck, Arm, OnlyRest
  <2> QED
    BY <1>1, <2>1
<1>6. CASE Blinking \/ Honking
  <2>1. UNCHANGED left \/ Spend("command") \/ Spend("honk")
    BY <1>6 DEF Blinking, BlinkRequest, BlinkStep, BlinkGate, Blink, Honking, HornRequest,
                HornStep, HornGate, HornWrite
  <2> QED
    BY <1>1, <2>1
<1>7. CASE UNCHANGED vars
  BY <1>1, <1>7 DEF vars
<1> QED
  BY <1>2, <1>3, <1>4, <1>5, <1>6, <1>7 DEF Next

(* The timer's types are inductive,                                        *)
LEMMA RestTypes ==
  ASSUME AtRestTypeOK, [Next]_vars
  PROVE  AtRestTypeOK'
<1> USE DEF AtRestTypeOK, Lapses, settingVars
<1>1. CASE UNCHANGED restVars
  BY <1>1 DEF restVars
<1>2. CASE LoopStep
  BY <1>1, <1>2 DEF LoopStep, Dispatch, Move, EntryAtRest, EntryParked, EntryDrive, EntryStandby,
                    Publish, ExitAtRest, EnterAtRest
<1>3. CASE Resting
  <2>1. CASE TimerFires
    BY <2>1 DEF TimerFires
  <2>2. CASE BleChange \/ BleCheck \/ BleFlag \/ BleCount
    BY <2>2 DEF BleChange, BleCheck, BleFlag, BleCount, OnlyRest, Outside
  <2>3. CASE SettingIdle \/ SettingGrace
    BY <2>3 DEF SettingIdle, SettingGrace
  <2>4. ASSUME NEW t, NEW after, Rearm(t, after)
        PROVE  AtRestTypeOK'
    BY <2>4 DEF Rearm, Clear, Stop, Cancel, Recheck, Arm, OnlyRest, Overrules, Outside
  <2> QED
    BY <1>3, <2>1, <2>2, <2>3, <2>4 DEF Resting, RestHandler
<1>4. CASE Driving
  <2>1. ASSUME NEW t, KickReset(t) PROVE AtRestTypeOK'
    BY <2>1 DEF KickReset, Rearm, Clear, Stop, Cancel, Recheck, Arm, OnlyRest, Overrules, Outside
  <2> QED
    BY <1>1, <1>4, <2>1 DEF Driving, DeferralFires, SecondPasses, MonitorTick, KickStep,
                            KickBegin, KickPublish, KickSend
<1>5. CASE ~LoopStep /\ ~Resting /\ ~Driving
  BY <1>1, <1>5 DEF Next, vars, StateTimeout, ExtSend, Inputting, OthersOfInputs, Blinking, Honking
<1> QED
  BY <1>2, <1>3, <1>4, <1>5

(* the drive's,                                                            *)
LEMMA DriveTypes ==
  ASSUME DriveTypeOK, InputsTypeOK, [Next]_vars
  PROVE  DriveTypeOK'
<1> USE DEF DriveTypeOK
<1>1. CASE UNCHANGED driveVars
  BY <1>1 DEF driveVars
<1>2. CASE LoopStep
  BY <1>1, <1>2 DEF LoopStep, Dispatch, Move, EntryAtRest, EntryParked, EntryDrive, EntryStandby,
                    Publish, EnterDrive
<1>3. CASE Driving
  <2>1. CASE DeferralFires \/ SecondPasses
    BY <2>1 DEF DeferralFires, SecondPasses
  <2>2. CASE MonitorTick
    BY <2>2 DEF MonitorTick
  <2>3. ASSUME NEW t, KickStep(t) PROVE DriveTypeOK'
    BY <1>1, <2>3 DEF KickStep, KickBegin, KickReset, KickPublish, KickSend
  <2> QED
    BY <1>3, <2>1, <2>2, <2>3 DEF Driving
<1>4. CASE ~LoopStep /\ ~Driving
  BY <1>1, <1>4 DEF Next, vars, StateTimeout, ExtSend, Inputting, OthersOfInputs, Resting,
                    Blinking, Honking
<1> QED
  BY <1>2, <1>3, <1>4

(* and the blinkers' and the horn's.                                       *)
LEMMA SignalTypes ==
  ASSUME BlinkTypeOK, HornTypeOK, BlinkArgs, [Next]_vars
  PROVE  BlinkTypeOK' /\ HornTypeOK'
<1> USE DEF BlinkTypeOK, HornTypeOK, blinkVars, hornVars
<1>1. CASE UNCHANGED signalVars
  BY <1>1 DEF signalVars
<1>2. CASE LoopStep
  <2>1. CASE EntryParked
    BY <2>1 DEF EntryParked, BlinkersRestore, NoWorker, Stale
  <2>2. CASE Move
    BY <2>2 DEF Move, BlinkersPass
  <2> QED
    BY <1>1, <1>2, <2>1, <2>2 DEF LoopStep, Dispatch, EntryAtRest, EntryDrive, EntryStandby,
                                  Publish, BlinkersOff
<1>3. CASE Blinking
  <2>1. CASE BlinkRequest
    BY <1>3, <2>1 DEF BlinkRequest, Blinking
  <2>2. ASSUME NEW t \in InputThreads, BlinkGate(t), UNCHANGED hornVars
        PROVE  BlinkTypeOK' /\ HornTypeOK'
    BY <2>2 DEF BlinkGate
  <2>3. ASSUME NEW t \in InputThreads, Blink(t), UNCHANGED hornVars
        PROVE  BlinkTypeOK' /\ HornTypeOK'
    <3>1. arg[t].ch \in Switches
      BY <2>3 DEF Blink, BlinkArgs, Threads
    <3>2. lamp' \subseteq Switches
      BY <2>3, <3>1 DEF Blink, Sides, NoWorker, Pressed
    <3> QED
      BY <2>3, <3>2 DEF Blink, NoWorker, Overtaken
  <2> QED
    BY <1>3, <2>1, <2>2, <2>3 DEF Blinking, BlinkStep
<1>4. CASE Honking
  <2>1. ASSUME NEW t, HornStep(t) PROVE HornTypeOK'
    BY <2>1 DEF HornStep, HornGate, HornWrite, Outdated
  <2> QED
    BY <1>4, <2>1 DEF Honking, HornRequest
<1>5. CASE ~LoopStep /\ ~Blinking /\ ~Honking
  BY <1>1, <1>5 DEF Next, vars, StateTimeout, ExtSend, Inputting, OthersOfInputs, Resting, Driving
<1> QED
  BY <1>2, <1>3, <1>4, <1>5

(* All types hold at the beginning,                                        *)
LEMMA TypesInit == Init => Types
<1> SUFFICES ASSUME Init PROVE Types
  OBVIOUS
<1>1. PICK b \in Scenarios : /\ state = b.state /\ left = b.budget
                             /\ InputsInit(b.down) /\ AtRestInit(b.secs) /\ DriveInit(b.rejected)
  BY DEF Init
<1>2. MachineTypes /\ InputsTypeOK
  BY MachineTypesInit, InputsTypedInit
<1>3. AtTypes /\ ArgTypes /\ BlinkArgs
  BY StepNames DEF Init, AtTypes, ArgTypes, BlinkArgs
<1>4. LeftTypes /\ EdgeTypes
  BY <1>1, LoopAssumption DEF LeftTypes, EdgeTypes, InputsInit
<1>5. AtRestTypeOK
  BY <1>1, AtRestAssumption DEF AtRestInit, AtRestTypeOK, Lapses
<1>6. DriveTypeOK
  BY <1>1, LoopAssumption DEF DriveInit, DriveTypeOK
<1>7. BlinkTypeOK /\ HornTypeOK
  BY DEF Init, BlinkInit, HornInit, BlinkTypeOK, HornTypeOK
<1> QED
  BY <1>2, <1>3, <1>4, <1>5, <1>6, <1>7 DEF Types

(* and after every step.                                                   *)
LEMMA TypesStep == Types /\ [Next]_vars => Types'
<1> SUFFICES ASSUME Types, [Next]_vars PROVE Types'
  OBVIOUS
<1>1. MachineTypes' /\ InputsTypeOK'
  BY MachineTypesStep, InputsTypedStep DEF Types
<1>2. AtTypes' /\ ArgTypes' /\ BlinkArgs' /\ EdgeTypes'
  BY ThreadsStep, BlinkArgsStep DEF Types
<1>3. LeftTypes' /\ AtRestTypeOK' /\ DriveTypeOK'
  BY LeftStep, RestTypes, DriveTypes DEF Types
<1>4. BlinkTypeOK' /\ HornTypeOK'
  BY SignalTypes DEF Types
<1> QED
  BY <1>1, <1>2, <1>3, <1>4 DEF Types

(* Every variable of the cockpit keeps its type.                           *)
THEOREM CockpitTypes == Spec => []TypeOK
  BY TypesInit, TypesStep, TypesImplyTypeOK, PTL DEF Spec

-----------------------------------------------------------------------------
(* CountdownIsTimed.  Between the flag and the timer lies a step of the    *)
(* watcher; between the timer and the exit that clears the flag, its event *)
(* in the queue, which does not come back without having left the group.   *)
Locking == \E i \in 1..Len(queue) : queue[i] = "AutoStandbyTimeout"

Excused == lapses \cap {"late", "hold", "setting", "raced"} # {}

Timed ==
  counting => \/ Excused
              \/ /\ Heading \in AtRestLeaves
                 /\ timer = "keyless" \/ at["ble"] = "count" \/ Locking

(* The timer's event leads out of the group from each of its leaves.       *)
LEMMA AutoStandbyLeavesRest ==
  ASSUME NEW s \in AtRestLeaves, NEW G
  PROVE  /\ Selected(s, "AutoStandbyTimeout", G) # {}
         /\ \A row \in Selected(s, "AutoStandbyTimeout", G) : row.to = "ShuttingDown"
<1> DEFINE r == Row("AtRest", "AutoStandbyTimeout", 1, {}, "ShuttingDown", "none")
<1>1. r \in Table
  BY DEF Table, AtRestRows
<1>2. \A t \in Table : t.on = "AutoStandbyTimeout" => t = r
  BY DEF Table, StandbyRows, AtRestRows, ParkedRows, HopOnRows, ReadyToDriveRows,
         ShuttingDownRows, WaitingSeatboxRows, HibernationRows, Row
<1>3. r.from = "AtRest" /\ r.on = "AutoStandbyTimeout" /\ r.guards = {} /\ r.to = "ShuttingDown"
      /\ r.rank = 1
  BY DEF Row
<1>4. Parent(s) = "AtRest" /\ s # "AtRest" /\ "AutoStandbyTimeout" \notin Blocked(s)
  BY DEF Parent, Blocked, InputEvents, AtRestLeaves
<1> HIDE DEF r
<1>5. Candidates(s, "AutoStandbyTimeout", G) = {r}
  BY <1>1, <1>2, <1>3, <1>4 DEF Candidates, RowsFor
<1>6. ~Before(r, r, s)
  BY <1>3, <1>4 DEF Before
<1>7. Selected(s, "AutoStandbyTimeout", G) = {r}
  BY <1>5, <1>6 DEF Selected
<1> QED
  BY <1>3, <1>7

(* An event sent is put behind the timer's.                                *)
LEMMA SendKeepsLocking ==
  ASSUME MachineTypes, NEW e \in Events, Send(e)
  PROVE  Locking => Locking'
  BY DEF Locking, Send, MachineTypes

(* A dispatch takes the head of the queue.                                 *)
LEMMA DispatchKeepsLocking ==
  ASSUME MachineTypes, Dispatch
  PROVE  Locking => Locking' \/ Head(queue) = "AutoStandbyTimeout"
<1> SUFFICES ASSUME NEW i \in 1..Len(queue), queue[i] = "AutoStandbyTimeout",
                    Head(queue) # "AutoStandbyTimeout"
             PROVE  Locking'
  BY DEF Locking
<1>1. queue \in Seq(Events) /\ queue # <<>> /\ queue' = Tail(queue)
  BY DEF MachineTypes, Dispatch
<1>2. /\ Len(Tail(queue)) = Len(queue) - 1
      /\ \A j \in 1..Len(Tail(queue)) : Tail(queue)[j] = queue[j + 1]
  BY <1>1, HeadTailProperties
<1>3. Head(queue) = queue[1]
  BY <1>1
<1>4. i - 1 \in 1..Len(Tail(queue)) /\ Tail(queue)[i - 1] = queue[i]
  BY <1>1, <1>2, <1>3
<1> QED
  BY <1>1, <1>4 DEF Locking

(* The loop clears the flag with the timer, or leaves both.                *)
LEMMA TimedLoop ==
  ASSUME MachineTypes, Timed, LoopStep
  PROVE  Timed'
<1> USE DEF Timed, Excused, Heading, threadVars
<1>1. CASE Dispatch
  <2>1. /\ pc = "idle" /\ queue # <<>> /\ queue' = Tail(queue)
        /\ UNCHANGED <<state, at>>
    BY <1>1 DEF Dispatch, OnlyLoop
  <2>2. PICK G : LET rows == Selected(state, Head(queue), G) IN
                 \/ rows = {} /\ UNCHANGED <<pc, target, timer, counting, lapses>>
                 \/ \E row \in rows :
                      /\ pc' = "move" /\ target' = row.to
                      /\ IF LeavesGroup(row.to) THEN ExitAtRest
                         ELSE UNCHANGED <<timer, counting, lapses>>
    BY <1>1 DEF Dispatch
  <2>3. Locking => Locking' \/ Head(queue) = "AutoStandbyTimeout"
    BY <1>1, DispatchKeepsLocking
  <2>4. CASE ~counting'
    BY <2>4
  <2>5. CASE counting'
    <3>1. UNCHANGED <<timer, counting, lapses>>
      BY <2>2, <2>5 DEF ExitAtRest
    <3>2. CASE Excused
      BY <3>1, <3>2
    <3>3. CASE state \in AtRestLeaves
      <4>1. Head(queue) # "AutoStandbyTimeout"
        BY <2>2, <2>5, <3>3, AutoStandbyLeavesRest DEF LeavesGroup, ExitAtRest, AtRestLeaves
      <4>2. Heading' \in AtRestLeaves
        BY <2>1, <2>2, <2>5, <3>3 DEF LeavesGroup, ExitAtRest
      <4> QED
        BY <2>1, <2>3, <2>5, <3>1, <4>1, <4>2
    <3> QED
      BY <2>1, <2>5, <3>1, <3>2, <3>3
  <2> QED
    BY <2>4, <2>5
<1>2. CASE Move
  BY <1>2, EntryOfTypes DEF Move, OnlyLoop, restVars, Locking
<1>3. CASE EntryAtRest
  BY <1>3 DEF EntryAtRest, Entry, EnterAtRest, OnlyLoop, Locking
<1>4. CASE EntryParked \/ EntryStandby \/ Publish
  BY <1>4 DEF EntryParked, EntryStandby, Publish, Entry, OnlyLoop, restVars, Locking
<1>5. CASE EntryDrive
  <2>1. queue' = queue \/ Send("DashboardNotReady")
    BY <1>5 DEF EntryDrive, EnterDrive
  <2>2. Locking => Locking'
    BY <2>1, SendKeepsLocking, OwnEvents DEF Locking
  <2> QED
    BY <1>5, <2>2 DEF EntryDrive, Entry, OnlyLoop, restVars
<1> QED
  BY <1>1, <1>2, <1>3, <1>4, <1>5 DEF LoopStep

(* The timer's event is in the queue when it has fired.                    *)
LEMMA FiringLocks ==
  ASSUME MachineTypes, TimerFires
  PROVE  Locking'
<1>1. queue \in Seq(Events) /\ queue' = Append(queue, "AutoStandbyTimeout")
  BY DEF TimerFires, Send, MachineTypes
<1>2. Len(queue') = Len(queue) + 1 /\ queue'[Len(queue) + 1] = "AutoStandbyTimeout"
      /\ Len(queue) \in Nat
  BY <1>1
<1> QED
  BY <1>2 DEF Locking

(* Whoever else touches the timer while the countdown is on says so.       *)
LEMMA TimedResting ==
  ASSUME MachineTypes, AtTypes, Timed,
         RestHandler \/ TimerFires \/ \E t \in InputThreads : KickReset(t)
  PROVE  Timed'
<1> USE DEF Timed, Excused, Heading, OnlyRest, machineVars, Goto, AtTypes, Threads
<1>1. CASE TimerFires
  <2>1. Locking'
    BY <1>1, FiringLocks
  <2> QED
    BY <1>1, <2>1 DEF TimerFires, threadVars
<1>2. ASSUME NEW t \in InputThreads \cup {"ble", "settings"}, NEW after,
             Rearm(t, after)
      PROVE  Timed'
  <2>1. CASE Clear(t)
    BY <2>1 DEF Clear
  <2>2. CASE Stop(t) \/ Cancel(t, after) \/ Arm(t, after)
    <3>1. CASE counting
      BY <2>2, <3>1 DEF Stop, Cancel, Arm, Overrules
    <3>2. CASE ~counting
      BY <2>2, <3>2 DEF Stop, Cancel, Arm
    <3> QED
      BY <3>1, <3>2
  <2>3. CASE Recheck(t, after)
    BY <2>3 DEF Recheck, Locking
  <2> QED
    BY <1>2, <2>1, <2>2, <2>3 DEF Rearm
<1>3. CASE BleChange
  BY <1>3 DEF BleChange, Locking
<1>4. CASE BleCheck \/ BleFlag
  BY <1>4 DEF BleCheck, BleFlag, Outside, Locking
<1>5. CASE BleCount
  BY <1>5 DEF BleCount, Outside, Locking
<1>6. CASE SettingIdle
  BY <1>6 DEF SettingIdle, Locking
<1>7. CASE SettingGrace
  BY <1>7 DEF SettingGrace, Locking, threadVars
<1> QED
  BY <1>1, <1>2, <1>3, <1>4, <1>5, <1>6, <1>7 DEF RestHandler, RestThreads, KickReset

(* The other goroutines are none of the watcher's.                         *)
LEMMA OthersKeepBle ==
  ASSUME AtTypes,
         StateTimeout \/ ExtSend \/ Inputting \/ Blinking \/ Honking
           \/ DeferralFires \/ SecondPasses \/ MonitorTick
           \/ \E t \in InputThreads : KickBegin(t) \/ KickPublish(t) \/ KickSend(t)
  PROVE  /\ at'["ble"] = at["ble"]
         /\ UNCHANGED <<timer, counting, lapses>>
<1> USE DEF threadVars, restVars
<1>1. ASSUME NEW t \in InputThreads, NEW step, Goto(t, step) \/ Return(t)
      PROVE  at'["ble"] = at["ble"]
  BY <1>1 DEF AtTypes, Threads, Goto, Return, InputThreads, DebounceThreads, ResyncThreads
<1>2. ASSUME NEW t \in InputThreads, NEW c, NEW v, Deliver(t, c, v) \/ DebounceInput(t, c, v)
      PROVE  at'["ble"] = at["ble"]
  BY <1>1, <1>2 DEF Deliver, DebounceInput
<1>3. CASE StateTimeout \/ ExtSend
  BY <1>3 DEF StateTimeout, ExtSend, OnlyLoop
<1>4. CASE Inputting
  <2>1. UNCHANGED <<timer, counting, lapses>>
    BY <1>4 DEF Inputting, OthersOfInputs
  <2>2. CASE World
    BY <2>1, <2>2 DEF World, Overflow, Suspend, Edge
  <2>3. CASE TakeEvent
    <3>1. "monitor" \in InputThreads
      BY DEF InputThreads, ResyncThreads
    <3> QED
      BY <1>1, <1>2, <2>1, <2>3, <3>1 DEF TakeEvent
  <2>4. CASE PowerRunning
    <3>1. "power" \in InputThreads
      BY DEF InputThreads, ResyncThreads
    <3> QED
      BY <1>1, <2>1, <2>4, <3>1 DEF PowerRunning
  <2>5. ASSUME NEW t \in ResyncThreads, Resync(t) PROVE at'["ble"] = at["ble"]
    BY <1>1, <1>2, <2>5 DEF Resync, ResyncRead, ResyncFails, ResyncCache, ResyncReport, InputThreads
  <2>6. ASSUME NEW c, Settle(c) PROVE at'["ble"] = at["ble"]
    <3>1. \E t \in DebounceThreads : at[t] = "idle" /\ (t = "d2" => at["d1"] # "idle")
      BY <2>6 DEF Settle, DebounceThreads
    <3>2. FreeThread \in DebounceThreads
      BY <3>1 DEF FreeThread
    <3>3. FreeThread \in InputThreads /\ Deliver(FreeThread, c, last[c])
      BY <2>6, <3>2 DEF Settle, InputThreads
    <3> HIDE DEF FreeThread
    <3> QED
      BY <1>2, <3>3
  <2> QED
    BY <1>4, <2>1, <2>2, <2>3, <2>4, <2>5, <2>6 DEF Inputting, InputStep
<1>5. CASE DeferralFires \/ SecondPasses \/ MonitorTick
  BY <1>5 DEF DeferralFires, SecondPasses, MonitorTick
<1>6. ASSUME NEW t \in InputThreads, KickBegin(t) \/ KickPublish(t) \/ KickSend(t)
      PROVE  /\ at'["ble"] = at["ble"]
             /\ UNCHANGED <<timer, counting, lapses>>
  BY <1>1, <1>6 DEF KickBegin, KickPublish, KickSend
<1>7. CASE Blinking
  BY <1>1, <1>7 DEF Blinking, BlinkRequest, BlinkStep, BlinkGate, Blink
<1>8. CASE Honking
  BY <1>1, <1>8 DEF Honking, HornRequest, HornStep, HornGate, HornWrite
<1> QED
  BY <1>3, <1>4, <1>5, <1>6, <1>7, <1>8

(* Timed is inductive.                                                     *)
LEMMA TimedStep == MachineTypes /\ AtTypes /\ Timed /\ [Next]_vars => Timed'
<1> SUFFICES ASSUME MachineTypes, AtTypes, Timed, [Next]_vars PROVE Timed'
  OBVIOUS
<1>1. CASE LoopStep
  BY <1>1, TimedLoop
<1>2. CASE Resting \/ \E t \in InputThreads : KickReset(t)
  BY <1>2, TimedResting DEF Resting
<1>3. CASE UNCHANGED vars
  BY <1>3 DEF vars, machineVars, restVars, threadVars, Timed, Excused, Heading, Locking
<1>4. ASSUME ~LoopStep, at'["ble"] = at["ble"], UNCHANGED <<timer, counting, lapses>>
      PROVE  Timed'
  <2>1. Locking => Locking'
    BY <1>4, OthersSend, SendKeepsLocking DEF Locking
  <2> QED
    BY <1>4, <2>1, OthersSend DEF Timed, Excused, Heading
<1> QED
  BY <1>1, <1>2, <1>3, <1>4, OthersKeepBle DEF Next, Driving, KickStep

(* A countdown that is on has its timer, unless an overtaken handler or    *)
(* the setting 0 has taken it away or it began in the hold of a            *)
(* hibernation, for any settings and inputs.                               *)
THEOREM CountdownHasTimer == Spec => []CountdownIsTimed
<1>1. Init => Timed
  BY DEF Init, AtRestInit, Timed
<1>2. Types /\ Timed => CountdownIsTimed
  BY DEF Timed, Excused, CountdownIsTimed, Settled, Locking, Types, MachineTypes, Threads
<1>3. Types => MachineTypes /\ AtTypes
  BY DEF Types
<1> QED
  BY <1>1, <1>2, <1>3, TypesInit, TypesStep, TimedStep, PTL DEF Spec

-----------------------------------------------------------------------------
(* IdleVehicleLocksUnless.  In the group, once its entry action has run,   *)
(* a timer that is off is about to be armed, has sent its event, or was    *)
(* lost to hop-on or to a handler that the machine has overtaken.          *)
Entering == pc = "atRest" \/ (pc = "move" /\ state \notin AtRestLeaves)

Arming == \E t \in Threads : at[t] \in {"stop", "recheck", "arm"}

Idles ==
  (Heading \in AtRestLeaves /\ ~Entering /\ secs > 0 /\ timer = "none")
    => (lapses \cap {"hopOn", "late", "copied"} # {} \/ Arming \/ Locking)

(* A goroutine that was not about to arm the timer keeps the others going. *)
LEMMA GoingKeepsArming ==
  ASSUME AtTypes, NEW t, at[t] \notin {"stop", "recheck", "arm"},
         NEW step, Goto(t, step) \/ Return(t)
  PROVE  Arming => Arming'
  BY DEF AtTypes, Threads, Goto, Return, Arming

LEMMA DeliverKeepsArming ==
  ASSUME AtTypes, NEW t, at[t] \notin {"stop", "recheck", "arm"}, NEW c, NEW v,
         Deliver(t, c, v) \/ DebounceInput(t, c, v)
  PROVE  Arming => Arming'
  BY GoingKeepsArming DEF Deliver, DebounceInput

(* What the inputs, the kickstand, the blinkers and the horn do beside it. *)
LEMMA OthersKeepArming ==
  ASSUME AtTypes,
         StateTimeout \/ ExtSend \/ Inputting \/ Blinking \/ Honking
           \/ DeferralFires \/ SecondPasses \/ MonitorTick
           \/ \E t \in InputThreads : KickBegin(t) \/ KickPublish(t) \/ KickSend(t)
  PROVE  (Arming => Arming') /\ UNCHANGED <<timer, lapses, secs>>
<1> USE DEF threadVars, restVars, settingVars
<1> DEFINE Kept == (Arming => Arming')
<1>0. ASSUME UNCHANGED at PROVE Kept
  BY <1>0 DEF Arming
<1>1. "settings" \notin InputThreads
  BY DEF InputThreads, DebounceThreads, ResyncThreads
<1>2. CASE StateTimeout \/ ExtSend
  BY <1>0, <1>2 DEF StateTimeout, ExtSend, OnlyLoop
<1>3. CASE Inputting
  <2>1. UNCHANGED <<timer, lapses, secs>>
    BY <1>3 DEF Inputting, OthersOfInputs
  <2>2. ASSUME World PROVE Kept
    BY <1>0, <2>2 DEF World, Overflow, Suspend, Edge
  <2>3. ASSUME TakeEvent PROVE Kept
    BY <2>3, GoingKeepsArming, DeliverKeepsArming DEF TakeEvent
  <2>4. ASSUME PowerRunning PROVE Kept
    BY <2>4, GoingKeepsArming DEF PowerRunning
  <2>5. ASSUME NEW t \in ResyncThreads, Resync(t) PROVE Kept
    <3>1. t # "settings"
      BY DEF ResyncThreads
    <3>2. ASSUME ResyncRead(t) \/ ResyncFails(t) \/ ResyncCache(t) PROVE Kept
      BY <3>1, <3>2, GoingKeepsArming DEF ResyncRead, ResyncFails, ResyncCache
    <3>3. ASSUME ResyncReport(t) PROVE Kept
      BY <3>1, <3>3, DeliverKeepsArming DEF ResyncReport
    <3> QED
      BY <2>5, <3>2, <3>3 DEF Resync
  <2>6. ASSUME NEW c, Settle(c) PROVE Kept
    <3>1. \E t \in DebounceThreads : at[t] = "idle" /\ (t = "d2" => at["d1"] # "idle")
      BY <2>6 DEF Settle, DebounceThreads
    <3>2. FreeThread \in DebounceThreads /\ at[FreeThread] = "idle"
      BY <3>1 DEF FreeThread
    <3>3. FreeThread # "settings" /\ Deliver(FreeThread, c, last[c])
      BY <2>6, <3>2 DEF Settle, DebounceThreads
    <3> HIDE DEF FreeThread
    <3> QED
      BY <3>2, <3>3, DeliverKeepsArming
  <2> QED
    BY <1>3, <2>1, <2>2, <2>3, <2>4, <2>5, <2>6 DEF Inputting, InputStep
<1>4. CASE DeferralFires \/ SecondPasses \/ MonitorTick
  BY <1>0, <1>4 DEF DeferralFires, SecondPasses, MonitorTick
<1>5. ASSUME NEW t \in InputThreads, KickBegin(t) \/ KickPublish(t) \/ KickSend(t)
      PROVE  Kept /\ UNCHANGED <<timer, lapses, secs>>
  BY <1>1, <1>5, GoingKeepsArming DEF KickBegin, KickPublish, KickSend
<1>6. CASE Blinking
  <2>1. ASSUME NEW t \in InputThreads, BlinkStep(t) PROVE Kept
    BY <1>1, <2>1, GoingKeepsArming DEF BlinkStep, BlinkGate, Blink
  <2> QED
    BY <1>0, <1>6, <2>1 DEF Blinking, BlinkRequest
<1>7. CASE Honking
  <2>1. ASSUME NEW t \in InputThreads, HornStep(t) PROVE Kept
    BY <1>1, <2>1, GoingKeepsArming DEF HornStep, HornGate, HornWrite
  <2> QED
    BY <1>0, <1>7, <2>1 DEF Honking, HornRequest
<1> QED
  BY <1>2, <1>3, <1>4, <1>5, <1>6, <1>7

(* The loop: entering the group arms the timer, and its event leaves it.   *)
LEMMA IdlesLoop ==
  ASSUME MachineTypes, AtRestTypeOK, Idles, LoopStep
  PROVE  Idles'
<1> USE DEF Idles, Heading, Entering, threadVars
<1>1. UNCHANGED secs /\ (Arming => Arming')
  BY DEF LoopStep, Dispatch, Move, EntryAtRest, EntryParked, EntryDrive, EntryStandby, Publish,
         OnlyLoop, restVars, settingVars, Arming
<1>2. CASE Dispatch
  <2>1. pc = "idle" /\ UNCHANGED state
    BY <1>2 DEF Dispatch
  <2>2. PICK G : LET rows == Selected(state, Head(queue), G) IN
                 \/ rows = {} /\ UNCHANGED <<pc, target, timer, counting, lapses>>
                 \/ \E row \in rows :
                      /\ pc' = "move" /\ target' = row.to
                      /\ IF LeavesGroup(row.to) THEN ExitAtRest
                         ELSE UNCHANGED <<timer, counting, lapses>>
    BY <1>2 DEF Dispatch
  <2>3. Locking => Locking' \/ Head(queue) = "AutoStandbyTimeout"
    BY <1>2, DispatchKeepsLocking
  <2>4. SUFFICES ASSUME Heading' \in AtRestLeaves, ~Entering' PROVE Idles'
    OBVIOUS
  <2>5. state \in AtRestLeaves
    BY <2>1, <2>2, <2>4
  <2>6. Head(queue) # "AutoStandbyTimeout"
    BY <2>1, <2>2, <2>4, <2>5, AutoStandbyLeavesRest DEF AtRestLeaves
  <2>7. UNCHANGED <<timer, lapses>>
    BY <2>1, <2>2, <2>4 DEF LeavesGroup
  <2> QED
    BY <1>1, <2>1, <2>3, <2>5, <2>6, <2>7
<1>3. CASE Move
  <2>1. UNCHANGED <<timer, lapses, queue>> /\ pc = "move" /\ state' = target
    BY <1>3 DEF Move, restVars
  <2>2. CASE state \in AtRestLeaves
    BY <1>1, <1>3, <2>1, <2>2, EntryOfTypes DEF Move, Locking
  <2>3. CASE state \notin AtRestLeaves
    <3>1. target \in AtRestLeaves => target # "ReadyToDrive" /\ target # "Standby"
      BY DEF AtRestLeaves
    <3>2. target \in AtRestLeaves => EntryOf(target, state) = "atRest"
      BY <2>3, <3>1, Zenon DEF EntryOf
    <3> QED
      BY <1>3, <2>1, <3>2 DEF Move
  <2> QED
    BY <2>2, <2>3
<1>4. CASE EntryAtRest
  BY <1>1, <1>4 DEF EntryAtRest, Entry, EnterAtRest, AtRestTypeOK
<1>5. CASE EntryParked \/ EntryStandby \/ Publish
  BY <1>1, <1>5 DEF EntryParked, EntryStandby, Publish, Entry, restVars, Locking
<1>6. CASE EntryDrive
  <2>1. Locking => Locking'
    <3>1. queue' = queue \/ Send("DashboardNotReady")
      BY <1>6 DEF EntryDrive, EnterDrive
    <3> QED
      BY <3>1, SendKeepsLocking, OwnEvents DEF Locking
  <2> QED
    BY <1>1, <1>6, <2>1 DEF EntryDrive, Entry, restVars
<1> QED
  BY <1>2, <1>3, <1>4, <1>5, <1>6 DEF LoopStep

(* The handlers: who stops the timer arms it, or says why not.             *)
LEMMA IdlesResting ==
  ASSUME MachineTypes, AtTypes, AtRestTypeOK, Idles,
         RestHandler \/ TimerFires \/ \E t \in InputThreads : KickReset(t)
  PROVE  Idles'
<1> USE DEF Idles, Heading, Entering, OnlyRest, machineVars
<1>1. CASE TimerFires
  BY <1>1, FiringLocks
<1>2. ASSUME NEW t \in Threads, NEW after, Clear(t)
      PROVE  Idles'
  BY <1>2, GoingKeepsArming DEF Clear, settingVars, Locking
<1>3. ASSUME NEW t \in Threads, NEW after, Stop(t) \/ Cancel(t, after) \/ Recheck(t, after)
      PROVE  Idles'
  <2>1. UNCHANGED <<state, pc, target, secs, queue>> /\ lapses \subseteq lapses'
    BY <1>3 DEF Stop, Cancel, Recheck, settingVars
  <2>2. CASE Stop(t)
    <3>1. at'[t] = "recheck"
      BY <2>2 DEF Stop, Goto, AtTypes
    <3> QED
      BY <3>1 DEF Arming
  <2>3. CASE Cancel(t, after)
    BY <2>1, <2>3 DEF Cancel
  <2>4. ASSUME Recheck(t, after), state = "Parked", secs > 0 PROVE Idles'
    <3>1. at'[t] = "arm"
      BY <2>4 DEF Recheck, Goto, AtTypes, Parked, SystemStateOf
    <3> QED
      BY <3>1 DEF Arming
  <2>5. ASSUME Recheck(t, after), state \in HopOnFamily PROVE Idles'
    BY <2>1, <2>5 DEF Recheck
  <2>6. ASSUME ~(secs > 0) \/ state \notin AtRestLeaves PROVE Idles'
    BY <2>1, <2>6
  <2> QED
    BY <1>3, <2>2, <2>3, <2>4, <2>5, <2>6 DEF AtRestLeaves, HopOnFamily
<1>4. ASSUME NEW t \in Threads, NEW after, Arm(t, after)
      PROVE  Idles'
  BY <1>4 DEF Arm
<1>5. CASE BleChange \/ BleCheck \/ BleFlag \/ BleCount
  <2>1. (Arming => Arming') \/ timer' = "keyless"
    BY <1>5, GoingKeepsArming DEF BleChange, BleCheck, BleFlag, BleCount
  <2> QED
    BY <1>5, <2>1 DEF BleChange, BleCheck, BleFlag, BleCount, settingVars, Locking
<1>6. CASE SettingIdle
  <2>1. Arming => Arming'
    BY <1>6, GoingKeepsArming DEF SettingIdle
  <2>2. UNCHANGED <<state, pc, target, queue, vstate, timer>> /\ lapses \subseteq lapses'
    BY <1>6 DEF SettingIdle
  <2>3. CASE vstate = "parked" /\ secs' # secs /\ secs' > 0
    <3>1. at'["settings"] = "stop"
      BY <1>6, <2>3 DEF SettingIdle, Goto, AtTypes, Threads
    <3> QED
      BY <2>2, <3>1 DEF Arming, Threads
  <2>4. CASE vstate # "parked" /\ state \in AtRestLeaves
    BY <1>6, <2>2, <2>4 DEF SettingIdle
  <2>5. CASE secs' = secs \/ ~(secs' > 0) \/ state \notin AtRestLeaves
    BY <2>1, <2>2, <2>5 DEF Locking
  <2> QED
    BY <2>3, <2>4, <2>5
<1>7. CASE SettingGrace
  BY <1>7 DEF SettingGrace, threadVars, Arming, Locking
<1> QED
  BY <1>1, <1>2, <1>3, <1>4, <1>5, <1>6, <1>7
     DEF RestHandler, RestThreads, Rearm, KickReset, Threads

(* Idles is inductive.                                                     *)
LEMMA IdlesStep == MachineTypes /\ AtTypes /\ AtRestTypeOK /\ Idles /\ [Next]_vars => Idles'
<1> SUFFICES ASSUME MachineTypes, AtTypes, AtRestTypeOK, Idles, [Next]_vars PROVE Idles'
  OBVIOUS
<1>1. CASE LoopStep
  BY <1>1, IdlesLoop
<1>2. CASE Resting \/ \E t \in InputThreads : KickReset(t)
  BY <1>2, IdlesResting DEF Resting
<1>3. CASE UNCHANGED vars
  BY <1>3 DEF vars, machineVars, restVars, settingVars, threadVars, Idles, Heading, Entering,
              Arming, Locking
<1>4. ASSUME ~LoopStep, Arming => Arming', UNCHANGED <<timer, lapses, secs>>
      PROVE  Idles'
  <2>1. Locking => Locking'
    BY <1>4, OthersSend, SendKeepsLocking DEF Locking
  <2> QED
    BY <1>4, <2>1, OthersSend DEF Idles, Heading, Entering
<1> QED
  BY <1>1, <1>2, <1>3, <1>4, OthersKeepArming DEF Next, Driving, KickStep

(* An idle vehicle locks itself, unless hop-on, an overtaken handler or an *)
(* outdated setting has stopped the timer: for any settings and inputs.    *)
THEOREM IdleVehicleLocksItself == Spec => []IdleVehicleLocksUnless
<1>1. Init => Idles
  BY DEF Init, AtRestInit, Idles, Heading
<1>2. Types /\ Idles => IdleVehicleLocksUnless
  BY DEF Idles, IdleVehicleLocksUnless, Settled, Heading, Entering, Arming, Locking, Types,
         MachineTypes, Threads, AtRestLeaves
<1>3. Types => MachineTypes /\ AtTypes /\ AtRestTypeOK
  BY DEF Types
<1> QED
  BY <1>1, <1>2, <1>3, TypesInit, TypesStep, IdlesStep, PTL DEF Spec
=============================================================================
