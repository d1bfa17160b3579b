---------------------------- MODULE SignalProofs -----------------------------
(***************************************************************************)
(* What the handlers of the switches have been told when the input layer   *)
(* is quiet, and what that means for the horn and for the kickstand: for   *)
(* every set of channels, beginnings and inputs.                           *)
(***************************************************************************)
EXTENDS CockpitProofs

(* Another look at channel c will be taken: by a resync that is owed or    *)
(* under way, or because of an event.                                      *)
Coming(c) ==
  \/ owed
  \/ \E i \in 1..Len(events) : events[i].ch \in {c, "dropped"}
  \/ \E t \in ResyncThreads : at[t] \in {"snap", "cache"} \/ c \in pend[t]

Told == \A c \in Channels : sure[c] => (Coming(c) \/ Known(c) = line[c])

(* A goroutine has something to report while it is in its resync only.     *)
Owes == \A t \in ResyncThreads : at[t] \in {"idle", "snap", "cache"} => pend[t] = {}

(* What a step of others leaves of the resync in goroutine t.              *)
GoesOn(t) ==
  \/ at'[t] = at[t]
  \/ at[t] \notin {"snap", "cache"} /\ (at'[t] \in {"idle", "snap", "cache"} => pend[t] = {})

(* A callback's goroutine comes back to its resync.                        *)
LEMMA CallGoesOn ==
  ASSUME AtTypes, NEW u, at[u] \notin {"snap", "cache"},
         Return(u) \/ \E step : step \notin {"idle", "snap", "cache"} /\ Goto(u, step)
  PROVE  \A t \in ResyncThreads : GoesOn(t)
<1> TAKE t \in ResyncThreads
<1>1. CASE t # u
  <2>1. \E step : at' = [at EXCEPT ![u] = step]
    BY DEF Return, Goto
  <2> QED
    BY <1>1, <2>1 DEF GoesOn, AtTypes
<1>2. CASE t = u
  BY <1>2 DEF GoesOn, Return, Goto, AtTypes, Threads, InputThreads
<1> QED
  BY <1>1, <1>2

(* The watchers are in no resync.                                          *)
LEMMA WatcherGoesOn ==
  ASSUME AtTypes, NEW u, u \notin ResyncThreads, NEW step, Goto(u, step)
  PROVE  \A t \in ResyncThreads : GoesOn(t)
  BY DEF GoesOn, Goto, AtTypes

(* Nobody but the inputs' own steps touches a resync.                      *)
LEMMA OthersGoOn ==
  ASSUME AtTypes, [Next]_vars, ~Inputting
  PROVE  \A t \in ResyncThreads : GoesOn(t)
<1> USE DEF threadVars
<1> DEFINE Kept == \A t \in ResyncThreads : GoesOn(t)
<1>1. ASSUME UNCHANGED at PROVE Kept
  BY <1>1 DEF GoesOn
<1>2. CASE LoopStep \/ StateTimeout \/ ExtSend
  BY <1>1, <1>2 DEF LoopStep, Dispatch, Move, EntryAtRest, EntryParked, EntryDrive, EntryStandby,
                    Publish, StateTimeout, ExtSend, OnlyLoop
<1>3. CASE Resting
  <2>1. {"ble", "settings"} \cap ResyncThreads = {}
    BY DEF ResyncThreads
  <2>2. ASSUME NEW t \in RestThreads, Rearm(t, "idle") PROVE Kept
    BY <2>1, <2>2, WatcherGoesOn DEF Rearm, Clear, Stop, Cancel, Recheck, Arm, RestThreads
  <2>3. CASE BleChange \/ BleCheck \/ BleFlag \/ BleCount \/ SettingIdle
    BY <2>1, <2>3, WatcherGoesOn DEF BleChange, BleCheck, BleFlag, BleCount, SettingIdle
  <2>4. CASE SettingGrace \/ TimerFires
    BY <1>1, <2>4 DEF SettingGrace, TimerFires
  <2> QED
    BY <1>3, <2>2, <2>3, <2>4 DEF Resting, RestHandler
<1>4. CASE Driving
  <2>1. CASE DeferralFires \/ SecondPasses \/ MonitorTick
    BY <1>1, <2>1 DEF DeferralFires, SecondPasses, MonitorTick
  <2>2. ASSUME NEW t, KickBegin(t) PROVE Kept
    <3>1. ResetFirst("kickPublish") \notin {"idle", "snap", "cache"}
      BY DEF ResetFirst
    <3> QED
      BY <2>2, <3>1, CallGoesOn DEF KickBegin
  <2>3. ASSUME NEW t, KickReset(t) PROVE Kept
    BY <2>3, CallGoesOn DEF KickReset, Rearm, Clear, Stop, Cancel, Recheck, Arm
  <2>4. ASSUME NEW t, KickPublish(t) \/ KickSend(t) PROVE Kept
    BY <2>4, CallGoesOn DEF KickPublish, KickSend
  <2> QED
    BY <1>4, <2>1, <2>2, <2>3, <2>4 DEF Driving, KickStep
<1>5. CASE Blinking
  <2>1. ASSUME NEW t, BlinkStep(t) PROVE Kept
    BY <2>1, CallGoesOn DEF BlinkStep, BlinkGate, Blink
  <2> QED
    BY <1>1, <1>5, <2>1 DEF Blinking, BlinkRequest
<1>6. CASE Honking
  <2>1. ASSUME NEW t, HornStep(t) PROVE Kept
    BY <2>1, CallGoesOn DEF HornStep, HornGate, HornWrite
  <2> QED
    BY <1>1, <1>6, <2>1 DEF Honking, HornRequest
<1>7. CASE UNCHANGED vars
  BY <1>1, <1>7 DEF vars
<1> QED
  BY <1>2, <1>3, <1>4, <1>5, <1>6, <1>7 DEF Next

-----------------------------------------------------------------------------
(* Told.  Events are typed, so that none is of the marker's channel.       *)
LEMMA ChannelsAreNamed == "dropped" \notin Channels /\ Debounced \subseteq Channels
  BY InputsAssumption DEF InputKinds

(* Nobody's step but the inputs' own.                                      *)
LEMMA ToldOthers ==
  ASSUME AtTypes, Told, Owes, [Next]_vars, ~Inputting
  PROVE  Told' /\ Owes'
<1>1. UNCHANGED inputVars
  BY OthersKeepInputs
<1>2. \A t \in ResyncThreads : GoesOn(t)
  BY OthersGoOn
<1> QED
  BY <1>1, <1>2 DEF Told, Owes, Coming, Known, GoesOn, inputVars, lineVars, cacheVars, syncVars

(* Debouncing or telling a value makes it the known one.                   *)
LEMMA DebounceKnown ==
  ASSUME InputsTypeOK, NEW t, NEW c \in Channels, NEW v \in BOOLEAN, DebounceInput(t, c, v)
  PROVE  /\ Known(c)' = v
         /\ \A d \in Channels \ {c} : Known(d)' = Known(d)
<1>1. CASE c \in Debounced
  BY <1>1 DEF DebounceInput, InputsTypeOK, Known
<1>2. CASE c \notin Debounced
  <2>1. c \notin armed /\ reported' = [reported EXCEPT ![c] = v] /\ UNCHANGED <<last, armed>>
    BY <1>2 DEF DebounceInput, Deliver, InputsTypeOK
  <2> QED
    BY <2>1 DEF Known, InputsTypeOK
<1> QED
  BY <1>1, <1>2

(* A report goes on with the resync, or calls.                             *)
LEMMA DebounceGoes ==
  ASSUME AtTypes, NEW t, NEW c, NEW v, DebounceInput(t, c, v) \/ Deliver(t, c, v)
  PROVE  /\ \A u \in ResyncThreads \ {t} : at'[u] = at[u]
         /\ t \in ResyncThreads => (at'[t] \in {"idle", "snap", "cache"} => pend'[t] = {})
<1>1. PICK step : at' = [at EXCEPT ![t] = step]
                  /\ (step = "call" \/ step = NextOf(t))
  BY DEF DebounceInput, Deliver, Goto
<1>2. \A u \in ResyncThreads \ {t} : at'[u] = at[u]
  BY <1>1 DEF AtTypes
<1>3. ASSUME t \in ResyncThreads PROVE at'[t] = step
  BY <1>1, <1>3 DEF AtTypes, Threads, InputThreads
<1> QED
  BY <1>1, <1>2, <1>3 DEF NextOf

(* An event that is not at the head of the queue stays in it.              *)
LEMMA TailHas ==
  ASSUME NEW S, NEW q \in Seq(S), q # <<>>, NEW i \in 1..Len(q), q[i] # Head(q)
  PROVE  i - 1 \in 1..Len(Tail(q)) /\ Tail(q)[i - 1] = q[i]
<1>1. /\ Len(Tail(q)) = Len(q) - 1
      /\ \A j \in 1..Len(Tail(q)) : Tail(q)[j] = q[j + 1]
  BY HeadTailProperties
<1>2. Head(q) = q[1]
  OBVIOUS
<1> QED
  BY <1>1, <1>2

(* The world makes another look come, or leaves the line alone.            *)
LEMMA ToldWorld ==
  ASSUME InputsTypeOK, Told, Owes, World
  PROVE  Told' /\ Owes'
<1> USE DEF cacheVars, syncVars, threadVars
<1>1. Owes'
  BY DEF World, Overflow, Suspend, Edge, Owes
<1>2. ASSUME NEW c \in Channels, Edge(c) PROVE Told'
  <2>1. /\ line' = [line EXCEPT ![c] = ~@]
        /\ UNCHANGED <<owed, last, armed, reported, sure, pend, at>>
    BY <1>2 DEF Edge
  <2>2. PICK v : events' = Append(events, [ch |-> c, val |-> v])
    BY <1>2 DEF Edge
  <2> DEFINE e == [ch |-> c, val |-> v]
  <2>3. /\ Len(events') = Len(events) + 1 /\ events'[Len(events) + 1] = e
        /\ \A i \in 1..Len(events) : events'[i] = events[i]
        /\ Len(events) \in Nat
    BY <2>2 DEF InputsTypeOK
  <2>4. Coming(c)'
    BY <2>3 DEF Coming
  <2>5. ASSUME NEW d \in Channels, d # c, sure'[d] PROVE Coming(d)' \/ Known(d)' = line'[d]
    <3>1. Coming(d) => Coming(d)'
      BY <2>1, <2>3 DEF Coming
    <3>2. Known(d)' = Known(d) /\ line'[d] = line[d]
      BY <2>1, <2>5 DEF Known, InputsTypeOK
    <3> QED
      BY <2>1, <2>5, <3>1, <3>2 DEF Told
  <2> QED
    BY <2>4, <2>5 DEF Told
<1>3. ASSUME Overflow PROVE Told'
  <2>1. Len(events') = 1 /\ events'[1] = Dropped
    BY <1>3 DEF Overflow
  <2>2. ASSUME NEW c \in Channels PROVE Coming(c)'
    <3>1. 1 \in 1..Len(events') /\ events'[1].ch = "dropped"
      BY <2>1 DEF Dropped
    <3> QED
      BY <3>1 DEF Coming
  <2> QED
    BY <2>2 DEF Told
<1>4. ASSUME Suspend PROVE Told'
  <2>1. ASSUME NEW c \in Channels PROVE Coming(c)'
    BY <1>4 DEF Suspend, Coming
  <2> QED
    BY <2>1 DEF Told
<1> QED
  BY <1>1, <1>2, <1>3, <1>4 DEF World

(* The reader: the look it takes, or the resync it begins.                 *)
LEMMA ToldTaking ==
  ASSUME InputsTypeOK, EdgeTypes, AtTypes, Told, Owes, TakeEvent
  PROVE  Told' /\ Owes'
<1> DEFINE e == Head(events)
<1>1. /\ at["monitor"] = "idle" /\ events # <<>> /\ events' = Tail(events)
      /\ UNCHANGED <<line, owed, pend>>
  BY DEF TakeEvent, syncVars
<1>2. "monitor" \in ResyncThreads /\ pend["monitor"] = {}
  BY <1>1 DEF ResyncThreads, Owes
<1>3. e \in [ch : Channels, val : BOOLEAN] \cup {Dropped}
  BY <1>1, HeadTailProperties DEF EdgeTypes
<1>4. CASE e = Dropped
  <2>1. at' = [at EXCEPT !["monitor"] = "snap"]
    BY <1>4 DEF TakeEvent, Goto
  <2>2. at'["monitor"] = "snap" /\ \A t \in ResyncThreads \ {"monitor"} : at'[t] = at[t]
    BY <1>2, <2>1 DEF AtTypes, Threads, InputThreads
  <2>3. Owes'
    BY <1>1, <1>2, <2>2 DEF Owes
  <2>4. ASSUME NEW c \in Channels PROVE Coming(c)'
    BY <1>2, <2>2 DEF Coming
  <2> QED
    BY <2>3, <2>4 DEF Told
<1>5. CASE e # Dropped
  <2>1. PICK c \in Channels, v \in BOOLEAN : c = e.ch /\ v = e.val
    BY <1>3, <1>5
  <2>2. DebounceInput("monitor", c, v) /\ LooksAt(c, v, Tail(events))
    BY <1>5, <2>1 DEF TakeEvent
  <2>3. \A t \in ResyncThreads \ {"monitor"} : at'[t] = at[t]
    BY <2>2, DebounceGoes
  <2>4. Owes'
    BY <1>1, <1>2, <2>3 DEF Owes
  <2>5. ASSUME sure'[c] PROVE Coming(c)' \/ Known(c)' = line'[c]
    <3>1. v = line[c] \/ Followed(c, Tail(events), ResyncThreads)
      BY <2>1, <2>2, <2>5 DEF LooksAt, InputsTypeOK
    <3>2. CASE v = line[c]
      BY <1>1, <2>1, <2>2, <3>2, DebounceKnown
    <3>3. CASE Followed(c, Tail(events), ResyncThreads)
      <4>1. DOMAIN Tail(events) = 1..Len(Tail(events))
        BY <1>1, HeadTailProperties DEF InputsTypeOK
      <4>2. ASSUME NEW t \in ResyncThreads, at[t] = "snap" PROVE at'[t] = "snap"
        BY <1>1, <2>3, <4>2
      <4> QED
        BY <1>1, <3>3, <4>1, <4>2 DEF Followed, Coming
    <3> QED
      BY <3>1, <3>2, <3>3
  <2>6. ASSUME NEW d \in Channels, d # c, sure'[d] PROVE Coming(d)' \/ Known(d)' = line'[d]
    <3>1. sure[d]
      BY <2>2, <2>6 DEF LooksAt, InputsTypeOK
    <3>2. Known(d)' = Known(d)
      BY <2>1, <2>2, <2>6, DebounceKnown
    <3>3. ASSUME NEW i \in 1..Len(events), events[i].ch \in {d, "dropped"} PROVE Coming(d)'
      <4>1. events[i] # e
        BY <2>1, <2>6, <3>3, ChannelsAreNamed
      <4>2. i - 1 \in 1..Len(Tail(events)) /\ Tail(events)[i - 1] = events[i]
        BY <1>1, <4>1, TailHas DEF InputsTypeOK
      <4> QED
        BY <1>1, <3>3, <4>2 DEF Coming
    <3>4. ASSUME NEW t \in ResyncThreads, at[t] \in {"snap", "cache"} PROVE Coming(d)'
      BY <1>1, <2>3, <3>4 DEF Coming
    <3>5. ASSUME NEW t \in ResyncThreads, d \in pend[t] PROVE Coming(d)'
      BY <1>1, <3>5 DEF Coming
    <3>6. Coming(d) => Coming(d)'
      <4>1. owed => Coming(d)'
        BY <1>1 DEF Coming
      <4> QED
        BY <3>3, <3>4, <3>5, <4>1 DEF Coming
    <3> QED
      BY <1>1, <2>6, <3>1, <3>2, <3>6 DEF Told
  <2> QED
    BY <2>4, <2>5, <2>6 DEF Told
<1> QED
  BY <1>4, <1>5

(* A resync: what it reads, and what it reports of one channel.            *)
LEMMA ToldResync ==
  ASSUME InputsTypeOK, AtTypes, Told, Owes, NEW t \in ResyncThreads, Resync(t)
  PROVE  Told' /\ Owes'
<1> USE DEF lineVars, cacheVars
<1>1. CASE ResyncRead(t)
  <2>1. /\ at[t] = "snap" /\ at' = [at EXCEPT ![t] = "cache"]
        /\ UNCHANGED <<line, events, owed, last, armed, reported, sure, pend>>
    BY <1>1 DEF ResyncRead, Goto
  <2>2. at'[t] = "cache" /\ \A u \in ResyncThreads \ {t} : at'[u] = at[u]
    BY <2>1 DEF AtTypes, Threads, InputThreads
  <2>3. ASSUME NEW c \in Channels PROVE Coming(c)'
    BY <2>2 DEF Coming
  <2>4. Told'
    BY <2>3 DEF Told
  <2> QED
    BY <2>1, <2>2, <2>4 DEF Owes
<1>2. CASE ResyncCache(t)
  <2>1. /\ at[t] = "cache" /\ at' = [at EXCEPT ![t] = "report"]
        /\ pend' = [pend EXCEPT ![t] = Channels]
    BY <1>2 DEF ResyncCache, Goto
  <2>2. /\ at'[t] = "report" /\ \A u \in ResyncThreads \ {t} : at'[u] = at[u]
        /\ pend'[t] = Channels /\ \A u \in ResyncThreads \ {t} : pend'[u] = pend[u]
    BY <2>1 DEF AtTypes, InputsTypeOK, Threads, InputThreads
  <2>3. ASSUME NEW c \in Channels PROVE Coming(c)'
    BY <2>2 DEF Coming
  <2>4. Told'
    BY <2>3 DEF Told
  <2> QED
    BY <2>2, <2>4 DEF Owes
<1>3. CASE ResyncReport(t)
  <2>1. at[t] = "report" /\ UNCHANGED <<line, events, owed>>
    BY <1>3 DEF ResyncReport
  <2>2. PICK c \in pend[t] :
          /\ pend' = [pend EXCEPT ![t] = @ \ {c}]
          /\ DebounceInput(t, c, snap[t][c])
          /\ LooksAt(c, snap[t][c], events)
    BY <1>3 DEF ResyncReport
  <2>3. PICK v \in BOOLEAN : v = snap[t][c]
    BY <2>2 DEF InputsTypeOK
  <2>4. c \in Channels
    BY DEF InputsTypeOK
  <2>5. /\ pend'[t] = pend[t] \ {c}
        /\ \A u \in ResyncThreads \ {t} : at'[u] = at[u] /\ pend'[u] = pend[u]
        /\ at'[t] \in {"idle", "snap", "cache"} => pend'[t] = {}
    BY <2>2, DebounceGoes DEF InputsTypeOK
  <2>6. Owes'
    BY <2>5 DEF Owes
  <2>7. ASSUME sure'[c] PROVE Coming(c)' \/ Known(c)' = line'[c]
    <3>1. v = line[c] \/ Followed(c, events, ResyncThreads)
      BY <2>2, <2>3, <2>4, <2>7 DEF LooksAt, InputsTypeOK
    <3>2. CASE v = line[c]
      BY <2>1, <2>2, <2>3, <2>4, <3>2, DebounceKnown
    <3>3. CASE Followed(c, events, ResyncThreads)
      <4>1. DOMAIN events = 1..Len(events)
        BY DEF InputsTypeOK
      <4>2. ASSUME NEW u \in ResyncThreads, at[u] = "snap" PROVE at'[u] = "snap"
        BY <2>1, <2>5, <4>2
      <4> QED
        BY <2>1, <3>3, <4>1, <4>2 DEF Followed, Coming
    <3> QED
      BY <3>1, <3>2, <3>3
  <2>8. ASSUME NEW d \in Channels, d # c, sure'[d] PROVE Coming(d)' \/ Known(d)' = line'[d]
    <3>1. sure[d]
      BY <2>2, <2>8 DEF LooksAt, InputsTypeOK
    <3>2. Known(d)' = Known(d)
      BY <2>2, <2>3, <2>4, <2>8, DebounceKnown
    <3>3. ASSUME NEW u \in ResyncThreads, at[u] \in {"snap", "cache"} \/ d \in pend[u]
          PROVE  Coming(d)'
      <4>1. at'[u] \in {"snap", "cache"} \/ d \in pend'[u]
        BY <2>1, <2>5, <2>8, <3>3
      <4> QED
        BY <4>1 DEF Coming
    <3>4. Coming(d) => Coming(d)'
      <4>1. owed \/ (\E i \in 1..Len(events) : events[i].ch \in {d, "dropped"}) => Coming(d)'
        BY <2>1 DEF Coming
      <4> QED
        BY <3>3, <4>1 DEF Coming
    <3> QED
      BY <2>1, <2>8, <3>1, <3>2, <3>4 DEF Told
  <2> QED
    BY <2>6, <2>7, <2>8 DEF Told
<1>4. CASE ResyncFails(t)
  <2>1. /\ at[t] = "snap" /\ at' = [at EXCEPT ![t] = "idle"]
        /\ UNCHANGED <<line, events, owed, last, armed, reported, pend>>
        /\ sure' = [c \in Channels |->
              sure[c] /\ (Known(c) = line[c] \/ Followed(c, events, ResyncThreads \ {t}))]
    BY <1>4 DEF ResyncFails, Goto, syncVars
  <2>2. at'[t] = "idle" /\ \A u \in ResyncThreads \ {t} : at'[u] = at[u]
    BY <2>1 DEF AtTypes, Threads, InputThreads
  <2>3. Owes'
    BY <2>1, <2>2 DEF Owes
  <2>4. ASSUME NEW c \in Channels, sure'[c] PROVE Coming(c)' \/ Known(c)' = line'[c]
    <3>1. Known(c) = line[c] \/ Followed(c, events, ResyncThreads \ {t})
      BY <2>1, <2>4
    <3>2. Known(c)' = Known(c)
      BY <2>1 DEF Known
    <3>3. CASE Followed(c, events, ResyncThreads \ {t})
      <4>1. DOMAIN events = 1..Len(events)
        BY DEF InputsTypeOK
      <4> QED
        BY <2>1, <2>2, <3>3, <4>1 DEF Followed, Coming
    <3> QED
      BY <2>1, <3>1, <3>2, <3>3
  <2> QED
    BY <2>3, <2>4 DEF Told
<1> QED
  BY <1>1, <1>2, <1>3, <1>4 DEF Resync

(* The resync that was owed begins.                                        *)
LEMMA ToldRunning ==
  ASSUME AtTypes, Told, Owes, PowerRunning
  PROVE  Told' /\ Owes'
<1>1. at["power"] = "idle" /\ at' = [at EXCEPT !["power"] = "snap"] /\ UNCHANGED pend
  BY DEF PowerRunning, Goto, syncVars
<1>2. /\ "power" \in ResyncThreads /\ at'["power"] = "snap"
      /\ \A u \in ResyncThreads \ {"power"} : at'[u] = at[u]
  BY <1>1 DEF AtTypes, Threads, InputThreads, ResyncThreads
<1>3. ASSUME NEW c \in Channels PROVE Coming(c)'
  BY <1>2 DEF Coming
<1>4. Told'
  BY <1>3 DEF Told
<1> QED
  BY <1>1, <1>2, <1>4 DEF Owes

(* The goroutine of an expired timer is not one of a resync.               *)
LEMMA SettleThread ==
  ASSUME NEW c, Settle(c)
  PROVE  \E u \in DebounceThreads : at[u] = "idle" /\ Deliver(u, c, last[c])
<1>1. \E t \in DebounceThreads : at[t] = "idle" /\ (t = "d2" => at["d1"] # "idle")
  BY DEF Settle, DebounceThreads
<1>2. FreeThread \in DebounceThreads /\ at[FreeThread] = "idle"
  BY <1>1 DEF FreeThread
<1>3. Deliver(FreeThread, c, last[c])
  BY DEF Settle
<1> HIDE DEF FreeThread
<1> QED
  BY <1>2, <1>3

(* A timer that expires tells what was known.                              *)
LEMMA ToldSettle ==
  ASSUME InputsTypeOK, AtTypes, Told, Owes, NEW c \in Debounced, Settle(c)
  PROVE  Told' /\ Owes'
<1>1. PICK u \in DebounceThreads : Deliver(u, c, last[c])
  BY SettleThread
<1>2. u \notin ResyncThreads
  BY DEF DebounceThreads, ResyncThreads
<1>3. \A t \in ResyncThreads : at'[t] = at[t]
  BY <1>1, <1>2, DebounceGoes
<1>4. /\ c \in armed /\ armed' = armed \ {c} /\ last' = [last EXCEPT ![c] = FALSE]
      /\ UNCHANGED <<line, events, owed, sure, pend>>
  BY DEF Settle, lineVars, syncVars
<1>5. reported' = [reported EXCEPT ![c] = last[c]]
  BY <1>1 DEF Deliver
<1>6. ASSUME NEW d \in Channels PROVE Known(d)' = Known(d)
  <2>1. CASE d = c
    BY <1>4, <1>5, <2>1 DEF Known, InputsTypeOK
  <2>2. CASE d # c
    BY <1>4, <1>5, <2>2 DEF Known, InputsTypeOK
  <2> QED
    BY <2>1, <2>2
<1>7. ASSUME NEW d \in Channels, Coming(d) PROVE Coming(d)'
  BY <1>3, <1>4, <1>7 DEF Coming
<1>8. Told'
  BY <1>4, <1>6, <1>7 DEF Told
<1> QED
  BY <1>3, <1>4, <1>8 DEF Owes

(* Told and Owes are inductive.                                            *)
LEMMA ToldStep == Types /\ Told /\ Owes /\ [Next]_vars => Told' /\ Owes'
<1> SUFFICES ASSUME Types, Told, Owes, [Next]_vars PROVE Told' /\ Owes'
  OBVIOUS
<1>1. AtTypes /\ EdgeTypes /\ InputsTypeOK
  BY DEF Types
<1>2. CASE ~Inputting
  BY <1>1, <1>2, ToldOthers
<1>3. CASE Inputting
  BY <1>1, <1>3, ToldWorld, ToldTaking, ToldResync, ToldRunning, ToldSettle
     DEF Inputting, InputStep
<1> QED
  BY <1>2, <1>3

(* A behaviour begins with everything told.                                *)
LEMMA ToldInit == Init => Told /\ Owes
<1> SUFFICES ASSUME NEW down, InputsInit(down) PROVE Told /\ Owes
  BY DEF Init
<1>1. armed = {} /\ reported = line /\ \A t \in ResyncThreads : pend[t] = {}
  BY DEF InputsInit
<1> QED
  BY <1>1 DEF Told, Owes, Known

(* When the input layer is quiet, each handler has last been called with   *)
(* the level of its switch, unless the last look at it was out of date:    *)
(* the promise of debounceInput and ResyncInputs, without fairness.        *)
QuietIsTold == InputsQuiet => \A c \in Channels : sure[c] => reported[c] = line[c]

(* Then nothing is coming, and no timer knows better.                      *)
LEMMA ToldWhenQuiet == Told /\ Owes => QuietIsTold
<1> SUFFICES ASSUME Told, Owes, InputsQuiet, NEW c \in Channels, sure[c]
             PROVE  reported[c] = line[c]
  BY DEF QuietIsTold
<1>1. ~owed /\ armed = {} /\ Len(events) = 0
      /\ \A t \in ResyncThreads : at[t] = "idle" /\ pend[t] = {}
  BY DEF InputsQuiet, Owes, InputThreads
<1> QED
  BY <1>1 DEF Told, Coming, Known

(* So it is in every behaviour of the cockpit.                             *)
THEOREM HandlersAreTold == Spec => []QuietIsTold
<1> QED
  BY ToldWhenQuiet, TypesInit, TypesStep, ToldInit, ToldStep, PTL DEF Spec

-----------------------------------------------------------------------------
(* HornEndsWithButton.  The button's release is on its way to the horn.    *)
Releasing ==
  \E t \in InputThreads : at[t] \in {"call", "horn"} /\ arg[t].ch = "horn" /\ ~arg[t].val

Sounding ==
  (horn /\ blower = "button" /\ deaf = {}) => (reported["horn"] \/ Releasing)

(* A goroutine that is not at the horn leaves the one that is alone.       *)
LEMMA ElsewhereKeepsReleasing ==
  ASSUME AtTypes, ArgTypes, NEW u, at[u] \notin {"call", "horn"} \/ arg[u].ch # "horn",
         NEW step, at' = [at EXCEPT ![u] = step],
         NEW a, arg' = arg \/ arg' = [arg EXCEPT ![u] = a]
  PROVE  Releasing => Releasing'
<1> SUFFICES ASSUME NEW t \in InputThreads, at[t] \in {"call", "horn"}, arg[t].ch = "horn",
                    ~arg[t].val
             PROVE  Releasing'
  BY DEF Releasing
<1>1. t # u /\ t \in Threads
  BY DEF Threads
<1>2. at'[t] = at[t] /\ arg'[t] = arg[t]
  BY <1>1 DEF AtTypes, ArgTypes
<1> QED
  BY <1>2 DEF Releasing

(* The forms such a step has.                                              *)
LEMMA GoingKeepsReleasing ==
  ASSUME AtTypes, ArgTypes, NEW u, at[u] \notin {"call", "horn"} \/ arg[u].ch # "horn",
         \/ Return(u)
         \/ \E step : Goto(u, step) /\ (UNCHANGED arg \/ \E a : arg' = [arg EXCEPT ![u] = a])
  PROVE  Releasing => Releasing'
<1>1. \E step : at' = [at EXCEPT ![u] = step]
  BY DEF Return, Goto
<1>2. arg' = arg \/ \E a : arg' = [arg EXCEPT ![u] = a]
  BY DEF Return
<1> QED
  BY <1>1, <1>2, ElsewhereKeepsReleasing

(* What the machine, the watchers, the kickstand and the blinkers do.      *)
LEMMA OthersKeepReleasing ==
  ASSUME AtTypes, ArgTypes, [Next]_vars, ~Inputting, ~Honking
  PROVE  (Releasing => Releasing') /\ UNCHANGED <<horn, blower, deaf, reported>>
<1> USE DEF threadVars, signalVars, hornVars
<1> DEFINE Kept == (Releasing => Releasing')
<1>1. ASSUME UNCHANGED threadVars PROVE Kept
  BY <1>1 DEF Releasing
<1>2. UNCHANGED <<horn, blower, deaf, reported>>
  <2>1. UNCHANGED reported
    BY OthersKeepInputs DEF inputVars, cacheVars
  <2>2. CASE LoopStep
    BY <2>1, <2>2 DEF LoopStep, Dispatch, Move, EntryAtRest, EntryParked, EntryDrive,
                      EntryStandby, Publish
  <2>3. CASE StateTimeout \/ ExtSend \/ Resting \/ Driving \/ Blinking \/ UNCHANGED vars
    BY <2>1, <2>3 DEF StateTimeout, ExtSend, Resting, Driving, Blinking, vars
  <2> QED
    BY <2>2, <2>3 DEF Next
<1>3. CASE LoopStep \/ StateTimeout \/ ExtSend
  BY <1>1, <1>2, <1>3 DEF LoopStep, Dispatch, Move, EntryAtRest, EntryParked, EntryDrive,
                          EntryStandby, Publish, StateTimeout, ExtSend, OnlyLoop
<1>4. CASE Resting
  <2>1. ASSUME NEW t \in RestThreads, Rearm(t, "idle") PROVE Kept
    BY <2>1, GoingKeepsReleasing DEF Rearm, Clear, Stop, Cancel, Recheck, Arm, OnlyRest
  <2>2. ASSUME NEW step, Goto("ble", step) \/ Goto("settings", step), UNCHANGED arg PROVE Kept
    <3>1. "ble" \notin InputThreads /\ "settings" \notin InputThreads
      BY DEF InputThreads, DebounceThreads, ResyncThreads
    <3>2. ASSUME NEW t \in InputThreads PROVE at'[t] = at[t]
      <4>1. PICK u : u # t /\ at' = [at EXCEPT ![u] = step]
        BY <2>2, <3>1, <3>2 DEF Goto
      <4> QED
        BY <3>2, <4>1 DEF AtTypes, Threads
    <3> QED
      BY <2>2, <3>2 DEF Releasing
  <2>3. CASE BleChange \/ BleCheck \/ BleFlag \/ BleCount \/ SettingIdle
    BY <1>2, <2>2, <2>3 DEF BleChange, BleCheck, BleFlag, BleCount, SettingIdle, OnlyRest
  <2>4. CASE SettingGrace \/ TimerFires
    BY <1>1, <1>2, <2>4 DEF SettingGrace, TimerFires
  <2> QED
    BY <1>2, <1>4, <2>1, <2>3, <2>4 DEF Resting, RestHandler
<1>5. CASE Driving
  <2>1. CASE DeferralFires \/ SecondPasses \/ MonitorTick
    BY <1>1, <1>2, <2>1 DEF DeferralFires, SecondPasses, MonitorTick
  <2>2. ASSUME NEW t, KickBegin(t) PROVE Kept
    <3>1. CASE Return(t)
      BY <2>2, <3>1, GoingKeepsReleasing DEF KickBegin
    <3>2. CASE arg' = [arg EXCEPT ![t].seen = state] /\ Goto(t, ResetFirst("kickPublish"))
      <4>1. arg' = [arg EXCEPT ![t] = [arg[t] EXCEPT !.seen = state]]
        BY <3>2
      <4>2. arg[t].ch # "horn"
        BY <2>2 DEF KickBegin
      <4> QED
        BY <3>2, <4>1, <4>2, GoingKeepsReleasing
    <3> QED
      BY <2>2, <3>1, <3>2 DEF KickBegin
  <2>3. ASSUME NEW t, KickReset(t) PROVE Kept
    BY <2>3, GoingKeepsReleasing DEF KickReset, Rearm, Clear, Stop, Cancel, Recheck, Arm, OnlyRest
  <2>4. ASSUME NEW t, KickPublish(t) \/ KickSend(t) PROVE Kept
    BY <2>4, GoingKeepsReleasing DEF KickPublish, KickSend
  <2> QED
    BY <1>2, <1>5, <2>1, <2>2, <2>3, <2>4 DEF Driving, KickStep
<1>6. CASE Blinking
  <2>1. ASSUME NEW t, BlinkStep(t) PROVE Kept
    <3>1. CASE BlinkGate(t)
      <4>1. arg[t].ch # "horn"
        BY <3>1 DEF BlinkGate, Switches
      <4> QED
        BY <3>1, <4>1, GoingKeepsReleasing DEF BlinkGate
    <3>2. CASE Blink(t)
      BY <3>2, GoingKeepsReleasing DEF Blink
    <3> QED
      BY <2>1, <3>1, <3>2 DEF BlinkStep
  <2> QED
    BY <1>1, <1>2, <1>6, <2>1 DEF Blinking, BlinkRequest
<1>7. CASE UNCHANGED vars
  BY <1>1, <1>2, <1>7 DEF vars
<1> QED
  BY <1>3, <1>4, <1>5, <1>6, <1>7 DEF Next

(* The end of a press leaves a release that is to be told.                 *)
LEMMA ReturnKeepsReleasing ==
  ASSUME AtTypes, ArgTypes, Sounding, NEW t \in InputThreads, Return(t), arg[t].val,
         UNCHANGED <<reported, horn, blower, deaf>>
  PROVE  Sounding'
<1>1. at' = [at EXCEPT ![t] = at'[t]] /\ arg' = [arg EXCEPT ![t] = NoArg]
  BY DEF Return, AtTypes, Threads
<1>2. ASSUME NEW u \in InputThreads, at[u] \in {"call", "horn"}, arg[u].ch = "horn", ~arg[u].val
      PROVE  Releasing'
  <2>1. u # t
    BY <1>2
  <2>2. at'[u] = at[u] /\ arg'[u] = arg[u]
    BY <1>1, <2>1 DEF AtTypes, ArgTypes, Threads
  <2> QED
    BY <1>2, <2>2 DEF Releasing
<1> QED
  BY <1>2 DEF Sounding, Releasing

(* The horn's own steps.                                                   *)
LEMMA SoundingHonking ==
  ASSUME AtTypes, ArgTypes, InputsTypeOK, Sounding, Honking, "horn" \in Channels
  PROVE  Sounding'
<1> USE DEF Sounding, inputVars, cacheVars, threadVars
<1>1. CASE HornRequest
  BY <1>1 DEF HornRequest
<1>2. ASSUME NEW t \in InputThreads, HornGate(t) PROVE Sounding'
  <2>1. /\ at[t] = "call" /\ arg[t].ch = "horn" /\ UNCHANGED <<reported, horn, blower>>
    BY <1>2 DEF HornGate
  <2>2. CASE Goto(t, "horn") /\ UNCHANGED <<arg, deaf>>
    <3>1. Releasing => Releasing'
      BY <2>2 DEF Releasing, Goto, AtTypes, Threads
    <3> QED
      BY <2>1, <2>2, <3>1
  <2>3. CASE Return(t) /\ arg[t].val /\ UNCHANGED deaf
    BY <2>1, <2>3, ReturnKeepsReleasing
  <2>4. CASE deaf' = deaf \cup {"ignored"}
    BY <2>4
  <2> QED
    BY <1>2, <2>2, <2>3, <2>4 DEF HornGate
<1>3. ASSUME NEW t \in InputThreads, HornWrite(t) PROVE Sounding'
  <2>1. at[t] = "horn" /\ UNCHANGED reported /\ Return(t)
    BY <1>3 DEF HornWrite
  <2>2. CASE (horn' => arg[t].val) /\ deaf' = Outdated(t)
    <3>1. reported["horn"] \in BOOLEAN
      BY DEF InputsTypeOK
    <3> QED
      BY <2>1, <2>2, <3>1 DEF Outdated
  <2>3. CASE ~arg[t].val /\ deaf' = deaf \cup {"failed"}
    BY <2>3
  <2>4. CASE arg[t].val /\ UNCHANGED <<horn, blower, deaf>>
    BY <2>1, <2>4, ReturnKeepsReleasing
  <2> QED
    BY <1>3, <2>2, <2>3, <2>4 DEF HornWrite
<1> QED
  BY <1>1, <1>2, <1>3 DEF Honking, HornStep

(* A report: the button's level is told by a call, or was known.           *)
LEMMA SoundingDeliver ==
  ASSUME AtTypes, ArgTypes, InputsTypeOK, Sounding, UNCHANGED hornVars, "horn" \in Channels,
         NEW u \in InputThreads, at[u] \notin {"call", "horn"},
         NEW c \in Channels, NEW v \in BOOLEAN, Deliver(u, c, v) \/ DebounceInput(u, c, v)
  PROVE  Sounding'
<1>1. Releasing => Releasing'
  BY GoingKeepsReleasing DEF Deliver, DebounceInput
<1>2. CASE UNCHANGED reported
  BY <1>1, <1>2 DEF Sounding, hornVars
<1>3. CASE Deliver(u, c, v)
  <2>1. reported' = [reported EXCEPT ![c] = v]
    BY <1>3 DEF Deliver
  <2>2. CASE c # "horn"
    BY <1>1, <2>1, <2>2 DEF Sounding, hornVars, InputsTypeOK
  <2>3. CASE v
    BY <1>1, <2>1, <2>3 DEF Sounding, hornVars, InputsTypeOK
  <2>4. CASE c = "horn" /\ ~v /\ reported["horn"]
    <3>1. at' = [at EXCEPT ![u] = "call"]
          /\ arg' = [arg EXCEPT ![u] = [NoArg EXCEPT !.ch = c, !.val = v]]
      BY <1>3, <2>4 DEF Deliver, Goto
    <3>2. at'[u] = "call" /\ arg'[u].ch = "horn" /\ ~arg'[u].val
      BY <2>4, <3>1 DEF AtTypes, ArgTypes, Threads, NoArg
    <3> QED
      BY <3>2 DEF Releasing, Sounding
  <2>5. CASE c = "horn" /\ ~v /\ ~reported["horn"]
    BY <1>1, <2>1, <2>5 DEF Sounding, hornVars, InputsTypeOK
  <2> QED
    BY <2>2, <2>3, <2>4, <2>5
<1> QED
  BY <1>2, <1>3 DEF DebounceInput

(* The input layer.                                                        *)
LEMMA SoundingInputting ==
  ASSUME AtTypes, ArgTypes, EdgeTypes, InputsTypeOK, Sounding, Inputting, "horn" \in Channels
  PROVE  Sounding'
<1>1. UNCHANGED hornVars
  BY DEF Inputting, OthersOfInputs, signalVars
<1>2. ASSUME UNCHANGED reported, Releasing => Releasing' PROVE Sounding'
  BY <1>1, <1>2 DEF Sounding, hornVars
<1>3. ResyncThreads \subseteq InputThreads /\ DebounceThreads \subseteq InputThreads
  BY DEF InputThreads
<1>4. CASE World
  BY <1>2, <1>4 DEF World, Overflow, Suspend, Edge, cacheVars, threadVars, Releasing
<1>5. CASE TakeEvent
  <2>1. at["monitor"] = "idle" /\ "monitor" \in InputThreads
    BY <1>5, <1>3 DEF TakeEvent, ResyncThreads
  <2>2. CASE Goto("monitor", "snap") /\ UNCHANGED <<arg, cacheVars>>
    BY <1>2, <2>1, <2>2, GoingKeepsReleasing DEF cacheVars
  <2>3. CASE Head(events) # Dropped
    <3>1. Head(events).ch \in Channels /\ Head(events).val \in BOOLEAN
      <4>1. events # <<>>
        BY <1>5 DEF TakeEvent
      <4>2. Head(events) \in [ch : Channels, val : BOOLEAN] \cup {Dropped}
        BY <4>1, HeadTailProperties DEF EdgeTypes
      <4> QED
        BY <2>3, <4>2
    <3>2. PICK c \in Channels, v \in BOOLEAN : DebounceInput("monitor", c, v)
      BY <1>5, <2>3, <3>1 DEF TakeEvent
    <3> QED
      BY <1>1, <2>1, <3>2, SoundingDeliver
  <2> QED
    BY <1>5, <2>2, <2>3 DEF TakeEvent
<1>6. CASE PowerRunning
  BY <1>2, <1>6, GoingKeepsReleasing DEF PowerRunning, cacheVars
<1>7. ASSUME NEW t \in ResyncThreads, Resync(t) PROVE Sounding'
  <2>1. CASE ResyncRead(t) \/ ResyncFails(t) \/ ResyncCache(t)
    BY <1>2, <2>1, GoingKeepsReleasing DEF ResyncRead, ResyncFails, ResyncCache, cacheVars
  <2>2. CASE ResyncReport(t)
    <3>1. PICK c \in pend[t] : DebounceInput(t, c, snap[t][c])
      BY <2>2 DEF ResyncReport
    <3>2. PICK v \in BOOLEAN : v = snap[t][c]
      BY DEF InputsTypeOK
    <3>3. c \in Channels
      BY DEF InputsTypeOK
    <3>4. at[t] = "report"
      BY <2>2 DEF ResyncReport
    <3> QED
      BY <1>1, <1>3, <3>1, <3>2, <3>3, <3>4, SoundingDeliver
  <2> QED
    BY <1>7, <2>1, <2>2 DEF Resync
<1>8. ASSUME NEW c \in Debounced, Settle(c) PROVE Sounding'
  <2>1. PICK u \in DebounceThreads : at[u] = "idle" /\ Deliver(u, c, last[c])
    BY <1>8, SettleThread
  <2>2. PICK v \in BOOLEAN : v = last[c]
    BY ChannelsAreNamed DEF InputsTypeOK
  <2> QED
    BY <1>1, <1>3, <2>1, <2>2, ChannelsAreNamed, SoundingDeliver
<1> QED
  BY <1>4, <1>5, <1>6, <1>7, <1>8 DEF Inputting, InputStep

(* Sounding is inductive.                                                  *)
LEMMA SoundingStep ==
  ASSUME "horn" \in Channels
  PROVE  Types /\ Sounding /\ [Next]_vars => Sounding'
<1> SUFFICES ASSUME Types, Sounding, [Next]_vars PROVE Sounding'
  OBVIOUS
<1>1. AtTypes /\ ArgTypes /\ EdgeTypes /\ InputsTypeOK
  BY DEF Types
<1>2. CASE Inputting
  BY <1>1, <1>2, SoundingInputting
<1>3. CASE Honking
  BY <1>1, <1>3, SoundingHonking
<1>4. CASE ~Inputting /\ ~Honking
  BY <1>1, <1>4, OthersKeepReleasing DEF Sounding
<1> QED
  BY <1>2, <1>3, <1>4

(* The horn its button has started ends with it, except by the two ways    *)
(* HornEndsWithButton names: for any inputs, overflows and suspends.       *)
THEOREM HornIsReleased ==
  ASSUME "horn" \in Channels
  PROVE  Spec => []HornEndsWithButton
<1>1. Init => Sounding
  BY DEF Init, HornInit, Sounding
<1>2. Types /\ Told /\ Owes /\ Sounding => HornEndsWithButton
  <2> SUFFICES ASSUME Types, Told, Owes, Sounding, Settled, horn, blower = "button", sure["horn"],
                      deaf = {}
               PROVE  line["horn"]
    BY DEF HornEndsWithButton
  <2>1. InputsQuiet /\ \A t \in InputThreads : at[t] = "idle"
    BY DEF Settled, InputsQuiet
  <2>2. ~Releasing
    BY <2>1 DEF Releasing
  <2>3. reported["horn"] = line["horn"]
    BY <2>1, ToldWhenQuiet DEF QuietIsTold
  <2> QED
    BY <2>2, <2>3 DEF Sounding
<1> QED
  BY <1>1, <1>2, TypesInit, TypesStep, ToldInit, ToldStep, SoundingStep, PTL DEF Spec

-----------------------------------------------------------------------------
(* StandEndsDrive.  A stand that is down is on its way to the machine: in  *)
(* a callback, in the deferral, or in the queue.                           *)
TellingSteps ==
  {"call", "clear", "stop", "cancel", "recheck", "arm", "kickPublish", "kickSend"}

Telling ==
  \E t \in InputThreads : at[t] \in TellingSteps /\ arg[t].ch = "kickstand" /\ arg[t].val

Ending == \E i \in 1..Len(queue) : queue[i] = "KickstandDown"

Standing ==
  /\ (pc = "move" /\ target = "ReadyToDrive") => state \notin HopOnFamily
  /\ (reported["kickstand"] /\ Heading = "ReadyToDrive" /\ lost = {})
       => (Telling \/ deferral \/ Ending)

(* The stand's event leads out of drive mode, whatever the guards say.     *)
LEMMA StandLeavesDrive ==
  ASSUME NEW G
  PROVE  /\ Selected("ReadyToDrive", "KickstandDown", G) # {}
         /\ \A row \in Selected("ReadyToDrive", "KickstandDown", G) : row.to = "Parked"
<1> DEFINE r == Row("ReadyToDrive", "KickstandDown", 1, {}, "Parked", "none")
<1>1. r \in Table
  BY DEF Table, ReadyToDriveRows
<1>2. \A t \in Table : t.on = "KickstandDown" => t = r
  BY DEF Table, StandbyRows, AtRestRows, ParkedRows, HopOnRows, ReadyToDriveRows,
         ShuttingDownRows, WaitingSeatboxRows, HibernationRows, Row
<1>3. /\ r.from = "ReadyToDrive" /\ r.on = "KickstandDown" /\ r.guards = {} /\ r.to = "Parked"
      /\ r.rank = 1
  BY DEF Row
<1>4. Parent("ReadyToDrive") = "ReadyToDrive" /\ "KickstandDown" \notin Blocked("ReadyToDrive")
  BY DEF Parent, Blocked, AtRestLeaves, HibernationLeaves
<1> HIDE DEF r
<1>5. Candidates("ReadyToDrive", "KickstandDown", G) = {r}
  BY <1>1, <1>2, <1>3, <1>4 DEF Candidates, RowsFor
<1>6. ~Before(r, r, "ReadyToDrive")
  BY <1>3 DEF Before
<1>7. Selected("ReadyToDrive", "KickstandDown", G) = {r}
  BY <1>5, <1>6 DEF Selected
<1> QED
  BY <1>3, <1>7

(* A drive does not begin in hop-on, where the callback is deaf.           *)
LEMMA HopOnStartsNoDrive ==
  \A s, e, G : \A row \in Selected(s, e, G) : row.to = "ReadyToDrive" => s \notin HopOnFamily
<1>1. \A t \in Table : t.to = "ReadyToDrive" => t.from \notin HopOnFamily \cup {"AtRest"}
  BY DEF Table, StandbyRows, AtRestRows, ParkedRows, HopOnRows, ReadyToDriveRows,
         ShuttingDownRows, WaitingSeatboxRows, HibernationRows, Row, HopOnFamily
<1>2. \A s \in HopOnFamily : Parent(s) = "AtRest"
  BY DEF Parent, HopOnFamily, AtRestLeaves
<1> QED
  BY <1>1, <1>2, SelectedRows

(* An event sent is put behind the stand's.                                *)
LEMMA SendKeepsEnding ==
  ASSUME MachineTypes, NEW e \in Events, Send(e)
  PROVE  (Ending => Ending') /\ (e = "KickstandDown" => Ending')
<1>1. queue \in Seq(Events) /\ queue' = Append(queue, e)
  BY DEF MachineTypes, Send
<1>2. /\ Len(queue') = Len(queue) + 1 /\ queue'[Len(queue) + 1] = e
      /\ \A i \in 1..Len(queue) : queue'[i] = queue[i]
      /\ Len(queue) \in Nat
  BY <1>1
<1> QED
  BY <1>2 DEF Ending

(* A dispatch takes the head of the queue.                                 *)
LEMMA DispatchKeepsEnding ==
  ASSUME MachineTypes, Dispatch
  PROVE  Ending => Ending' \/ Head(queue) = "KickstandDown"
<1> SUFFICES ASSUME NEW i \in 1..Len(queue), queue[i] = "KickstandDown",
                    Head(queue) # "KickstandDown"
             PROVE  Ending'
  BY DEF Ending
<1>1. queue \in Seq(Events) /\ queue # <<>> /\ queue' = Tail(queue)
  BY DEF MachineTypes, Dispatch
<1>2. \E j \in 1..Len(Tail(queue)) : Tail(queue)[j] = queue[i]
  BY <1>1, TailHas
<1> QED
  BY <1>1, <1>2 DEF Ending

(* The loop: the stand's event ends the drive, and a drive that begins on  *)
(* a stand that is down begins with a guard that has read a bounce.        *)
LEMMA StandingLoop ==
  ASSUME MachineTypes, Standing, LoopStep
  PROVE  Standing'
<1> USE DEF Heading, OnlyLoop, inputVars, cacheVars, threadVars, driveVars
<1>1. Telling => Telling'
  BY DEF LoopStep, Dispatch, Move, EntryAtRest, EntryParked, EntryDrive, EntryStandby, Publish,
         Telling
<1>2. UNCHANGED <<reported, deferral>>
  BY DEF LoopStep, Dispatch, Move, EntryAtRest, EntryParked, EntryDrive, EnterDrive, EntryStandby,
         Publish
<1>3. CASE Dispatch
  <2>1. pc = "idle" /\ UNCHANGED state
    BY <1>3 DEF Dispatch
  <2>2. PICK G : LET rows == Selected(state, Head(queue), G) IN
                 \/ rows = {} /\ UNCHANGED <<pc, target, lost>>
                 \/ \E row \in rows :
                      /\ pc' = "move" /\ target' = row.to
                      /\ lost' = IF row.to = "ReadyToDrive" /\ reported["kickstand"]
                                 THEN lost \cup {"bounce"} ELSE lost
    BY <1>3 DEF Dispatch
  <2>3. CASE Selected(state, Head(queue), G) = {} /\ UNCHANGED <<pc, target, lost>>
    <3>1. state = "ReadyToDrive" => Head(queue) # "KickstandDown"
      BY <2>3, StandLeavesDrive
    <3> QED
      BY <1>1, <1>2, <1>3, <2>1, <2>3, <3>1, DispatchKeepsEnding DEF Standing
  <2>4. ASSUME NEW row \in Selected(state, Head(queue), G), pc' = "move", target' = row.to,
               lost' = IF row.to = "ReadyToDrive" /\ reported["kickstand"]
                       THEN lost \cup {"bounce"} ELSE lost
        PROVE  Standing'
    BY <1>2, <2>1, <2>4, HopOnStartsNoDrive DEF Standing
  <2> QED
    BY <2>2, <2>3, <2>4
<1>4. CASE Move
  <2>1. Heading' = Heading /\ pc' # "move" /\ UNCHANGED <<queue, lost>>
    BY <1>4, EntryPlaces DEF Move
  <2>2. Ending => Ending'
    BY <2>1 DEF Ending
  <2> QED
    BY <1>1, <1>2, <2>1, <2>2 DEF Standing
<1>5. CASE EntryAtRest \/ EntryParked \/ EntryDrive \/ EntryStandby \/ Publish
  <2>1. /\ pc # "move" /\ pc' # "move" /\ UNCHANGED <<state, lost>>
        /\ UNCHANGED queue \/ Send("DashboardNotReady")
    BY <1>5 DEF EntryAtRest, EntryParked, EntryDrive, EnterDrive, EntryStandby, Publish, Entry
  <2>2. Ending => Ending'
    BY <2>1, SendKeepsEnding, OwnEvents DEF Ending
  <2> QED
    BY <1>1, <1>2, <2>1, <2>2 DEF Standing
<1> QED
  BY <1>3, <1>4, <1>5 DEF LoopStep

(* What leaves the callbacks, the drive and the machine's place alone.     *)
LEMMA StandingKept ==
  ASSUME MachineTypes, Standing, Telling => Telling',
         UNCHANGED <<state, pc, target, lost, deferral, reported>>,
         queue' = queue \/ \E e \in Events : Send(e)
  PROVE  Standing'
<1>1. Ending => Ending'
  BY SendKeepsEnding DEF Ending
<1> QED
  BY <1>1 DEF Standing, Heading

-----------------------------------------------------------------------------
(* A goroutine that is not in the callback of a stand that is down leaves  *)
(* the one that is alone.                                                  *)
LEMMA ElsewhereKeepsTelling ==
  ASSUME AtTypes, ArgTypes,
         NEW u, at[u] \notin TellingSteps \/ arg[u].ch # "kickstand" \/ ~arg[u].val,
         NEW step, at' = [at EXCEPT ![u] = step],
         NEW a, arg' = arg \/ arg' = [arg EXCEPT ![u] = a]
  PROVE  Telling => Telling'
<1> SUFFICES ASSUME NEW t \in InputThreads, at[t] \in TellingSteps, arg[t].ch = "kickstand",
                    arg[t].val
             PROVE  Telling'
  BY DEF Telling
<1>1. t # u /\ t \in Threads
  BY DEF Threads
<1>2. at'[t] = at[t] /\ arg'[t] = arg[t]
  BY <1>1 DEF AtTypes, ArgTypes
<1> QED
  BY <1>2 DEF Telling

(* The forms such a step has.                                              *)
LEMMA GoingKeepsTelling ==
  ASSUME AtTypes, ArgTypes,
         NEW u, at[u] \notin TellingSteps \/ arg[u].ch # "kickstand" \/ ~arg[u].val,
         \/ Return(u)
         \/ \E step : Goto(u, step) /\ (UNCHANGED arg \/ \E a : arg' = [arg EXCEPT ![u] = a])
  PROVE  Telling => Telling'
<1>1. \E step : at' = [at EXCEPT ![u] = step]
  BY DEF Return, Goto
<1>2. arg' = arg \/ \E a : arg' = [arg EXCEPT ![u] = a]
  BY DEF Return
<1> QED
  BY <1>1, <1>2, ElsewhereKeepsTelling

(* The watchers run no callbacks.                                          *)
LEMMA WatchersKeepTelling ==
  ASSUME AtTypes, NEW u \in RestThreads, NEW step, Goto(u, step), UNCHANGED arg
  PROVE  Telling => Telling'
<1>1. u \notin InputThreads
  BY DEF RestThreads, InputThreads, DebounceThreads, ResyncThreads
<1>2. \A t \in InputThreads : at'[t] = at[t]
  BY <1>1 DEF Goto, AtTypes, Threads
<1> QED
  BY <1>2 DEF Telling

(* What the parts do that have nothing to do with the stand.               *)
LEMMA StandingOthers ==
  ASSUME MachineTypes, AtTypes, ArgTypes, BlinkArgs, Standing,
         StateTimeout \/ ExtSend \/ Resting \/ Blinking \/ Honking \/ UNCHANGED vars
  PROVE  Standing'
<1> DEFINE Kept == (Telling => Telling')
<1> USE DEF threadVars, inputVars, cacheVars, driveVars
<1>1. ASSUME UNCHANGED threadVars PROVE Kept
  BY <1>1 DEF Telling
<1>2. ASSUME Kept, UNCHANGED <<lost, deferral, reported, state, pc, target>>,
             queue' = queue \/ \E e \in Events : Send(e)
      PROVE  Standing'
  BY <1>2, StandingKept
<1>3. CASE StateTimeout \/ ExtSend
  BY <1>1, <1>2, <1>3, TimeoutsAreEvents, LoopAssumption DEF StateTimeout, ExtSend, OnlyLoop
<1>4. CASE Resting
  <2>1. UNCHANGED <<lost, deferral, reported>>
    BY <1>4 DEF Resting
  <2>2. Kept
    <3>1. ASSUME NEW t \in RestThreads, Rearm(t, "idle") PROVE Kept
      BY <3>1, WatchersKeepTelling DEF Rearm, Clear, Stop, Cancel, Recheck, Arm, OnlyRest
    <3>2. CASE BleChange \/ BleCheck \/ BleFlag \/ BleCount \/ SettingIdle
      <4>1. UNCHANGED arg
        BY <3>2 DEF BleChange, BleCheck, BleFlag, BleCount, SettingIdle, OnlyRest
      <4>2. \E u \in RestThreads : \E step : Goto(u, step)
        BY <3>2 DEF BleChange, BleCheck, BleFlag, BleCount, SettingIdle, RestThreads
      <4> QED
        BY <4>1, <4>2, WatchersKeepTelling
    <3>3. CASE SettingGrace \/ TimerFires
      BY <1>1, <3>3 DEF SettingGrace, TimerFires
    <3> QED
      BY <1>4, <3>1, <3>2, <3>3 DEF Resting, RestHandler
  <2>3. UNCHANGED <<state, pc, target>> /\ (queue' = queue \/ \E e \in Events : Send(e))
    <3>1. CASE TimerFires
      BY <3>1, OwnEvents DEF TimerFires
    <3>2. CASE RestHandler
      BY <3>2 DEF RestHandler, BleChange, BleCheck, BleFlag, BleCount, SettingIdle, SettingGrace, Rearm, Clear, Stop, Cancel,
                  Recheck, Arm, OnlyRest, machineVars
    <3> QED
      BY <1>4, <3>1, <3>2 DEF Resting
  <2> QED
    BY <1>2, <2>1, <2>2, <2>3
<1>5. CASE Blinking
  <2>1. UNCHANGED <<lost, deferral, reported, machineVars>>
    BY <1>5 DEF Blinking, BlinkRequest, BlinkStep, BlinkGate, Blink
  <2>2. ASSUME NEW t, BlinkGate(t) PROVE Kept
    <3>1. arg[t].ch # "kickstand"
      BY <2>2 DEF BlinkGate, Switches
    <3> QED
      BY <2>2, <3>1, GoingKeepsTelling DEF BlinkGate
  <2>3. ASSUME NEW t, Blink(t) PROVE Kept
    BY <2>3, GoingKeepsTelling DEF Blink, TellingSteps
  <2>4. Kept
    BY <1>1, <1>5, <2>2, <2>3 DEF Blinking, BlinkRequest, BlinkStep
  <2> QED
    BY <1>2, <2>1, <2>4 DEF machineVars
<1>6. CASE Honking
  <2>1. UNCHANGED <<lost, deferral, reported, machineVars>>
    BY <1>6 DEF Honking, HornRequest, HornStep, HornGate, HornWrite
  <2>2. ASSUME NEW t, HornGate(t) PROVE Kept
    BY <2>2, GoingKeepsTelling DEF HornGate
  <2>3. ASSUME NEW t, HornWrite(t) PROVE Kept
    BY <2>3, GoingKeepsTelling DEF HornWrite, TellingSteps
  <2>4. Kept
    BY <1>1, <1>6, <2>2, <2>3 DEF Honking, HornRequest, HornStep
  <2> QED
    BY <1>2, <2>1, <2>4 DEF machineVars
<1>7. CASE UNCHANGED vars
  BY <1>1, <1>2, <1>7 DEF vars, machineVars
<1> QED
  BY <1>3, <1>4, <1>5, <1>6, <1>7

-----------------------------------------------------------------------------
(* A callback of the stand that goes on has still to tell it.              *)
LEMMA CallTells ==
  ASSUME AtTypes, ArgTypes, NEW t \in InputThreads, NEW step \in TellingSteps, Goto(t, step),
         \/ UNCHANGED arg
         \/ arg' = [arg EXCEPT ![t].seen = state],
         arg[t].ch = "kickstand", arg[t].val
  PROVE  Telling'
<1>1. at'[t] = step /\ arg'[t].ch = "kickstand" /\ arg'[t].val
  BY DEF Goto, AtTypes, ArgTypes, Args, Threads
<1> QED
  BY <1>1 DEF Telling

(* The callback, the deferral and the monitor.                             *)
LEMMA StandingDriving ==
  ASSUME MachineTypes, AtTypes, ArgTypes, InputsTypeOK, Standing, Driving
  PROVE  Standing'
<1> DEFINE Kept == (Telling => Telling')
<1> USE OwnEvents DEF threadVars, inputVars, cacheVars, machineVars
<1>1. CASE DeferralFires
  <2>1. /\ UNCHANGED <<state, pc, target, threadVars, reported>>
        /\ \/ Send("KickstandDown") /\ UNCHANGED lost
           \/ reported["kickstand"] /\ lost' = lost \cup {"bounce"} /\ UNCHANGED queue
           \/ ~reported["kickstand"] /\ UNCHANGED <<queue, lost>>
    BY <1>1 DEF DeferralFires
  <2>2. Send("KickstandDown") => Ending'
    BY SendKeepsEnding
  <2> QED
    BY <2>1, <2>2 DEF Standing, Heading
<1>2. CASE SecondPasses \/ MonitorTick
  <2>1. Kept
    BY <1>2 DEF SecondPasses, MonitorTick, Telling
  <2> QED
    BY <1>2, <2>1, StandingKept DEF SecondPasses, MonitorTick
<1>3. ASSUME NEW t \in InputThreads, KickBegin(t) PROVE Standing'
  <2>1. /\ at[t] = "call" /\ arg[t].ch = "kickstand"
        /\ UNCHANGED <<state, pc, target, queue, deferral, reported>>
    BY <1>3 DEF KickBegin
  <2>2. CASE state \in HopOnFamily
    <3>1. Heading # "ReadyToDrive"
      BY <2>2 DEF Standing, Heading, HopOnFamily
    <3> QED
      BY <2>1, <2>2, <3>1 DEF Standing, Heading
  <2>3. CASE state \notin HopOnFamily
    <3>1. /\ arg' = [arg EXCEPT ![t].seen = state] /\ Goto(t, ResetFirst("kickPublish"))
          /\ lost' = IF arg[t].val THEN {} ELSE lost
      BY <1>3, <2>3 DEF KickBegin
    <3>2. ResetFirst("kickPublish") \in TellingSteps
      BY DEF ResetFirst, TellingSteps
    <3>3. CASE arg[t].val
      BY <2>1, <3>1, <3>2, <3>3, CallTells DEF Standing, Heading
    <3>4. CASE ~arg[t].val
      <4>1. arg' = [arg EXCEPT ![t] = [arg[t] EXCEPT !.seen = state]]
        BY <3>1
      <4>2. Kept
        BY <3>1, <3>4, <4>1, GoingKeepsTelling
      <4> QED
        BY <2>1, <3>1, <3>4, <4>2, StandingKept
    <3> QED
      BY <3>3, <3>4
  <2> QED
    BY <2>2, <2>3
<1>4. ASSUME NEW t \in InputThreads, KickReset(t) PROVE Standing'
  <2>1. PICK step \in TellingSteps : Goto(t, step) /\ UNCHANGED arg
    BY <1>4 DEF KickReset, Rearm, Clear, Stop, Cancel, Recheck, Arm, OnlyRest, TellingSteps
  <2>2. Kept
    <3>1. CASE arg[t].ch = "kickstand" /\ arg[t].val
      BY <2>1, <3>1, CallTells
    <3>2. CASE arg[t].ch # "kickstand" \/ ~arg[t].val
      BY <2>1, <3>2, GoingKeepsTelling
    <3> QED
      BY <3>1, <3>2
  <2>3. UNCHANGED <<machineVars, reported, lost, deferral>>
    BY <1>4 DEF KickReset, Rearm, Clear, Stop, Cancel, Recheck, Arm, OnlyRest, driveVars
  <2> QED
    BY <2>2, <2>3, StandingKept
<1>5. ASSUME NEW t \in InputThreads, KickPublish(t) PROVE Standing'
  <2>1. UNCHANGED <<machineVars, reported, deferral>>
    BY <1>5 DEF KickPublish
  <2>2. CASE Goto(t, "kickSend") /\ UNCHANGED <<arg, lost>>
    <3>1. CASE arg[t].ch = "kickstand" /\ arg[t].val
      <4>1. Telling'
        BY <2>2, <3>1, CallTells DEF TellingSteps
      <4> QED
        BY <2>1, <2>2, <4>1, StandingKept
    <3>2. CASE arg[t].ch # "kickstand" \/ ~arg[t].val
      BY <2>1, <2>2, <3>2, GoingKeepsTelling, StandingKept
    <3> QED
      BY <3>1, <3>2
  <2>3. CASE Return(t) /\ arg[t].val /\ lost' = lost \cup {"publish"}
    BY <2>1, <2>3 DEF Standing, Heading
  <2>4. CASE Return(t) /\ ~arg[t].val /\ UNCHANGED lost
    BY <2>1, <2>4, GoingKeepsTelling, StandingKept
  <2> QED
    BY <1>5, <2>2, <2>3, <2>4 DEF KickPublish
<1>6. ASSUME NEW t \in InputThreads, KickSend(t) PROVE Standing'
  <2>1. UNCHANGED <<state, pc, target, reported>> /\ Return(t)
    BY <1>6 DEF KickSend
  <2>2. CASE arg[t].val
    <3>1. UNCHANGED lost /\ (deferral' \/ Send("KickstandDown"))
      BY <1>6, <2>2 DEF KickSend
    <3>2. deferral' \/ Ending'
      BY <3>1, SendKeepsEnding
    <3> QED
      BY <2>1, <3>1, <3>2 DEF Standing, Heading
  <2>3. CASE ~arg[t].val
    <3>1. /\ Send("KickstandUp")
          /\ lost' = IF deferral /\ reported["kickstand"] THEN lost \cup {"stopped"} ELSE lost
      BY <1>6, <2>3 DEF KickSend
    <3>2. Kept
      BY <2>1, <2>3, GoingKeepsTelling
    <3>3. Ending => Ending'
      BY <3>1, SendKeepsEnding
    <3> QED
      BY <2>1, <3>1, <3>2, <3>3 DEF Standing, Heading
  <2> QED
    BY <2>2, <2>3
<1> QED
  BY <1>1, <1>2, <1>3, <1>4, <1>5, <1>6 DEF Driving, KickStep

-----------------------------------------------------------------------------
(* A report of the stand is told by a call, or was known.                  *)
LEMMA StandingDeliver ==
  ASSUME MachineTypes, AtTypes, ArgTypes, InputsTypeOK, Standing, OthersOfInputs,
         "kickstand" \in Channels, NEW u \in InputThreads, at[u] \notin TellingSteps,
         NEW c \in Channels, NEW v \in BOOLEAN, Deliver(u, c, v) \/ DebounceInput(u, c, v)
  PROVE  Standing'
<1>1. Telling => Telling'
  BY GoingKeepsTelling DEF Deliver, DebounceInput
<1>2. UNCHANGED <<state, pc, target, queue, lost, deferral>>
  BY DEF OthersOfInputs, machineVars, driveVars
<1>3. CASE reported'["kickstand"] => reported["kickstand"]
  BY <1>1, <1>2, <1>3 DEF Standing, Heading, Ending
<1>4. CASE Deliver(u, c, v) /\ c = "kickstand" /\ v /\ ~reported["kickstand"]
  <2>1. at' = [at EXCEPT ![u] = "call"]
        /\ arg' = [arg EXCEPT ![u] = [NoArg EXCEPT !.ch = c, !.val = v]]
    BY <1>4 DEF Deliver, Goto
  <2>2. at'[u] = "call" /\ arg'[u].ch = "kickstand" /\ arg'[u].val
    BY <1>4, <2>1 DEF AtTypes, ArgTypes, Threads, NoArg
  <2>3. Telling'
    BY <2>2 DEF Telling, TellingSteps
  <2> QED
    BY <1>2, <2>3 DEF Standing, Heading
<1>5. CASE Deliver(u, c, v) /\ (c # "kickstand" \/ ~v)
  BY <1>3, <1>5 DEF Deliver, InputsTypeOK
<1>6. CASE UNCHANGED reported
  BY <1>3, <1>6
<1> QED
  BY <1>3, <1>4, <1>5, <1>6 DEF DebounceInput

(* The input layer.                                                        *)
LEMMA StandingInputting ==
  ASSUME MachineTypes, AtTypes, ArgTypes, EdgeTypes, InputsTypeOK, Standing, Inputting,
         "kickstand" \in Channels
  PROVE  Standing'
<1>1. OthersOfInputs
  BY DEF Inputting
<1>2. ASSUME UNCHANGED reported, Telling => Telling' PROVE Standing'
  BY <1>1, <1>2, StandingKept DEF OthersOfInputs, machineVars, driveVars
<1>3. ResyncThreads \subseteq InputThreads /\ DebounceThreads \subseteq InputThreads
  BY DEF InputThreads
<1>4. \A t : at[t] \in {"idle", "snap", "cache", "report"} => at[t] \notin TellingSteps
  BY DEF TellingSteps
<1>5. CASE World
  BY <1>2, <1>5 DEF World, Overflow, Suspend, Edge, cacheVars, threadVars, Telling
<1>6. CASE TakeEvent
  <2>1. at["monitor"] = "idle" /\ "monitor" \in InputThreads
    BY <1>6, <1>3 DEF TakeEvent, ResyncThreads
  <2>2. CASE Goto("monitor", "snap") /\ UNCHANGED <<arg, cacheVars>>
    BY <1>2, <1>4, <2>1, <2>2, GoingKeepsTelling DEF cacheVars
  <2>3. CASE Head(events) # Dropped
    <3>1. Head(events).ch \in Channels /\ Head(events).val \in BOOLEAN
      <4>1. events # <<>>
        BY <1>6 DEF TakeEvent
      <4>2. Head(events) \in [ch : Channels, val : BOOLEAN] \cup {Dropped}
        BY <4>1, HeadTailProperties DEF EdgeTypes
      <4> QED
        BY <2>3, <4>2
    <3>2. PICK c \in Channels, v \in BOOLEAN : DebounceInput("monitor", c, v)
      BY <1>6, <2>3, <3>1 DEF TakeEvent
    <3> QED
      BY <1>1, <1>4, <2>1, <3>2, StandingDeliver
  <2> QED
    BY <1>6, <2>2, <2>3 DEF TakeEvent
<1>7. CASE PowerRunning
  BY <1>2, <1>4, <1>7, GoingKeepsTelling DEF PowerRunning, cacheVars
<1>8. ASSUME NEW t \in ResyncThreads, Resync(t) PROVE Standing'
  <2>1. CASE ResyncRead(t) \/ ResyncFails(t) \/ ResyncCache(t)
    BY <1>2, <1>4, <2>1, GoingKeepsTelling DEF ResyncRead, ResyncFails, ResyncCache, cacheVars
  <2>2. CASE ResyncReport(t)
    <3>1. PICK c \in pend[t] : DebounceInput(t, c, snap[t][c])
      BY <2>2 DEF ResyncReport
    <3>2. PICK v \in BOOLEAN : v = snap[t][c]
      BY DEF InputsTypeOK
    <3>3. c \in Channels
      BY DEF InputsTypeOK
    <3>4. at[t] = "report"
      BY <2>2 DEF ResyncReport
    <3> QED
      BY <1>1, <1>3, <1>4, <3>1, <3>2, <3>3, <3>4, StandingDeliver
  <2> QED
    BY <1>8, <2>1, <2>2 DEF Resync
<1>9. ASSUME NEW c \in Debounced, Settle(c) PROVE Standing'
  <2>1. PICK u \in DebounceThreads : at[u] = "idle" /\ Deliver(u, c, last[c])
    BY <1>9, SettleThread
  <2>2. PICK v \in BOOLEAN : v = last[c]
    BY ChannelsAreNamed DEF InputsTypeOK
  <2> QED
    BY <1>1, <1>3, <1>4, <2>1, <2>2, ChannelsAreNamed, StandingDeliver
<1> QED
  BY <1>5, <1>6, <1>7, <1>8, <1>9 DEF Inputting, InputStep

(* Standing is inductive.                                                  *)
LEMMA StandingStep ==
  ASSUME "kickstand" \in Channels
  PROVE  Types /\ Standing /\ [Next]_vars => Standing'
<1> SUFFICES ASSUME Types, Standing, [Next]_vars PROVE Standing'
  OBVIOUS
<1>1. MachineTypes /\ AtTypes /\ ArgTypes /\ BlinkArgs /\ EdgeTypes /\ InputsTypeOK
  BY DEF Types
<1>2. CASE Inputting
  BY <1>1, <1>2, StandingInputting
<1>3. CASE LoopStep
  BY <1>1, <1>3, StandingLoop
<1>4. CASE Driving
  BY <1>1, <1>4, StandingDriving
<1>5. CASE StateTimeout \/ ExtSend \/ Resting \/ Blinking \/ Honking \/ UNCHANGED vars
  BY <1>1, <1>5, StandingOthers
<1> QED
  BY <1>2, <1>3, <1>4, <1>5 DEF Next

(* A vehicle does not stay in drive mode on its kickstand, except by the   *)
(* ways StandEndsDrive names: for any inputs and any interleaving of the   *)
(* callbacks, the deferral's timer and the event loop.                     *)
THEOREM StandLeavesNoDrive ==
  ASSUME "kickstand" \in Channels
  PROVE  Spec => []StandEndsDrive
<1>1. Init => Standing
  <2> SUFFICES ASSUME Init PROVE Standing
    OBVIOUS
  <2>1. /\ pc = "idle"
        /\ lost = IF state = "ReadyToDrive" /\ reported["kickstand"] THEN {"restart"} ELSE {}
    BY DEF Init, DriveInit
  <2> QED
    BY <2>1 DEF Standing, Heading
<1>2. Standing => StandEndsDrive
  <2> SUFFICES ASSUME Standing, Settled, state = "ReadyToDrive", reported["kickstand"], lost = {}
               PROVE  FALSE
    BY DEF StandEndsDrive
  <2>1. ~Telling
    BY DEF Telling, TellingSteps, Settled, Threads
  <2>2. ~Ending
    BY DEF Ending, Settled
  <2> QED
    BY <2>1, <2>2 DEF Standing, Heading, Settled
<1> QED
  BY <1>1, <1>2, TypesInit, TypesStep, StandingStep, PTL DEF Spec

-----------------------------------------------------------------------------
(* BlinkersFollowSwitches.  A switch has something to say, or the machine  *)
(* is on its way from stand-by to the restore.                             *)
Switching ==
  \E t \in InputThreads : at[t] \in {"call", "blink"} /\ arg[t].ch \in Switches

Restoring ==
  state = "Standby" \/ (state = "Parked" /\ from = "Standby" /\ pc \in {"atRest", "parked"})

Following ==
  /\ pc = "dark" => state = "Standby"
  /\ (by = "switch" /\ missed \subseteq {"late"})
       => \/ lamp = { c \in Switches : reported[c] }
          \/ Switching
          \/ Restoring /\ lamp = {}

(* The loop: what is switched off in stand-by is restored or on record.    *)
LEMMA FollowingLoop ==
  ASSUME BlinkTypeOK, InputsTypeOK, Following, LoopStep
  PROVE  Following'
<1> USE DEF OnlyLoop, inputVars, cacheVars, threadVars, signalVars, blinkVars
<1>1. UNCHANGED <<at, arg, reported, active>>
  BY DEF LoopStep, Dispatch, Move, EntryAtRest, EntryParked, EntryDrive, EntryStandby, Publish
<1>2. Switching => Switching'
  BY <1>1 DEF Switching
<1>3. { c \in Switches : reported[c] }' = { c \in Switches : reported[c] }
  BY <1>1
<1>4. CASE Dispatch
  BY <1>2, <1>3, <1>4 DEF Dispatch, Following, Restoring
<1>5. CASE Move
  <2>1. /\ state' = target /\ from' = state /\ pc = "move" /\ UNCHANGED <<lamp, by>>
        /\ missed' = IF state = "Standby" /\ target # "Parked"
                     THEN missed \cup {"unlit"} ELSE missed
        /\ pc' = EntryOf(target, state)
    BY <1>5 DEF Move, BlinkersPass
  <2>2. EntryOf("Parked", "Standby") = "atRest"
    BY DEF EntryOf, AtRestLeaves
  <2> QED
    BY <1>2, <1>3, <2>1, <2>2, EntryPlaces DEF Following, Restoring, EntryOf
<1>6. CASE EntryAtRest \/ EntryDrive \/ Publish
  <2>1. UNCHANGED <<state, lamp, by, missed>> /\ pc' # "dark"
    BY <1>6 DEF EntryAtRest, EntryDrive, Publish, Entry
  <2>2. Restoring => Restoring'
    BY <1>6 DEF EntryAtRest, EntryDrive, Publish, Entry, Restoring
  <2> QED
    BY <1>2, <1>3, <2>1, <2>2 DEF Following
<1>7. CASE EntryStandby
  <2>1. UNCHANGED state /\ pc = "dark" /\ pc' = "publish" /\ lamp' = {}
    BY <1>7 DEF EntryStandby, Entry, BlinkersOff
  <2> QED
    BY <2>1 DEF Following, Restoring
<1>8. CASE EntryParked
  <2>1. BlinkersRestore /\ pc' = "publish"
    BY <1>8 DEF EntryParked, Entry
  <2>2. CASE Stale = {"overtaken"}
    <3>1. "overtaken" \in missed' \/ "failed" \in missed'
      BY <2>1, <2>2 DEF BlinkersRestore, NoWorker
    <3> QED
      BY <2>1, <3>1 DEF Following
  <2>3. CASE \A c \in Switches : active[c] = reported[c]
    <3>1. CASE \E c \in Switches : active[c]
      <4>1. lamp' = { c \in Switches : active[c] } \/ "failed" \in missed'
        BY <2>1, <3>1 DEF BlinkersRestore, NoWorker
      <4>2. { c \in Switches : active[c] } = { c \in Switches : reported[c] }
        BY <2>3
      <4> QED
        BY <1>3, <2>1, <4>1, <4>2 DEF Following
    <3>2. CASE ~\E c \in Switches : active[c]
      <4>1. { c \in Switches : reported[c] } = {}
        BY <2>3, <3>2
      <4>2. UNCHANGED <<lamp, by>> /\ (lamp # {} => missed' = missed \cup Stale)
        BY <2>1, <3>2 DEF BlinkersRestore
      <4>3. CASE lamp = {}
        BY <1>3, <2>1, <4>1, <4>2, <4>3 DEF Following
      <4>4. CASE lamp # {}
        BY <1>2, <1>3, <2>1, <4>2, <4>4 DEF Following
      <4> QED
        BY <4>3, <4>4
    <3> QED
      BY <3>1, <3>2
  <2> QED
    BY <2>2, <2>3 DEF Stale
<1> QED
  BY <1>4, <1>5, <1>6, <1>7, <1>8 DEF LoopStep

(* A goroutine that is not at a switch leaves the one that is alone.       *)
LEMMA GoingKeepsSwitching ==
  ASSUME AtTypes, ArgTypes,
         NEW u, at[u] \notin {"call", "blink"} \/ arg[u].ch \notin Switches,
         \/ Return(u)
         \/ \E step : Goto(u, step) /\ (UNCHANGED arg \/ \E a : arg' = [arg EXCEPT ![u] = a])
  PROVE  Switching => Switching'
<1> SUFFICES ASSUME NEW t \in InputThreads, at[t] \in {"call", "blink"}, arg[t].ch \in Switches
             PROVE  Switching'
  BY DEF Switching
<1>1. t # u /\ t \in Threads
  BY DEF Threads
<1>2. at'[t] = at[t]
  <2>1. \E step : at' = [at EXCEPT ![u] = step]
    BY DEF Return, Goto
  <2> QED
    BY <1>1, <2>1 DEF AtTypes
<1>3. arg'[t] = arg[t]
  <2>1. arg' = arg \/ \E a : arg' = [arg EXCEPT ![u] = a]
    BY DEF Return
  <2> QED
    BY <1>1, <2>1 DEF ArgTypes
<1> QED
  BY <1>2, <1>3 DEF Switching

(* The watchers run no callbacks.                                          *)
LEMMA WatchersKeepSwitching ==
  ASSUME AtTypes, NEW u \in RestThreads, NEW step, Goto(u, step), UNCHANGED arg
  PROVE  Switching => Switching'
<1>1. u \notin InputThreads
  BY DEF RestThreads, InputThreads, DebounceThreads, ResyncThreads
<1>2. \A t \in InputThreads : at'[t] = at[t]
  BY <1>1 DEF Goto, AtTypes, Threads
<1> QED
  BY <1>2 DEF Switching

(* What the parts do that have nothing to do with the switches.            *)
LEMMA OthersKeepSwitching ==
  ASSUME AtTypes, ArgTypes,
         StateTimeout \/ ExtSend \/ Resting \/ Driving \/ Honking \/ UNCHANGED vars
  PROVE  Switching => Switching'
<1> DEFINE Kept == (Switching => Switching')
<1> USE DEF threadVars
<1>1. ASSUME UNCHANGED threadVars PROVE Kept
  BY <1>1 DEF Switching
<1>2. CASE StateTimeout \/ ExtSend \/ UNCHANGED vars
  BY <1>1, <1>2 DEF StateTimeout, ExtSend, OnlyLoop, vars
<1>3. CASE Resting
  <2>1. ASSUME NEW t \in RestThreads, Rearm(t, "idle") PROVE Kept
    BY <2>1, WatchersKeepSwitching DEF Rearm, Clear, Stop, Cancel, Recheck, Arm, OnlyRest
  <2>2. CASE BleChange \/ BleCheck \/ BleFlag \/ BleCount \/ SettingIdle
    <3>1. UNCHANGED arg
      BY <2>2 DEF BleChange, BleCheck, BleFlag, BleCount, SettingIdle, OnlyRest
    <3>2. \E u \in RestThreads : \E step : Goto(u, step)
      BY <2>2 DEF BleChange, BleCheck, BleFlag, BleCount, SettingIdle, RestThreads
    <3> QED
      BY <3>1, <3>2, WatchersKeepSwitching
  <2>3. CASE SettingGrace \/ TimerFires
    BY <1>1, <2>3 DEF SettingGrace, TimerFires
  <2> QED
    BY <1>3, <2>1, <2>2, <2>3 DEF Resting, RestHandler
<1>4. CASE Driving
  <2>1. CASE DeferralFires \/ SecondPasses \/ MonitorTick
    BY <1>1, <2>1 DEF DeferralFires, SecondPasses, MonitorTick
  <2>2. ASSUME NEW t, KickBegin(t) PROVE Kept
    <3>1. arg[t].ch \notin Switches
      BY <2>2 DEF KickBegin, Switches
    <3>2. CASE Return(t)
      BY <3>1, <3>2, GoingKeepsSwitching
    <3>3. CASE arg' = [arg EXCEPT ![t].seen = state] /\ Goto(t, ResetFirst("kickPublish"))
      <4>1. arg' = [arg EXCEPT ![t] = [arg[t] EXCEPT !.seen = state]]
        BY <3>3
      <4> QED
        BY <3>1, <3>3, <4>1, GoingKeepsSwitching
    <3> QED
      BY <2>2, <3>2, <3>3 DEF KickBegin
  <2>3. ASSUME NEW t, KickReset(t) \/ KickPublish(t) \/ KickSend(t) PROVE Kept
    BY <2>3, GoingKeepsSwitching DEF KickReset, Rearm, Clear, Stop, Cancel, Recheck, Arm, OnlyRest, KickPublish, KickSend
  <2> QED
    BY <1>4, <2>1, <2>2, <2>3 DEF Driving, KickStep
<1>5. CASE Honking
  <2>1. ASSUME NEW t, HornGate(t) \/ HornWrite(t) PROVE Kept
    <3>1. at[t] # "blink" /\ (at[t] = "call" => arg[t].ch \notin Switches)
      BY <2>1 DEF HornGate, HornWrite, Switches
    <3> QED
      BY <2>1, <3>1, GoingKeepsSwitching DEF HornGate, HornWrite
  <2> QED
    BY <1>1, <1>5, <2>1 DEF Honking, HornRequest, HornStep
<1> QED
  BY <1>2, <1>3, <1>4, <1>5

(* A switch that acts sets the lamps to what the handlers were told, or    *)
(* has been overtaken; one that is not let through is on record.           *)
LEMMA FollowingBlinking ==
  ASSUME AtTypes, ArgTypes, BlinkArgs, InputsTypeOK, Following, Blinking
  PROVE  Following'
<1> USE DEF inputVars, cacheVars, machineVars
<1>1. UNCHANGED <<state, from, pc, reported, active>>
  BY DEF Blinking, BlinkRequest, BlinkStep, BlinkGate, Blink
<1>2. CASE BlinkRequest
  BY <1>1, <1>2 DEF BlinkRequest, Following
<1>3. ASSUME NEW t \in InputThreads, BlinkGate(t) PROVE Following'
  <2>1. at[t] = "call" /\ arg[t].ch \in Switches /\ UNCHANGED <<lamp, by>>
    BY <1>3 DEF BlinkGate
  <2>2. CASE Goto(t, "blink") /\ UNCHANGED <<arg, missed>>
    <3>1. at'[t] = "blink" /\ arg'[t].ch \in Switches
      BY <2>1, <2>2 DEF Goto, AtTypes, Threads
    <3>2. Switching'
      BY <3>1 DEF Switching, Switches
    <3> QED
      BY <1>1, <3>2 DEF Following
  <2>3. CASE missed' = missed \cup {"ignored"}
    BY <1>1, <2>3 DEF Following
  <2> QED
    BY <1>3, <2>2, <2>3 DEF BlinkGate
<1>4. ASSUME NEW t \in InputThreads, Blink(t) PROVE Following'
  <2>1. arg[t].ch \in Switches /\ arg[t].val \in BOOLEAN
    BY <1>4 DEF Blink, BlinkArgs, ArgTypes, Args, Threads
  <2>2. CASE NoWorker
    BY <1>1, <2>2 DEF NoWorker, Following
  <2>3. CASE Overtaken(t) # {} /\ Overtaken(t) \subseteq missed'
    <3>1. "overtaken" \in missed'
      BY <2>3 DEF Overtaken
    <3> QED
      BY <1>1, <3>1 DEF Following
  <2>4. CASE Overtaken(t) = {} /\ lamp' = Sides(t)
    <3>1. /\ reported[arg[t].ch] = arg[t].val
          /\ \A d \in Switches \ {arg[t].ch} : active[d] = reported[d]
      BY <2>4 DEF Overtaken
    <3>2. lamp' = { c \in Switches : reported[c] }
      BY <2>1, <2>4, <3>1 DEF Pressed, Sides
    <3> QED
      BY <1>1, <3>2 DEF Following
  <2> QED
    BY <1>4, <2>2, <2>3, <2>4 DEF Blink
<1> QED
  BY <1>2, <1>3, <1>4 DEF Blinking, BlinkStep

(* A report of a switch is told by a call, or was known.                   *)
LEMMA FollowingDeliver ==
  ASSUME AtTypes, ArgTypes, InputsTypeOK, Following, OthersOfInputs,
         NEW u \in InputThreads, at[u] \notin {"call", "blink"},
         NEW c \in Channels, NEW v \in BOOLEAN, Deliver(u, c, v) \/ DebounceInput(u, c, v)
  PROVE  Following'
<1>1. Switching => Switching'
  BY GoingKeepsSwitching DEF Deliver, DebounceInput
<1>2. UNCHANGED <<state, from, pc, lamp, by, missed>>
  BY DEF OthersOfInputs, machineVars, signalVars, blinkVars
<1>3. ASSUME \A d \in Switches : reported'[d] = reported[d] PROVE Following'
  <2>1. { d \in Switches : reported'[d] } = { d \in Switches : reported[d] }
    BY <1>3
  <2>2. (lamp = { d \in Switches : reported[d] })' <=> lamp = { d \in Switches : reported[d] }
    BY <1>2, <2>1 DEF Switches
  <2> QED
    BY <1>1, <1>2, <2>2 DEF Following, Restoring
<1>4. CASE Deliver(u, c, v) /\ c \in Switches /\ reported[c] # v
  <2>1. at' = [at EXCEPT ![u] = "call"]
        /\ arg' = [arg EXCEPT ![u] = [NoArg EXCEPT !.ch = c, !.val = v]]
    BY <1>4 DEF Deliver, Goto
  <2>2. at'[u] = "call" /\ arg'[u].ch \in Switches
    BY <1>4, <2>1 DEF AtTypes, ArgTypes, Threads, NoArg
  <2>3. Switching'
    BY <2>2 DEF Switching, Switches
  <2> QED
    BY <1>2, <2>3 DEF Following
<1>5. CASE Deliver(u, c, v) /\ (c \notin Switches \/ reported[c] = v)
  <2>1. reported' = [reported EXCEPT ![c] = v] /\ Switches \subseteq Channels
    BY <1>5 DEF Deliver, Switches
  <2> QED
    BY <1>3, <1>5, <2>1 DEF InputsTypeOK
<1>6. CASE UNCHANGED reported
  BY <1>3, <1>6
<1> QED
  BY <1>4, <1>5, <1>6 DEF DebounceInput

(* The input layer.                                                        *)
LEMMA FollowingInputting ==
  ASSUME AtTypes, ArgTypes, EdgeTypes, InputsTypeOK, Following, Inputting
  PROVE  Following'
<1>1. OthersOfInputs
  BY DEF Inputting
<1>2. ASSUME UNCHANGED reported, Switching => Switching' PROVE Following'
  BY <1>1, <1>2 DEF OthersOfInputs, machineVars, signalVars, blinkVars, Following, Restoring
<1>3. ResyncThreads \subseteq InputThreads /\ DebounceThreads \subseteq InputThreads
  BY DEF InputThreads
<1>4. CASE World
  BY <1>2, <1>4 DEF World, Overflow, Suspend, Edge, cacheVars, threadVars, Switching
<1>5. CASE TakeEvent
  <2>1. at["monitor"] = "idle" /\ "monitor" \in InputThreads
    BY <1>5, <1>3 DEF TakeEvent, ResyncThreads
  <2>2. CASE Goto("monitor", "snap") /\ UNCHANGED <<arg, cacheVars>>
    BY <1>2, <2>1, <2>2, GoingKeepsSwitching DEF cacheVars
  <2>3. CASE Head(events) # Dropped
    <3>1. Head(events).ch \in Channels /\ Head(events).val \in BOOLEAN
      <4>1. events # <<>>
        BY <1>5 DEF TakeEvent
      <4>2. Head(events) \in [ch : Channels, val : BOOLEAN] \cup {Dropped}
        BY <4>1, HeadTailProperties DEF EdgeTypes
      <4> QED
        BY <2>3, <4>2
    <3>2. PICK c \in Channels, v \in BOOLEAN : DebounceInput("monitor", c, v)
      BY <1>5, <2>3, <3>1 DEF TakeEvent
    <3> QED
      BY <1>1, <2>1, <3>2, FollowingDeliver
  <2> QED
    BY <1>5, <2>2, <2>3 DEF TakeEvent
<1>6. CASE PowerRunning
  BY <1>2, <1>6, GoingKeepsSwitching DEF PowerRunning, cacheVars
<1>7. ASSUME NEW t \in ResyncThreads, Resync(t) PROVE Following'
  <2>1. CASE ResyncRead(t) \/ ResyncFails(t) \/ ResyncCache(t)
    BY <1>2, <2>1, GoingKeepsSwitching DEF ResyncRead, ResyncFails, ResyncCache, cacheVars
  <2>2. CASE ResyncReport(t)
    <3>1. PICK c \in pend[t] : DebounceInput(t, c, snap[t][c])
      BY <2>2 DEF ResyncReport
    <3>2. PICK v \in BOOLEAN : v = snap[t][c]
      BY DEF InputsTypeOK
    <3>3. c \in Channels
      BY DEF InputsTypeOK
    <3>4. at[t] = "report"
      BY <2>2 DEF ResyncReport
    <3> QED
      BY <1>1, <1>3, <3>1, <3>2, <3>3, <3>4, FollowingDeliver
  <2> QED
    BY <1>7, <2>1, <2>2 DEF Resync
<1>8. ASSUME NEW c \in Debounced, Settle(c) PROVE Following'
  <2>1. PICK u \in DebounceThreads : at[u] = "idle" /\ Deliver(u, c, last[c])
    BY <1>8, SettleThread
  <2>2. PICK v \in BOOLEAN : v = last[c]
    BY ChannelsAreNamed DEF InputsTypeOK
  <2> QED
    BY <1>1, <1>3, <2>1, <2>2, ChannelsAreNamed, FollowingDeliver
<1> QED
  BY <1>4, <1>5, <1>6, <1>7, <1>8 DEF Inputting, InputStep

(* Following is inductive.                                                 *)
LEMMA FollowingStep == Types /\ BlinkTypeOK /\ Following /\ [Next]_vars => Following'
<1> SUFFICES ASSUME Types, BlinkTypeOK, Following, [Next]_vars PROVE Following'
  OBVIOUS
<1>1. MachineTypes /\ AtTypes /\ ArgTypes /\ BlinkArgs /\ EdgeTypes /\ InputsTypeOK
  BY DEF Types
<1>2. CASE Inputting
  BY <1>1, <1>2, FollowingInputting
<1>3. CASE LoopStep
  BY <1>1, <1>3, FollowingLoop
<1>4. CASE Blinking
  BY <1>1, <1>4, FollowingBlinking
<1>5. CASE ~Inputting /\ ~LoopStep /\ ~Blinking
  <2>1. UNCHANGED reported
    BY <1>5, OthersKeepInputs DEF inputVars, cacheVars
  <2>2. UNCHANGED <<state, from, pc>>
    BY <1>1, <1>5, OthersSend
  <2>3. UNCHANGED <<lamp, by, missed>>
    BY <1>5, OthersKeepLamps DEF Next, vars, signalVars, blinkVars
  <2>4. Switching => Switching'
    BY <1>1, <1>5, OthersKeepSwitching DEF Next
  <2> QED
    BY <2>1, <2>2, <2>3, <2>4 DEF Following, Restoring
<1> QED
  BY <1>2, <1>3, <1>4, <1>5

(* Where switches work the blinkers follow them, except by the ways        *)
(* BlinkersFollowSwitches names: for any inputs, and also when resyncs     *)
(* race with each other, with edges and with the machine.                  *)
THEOREM LampsFollowSwitches == Spec => []BlinkersFollowSwitches
<1>1. Init => Following
  <2> SUFFICES ASSUME Init PROVE Following
    OBVIOUS
  <2>1. pc = "idle" /\ lamp = {} /\ \A c \in Switches : ~reported[c]
    BY DEF Init, BlinkInit, InputsInit, Switches
  <2> QED
    BY <2>1 DEF Following
<1>2. Types /\ Told /\ Owes /\ Following => BlinkersFollowSwitches
  <2> SUFFICES ASSUME Types, Told, Owes, Following, Settled, SwitchesWork(state), by = "switch",
                      missed \subseteq {"late"}, NEW c \in Switches, sure[c]
               PROVE  c \in lamp <=> line[c]
    BY DEF BlinkersFollowSwitches
  <2>1. InputsQuiet /\ pc = "idle" /\ \A t \in InputThreads : at[t] = "idle"
    BY DEF Settled, InputsQuiet
  <2>2. ~Switching /\ ~Restoring
    BY <2>1, StandbyIgnoresSwitches DEF Switching, Restoring
  <2>3. lamp = { d \in Switches : reported[d] }
    BY <2>2 DEF Following
  <2>4. c \in Channels /\ reported[c] = line[c]
    BY <2>1, ToldWhenQuiet DEF QuietIsTold, Switches
  <2> QED
    BY <2>3, <2>4
<1>3. Types => BlinkTypeOK
  BY DEF Types
<1> QED
  BY <1>1, <1>2, <1>3, TypesInit, TypesStep, ToldInit, ToldStep, FollowingStep, PTL DEF Spec
=============================================================================
