------------------------------- MODULE Inputs -------------------------------
(***************************************************************************)
(* The switch inputs (src/internal/hardware/io.go): the kernel's queue of  *)
(* key events, the goroutine that reads it, the cache the guards read      *)
(* (activeKeys), the debounce timers, the comparison with the value last   *)
(* reported, and the resync that re-reads all lines after events may have  *)
(* been missed.  A goroutine at "call" is about to run the callback of     *)
(* arg.ch; the modules that extend this one are the callbacks.             *)
(*                                                                         *)
(* A timer whose generation is no longer current does nothing when it      *)
(* expires, so only the current one of a channel is kept (armed).          *)
(***************************************************************************)
EXTENDS Loop

CONSTANTS
  Channels,    (* the inputs that are modelled                      *)
  Debounced    (* those SetDebounce was called for                  *)

ASSUME InputsAssumption == Debounced \subseteq Channels /\ Channels \subseteq InputKinds

VARIABLES
  line,      \* the level of each line
  events,    \* the kernel's queue for the input device
  owed,      \* edges were masked by a suspend; its "running" is still to come
  active,    \* io.activeKeys
  last,      \* io.debounceLast
  armed,     \* channels whose current debounce timer is pending
  reported,  \* io.lastReported
  snap,      \* what a resync has read
  pend,      \* the channels it has still to dispatch
  sure       \* history: the last look taken at the channel is up to date

lineVars  == <<line, events, owed>>
cacheVars == <<active, last, armed, reported, sure>>
syncVars  == <<snap, pend>>
inputVars == <<lineVars, cacheVars, syncVars>>

AllLow == [c \in Channels |-> FALSE]

InputsInit(down) ==
  /\ line = [c \in Channels |-> c = "kickstand" /\ down]
  /\ events = <<>> /\ owed = FALSE
  /\ active = line /\ reported = line /\ last = AllLow /\ armed = {}
  /\ snap = [t \in ResyncThreads |-> AllLow] /\ pend = [t \in ResyncThreads |-> {}]
  /\ sure = [c \in Channels |-> TRUE]

-----------------------------------------------------------------------------
(* The world: an edge is queued; the queue overflows and is replaced by a  *)
(* marker (SYN_DROPPED); a suspend masks edges.                            *)

Edge(c) ==
  /\ Spend(c)
  /\ line' = [line EXCEPT ![c] = ~@]
  /\ events' = Append(events, [ch |-> c, val |-> ~line[c]])
  /\ UNCHANGED <<owed, cacheVars, syncVars, threadVars>>

Dropped == [ch |-> "dropped", val |-> FALSE]

Overflow ==
  /\ Spend("overflow") /\ events # <<>>
  /\ events' = <<Dropped>>
  /\ UNCHANGED <<line, owed, cacheVars, syncVars, threadVars>>

Suspend ==
  /\ left["suspend"] > 0
  /\ \E masked \in {{}} \cup { {c} : c \in { d \in Channels : left[d] > 0 } } :
       /\ line' = [c \in Channels |-> (c \in masked) # line[c]]
       /\ left' = [i \in InputKinds |-> IF i \in masked \cup {"suspend"} THEN left[i] - 1 ELSE left[i]]
  /\ owed' = TRUE
  /\ UNCHANGED <<events, cacheVars, syncVars, threadVars>>

-----------------------------------------------------------------------------
(* Another look at c will follow: an event, the marker, or a resync of one *)
(* of ts that has not read the lines yet.                                  *)
Followed(c, rest, ts) ==
  \/ owed
  \/ \E i \in DOMAIN rest : rest[i].ch \in {c, "dropped"}
  \/ \E t \in ts : at[t] = "snap"

LooksAt(c, v, rest) ==
  sure' = [sure EXCEPT ![c] = (v = line[c]) \/ Followed(c, rest, ResyncThreads)]

(* A goroutine that has finished a callback or a channel goes on with its  *)
(* resync, if it is in one.                                                *)
NextOf(t) == IF t \in ResyncThreads /\ pend'[t] # {} THEN "report" ELSE "idle"

Return(t) ==
  /\ at' = [at EXCEPT ![t] = IF t \in ResyncThreads /\ pend[t] # {} THEN "report" ELSE "idle"]
  /\ arg' = [arg EXCEPT ![t] = NoArg]

(* deliver: the callback runs, unless the value was reported already.      *)
Deliver(t, c, v) ==
  /\ reported' = [reported EXCEPT ![c] = v]
  /\ IF reported[c] = v
     THEN Goto(t, NextOf(t)) /\ UNCHANGED arg
     ELSE Goto(t, "call") /\ arg' = [arg EXCEPT ![t] = [NoArg EXCEPT !.ch = c, !.val = v]]

(* Mutant: every channel is debounced.                                     *)
DebounceInputAll(t, c, v) ==
  /\ last' = [last EXCEPT ![c] = v] /\ armed' = armed \cup {c}
  /\ Goto(t, NextOf(t)) /\ UNCHANGED <<reported, arg>>

(* debounceInput: the timer is replaced, whatever the value is.            *)
DebounceInput(t, c, v) ==
  IF c \in Debounced
  THEN /\ last' = [last EXCEPT ![c] = v] /\ armed' = armed \cup {c}
       /\ Goto(t, NextOf(t)) /\ UNCHANGED <<reported, arg>>
  ELSE Deliver(t, c, v) /\ UNCHANGED <<last, armed>>

(* Mutant: a lost event is not made up for.                                *)
TakeEventNoResync ==
  /\ at["monitor"] = "idle" /\ events # <<>>
  /\ UNCHANGED <<line, owed, syncVars, left>>
  /\ events' = Tail(events)
  /\ LET e == Head(events) IN
     IF e = Dropped
     THEN UNCHANGED <<threadVars, cacheVars>>
     ELSE /\ active' = [active EXCEPT ![e.ch] = e.val]
          /\ DebounceInput("monitor", e.ch, e.val)
          /\ LooksAt(e.ch, e.val, Tail(events))

(* monitorInputs and handleKeyEvent.                                       *)
TakeEvent ==
  /\ at["monitor"] = "idle" /\ events # <<>>
  /\ UNCHANGED <<line, owed, syncVars, left>>
  /\ events' = Tail(events)
  /\ LET e == Head(events) IN
     IF e = Dropped
     THEN Goto("monitor", "snap") /\ UNCHANGED <<arg, cacheVars>>
     ELSE /\ active' = [active EXCEPT ![e.ch] = e.val]
          /\ DebounceInput("monitor", e.ch, e.val)
          /\ LooksAt(e.ch, e.val, Tail(events))

(* The debounce timer of c expires, and its goroutine reports what the     *)
(* last edge was; two of them may be at work at a time.                    *)
FreeThread == CHOOSE t \in DebounceThreads :
                at[t] = "idle" /\ (t = "d2" => at["d1"] # "idle")

Settle(c) ==
  /\ c \in armed /\ \E t \in DebounceThreads : at[t] = "idle"
  /\ armed' = armed \ {c}
  /\ last' = [last EXCEPT ![c] = FALSE]
  /\ Deliver(FreeThread, c, last[c])
  /\ UNCHANGED <<lineVars, active, sure, syncVars, left>>

-----------------------------------------------------------------------------
(* ResyncInputs, in three steps: the ioctl, the cache under the lock, and  *)
(* one channel after the other, in any order.                              *)

(* handlePowerStateChange("running").                                      *)
PowerRunning ==
  /\ owed /\ at["power"] = "idle"
  /\ owed' = FALSE
  /\ Goto("power", "snap")
  /\ UNCHANGED <<line, events, cacheVars, syncVars, arg, left>>

ResyncRead(t) ==
  /\ at[t] = "snap"
  /\ snap' = [snap EXCEPT ![t] = line]
  /\ Goto(t, "cache")
  /\ UNCHANGED <<lineVars, cacheVars, pend, arg, left>>

(* What the handler of c has been told last, or will be.                   *)
Known(c) == IF c \in armed THEN last[c] ELSE reported[c]

(* The ioctl fails: the resync is given up with a warning, and an edge it  *)
(* was to make up for stays lost unless another look follows.              *)
ResyncFails(t) ==
  /\ at[t] = "snap"
  /\ Goto(t, "idle")
  /\ sure' = [c \in Channels |->
               sure[c] /\ (Known(c) = line[c] \/ Followed(c, events, ResyncThreads \ {t}))]
  /\ UNCHANGED <<lineVars, active, last, armed, reported, syncVars, arg, left>>

ResyncCache(t) ==
  /\ at[t] = "cache"
  /\ active' = snap[t]
  /\ pend' = [pend EXCEPT ![t] = Channels]
  /\ Goto(t, "report")
  /\ UNCHANGED <<lineVars, last, armed, reported, sure, snap, arg, left>>

ResyncReport(t) ==
  /\ at[t] = "report"
  /\ \E c \in pend[t] :
       /\ pend' = [pend EXCEPT ![t] = @ \ {c}]
       /\ snap' = [snap EXCEPT ![t][c] = FALSE]
       /\ DebounceInput(t, c, snap[t][c])
       /\ LooksAt(c, snap[t][c], events)
  /\ UNCHANGED <<lineVars, active, left>>

Resync(t) == ResyncRead(t) \/ ResyncFails(t) \/ ResyncCache(t) \/ ResyncReport(t)

InputStep == TakeEvent \/ PowerRunning \/ \E t \in ResyncThreads : Resync(t)

World == Overflow \/ Suspend \/ \E c \in Channels : Edge(c)

-----------------------------------------------------------------------------
(* No edge, timer or resync is under way.                                  *)
InputsQuiet == events = <<>> /\ ~owed /\ armed = {} /\ \A t \in InputThreads : at[t] = "idle"

InputStepsOf == {"snap", "cache", "report", "call"}

InputsTypeOK ==
  /\ line \in [Channels -> BOOLEAN] /\ owed \in BOOLEAN
  /\ events \in Seq([ch : Channels \cup {"dropped"}, val : BOOLEAN])
  /\ active \in [Channels -> BOOLEAN] /\ last \in [Channels -> BOOLEAN]
  /\ armed \subseteq Debounced
  /\ reported \in [Channels -> BOOLEAN] /\ sure \in [Channels -> BOOLEAN]
  /\ snap \in [ResyncThreads -> [Channels -> BOOLEAN]]
  /\ pend \in [ResyncThreads -> SUBSET Channels]

(* What the handler of the kickstand is promised: a level that the switch  *)
(* keeps reaches it, through bounces, an overflow of the queue and a       *)
(* suspend (the comment of ResyncInputs).  It is lost only if the last     *)
(* look at the line was out of date when it was taken: a resync whose read *)
(* an edge has overtaken, or an event read after a newer resync.           *)
Kickstand == INSTANCE InputLine
  WITH line <- line["kickstand"], told <- reported["kickstand"], sure <- sure["kickstand"]

KickstandIsHeard == Kickstand!Spec
=============================================================================
