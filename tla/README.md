# Vehicle service: models, checks and proofs

The vehicle service runs on the middle board of the scooter. It owns the lock
state, the motor's brake and power outputs, the dashboard computer's (DBC)
power, the lights and the physical inputs, and talks to the other services over
Redis. This directory holds TLA+ models of it, the TLC configurations that check
them, and proofs.

## 1. The system and its parts

| part | state it keeps | operations | talks to |
|---|---|---|---|
| state machine (`internal/fsm`) | current leaf, event queue, state timers | the transition table, guards, blocked events | entry actions |
| event loop and entry actions (`core/fsm_actions.go`) | `v.state`, published **after** the entry action | `Enter*`, `Exit*`, guards, restore, OnStateChange | outputs, Redis, timers |
| motor interlock | outputs `engine_brake`, `engine_power`; `vehicle:fault` | entry actions, lever callbacks, `Start()`, `engine:on/off` | GPIO, faults |
| brake levers and other inputs (`hardware/io.go`, `handleInputChange`) | `activeKeys`, `lastReported`, debounce generations | one goroutine for each debounced edge | interlock, machine |
| dashboard power, updates, map holds (`redis_handlers.go`, `system.go`) | rail, `dbcUpdating`, `mapDownloading`, deferral, two timers, inhibitors, `dbcPoweroffSent`, `pendingUnlock` | one goroutine for each Redis list, two timers, delayed cuts | machine, Redis |
| hibernation | two request flags | lock-hibernate, the button sequence, completion on publish | holds |
| handlebar lock (`state_transitions.go`) | `handlebarUnlocked`, two done channels, timers, position callback | lock with a window and retries, unlock loop, pulses of 1.1 s | solenoids, position sensor |
| auto-standby, keyless countdown | timers, deadlines | start, stop, fire, BLE status | machine |
| drive start | battery supply, request from messaging | check, monitor | guards |
| blinkers | one worker goroutine, its stop channel | start, stop, restart, save to Redis | LEDs |
| gestures | hold and tap timers for each button | press, release, timers | Redis events |
| usb0 gate | policy, keycard counts | resolve (poll up to 30 s, then open), raise or follow the rail | dashboard power |
| LEDs, PWM driver, settings, faults, messaging, main | device handles, settings, connections | plain calls | all |

What is hard here:

* Lever callbacks, list handlers, timers and entry actions are goroutines of
  their own. `v.mu` protects fields, never a decision and the act it leads to.
* `machine.currentState` moves before the entry action runs, `v.state` after it.
  Code that reads one is out of step with code that reads the other.
* GPIO writes fail one by one, and a failure must become a fault, a cut, or both.
* The machine halts the DBC before it cuts its rail; what arrives in between has
  to wait.
* A restart finds outputs at their initial values, Redis at its last, and runs
  the entry of Standby before it restores anything.

What makes each part correct:

* interlock: outside drive mode the motor has no power, or a confirmed brake, or
  a fault says otherwise; power never comes before the brake; a held lever
  brakes; a refused drive start ends.
* dashboard: no rail stays on in stand-by without somebody who will cut it; an
  update keeps its rail and is always watched; inhibitors mean what they say; an
  unlock is not lost.
* hibernation: a request belongs to one shutdown.
* handlebar: a parked vehicle's bar is free, a window that may still lock can be
  cancelled, the solenoid ends without current, stand-by's latch is true.
* timers: the timer that locks an idle vehicle runs at rest, always, and nowhere
  else; a countdown that is under way has its timer.
* drive start: a vehicle on its kickstand does not stay in drive mode.
* inputs: the value a switch keeps reaches its handler.
* blinkers: the lamps follow the switches where switches work, and stand-by is
  dark.
* horn: it ends with its button.

## 2. Modules

| module | models |
|---|---|
| `VehicleFsm` | the transition table and the library's choice of a row, as operators |
| `Ride` | the interlock: event loop, lever callbacks, `Start()`, failing outputs |
| `DbcPower` | the dashboard's power and its holds: event loop, list handlers, timers, restart |
| `Handlebar` | the steering lock: windows, pulses, unlock loops, cancellation |
| `Loop` | what the parts of the cockpit share: queue, goroutines, budget of inputs |
| `Inputs` | reader, cache, debounce timers, resync of the switch inputs |
| `InputLine` | abstract: what the handler of one switch is promised |
| `AtRest` | auto-standby timer, keyless countdown, their settings |
| `DriveStart` | kickstand callback, deferral, monitor and guards of a drive |
| `Blinkers` | switches, commands and worker |
| `Horn` | button and commands of the horn |
| `Cockpit` | composition of these with the event loop |
| `FsmProofs` | facts about the transition table |
| `RideProofs` | theorems about `Ride` |
| `DbcPowerProofs`, `DbcHoldProofs` | theorems about `DbcPower`: types, updates, hibernation; and who holds the rail, keeps the vehicle awake and defers an unlock |
| `HandlebarProofs`, `SteeringProofs` | theorems about `Handlebar`: types and the solenoid; and windows, latch and a parked vehicle's bar |
| `CockpitProofs`, `SignalProofs` | theorems about `Cockpit`: types, timer at rest, refinement; and what the switches' handlers do with what they are told |
| `MCRide`, `MCDbcPower`, `MCHandlebar`, `MCCockpit` | the sets the configurations use |

### VehicleFsm

`Table` has one record per transition row, in declaration order. `Selected(s, e,
true)` is what librefsm takes in leaf `s` for event `e` when the guards in `true`
hold: rows of the leaf before rows of its parents, earlier before later, unless
the leaf blocks the event. `SystemStateOf` and `LeafOf` are the two conversions
between leaves and published states, neither of which is the inverse of the
other. The library is not part of the repository; its semantics (one queue, one
loop, `currentState` reassigned before the entry action, OnStateChange after it)
are taken from how the code and its tests use it, and are marked external.

### Ride

`pc` is the next step of the running entry action. Each step performs one GPIO
write with its outcome, or the reads between two writes, because those are the
points at which another goroutine can show through. `EnterReadyToDrive` collects
fault updates and applies them when it returns (`effects`). `main` is the step of
`Start()`. A lever callback (`cb[g]`) passes the gate, copies `v.state`, reads
both levers, writes, and reports. Guards of other parts are free at each
evaluation. Events of other parts are `"Ext"` until they are dispatched.

Two history variables serve the properties and nothing else: `late` says that the
last brake write released the brake outside drive mode, `refused` why a drive
entry sent itself back.

Not in `Ride`: `engine:on` and `engine:off`, with which an operator writes
`engine_power` in any state; a second process; the exit actions, which write no
motor output; the error that `SetState` may return at a restore (`restoreFSMState`
names a leaf of the definition, and no entry action of a restorable leaf fails).

### DbcPower

The handlers of `scooter:state`, `:update`, `:dbc-hold` and `:hardware`, the
update watchdog and the cap of the map hold are `Handlers`, each with its next
step in `at`. A handler and an entry action are split at every unlock, Redis write
and slow call, and every step interleaves with every other: `setPower` works on
Redis and systemd before it writes the output, so that what an entry action has
read may be out of date by then. `EnterStandby` looks for holders (`StandbyLook`)
and cuts (`StandbyCut`), `EnterShuttingDown` looks at an install (`ShutInstall`)
and gives the update up (`ShutEnd`). The watchdog compares its generation
(`WatchdogFires`) and takes the lock again (`Expire`): `start-dbc` may come in
between, and the old timer then ends the new update. Only the load of
`dbcPoweroffSent` and the store of `pendingUnlock` (`redis_handlers.go:128-129`)
are one step. `cuts` counts the delayed cuts. `Restart` forgets everything but
`saved`, `flag` and `inhib`. `PublishLost` is a failing publication of the state:
the code logs it and goes on, Redis may or may not have the value, and a
hibernation request that waits for the publication of stand-by stays.

Two variables are history. `manual` says that an operator switched the rail on
since it was last cut. `gaps` says how a hold, a deferral, an inhibitor or a request
lost its end, and the properties name the values that excuse them; TLC finds a
counterexample to each when one of its values is left out:

| value | what happened |
|---|---|
| `watchdog` | the update watchdog discarded a deferral that a map hold relies on |
| `late` | a map hold was asked for after `EnterShuttingDown` had looked: it gets no cap |
| `lag` | a holder ended after `EnterStandby` had looked for it and before `v.state` said stand-by: each leaves the cut to the other |
| `overtaken` | an update began after `EnterStandby` had looked, and before its cut |
| `update`, `map` | a beginning and an end of an update (a map hold) overlapped, and their Redis writes came out of order; the next one that does not overlap clears it |
| `hibernation` | hibernation dropped a map hold without its inhibitor |
| `publication` | the last publication of the state failed |

### Handlebar

An attempt is one call of `lockHandlebar`, numbered in order. Its record has the
step of its goroutine, whether its channel is open, whether it came from hop-on
(the `onLocked` continuation), and whether its timer ticks. `timer`, `done` and
`handler` are the fields that attempts share (`handlebarTimer`, `handlebarDone`,
the registered position callback): each names the attempt it belongs to, which
need not be the one that acts on it. The goroutine places the bar by the cached
position (`cached`, which `PositionSeen` writes before the debounce), arms,
registers and looks again; when it wakes up, by its timer (`AttemptFires`) or its
channel (`AttemptCancelled`), its clean-up is a locked section (`AttemptExpires`)
and the callback after it (`AttemptExpired`). `workers` are the goroutines that pulse:
the attempt's own (`"direct"`), its callback (`"lock"`), the unlock loop, the
release after hop-on, an operator's pulse, the service mode. A pulse is four
writes, with a wait between the second and the third in which the bolt may move.
Each write may fail (`NotWritten`) and then leaves the output as it is: a failure
of the second takes the first back (`Rollback`), one of the third still makes the
fourth (`CoastLast`), and each ends the work of the goroutine whose pulse it was.
`stuck` remembers the sides whose own switching off failed, until they are
written again. An unlock loop ends that way too, although its comment says that
it "keeps retrying with backoff as long as the vehicle remains in parked or
ready-to-drive state" (`src/internal/core/state_transitions.go:243`): the
exception `faults > 0` of `ParkedIsFree`.

The event loop runs entry and exit actions one call at a time
(`cancelHandlebarLock` is two steps: the fields, then the callback). The guard
`CanEnterReadyToDrive` is free where `handlebarUnlocked` holds; all others are
free. `relock` is history: when Parked looked at the lock sensor, lock work was
still running. `crossed` is history too: the attempts whose callback stopped the
timer of another one, because it took `handlebarTimer` for its own.

The bar, its bolt and the two sensors are the environment: a side of the bridge
that is driven alone may move the bolt, the lock needs the bar in position, a
locked bar stays where it is. The bolt may also fail to move.

`Coarse` narrows a run and nothing else: with it, what takes seconds (a pulse, the
settling, the window, the rider's hand, a request or an event) waits until no
goroutine is between two statements; statements of different goroutines interleave
with each other. `Handlebar_safety` uses it to reach two attempts, two workers and a
request; the violated runs and all theorems do not.

Not in `Handlebar`: failing sensor reads, and the back-off
between unlock tries. `ShutdownLasts` is a timing assumption: the five seconds
of a shutdown outlast a pulse of 1.1 s that its entry cut short, and its half
second of settling.

### Cockpit

`Cockpit` puts the switch inputs, the drive's start, the timer at rest, the
blinkers and the horn around one event loop, because they meet in the callbacks:
the kickstand moves the machine, restarts the timer and is read by the guards.
Each part is a module that extends `Loop` and declares its own variables and
actions; `Cockpit` says what the loop does with them and adds the `UNCHANGED`s.

`at[t]` is the next step of goroutine `t` and `arg[t]` its locals: the channel and
value it was called with, and the state it has read. The goroutines are the reader
of the input device, which also runs callbacks without debounce; the debounce
timers that have expired; and one for each Redis watcher that matters (`power`,
`ble`, `settings`). A handler is split where it releases a lock or calls Redis.

* `Inputs`: an edge is put into the kernel's queue, the reader moves it to
  `active` (the cache that guards read) and to the debounce timer of its channel,
  and the timer reports the last value if it differs from `reported`. Only the
  current timer of a channel is kept: `debounceGen` makes the others do nothing.
  `Overflow` is SYN_DROPPED, `Suspend` masks edges until `power-manager` says
  `running`. Both lead to a resync: the ioctl (`snap`), the cache, then one
  channel after the other (`pend`). The ioctl may fail (`ResyncFails`).
* `AtRest`: `ExitAtRest` is part of the dispatch, `EnterAtRest` of the entry. The
  callers go through `clear`, `stop`, `recheck` and `arm`, and a disconnect through
  `flag` and `count`. What they compare is `getCurrentState()`, the published name:
  `Parked` holds in the leaf of that name and in the first hold of a hibernation,
  which is outside the group.
* `DriveStart`: `fresh` is the second after a drive's start in which a "down" is
  deferred. The guards see the raw kickstand; what else a drive needs is free.
* `Blinkers`: `lamp` is what the worker blinks. Under `blinkerMu` a switch or
  command is one step; the gate that reads the state is the step before. A cue or
  a publication that fails has stopped the old worker already (`NoWorker`).
* `Horn`: the same gate, then the write, which may fail. What else may mute the horn (setting,
  open seatbox) is free.

History variables say why a promise of the code does not hold without a
condition, and each of their values stands for one order of steps that TLC
finds when it is left out:

| variable | value | what happened |
|---|---|---|
| `lost` | `stopped` | the callback of an earlier "up" ran late and stopped the deferral of the "down" after it |
| | `bounce` | the deferral's timer, or the guard of a drive, read the cache during a bounce that the debounce hides |
| | `publish` | publishing the kickstand failed, and the callback ended before it sent the event |
| | `restart` | a restart restored a ride whose kickstand was down already; the restored entry does not look again |
| `lapses` | `late` | a handler that had found the vehicle parked armed the timer after the exit had stopped it |
| | `hold` | a handler armed it, or began a countdown, in the first hold of a hibernation |
| | `copied` | a handler left a restart out because its copy of the setting was 0 |
| | `hopOn` | a timer was stopped in hop-on, where nothing arms it again |
| | `setting` | a setting replaced the countdown's timer and left the flag |
| | `raced` | rider input did |
| `missed` | `ignored` | a switch was turned in a state that ignores it |
| | `late` | a switch was let through and acted after the machine had left |
| | `overtaken` | two callbacks of the same switch are out of order, or the cache differs from what the handlers were told |
| | `unlit` | the machine left stand-by for the shutdown after an update, and an unlock then led to Parked without the restore |
| | `failed` | the handler's cue or publication failed after it had stopped the old worker |
| `deaf` | `ignored` | the horn's button was released in hop-on or stand-by, where it is dropped |
| | `overtaken` | the release was handled before the press |
| | `failed` | the write of the release failed |
| `by`, `blower` | | who set the lamps or the horn last: a switch (the button) or a command |
| `sure[c]` | `FALSE` | the last look at the line of `c` was out of date when it was taken |

`KickstandIsHeard` is a refinement: seen through `line`, `reported` and `sure` of
the kickstand, every behaviour of `Cockpit` is one of `InputLine`. The handler is
never told the same value twice in a row, and it is told in the end what the
switch rests at, as long as `sure` holds. `sure` fails in two ways: an edge
overtakes a resync between its ioctl and its dispatch and is processed before it,
or an event that was queued before a resync is read after it.

Not in `Cockpit`: gestures (they only publish to the dashboard); the flag that
says the dashboard is ready, the handlebar and the battery, which are free in the
guards; failing Redis writes, apart from the kickstand's and the blinker switch's
own; negative settings.
The kernel drops queued events of a key when its level is read by EVIOCGKEY; the
model keeps them, and so has more behaviours than the kernel. `DeferralFires`
reads the switch and sends in one step, and a callback cancels a deferral and
sets the next in one.

## 3. Runs

| run | question | shows |
|---|---|---|
| `Ride_safety` | failing writes, every kind of boot, lever at any time | motor interlock and its faults hold; a refused start's event stays queued, and the refused start ends |
| `Ride_parked_brake` | lever while the machine moves | **violated**: brake released in Parked |
| `Ride_lever_boot` | lever during boot into drive mode | **violated**: held lever does not brake |
| `DbcPower_rail` | three requests, timers, one restart, every interleaving | the rail has a holder, updates are watched, the machine cuts under overtaken updates only, no unlock waits past stand-by |
| `DbcPower_unlock` | two requests, timers, one restart | a deferred unlock is served |
| `DbcPower_hold_cap` | a lock and a hold | **violated**: hold without a cap |
| `DbcPower_lost_unlock` | a lock and an unlock | **violated**: unlock dropped |
| `Handlebar_safety` | two attempts, two workers, a request or a failing write, the bar moves | free when parked, cancellable windows, no current, latch |
| `Handlebar_late_lock` | hop-on and back, every interleaving | **violated**: parked over a locked bar |
| `Handlebar_bridge` | hop-on, then a shutdown | **violated**: both sides of the bridge driven |
| `Cockpit` | 22 mixes of edges, suspends, phone, settings, commands, events | switches are heard, the stand ends a drive, the timer runs at rest only, lamps follow switches, the horn ends |
| `Cockpit_idle_lock` | a phone goes in Parked and returns in hop-on | **violated**: an idle parked vehicle never locks |

Bounds, and why they are enough:

* One lever in `Ride_safety`: the brake depends on whether any is held, and two
  make its liveness too large. The violated runs have both. One callback goroutine runs at a time: the
  stale copy needs only one callback against the event loop, and to the interlock
  a second one is another stale copy (`late` already excuses a release that comes
  too late). The proofs have no such bounds.
* `MaxEdges` is 1 with failing writes, where one edge clears a brake fault, and 2 for
  a press and a release.
* `MaxQueue` is 1: two sends of others can be in play (one dispatched, one
  queued) besides the machine's own.
* `MaxRequests` is 3 in `DbcPower`: a lock, a hold or an update, and an unlock,
  or a lost publication in the place of one; the timers cost no request (1,988,049
  states). `DbcPower_unlock` has 2, a lock and an unlock, which is all that a
  deferral needs (143,224 states).
* `MaxRestarts` is 1: what a restart reads is saved by earlier steps, and the
  first boot is a restart itself.
* `Handlebar` has two attempts: what an attempt can do to another needs one that
  is cancelled and one that follows. Two workers: pulses clash in pairs. `Retries`
  is 1 in the safety run (the code has 3): another try repeats the steps of the
  first, and the unlock loop, which has no bound, shows what a repetition can do.
  One request or one failing write, and one move of the bar, which starts on
  either side. An operator's unlock is left out there: it is the release after
  hop-on without a transition. States are told apart by `Distinguished`: what is
  recorded of an attempt that is over and that no worker, handler or channel
  belongs to is never read again (1,481,318 states). `crossed` takes three attempts
  and stays empty here; the proof has no such bound.
* `Cockpit` begins with one of 22 scenarios: a state and a number of inputs
  of each kind that may come in any order. All kinds at once are out of reach, and
  the hazards need two or three: three kickstand edges (up, down and a bounce)
  with a failing publication, or with an overflow; two with a suspend, or in a
  ride that a restart has restored on its stand; both
  blinker switches pressed and released while the vehicle locks; one that is held
  while an update begins in stand-by and ends with an unlock; one that turns
  during a suspend, parked and in stand-by; a horn pressed,
  released and pressed again over two events; a phone that leaves and returns
  while a setting changes and the machine moves, in Parked, hop-on, stand-by and the
  first hold of a hibernation. Two debounce goroutines: a late
  callback needs one before it. Auto-standby is off or on, since the values differ
  in nothing else. 722,518 distinct states. A suspend
  together with an overflow and a way through stand-by, where two resyncs can
  leave a cache that the handlers do not share, is beyond the run's time: the
  proofs of section 4 have no bounds and cover it.
* `SomeSaved` has one saved state for each way `Start()` treats one.

`CHECK_DEADLOCK FALSE` everywhere: with its bounds used up and nothing queued, a
parked vehicle rests. `Handlebar` states no fairness, and no liveness.

In `Cockpit` the goroutines of the inputs run on, debounce timers expire, and
`running` is published after a suspend (pm-service does so on every resume). No
edge, no request and no event of the machine is assumed to come.

Fairness of `Ride` and `DbcPower`: the event loop serves its queue as long as the
process lives, entry actions and `Start()` run on, and a handler that has begun
finishes: they are goroutines without conditions to wait for. The timeout of
ShuttingDown fires. Nobody is assumed to press a lever or to send a request, the
watchdogs are not assumed to fire, and a restart need not come.

### What the violated runs show

1. **Brake released in Parked.** `handleInputChange` copies `v.state`, and uses
   the copy after the lock, the lever reads and the cue. If Parked is entered
   in between, its brake is released with the controller powered.
2. **Held lever at boot.** Between `EnterReadyToDrive`, run by the restore, and
   the registration of the callbacks, an edge is recorded as reported and lost,
   and `Start()` does not write the brake when the machine drives.
3. **Hold without a cap.** Only `EnterShuttingDown` starts the cap. A hold
   requested after it looked defers the cut with nothing to end it.
4. **Unlock dropped.** The handler decides to send from the state it read; the
   lock queued in front halts the DBC; the unlock is then refused and nobody
   keeps it.
5. **Parked over a locked bar.** The lock goroutine looks at its channel between
   pulses only. A hop-on that is released within the 1.1 s of the pulse is
   cancelled, Parked reads the sensor while the bolt is still free, and then the
   bolt engages. No unlock was started and hop-on did not record its ownership.
6. **Both sides driven.** Nothing serialises pulses. A release after hop-on and
   the lock of a shutdown overlap and hold both sides of the bridge high.
7. **Idle vehicle never locks.** The timer belongs to the group of Parked and
   hop-on, but whoever cancels a countdown restarts it only in Parked. A phone
   that disconnects in Parked and reconnects in hop-on stops it for good: the way
   back to Parked does not enter the group.

Other defects are exceptions that passing properties name, each found by TLC as a
violation of the property without it, or are outside every property:

* **A rail cut under an update that has just begun** (`gaps`, `"overtaken"`).
  `EnterStandby` reads `dbcUpdating` and `mapDownloading` under `v.mu`, unlocks, and
  calls `setPower` (`fsm_actions.go:644-656`), which works on Redis and systemd
  before it writes. A `start-dbc` in between is cut without a deferral, and if its own
  `setPower` comes before the cut too, the update goes on in the dark. The comment
  promises the rail to a running update (`fsm_actions.go:641`). An update that
  begins before a delayed cut has run loses its rail too.
* **A timer in the hold of a hibernation** (`lapses`, `"hold"`). The checks compare the
  published state, and `HibernationInitialHold` is published as parked
  (`fsm_actions.go:32-33`). A lever that moves in the hold, a setting or a phone that
  disconnects arms the auto-standby timer outside the group whose exit stops it,
  although it "must NEVER run outside of StateParked" (`system.go:788`).
* **A window that listens to nobody.** The clean-up of a window clears
  `handlebarTimer` and puts the original callback back, whosever they are
  (`state_transitions.go:118-127`). A hop-on that is left and entered again while the
  first callback still pulses loses both, and its bar is never locked.
* **A held lever without a brake** (`HeldLeverBrakes`, besides the boot). The callbacks
  of two levers are not ordered: the one that reads first may write last. And
  each reads the other lever from a cache that is not debounced: a dip that is too
  short to be reported releases the brake, and no callback follows it.
* **An old watchdog ends a new update**, whose own timer runs on; and the update
  watchdog discards a deferral that a map hold still needs (`"watchdog"`).
* Hibernation leaves the map hold's inhibitor behind (`"hibernation"`). A horn that
  sounds while hop-on is engaged or stand-by entered stays on (`deaf`). A vehicle
  that leaves stand-by for an update and is unlocked during the shutdown after it does
  not switch a held blinker on again, as it does on the direct way (`"unlit"`). A
  ride that is restored with its kickstand down goes on (`"restart"`).

## 4. Proofs

`RideProofs` proves, for every value of the constants that satisfies
`RideAssumption` (any levers, any number of callbacks, any external events, any
saved states, failing or working writes):

* `TypeCorrect`: `TypeOK` is an invariant. It needs that `Selected` yields rows of
  `Table`, whose targets are leaves (`FsmProofs`).
* `LockedIsDarkHolds`, `DarkEcuIsReportedHolds`, `ParkedInterlockHolds`,
  `DarkDashboardEntryHolds`, `InterlockCorrect`, `RefusalsAreQueued`: the safety
  invariants of `Ride_safety`.
* `PoweredAfterBrakeHolds`: its action property.

The invariants speak of resting states (`pc = "idle"`) and say nothing of the
steps before, so none is inductive. `Safe` adds, for each step of each entry
action, what the steps before it have established: the leaf that runs it, the
brake that was confirmed, the power that was cut or whose cut failed, and which
fault updates are pending in `effects`. The proof that a step preserves `Safe` has
a case for each action; lever callbacks are the same case for every callback,
because they write only the brake, `late` and the brake's own fault.

`InterlockCorrect` is about the restored leaves whose entry writes no brake. They
rely on `StartEngage`, which reports its failure a step later, while any other
report of a brake write that succeeded would clear that code. Inductive is
`Interlocked`: outside drive mode, power over a released brake has the power's
fault, or the brake is `Unwritten`: no callback and no step of `Start()` has a
success to report, and once the engage has been reported, its fault stands.
`BootQuiet` says
that no callback runs before they are registered. `DriveRows` (drive mode is left
only for leaves whose entry writes an output) closes the way out of a ride.
`RefusalsAreQueued` is inductive with `Safe`: an event that is
dispatched in front leads out of drive mode or leaves the rest of the queue as it
is, and `RefusalRow` shows that the refusal itself is never ignored there.

`DbcPowerProofs` and `DbcHoldProofs` prove, for any requests, events, numbers of restarts
and requests, and for every interleaving of the handlers' steps with each other and
with the entry actions:

* `DbcPowerTypes`: `TypeOK` is an invariant.
* `UpdatesAreWatched`: `UpdateIsWatched`. A resting state says nothing of the
  handler that is just starting or ending an update, so the inductive `Watched`
  adds where in the handlers flag and timer may differ.
* `HibernationsEnd`: `HibernationIsOneShutdown`. The inductive `OneShutdown` says
  in which leaf, and at which step of the loop, a request may stand; that every
  row leading out of those leaves is one the entry actions account for is
  `RequestRows`, a lemma about the transition table. After a lost publication the
  request waits in stand-by, and the rows show that the next unlock clears it.
* `UpdatesOutliveStandby`: the action property `UpdateOutlivesStandby`. It rests on the
  invariant `CutOvertaken`: an update that runs when the cut is next began after
  the look, and is recorded.
* `UnlocksWaitForStandby`: `UnlockWaitsForStandby`. Inductive is `UnlockWaits`: the DBC was told to halt by the shutdown that is
  under way (`HaltInShutdown`), whose timeout runs or is queued
  (`TimeoutComes`). Three facts about the table carry it: after the halt
  `ShuttingDown` is left for stand-by only (`ShutdownRow`), its timeout is never
  dispatched in vain (`TimeoutRow`), and `LoopInLeaf`, which entry action runs in
  which leaf, covers the steps between.
* `InhibitorsFollow`: `InhibitorsFollowHolds`. Inductive are `UpdateInhibited` and
  `MapInhibited`: where hold and inhibitor differ, a handler or an entry action is
  between its two writes, or a beginning and an end have overlapped and `gaps` says
  so until the next that does not.
* `RailsHaveHolders`: `RailHasHolder`. Inductive are `HoldCapped` and `RailHeld`: once
  `EnterStandby` has cut or let be (`InStandby`), a rail that is on is `Held`, which
  counts a handler that has decided to cut (`Cutting`) and the end of an update that
  is queued (`Coming`).

`CockpitProofs` proves, for any scenarios, channels, settings and events of
others, hence without the bounds of the run:

* `CockpitTypes`: `TypeOK`. The types need two facts that `TypeOK` does not say:
  a move heads for a leaf, and a goroutine about to set the lamps was called with
  a switch.
* `TimerRunsAtRest`: `TimerOnlyAtRest`. Inductive is `Placed`, which speaks of the
  state the machine heads for: the exit action runs before the move, and what is armed
  in the hold of a hibernation is on record.
* `CountdownHasTimer`: `CountdownIsTimed`. Inductive is `Timed`: between flag and
  timer lies a step of the watcher, between timer and exit an event in the queue;
  `AutoStandbyLeavesRest` shows from the table that this event leaves the group.
  In the hold it does not, so that `Excused` names what began there.
* `IdleVehicleLocksItself`: `IdleVehicleLocksUnless`. Inductive is `Idles`: a timer
  that is off in the group is about to be armed by somebody (`Arming`: a handler past
  its stop, its second check, or before its start), has sent its event, or its loss
  is on record.
* `StandbyStaysDark`: `StandbyIsDark`, from `Placed` and `Dark`, its extension to
  the steps after the entry action.
* `KickstandStepsAreHeard`: the refinement of `KickstandIsHeard` without its
  liveness, for any set of channels that has the kickstand.

`SignalProofs` follows a level through the input layer, for any channels, any of
them debounced, and any inputs:

* `HandlersAreTold`: when no edge, timer or resync is under way, each handler was
  last called with the level its switch has, unless the last look at the switch
  was out of date when it was taken (`sure`). Inductive is `Told`: the value a
  handler has or will have is the level, or another look is coming (`Coming`). It
  needs `Owes`, that a goroutine has channels to report only while it is in a
  resync.
* `StandLeavesNoDrive`: `StandEndsDrive`. Inductive is `Standing`: while the
  machine heads for drive mode, a stand that was reported down is in a callback,
  in the deferral or in the queue. `StandLeavesDrive` shows from the table that
  the event is taken, and `HopOnStartsNoDrive` that a callback that hop-on has
  silenced is not needed.
* `LampsFollowSwitches`: `BlinkersFollowSwitches`. Inductive is `Following`: lamps
  set by a switch show what all handlers were told, or a handler is about to act,
  or the machine is in stand-by or on its way to the restore.
* `HornIsReleased`: `HornEndsWithButton`. Inductive is `Sounding`: under a horn
  that sounds the button is reported pressed, or its release is in a callback.

The last two combine what the handlers do with `HandlersAreTold`.

`HandlebarProofs` proves, for any number of attempts, workers, tries, requests and
moves of the bar, and for every interleaving:

* `HandlebarTypes`: `TypeOK`. The types need to know that hop-on is left for a
  leaf (`MachineTypes`).
* `CoilsComeToRest`: `CoilsRest`. Inductive is `Driven`: each driven side that is
  not stuck has a worker between the switching on and the switching off of that
  side. A worker that cuts in may switch a side off that another one drives, or
  the other way round, but it still has its own coast or rollback ahead; and no cancel, restart or expiry
  touches a worker in its pulse (`OthersSpare`).

`SteeringProofs` proves, for any number of attempts, workers, tries, requests and
moves of the bar:

* `ParkedComesFree`: `ParkedIsFree`. Inductive are `Books` (which
  step belongs to which leaf, which worker to which attempt, which attempt to the
  current channel), `Powered` (as long as no write fails, a side under current has
  a worker of its kind between switching on and off), `ParkedClosed` (from its
  cancel on, Parked has no open attempt on its way) and `ParkedUnlocks`: after the
  look at the sensor nobody locks, and a bar that is locked has an unlock loop.
* `StandbyLatchTrue`: `StandbyLatch`. Besides `Books` and
  `Powered`, inductive are `Unserved` (the service mode is off and has no worker
  unless somebody asked for it), `StandbyWork` (nobody unlocks in stand-by on its
  own account, and no lock work is stopped in its pulse) and `StandbyTold`: a
  latch that differs from the bolt has a worker whose look at the sensor is still
  to come. It uses that stand-by is reached by the shutdown's timeout alone
  (`SelectedStandbyEvent`).
* `WindowsAreCancellable`: `WindowIsCancellable`. Inductive are `Books` and `Ticking`: an
  open window that ticks belongs to the current channel and no pulse has begun for
  it. The exception `crossed` is a real order of steps: the goroutine of one attempt is
  held up between its look at the position and its arming until the rider has gone
  into hop-on and back twice, it arms over a later window, and the callback that
  then runs stops a timer that is not its own.

Every invariant and action property that a passing run checks is also a theorem.
Only model-checked is what the prover cannot state: liveness (`RefusedDriveEnds`,
`DeferredUnlockServed`, and the part of `KickstandIsHeard` that says the handler is
told in the end). `RefusalsAreQueued` and `UnlocksWaitForStandby` are the safety half
of the first two: what has to happen is queued, and nothing takes it away.

## 5. Plan

| next | content |
|---|---|
| `Cockpit` | the worker's own Redis writes; switches that are held at boot |
| gestures | hold and double tap of one button |
| `Ride` | `engine:on/off` |
| `DbcPower` | failing inhibitors; the usb0 gate beside the rail |
| `Handlebar` | failing sensor reads |
| abstract interlock | brake and power as two bits with the permitted steps, implemented by `Ride` |

## 6. Not modelled

LED cue and fade files, PWM driver loading, sysfs, log output and
the parsing of Redis messages are device access or formats without control the
properties depend on; a cue's failure is `CueOutcomes`. The USB
link's gate (`usb0.go`) follows the rail or holds the link up and feeds nothing back
into the vehicle's state; it is planned. Seatbox, battery and keycard, and
the settings other than auto-standby, lock on disconnect and the service mode,
appear as guards with any value; so does the kickstand outside `Cockpit`. Redis outages
are not modelled: a Redis call succeeds, apart from the poweroff message, whose
failure `ShutPoweroff` and `DashboardOff` include, the publication of the state in
`DbcPower`, and those of the kickstand and of a blinker switch in `Cockpit`.
