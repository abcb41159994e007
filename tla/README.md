# Waverly daemon: verification project

The daemon runs on a Raspberry Pi beside the saunas. It writes booking codes to
Z-Wave door locks, watches that those locks still answer, re-pairs them on
request, runs two Shelly-controlled saunas and a TOLO steam room from the
server's operational plan, and pages through PagerDuty. This directory holds TLA+
modules translated from `src/src/*.ts`, TLC configurations that model-check them,
and TLAPS proofs. `PROJECT.json` lists the runs, the code each definition stands
for, the hazards, and a mutant for every property.

## Running

    tlc -workers 2 -config LockAccess.cfg LockAccessMC
    tlapm SteamControl_proofs.tla

The other runs follow the `runs` list of `PROJECT.json`. Every run ends within
five minutes on two cores; the longest are `room_fans` (2 to 3 minutes, 5.8 million states),
`sauna_alerts` (nearly as long), and `lock_liveness` and `script_takeover` (2 minutes
each). The proofs take at most a minute each, `Locks_proofs` four and `RoomFans_proofs` six.

## The system: an inventory

JavaScript runs one callback at a time, so everything hard here happens *between*
awaits: state read before one and used after it, callbacks of several flows
interleaved, calls that time out though they took effect, and restarts that find
devices and files as an earlier life left them.

| Part | State | Operations | Talks to | What is hard | What makes it correct |
|---|---|---|---|---|---|
| Lock access, `lockManager.ts`, `lockSlots.ts` | interval tree, code → (slot, ref-count), start and stop timers, `retired`, `healing` | add and remove an interval, allocate and free a slot, heal, reapply, retire | booking socket, timers, lock health, the lock by radio | awaits in every write, overlapping bookings of one code, heal racing the timers, commands lost or unconfirmed | no two codes in one slot; a code is in the lock exactly while a booking of it is under way; heal brings back what is due |
| Lock liveness, `lockHealth.ts`, `lockOutOfOrder.ts` | last heard, open incidents, `checking`, pairing flag, marks file | watchdog tick, heal check, probe, re-interview, mark | driver, PagerDuty, lock access | checks from three callers, marks and pairing in the middle of one, lost HTTP calls, restart | one check at a time; incidents agree with PagerDuty; no page about a marked lock; a silent lock is paged |
| Re-pairing and groups, `lockPairing.ts`, `lockGroups.ts`, `index.ts` | flow, timeout, PIN prompt, groups, mapping file | start, stop, PIN, controller events, adopt, retire, load at startup | controller, admin channel, watchdog | starts and stops awaiting the controller, late events, interviews that never end, restart | the flow gives up; the flag goes down with it; the file names the locks managed |
| One-shot timers, `scheduledTask.ts` | timeout, final state | arm, wake, cancel, finish early | lock access, fans, blinks | delays beyond 2^31-1 ms, clock steps, cancel between two links | runs once, never early, never after a cancel |
| Steam room, `steamController.ts`, `fanCooldown.ts` | override, plan, last decision, cooldown, apply flags | override, plan, tick, apply, status, stop | TOLO unit over UDP, plan channel | decisions landing between round-trips, lost replies, shutdown, restart mid-cooldown | never on without its backstop; the latest decision wins; one bounded cooldown per session |
| Heater device script, `shellyController.ts` 544-1017 | on-time log, `offUntil`, manual reset, heartbeat time | thermostat cycle, lockouts, heartbeat endpoint | KVS, relay, daemon | asynchronous KVS reads, log and relay apart, overflow | at most 60 of 70 minutes on; a lockout keeps the relay off; no heartbeat, no heat |
| Script takeover, `shellyController.ts` 509-575, 990-1016 | active slot, enabled slots | upload, start, store slot, stop and disable the old one, enable | device, rebuild lock | reboot between two steps | never two scripts, always one at boot |
| Plan application, `shellyController.ts` 1159-1420 | rebuild chain, `planApplyInProgress`, current plan | apply, clear, deploy, self-heal | devices, monitor | two plans, self-heal against apply, unreachable devices | rebuilds do not interleave; the last plan wins |
| Heater override, `shellyController.ts` 2214-2231 | KVS `override`, its expiry, `should_be_on` | set | device script | three writes, any may fail | an "on" expires |
| Lights, fans, blinks, `blink.ts`, `shellyController.ts` 125-220 | tasks, running cooldowns | schedule, blink, cool down | relays, plan | cancel during an await, stale resting state | the schedule has the last word |
| Monitor and alerts, `shellyController.ts` 1424-2090, `alertUrgency.ts` | failure counters, first-seen times, opened keys | cycle, trigger, resolve | devices, PagerDuty | cycles that overlap, triggers in flight | a lasting fault pages once, a cleared one resolves |
| Socket clients, `bookingWebSocketClient.ts`, `saunaScheduleClient.ts` | socket, reconnect, heartbeat and pong timers | connect, reconnect, disconnect, dispatch | server; entry points of all parts | events of an old socket, messages lost while away | one live socket; no reconnect after a disconnect |
| Admin lock registry, `lockRegistry.ts` | map of lock nodes | read codes, write a code, auto-lock | locks | a second writer of slots | managed slots are left alone |
| TOLO client, `tolo/` | socket, queue, call chain | exchange with retries, frame cutting | unit | late replies, split datagrams | a reply answers its own request |
| PagerDuty client, `cronTimespec.ts`, `lib/`, simulator | none | one request, conversions | | DST, yearless timespecs | |

## The modules

A theorem module `X_proofs` extends its component module `X` (`Locks_proofs` extends
three, LockAccess, LockPairing and ScheduledTask, whose variables are apart); `XMC` gives a
configuration the values that a `.cfg` cannot write. Operators named as mutants
("mutant of ..." above them) are wrong variants of the definition they stand
beside; no specification uses them, they are what each property is tried against.

**LockAccess** is one `LockManager`. `job` holds the calls of
`allocateCodeSlot`/`freeCodeSlot` suspended on the radio, `sendQueue` the order in
which the driver sends their commands, `lockHolds` the lock itself. Each action is
what one callback does up to its next await: the timers, `addAccessInterval` with
its capacity test, the answers to write, clear and read-back (accepted, rejected, or
acknowledged and not stored), heal with its re-interview, the walk of
`reapplyAccess`, and retirement. `LockAccessMC` supplies booking layouts.

**LockLiveness** is `LockHealth` and `checkLiveness` for one lock with the callers
that start a check, the mark, the pairing flag, retirement, restart, and the
incidents at PagerDuty. A call of `checkLiveness` is a member of `Checks`; times
appear through the limits they are compared with. `calls` are the requests to PagerDuty
that are under way: the daemon awaits none of them, so `Deliver(i)` may land any of
them first. `newest` is a history variable: for each incident, whether the last request
about it is still out, has landed, or says nothing any more because it failed or an
older one landed after it.

**OneShot** is the abstract promise of a timer. **ScheduledTask** is the chain of
timeouts with a monotonic clock and a time of day that may be set; it implements
`OneShot` under the mapping of its final state.

**LockPairing** is the pairing flow, the groups that it adopts into and retires
from, the mapping file, and the part of startup that reads it, around a model of
the controller's events. It composes `lockPairing.ts`, `lockGroups.ts`, the pairing
flag of `lockHealth.ts` and the startup of `index.ts`.

**FanCooldown** holds the pure decisions of `fanCooldown.ts`. **SteamControl** uses
them: `mem` is the controller's module state, `apply` the call that the running
apply awaits with the values it pinned (`awaits = "nothing"` is `applyRunning =
false`), `unit` the TOLO unit. Every call may be answered, lost, or land without an
answer. `Landed`, `Less` and `ClockTick` follow the unit as the comments of
`steamController.ts` and the device simulator describe it.

**DutyLog** is the on-time log of the heater script, pure operators. **HeaterScript**
is the script around it, one action per callback: `cycle.awaits` names the KVS read
a cycle is waiting for, `script` holds the script's globals, `kvs` the keys, `calls`
the calls of `setSaunaOverride` by the daemon, each with its write that is still to
come. A tick of the clock is one period of the script's timer.

**ScriptTakeover** is how that script gets onto the heater: `chain` is the queue of
`withDeviceRebuildLock` (plan applies, startup deploys, self-heals), `job` the call
the first of them awaits, `run[s]` where the script in slot `s` is between its start
and its timer, `beat` the heartbeat part of the monitor. It composes the daemon's
applies, the device's scripts, its schedule of `should_be_on`, the monitor's
self-heal, reboots of the device and restarts of the daemon. `sync` is the one writer of
`should_be_on` that is not in that queue: a `setSaunaOverride('none')` after its awaited
`setKVS`, with the plan and the instant it has read for its write (`SyncFlag`).
`hist.stopFailed` records a `Script.Stop` of a takeover that failed, which the script
does not look at.

**SaunaAlerts** is the rest of the monitor: a cycle and the sweep as the stages of
`cycles`, the counts and first-seen times of one check, the temperature history, and
`calls`, the requests to PagerDuty that are under way, which may land in any order,
or land without an answer, or not at all. `ForceOff` is the answer to the `setSwitch` that
`checkHeartbeatHealth` awaits between a failed probe and the page. The checks share only the readings, the
outage test and the sweep, so a behaviour follows one of them, picked in `Init`.

**RoomFans** is one room's lights and fan: `job` is the apply of a plan, `schedule`
the device's own, `fanCooldownTasks` and `lightsBlinkTasks` the `ScheduledTask`s by
their times, `activeFanCooldown` and `cooldownOff` the cooldown and the `setSwitch`
that ends it, `blink` a blink between two of its calls. It includes `mergeBookings`
and uses `FanCooldown`. `RoomFansMC` supplies plans.

**SocketClients** is either of the two WebSocket clients, over a model of the `ws`
library (`state`, `listening`, the frames in `inbox`), of links that break silently
(`up`), and of a server that tells each connection what it has.

How they meet: ScriptTakeover hands `should_be_on` to HeaterScript's `planOn`, and
HeaterScript's heartbeat answers its pings (`Running`); the queue of plans is in
ScriptTakeover, what a plan does to the room in RoomFans; SaunaAlerts leaves the
self-heal to ScriptTakeover; SocketClients hands on the bookings that LockAccess
adds and the plans that ScriptTakeover and RoomFans apply.

## The runs

| Run | Shows | Bounds, and why they are enough |
|---|---|---|
| `lock_access` | ref-counts exact, lock and map in step, no lasting false alarm, no two codes in one slot; a heal gives every booking under way its slot | two overlapping bookings of one code and one of another: a shared code, a handover, and contention for two managed slots; add, remove and retire at any time; a command going wrong or a re-interview before, during and after any start. Once either has happened there are at most `MaxTroubled = 2` of the intervals |
| `lock_liveness` | one check at a time; incidents agree with PagerDuty; no page about a marked lock; a deaf lock is paged for good; the incident of one that answers again closes | two checks (more would only queue behind the same `checking` entry), two outside events, a write, a lost call or a restart; a watchdog tick begins with fewer than `MaxCalls` requests out, and what follows it adds more, so that requests about one incident pass each other |
| `scheduled_task` | `OneShot` refined: runs once, never early, never after a cancel; ends | delays up to almost three links, two clock steps |
| `lock_pairing` | flag and flow agree, a flow is timed, file and groups agree across a restart, adoption as asked | two servers, four nodes, two starts, two restarts, a failure: replacement, collision, and a restart in the middle |
| `steam_control` | backstops armed; the latest decision holds; the fan stays within its cap and starts once per session; the unit follows the plan | six instants, two inputs, one failed call, one touch of the panel, one restart; plans with a past, a present and a future period |
| `heater_script` | the log tells the relay; on only when every condition allows it; lockouts neither false nor lost; an "on" override has an expiry | five timer periods, two inputs and a fault: a cycle is disturbed at any callback, and one more follows; five classes of readings around TEMP_ON and TEMP_OFF |
| `heater_duty` | finding: 60 of 70 minutes of heating in two intervals pass unnoticed | 14 periods stand for 70 minutes, the limit for 60; no fault is needed |
| `script_takeover` | one thermostat unless the stop of the old one failed; one script on boot; one always running; `should_be_on` follows the last plan unless the write of an override was overtaken; a script is in charge in the end | two plans that disagree at every instant, three instants, one fault, two requests (a plan or the end of an override): an apply, a heal, a startup deploy and the write of an override meet, and the fault falls on any call of any of them, the scripts' own included. |
| `sauna_alerts` | pages are earned; a standing fault ends as one incident of the right urgency; none stays open when all is well | counts of one to three cycles and a window of two, so that both sides of each limit occur; one lost request, restart or incident closed by hand; up to two requests under way; overlap of two cycles for a check that counts |
| `room_fans` | lights follow the bookings; the fan serves them and rests after its cooldown; every cooldown is watched | seven instants, two plans out of four, two faults: a plan comes in any instant of a slot, its cooldown or the next slot, after a restart as well; bookings that touch, that outlast their slot, that cross two, that begin with a later slot |
| `fan_cut` | finding: a booking that begins with the next slot loses the fan | one plan with such a booking, no fault: nothing but the code's own timers is needed |
| `socket_clients` | one socket with listeners, never stranded, in the end all that the server has | two items, three sockets alive at once, four changes, three faults: a close, an error and a dead link may follow each other |

Symmetry is not used: the runs are small enough without it, and the liveness runs
could not use it. Deadlock is not checked where the system really may stop (all
bookings are over, all bounds used up).

## Disagreements of the code with its comments

`heater_duty` and `fan_cut` are runs. The others with a configuration have one that shows them and is not
part of the list of runs; all of them end in a violation.

* `HeaterDuty.cfg`: `totalTimeOnForCompleteIntervals` starts at 0 and is only ever
  decreased (`shellyController.ts:722`), so the time compared with 60 of 70 minutes
  is that of the present interval, less what was trimmed: the duty limit of the
  comment at line 741 is one hour without a break, and a negative total loosens even that.
* `RoomFansCut.cfg`: a booking begins with a later slot, and the cooldown of the slot before
  is still going on. The off that the plan put on the device falls on the same instant as
  the on of the booking, and the cooldown ends with "heater is back on", which switches
  off the fan that the schedule has just turned on (`shellyController.ts:187`). The
  comment at 1374-1378 promises that the off "can never cut the fan during a later
  booking"; the one at 123-124 knows of the instant. A booking across two slots is cut in
  the same way.
* `LockAccessCapacity.cfg`: the test of `addAccessInterval` looks only at end points
  of other intervals inside the new one (`lockManager.ts:419`); a short booking inside
  longer ones is admitted unseen. The comment promises every point of the interval.
* `LockAccessRefCount.cfg`: a start refused for want of a slot counts nothing, but its
  stop still takes one from the code (`lockManager.ts:317`), and so cuts another
  booking of that code off.
* `LockAccessStale.cfg`: `reapplyAccess` walks a snapshot across awaits and writes the
  code of a booking that has ended meanwhile (`lockManager.ts:292`).
* `LockAccessPast.cfg`: a clear overtakes the read-back of a write still unanswered;
  the write is retried and stays in the lock (`lockManager.ts:393`).
* `LockLivenessRestart.cfg`: the silence incident of a lock that answers again may stay open,
  where the comment at `lockHealth.ts:16` has it resolve itself. Which incident is open is
  memory only, so a restart forgets it (150); and with `MaxFaults = 0` as well, as the
  trigger and the resolve are requests of their own that nobody awaits, and a trigger that
  lands after its resolve is never looked at again (153, 209).
* `LockPairingStuck.cfg`: a lock that joins clears the timeout, and if it is never
  ready the pairing flag stays up and no lock is watched (`lockPairing.ts:264`).
Met while modelling, without a configuration of their own; the property named leaves
the case out and says so.

* Locks: a retired lock may still be written by calls already suspended; a code that
  finds no slot is not tried again; a re-interview begun before pairing goes on beside
  it; a start that the controller refuses overwrites the request under way (`collided`
  of `AdoptedAsAsked`); a restart between the exclusion of a server's only lock and its
  replacement leaves that server without a group (`served`).
* Steam: one failed call of the apply that ends a session loses its fan cooldown, as the
  decision was recorded before the call (`steamController.ts:214`).
* Heater script: a failed read of `manualResetRequired` at the start clears a stored
  lockout (`LockoutStays`); a failed read of the override counts as none; a reading that
  falls fast predicts a temperature below TEMP_ON and closes the relay above TEMP_OFF
  for a cycle (`OnOnlyWhenPermitted`); the second write of an override that fails, or
  two calls that overlap, leave "on" without its own expiry, and a new "on" over an
  expired one may be dropped by the script's clearing of that (`OverrideBounded`); an off
  from outside is not in the log (`hist.outside`).
* Takeover: an apply looks at the clock once (`shellyController.ts:1303`) and, when a
  call of it fails, nothing repeats it while the heartbeats are in order
  (`FlagFollowsPlan`); the end of one plan clears `planApplyInProgress` for the next
  (1216), which the probe under the lock makes harmless; a reboot between the disabling
  of the old slot and the enabling of the new leaves no script on boot (1003), and a
  failed store at boot stops the only one, until the self-heal (`NeverUnwatched`). A
  takeover goes on when its `Script.Stop` of the old slot fails (1003-1005, 1013): both
  thermostats then work the relay until the next deploy (`hist.stopFailed` of
  `OneThermostat`). `setSaunaOverride('none')` computes `should_be_on` and sends it outside the
  rebuild queue: a plan or a slot boundary that comes while the write is under way is
  overwritten with the older value, against the comment at 2223-2224 (`Overtaken`).
* Alerts: the sweep of quiet keys knows only faults of the cycle it follows; an answer
  to a quiet trigger that is lost, or a lost quiet resolve, strands a quiet incident
  until a restart (`AllClear`); the count of the welded relay is never reset though its
  comment says "consecutive"; readings from before a slot are in the history unless a
  plan came with it; the override "off" is not looked at by the not-heating, not-hot and
  stuck checks; a heartbeat page may rest on the count of an older, slower cycle, and on a probe
  before the awaited force-off, during which the script may have come back (1857-1860,
  `PagesEarned`).
* Lights and fans: a cooldown start that awaits the device while a plan comes is revived
  after it (152); a booking or slot withdrawn while on has no off entry, and a plan that comes in a
  booking after the fan's time in its slot turns the fan on with no off (`Within`); a blink crossed
  by another switching turns it back, and a failed one leaves the lights flipped
  (`hist.lights`, `hist.fan`).
* Sockets: a handshake that is never answered has no timer of the daemon's; a
  `removeAccess` sent while the daemon was away never arrives (`missed`); a close after
  `disconnect` schedules a reconnect, and the close of an old socket may forget a newer
  one, both only while the daemon exits.

## Fairness

* `LockLiveness`: probes and interviews end or time out in the driver, the watchdog
  interval and the heal timer fire, time passes, and no request to PagerDuty is out for
  ever: the oldest is answered or fails (`Deliver(1)`), the order is left open.
  Nothing obliges the lock to answer or anybody to press a button.
* `ScheduledTask`: a timeout that is due fires and the clocks advance.
* `LockPairing`: the pairing timeout fires, calls to the controller return and its
  modes end; an interview need *not* end, which is the point of `LockPairingStuck.cfg`.
* `SteamControl`: the control interval fires and a call is answered or gives up
  after three attempts. Failures are bounded, so a daemon that stays up is in the end
  heard by the unit; that is what `FollowsPlan` is about.

* `ScriptTakeover`: calls of the daemon are answered or time out, the monitor's interval
  and the clock go on, ten minutes pass, and a started script makes its calls. Faults
  are bounded, so the last reboot or failure is followed by a quiet time, in which
  `SomeoneInCharge` must come true.
* `SaunaAlerts`: the cycles go on and requests end. Nothing obliges a fault to stay or
  go: `StandingFaultIsKnown` and `AllClear` speak of a world that `Settles`.
* `SocketClients`: timers fire, frames on a connection that is up arrive, a handshake
  ends (the operating system gives up on it), and the closing of a socket ends.

`LockAccess`, `HeaterScript` and `RoomFans` state no liveness: what they promise is
promised at each instant.

## What is proved

Each proof module shows `Init => IInv`, one lemma per action for `IInv /\ Next =>
IInv'`, and the theorem from those and the specification.

| Module | Theorems | The invariant, and why it is needed |
|---|---|---|
| `Locks_proofs` | `TypeCorrect`, `NoSharedSlot` | `SlotsDistinct` needs that a code with a count has a managed slot and that a free one is chosen outside the map |
| | `CountsAreExact` | the count of a code is the number of its intervals under way: the steps that start or stop one add it to or take it from a finite set, and the size follows. The set is finite by induction over the steps, so there may be any number of intervals |
| | `HealGivesAccessBack` | a heal visits the intervals one await at a time while others start and stop. `HealInv`: an interval under way that has its code to itself and no slot is still to be visited. It rests on a free slot being there for a code without one, by counting (`FreeExists`) |
| | `LockFollowsMap`, `FalseAlarmsEnd` | nothing can be said of the lock while commands are in flight, so `FlowInv` says what those commands will still do: of one slot the last of them leaves what the map asks for (`Orderly`), and an open incident has a read-back coming that will resolve it. `JobsOnce`: the start and the stop of an interval each make their call once |
| | `TasksAreOneShot` | `StartTask` and `StopTask` of `LockAccess` are `OneShot`s: a task that ended is not touched again, and an interval's two tasks are made and cancelled together (`Paired`) |
| | `RunsOnce`, `TimeoutWhilePending`, `Implements` | of `ScheduledTask`, the chain of timeouts under such a task. The refinement needs that a timeout exists exactly while the task is pending; a step maps to a step of `OneShot` or to a stutter |
| | `FlagNeverLost`, `NeverWaitsUntimed`, `NoManagerForTheGone` | `FlowOK` and `BooksOK`: a start or stop under way belongs to the mode it saw; nodes not yet given out are in no group and no file |
| | `LocksSurviveRestart`, `AdoptionHonoursRequest` | `SavedOK`: what `loadLockGroups` would make of the file now is the groups there are, which rests on ids that grow (`IdsOK`: a retired node does not come back as somebody else's); and the request held while a lock joins is the one that was asked for, until a refused start overwrites it (`RequestOK`) |
| `LockLiveness_proofs` | `TypeCorrect`, `ChecksExclude` | exclusion is inductive with the types; it holds for any number of checks |
| | `MarkedLockRaisesNoPage`, `IncidentsMatchMemory` | the first is an action property: it needs no invariant but the types, and one case per handler. For the second `Agree`: the last request about an incident asks for what the memory says, wherever among the others it stands, and when it lands, no older one having undone it, the incident is as remembered |
| `SteamControl_proofs` | `TypeCorrect`, `NeverWithoutBackstop` | `BackstopArmed` alone is not inductive: the call that switches on is made safe by a timer armed several round-trips before. `ArmedFirst` carries that timer through them, and rests on timers of at least two instants and on an apply that straddles at most one |
| | `DecisionsHold`, `FanEndsByCap`, `OneCooldownPerSession` | `SteamInv`: what the memory holds (`Remembers`) and what an apply pinned before its awaits (`Serves`) are never of a later session than the last that ended; an apply whose decision is out of date is followed by another (`FollowedBy`); the timer of a fan that is on runs out by the cap and one backstop (`Capped`) |
| `SaunaAlerts_proofs` | `PagesAreEarned` | the memory never runs ahead of what was seen: counts are at most the readings since the last break (`Counted`), the time of the first fault is no older than it, and the temperatures are no more than the cycles since the plan came (`Recorded`), at each stage of each overlapping cycle; a cycle that awaits the force-off before its page found the relay on and the script silent |
| `ScriptTakeover_proofs` | `TypeCorrect`, `OneThermostatHolds`, `NeverUnwatchedHolds`, `FlagFollowsPlanHolds` | three parts. `OnePast`: however many scripts run, one is beyond the call that stops the other, until such a call fails. `Steady`: without an interruption only the active slot takes over, and a deploy that has asked which that is finds it so until it starts the next; it needs that a takeover is over when a deploy asks. `Promise`: from the clearing on, each call of an apply adds its part to what flag and schedule promise, and a tick keeps it; `Queue` rules out that a startup deploy, which leaves `dirty` alone, is in that part. The write of an override that nothing overtook says what flag and schedule promise anyway, or an apply writes after it |
| `SocketClients_proofs` | `TypeCorrect`, `OneListenerHolds`, `NeverStrandedHolds`, `StatusIsTrueHolds` | none is inductive alone: a close forgets whatever socket is held, which is harmless only because every other one is closed or has lost its listeners (`Others`), and the reconnect timer makes a second socket only if one is held while it runs (`Held`) |
| `HeaterScript_proofs` | `LogFollowsRelayHolds`, `OnOnlyWhenPermittedHolds`, `OverrideBoundedHolds`, `NoFalseLockoutHolds`, `LockoutStaysHolds` | `Calm`: what an undisturbed cycle found out by each read it still knows at the last one, several callbacks later. `LogFollows` needs that a script which has not started has an empty log, and that a trim drops whole intervals and keeps the parity, shown for any log. `Bounded`: one call of `setSaunaOverride` at a time, and only between its two writes is an "on" without its expiry |
| `RoomFans_proofs` | `BookingsAreMerged`, `TypeCorrect`, `TheLightsFollowBookings` | the lemmas about the calls come first: `BookingsAreMerged` (the merged periods are apart, cover the instants of the bookings and no others, and each begins with a booking), `LightsCallsOK`, `ApplyCallsOK` (which calls a plan makes, and which come behind which). Then `LightsServed`: while the plan is applied, each switching that it asks for is in the schedule, has happened, or is among the calls to come (`After`), and no blink begins before its time (`BlinkShape`, `BlinksLast`) |
| | `TheFanServesBookings`, `TheFanRests`, `TheCooldownIsWatched` | `FanServed` says of the fan what `LightsServed` says of the lights, and besides: an off is ahead of every fan that is on (`Rests`), nothing left of an earlier slot or plan can switch off a fan that is owed to a booking (`Serves`, `Owed`), and a cooldown is in a timer, in a start, in memory or still to come (`WatchesAt`). Of the plan they need what the properties say, slots that are `Apart`; of a slot behind a booked one `Handed`: none of its bookings has begun when it does (`HandedOver`) |

The assumptions are those the modules name (`AccessAssumption`, `SteamAssumption`,
`PairingAssumption`, `TakeoverAssumption`, ...): bounds are natural numbers, a cap on
delays is positive, there are finitely many codes and slots and `NoCode` is not a code,
configured servers do not share a lock and their nodes were given out before the daemon
started, the backstop timers last at least two instants, a heating slot begins before it
ends, an override lasts at least an instant. The number of intervals, checks, cycles,
callers and sockets is not bounded. TLC evaluates each assumption. No theorem about a
room assumes anything of the plans: what a promise needs of a plan stands in the property.

Only model-checked:

* what depends on fairness or ENABLED, which the prover does not reach: `DeafLockIsPaged`,
  `IncidentCloses`, `EventuallyRuns`, `FollowsPlan`, `SomeoneInCharge`,
  `StandingFaultIsKnown`, `AllClear`, `CatchesUp`;
* the running total of HeaterScript, which its invariants do not need; and the two
  violations, `DutyLimited` and `FanNeverCut`.

Induction over data is done without the library's induction theorems: where a list is
built by a recursive function (`mergeBookings`, `Each`), a step that fails would be the
first one, the least of a set of naturals (`LeastExists`), and the one before it held.

No module uses a recursive operator.

## Assumptions of the models

* Node ids are not used again, as the driver gives them out in increasing order.
* Two stops of one pairing mode count as one.
* Commands of one lock are sent in the order they were issued; a command is
  answered, rejected, lost, or acknowledged and not stored.
* A UDP packet does not arrive after the exchange that sent it has given up; late
  replies belong to the planned module of the exchange.
* An apply of the steam room is shorter than the unit of time, so it straddles at
  most one clock tick. Its calls give up after three seconds each.
* The panel switches the unit or its fan off, never on: a unit switched on by hand
  has no backstop of the daemon's, and gets one at the next tick only if it is wanted.
* Shutdown takes the plan channel down before the steam controller.
* A takeover, four calls on the device itself, is over before the next deploy asks for
  the active slot over the network (`TakeoverOver`), and a heal and its takeover within
  the ten minutes to the next (`HealIntervalPasses`).
* A cycle of the heater script, local calls, is over before the next timer period.
* A room's plan may be any set of slots and bookings. What is said of the fan is said of
  plans whose slots do not overlap (`Apart`); that a booking has it, of the first booked
  slot and of those whose bookings begin after them (`Handed`; `fan_cut` is what happens
  else); that it rests and is watched, of plans without a booking that goes on when the
  fan's time in its slot is over (`Within`).
* The script's own stop after it could not store its slot (1010) takes effect.
* The requests of one monitor cycle are sent at most once per check, and a request
  lands at most once.
* Frames of one connection arrive in order or not at all.
* Wording, logging, battery reports and status figures are left out.

## Not modelled, and the plan

In order:

1. **TOLO exchange** and frame cutting, then SteamControl over it instead of its
   three-way call: a late reply to an earlier attempt is taken for the answer to this
   one (`tolo/client.ts:243`).
2. **Admin lock registry** as a second writer of slots beside LockAccess.
3. **Requests of the daemon to a device**: `firstSuccessful` moves the address that
   answered in a list shared by concurrent calls, at an index read before the await
   (`shellyController.ts:342`): two calls may take two addresses out and put one back.
4. **Startup** (`index.ts`): the parts that touch modelled state are in LockPairing,
   SteamControl and ScriptTakeover (`Restart`); the order of the rest is not.
5. **The marks file** of `lockOutOfOrder.ts`: one synchronous write with a fallback.
6. Proofs: an abstract `DoorAccess` that LockAccess implements as long as nothing goes
   wrong: `LockFollowsMap`, `CountsAreExact` and `FlowInv` are most of its step lemma.

Left out for good: digest authentication and HTTP (I/O and hashing), time zones and
timespecs (library tables), the replies to admin requests (they change no state), the
simulator and command line tools (test equipment).
