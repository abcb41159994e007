--------------------------- MODULE ScriptTakeover ---------------------------
(***************************************************************************)
(* How the thermostat script gets onto one heater and into charge of it    *)
(* (src/shellyController.ts): the plan applies, startup deploys and self-  *)
(* heals that withDeviceRebuildLock queues, the calls each of them makes,  *)
(* the takeover that the new script runs on the device, the device's own   *)
(* schedule of should_be_on, and the admin who ends an override, which     *)
(* writes should_be_on outside that queue.                                 *)
(*                                                                         *)
(* Each action is one call with what follows its answer.  Calls that       *)
(* change nothing here (Switch.SetConfig, Script.PutCode, the relay, which *)
(* is in HeaterScript) are part of the next one that does.                 *)
(***************************************************************************)
EXTENDS Integers, Sequences, FiniteSets

CONSTANTS
  Plans,         \* the plans the server may send: one heating slot each
  FirstPlan,     \* of them, the one the device has had since before
  ConfirmCycles, \* HEARTBEAT_CONFIRM_CYCLES
  Overrides,     \* identities of calls of setSaunaOverride
  Horizon,       \* bound: the last instant
  MaxRequests,   \* bound: plans received and overrides ended
  MaxFaults      \* bound: calls that fail, reboots, restarts of the daemon

ASSUME TakeoverAssumption ==
  /\ \A p \in Plans : p.start \in Nat /\ p.stop \in Nat /\ p.start < p.stop
  /\ FirstPlan \in Plans
  /\ ConfirmCycles \in Nat \ {0}
  /\ {Horizon, MaxRequests, MaxFaults} \subseteq Nat

VARIABLES
  run,          \* where the script of each slot is; "on": its timer runs
  enabled,      \* the slots that start on boot
  active,       \* activeScriptSlot in KVS, Missing before the first takeover
  flag,         \* should_be_on in KVS
  schedule,     \* the entries of the device's schedule
  chain,        \* the rebuilds queued, the first of them under way
  job,          \* the call it awaits, and its locals
  planApplyInProgress,
  currentPlan,
  cached,       \* activeSlotCache
  beat,         \* the monitor: missed heartbeats, the sample at hand, may it heal
  sync,         \* each call of setSaunaOverride -> the write of should_be_on it awaits
  now,
  hist,         \* history: see Unmarred
  requests, faults

device == <<run, enabled, active, flag, schedule>>
daemon == <<chain, job, planApplyInProgress, currentPlan, cached>>
bounds == <<requests, faults>>
vars == <<device, daemon, beat, sync, now, hist, bounds>>

Slots == {1, 2}
Missing == 0
NoPlan == [start |-> 0, stop |-> 0]
Other(s) == 3 - s

Running(s) == run[s] # "off"

\* Timing: a takeover is four calls on the device itself, and is over before the next
\* rebuild, which comes over the network, asks which slot is active.
TakeoverOver == \A s \in Slots : run[s] \in {"off", "on"}

Idle == [awaits |-> "nothing", slot |-> 1, at |-> 0]

NoWrite == [plan |-> NoPlan, at |-> -1]

\* dirty: the device may not have the current plan, as a call failed or came late;
\* interrupted: the device lost its power, the daemon its memory, a call on the device
\* failed; stopFailed: of those, the one that stops the predecessor, and no script has been
\* stopped since
Unmarred == [dirty |-> FALSE, interrupted |-> FALSE, stopFailed |-> FALSE]

InSlot(p, t) == p.start <= t /\ t < p.stop
Entries(p) == {[at |-> p.start, value |-> TRUE], [at |-> p.stop, value |-> FALSE]}

\* a device set up earlier, by this version of the daemon or the one before it, whose
\* script in slot 1 knows no slots; the daemon has just started
Init ==
  /\ \E s \in Slots :
       /\ run = [r \in Slots |-> IF r = s THEN "on" ELSE "off"]
       /\ enabled = {s}
       /\ active \in IF s = 1 THEN {1, Missing} ELSE {2}
  /\ flag = InSlot(FirstPlan, 0)
  /\ schedule = {e \in Entries(FirstPlan) : e.at > 0}
  /\ chain = <<[kind |-> "startup", plan |-> NoPlan]>>
  /\ job = [Idle EXCEPT !.awaits = "active"]
  /\ planApplyInProgress = FALSE
  /\ currentPlan = NoPlan
  /\ cached = Missing
  /\ beat = [missed |-> 0, sample |-> "none", mayHeal |-> TRUE]
  /\ sync = [o \in Overrides |-> NoWrite]
  /\ now = 0
  /\ hist = Unmarred
  /\ requests = 0 /\ faults = 0

-----------------------------------------------------------------------------
(* Calls, and the queue of rebuilds. *)

Fault == faults < MaxFaults /\ faults' = faults + 1 /\ UNCHANGED requests
Fails == Fault
Requested == requests < MaxRequests /\ requests' = requests + 1 /\ UNCHANGED faults
Answered == UNCHANGED bounds

Kind == chain[1].kind
Awaits(call) == chain # <<>> /\ job.awaits = call

\* the first call of a rebuild
FirstCall(j) ==
  CASE j.kind = "plan" -> "deleteAll" [] j.kind = "heal" -> "probe" [] j.kind = "startup" -> "active"

Begun(j) == [Idle EXCEPT !.awaits = FirstCall(j)]

\* applyOperationalPlanInner begins by storing the plan
PlanOf(j) == IF j.kind = "plan" THEN j.plan ELSE currentPlan

\* withDeviceRebuildLock: a rebuild begins when the one before it has ended
Enqueue(j) ==
  /\ chain' = Append(chain, j)
  /\ IF chain = <<>> THEN job' = Begun(j) /\ currentPlan' = PlanOf(j)
                     ELSE UNCHANGED <<job, currentPlan>>

\* Mutant: a plan that is over leaves its flag up.
EndJobLeavesFlag(clean) ==
  /\ chain' = Tail(chain)
  /\ UNCHANGED planApplyInProgress
  /\ IF Len(chain) > 1 THEN job' = Begun(chain[2]) /\ currentPlan' = PlanOf(chain[2])
                       ELSE job' = Idle /\ UNCHANGED currentPlan
  /\ hist' = [hist EXCEPT !.dirty = IF Kind = "startup" THEN @ ELSE ~clean]

\* a rebuild ends; the end of any plan clears the flag of all of them
EndJob(clean) ==
  /\ chain' = Tail(chain)
  /\ planApplyInProgress' = (planApplyInProgress /\ Kind # "plan")
  /\ IF Len(chain) > 1 THEN job' = Begun(chain[2]) /\ currentPlan' = PlanOf(chain[2])
                       ELSE job' = Idle /\ UNCHANGED currentPlan
  /\ hist' = [hist EXCEPT !.dirty = IF Kind = "startup" THEN @ ELSE ~clean]

\* the next call of the same rebuild
Then(next) == job' = next /\ UNCHANGED <<chain, planApplyInProgress, currentPlan>>
NextCall(call) == Then([job EXCEPT !.awaits = call])

Marred == hist' = [hist EXCEPT !.dirty = TRUE]

-----------------------------------------------------------------------------
(* clearAllSchedulesAndScripts and applyHeaterSchedule. *)

\* Mutant: the old schedule is not cleared.
DeleteNothing ==
  /\ Awaits("deleteAll")
  /\ Answered
  /\ NextCall(IF Kind = "plan" THEN "flagOff" ELSE "flag")
  /\ hist' = [hist EXCEPT !.dirty = FALSE]
  /\ UNCHANGED <<run, enabled, active, schedule, flag, cached, beat, sync, now>>

\* A plan swallows the failures of its clearing, a heal ends there.
DeleteAll ==
  /\ Awaits("deleteAll")
  /\ \/ /\ Answered
        /\ schedule' = {}
        /\ NextCall(IF Kind = "plan" THEN "flagOff" ELSE "flag")
        /\ hist' = [hist EXCEPT !.dirty = FALSE]
     \/ /\ Fails
        /\ schedule' \in {schedule, {}}
        /\ IF Kind = "plan" THEN NextCall("flagOff") /\ Marred ELSE EndJob(FALSE)
  /\ UNCHANGED <<run, enabled, active, flag, cached, beat, sync, now>>

FlagOff ==
  /\ Awaits("flagOff")
  /\ NextCall("flag")
  /\ \/ Answered /\ flag' = FALSE
     \/ Fails /\ flag' \in {flag, FALSE}
  /\ UNCHANGED <<run, enabled, active, schedule, cached, beat, sync, now, hist>>

\* applyHeaterSchedule looks at the clock once
SetFlag ==
  /\ Awaits("flag")
  /\ \/ /\ Answered
        /\ flag' = InSlot(currentPlan, now)
        /\ Then([job EXCEPT !.awaits = "scheduleOn", !.at = now])
        /\ UNCHANGED hist
     \/ /\ Fails
        /\ flag' \in {flag, InSlot(currentPlan, now)}
        /\ EndJob(FALSE)
  /\ UNCHANGED <<run, enabled, active, schedule, cached, beat, sync, now>>

\* scheduleSetFlag, for an instant that lay ahead when the clock was looked at
Schedule(value, next) ==
  LET at == IF value THEN currentPlan.start ELSE currentPlan.stop
      entry == [at |-> at, value |-> value]
      after == IF value THEN [job EXCEPT !.awaits = next] ELSE [Idle EXCEPT !.awaits = next]
  IN
  \/ /\ at <= job.at
     /\ Answered
     /\ Then(after)
     /\ UNCHANGED <<schedule, hist>>
  \/ /\ at > job.at
     /\ Answered
     /\ schedule' = schedule \cup {entry}
     /\ Then(after)
     /\ IF at <= now THEN Marred ELSE UNCHANGED hist
  \/ /\ at > job.at
     /\ Fails
     /\ schedule' \in {schedule, schedule \cup {entry}}
     /\ EndJob(FALSE)

ScheduleSetFlag ==
  /\ \/ Awaits("scheduleOn") /\ Schedule(TRUE, "scheduleOff")
     \/ Awaits("scheduleOff") /\ Schedule(FALSE, "active")
  /\ UNCHANGED <<run, enabled, active, flag, cached, beat, sync, now>>

-----------------------------------------------------------------------------
(* deployTemperatureMonitor. *)

ActiveSlot == IF active = Missing THEN 1 ELSE active

DeployFails == Fails /\ EndJob(FALSE)
Stopped == hist' = [hist EXCEPT !.stopFailed = FALSE]

\* Mutant: the new script goes over the one in charge.
ReadActiveInPlace ==
  /\ Awaits("active") /\ TakeoverOver
  /\ Answered
  /\ cached' = ActiveSlot
  /\ Then([job EXCEPT !.awaits = "list", !.slot = ActiveSlot])
  /\ UNCHANGED <<device, hist, beat, sync, now>>

\* getActiveScriptSlot: the new script goes into the other slot
ReadActive ==
  /\ Awaits("active") /\ TakeoverOver
  /\ \/ /\ Answered
        /\ cached' = ActiveSlot
        /\ Then([job EXCEPT !.awaits = "list", !.slot = Other(ActiveSlot)])
        /\ UNCHANGED hist
     \/ DeployFails /\ UNCHANGED cached
  /\ UNCHANGED <<device, beat, sync, now>>

\* Script.List: the idle slot is stopped if it runs
ListScripts ==
  /\ Awaits("list")
  /\ \/ Answered /\ NextCall(IF Running(job.slot) THEN "stop" ELSE "start") /\ UNCHANGED hist
     \/ DeployFails
  /\ UNCHANGED <<device, cached, beat, sync, now>>

StopIdle ==
  /\ Awaits("stop")
  /\ LET stopped == [run EXCEPT ![job.slot] = "off"] IN
     \/ Answered /\ run' = stopped /\ NextCall("start") /\ Stopped
     \/ DeployFails /\ run' \in {run, stopped}
  /\ UNCHANGED <<enabled, active, flag, schedule, cached, beat, sync, now>>

\* Script.PutCode and Script.Start
StartScript ==
  /\ Awaits("start")
  /\ LET started == [run EXCEPT ![job.slot] = IF @ = "off" THEN "store" ELSE @] IN
     \/ Answered /\ run' = started /\ NextCall("verify") /\ UNCHANGED hist
     \/ DeployFails /\ run' \in {run, started}
  /\ UNCHANGED <<enabled, active, flag, schedule, cached, beat, sync, now>>

\* the deploy counts only if the device says that the new script has taken over
VerifyTakeover ==
  /\ Awaits("verify")
  /\ \/ Answered /\ cached' = ActiveSlot /\ EndJob(ActiveSlot = job.slot /\ ~hist.dirty)
     \/ DeployFails /\ UNCHANGED cached
  /\ UNCHANGED <<device, beat, sync, now>>

-----------------------------------------------------------------------------
(* The takeover: what a script does when it is started, in slot s. *)

On(s, stage) == run[s] = stage
MovesTo(s, stage) == run' = [run EXCEPT ![s] = stage]
OnDevice == UNCHANGED <<flag, schedule, daemon, beat, sync, now>>
DeviceCallFails == Fails /\ hist' = [hist EXCEPT !.interrupted = TRUE]
DeviceCallLands == Answered /\ UNCHANGED hist

StoreSlot(s) ==
  /\ On(s, "store") /\ OnDevice
  /\ \/ DeviceCallLands /\ active' = s /\ MovesTo(s, "stopOther")
     \/ DeviceCallFails /\ UNCHANGED active /\ MovesTo(s, "off")
  /\ UNCHANGED enabled

\* Mutant: the predecessor is left to the boot flags.
takeoverKeepOld(s) ==
  /\ On(s, "stopOther") /\ OnDevice /\ DeviceCallLands
  /\ MovesTo(s, "disableOther")
  /\ UNCHANGED <<enabled, active>>

\* the results of this and the next calls are not looked at
takeoverStopOld(s) ==
  /\ On(s, "stopOther") /\ OnDevice
  /\ \/ /\ Answered /\ Stopped
        /\ run' = [run EXCEPT ![s] = "disableOther", ![Other(s)] = "off"]
     \/ /\ Fails /\ hist' = [hist EXCEPT !.interrupted = TRUE, !.stopFailed = TRUE]
        /\ MovesTo(s, "disableOther")
  /\ UNCHANGED <<enabled, active>>

takeoverDisableOld(s) ==
  /\ On(s, "disableOther") /\ OnDevice
  /\ MovesTo(s, "enableSelf")
  /\ \/ DeviceCallLands /\ enabled' = enabled \ {Other(s)}
     \/ DeviceCallFails /\ UNCHANGED enabled
  /\ UNCHANGED active

takeoverEnableSelf(s) ==
  /\ On(s, "enableSelf") /\ OnDevice
  /\ MovesTo(s, "on")
  /\ \/ DeviceCallLands /\ enabled' = enabled \cup {s}
     \/ DeviceCallFails /\ UNCHANGED enabled
  /\ UNCHANGED active

Takeover(s) == StoreSlot(s) \/ takeoverStopOld(s) \/ takeoverDisableOld(s) \/ takeoverEnableSelf(s)

-----------------------------------------------------------------------------
(* The monitor and the self-heal. *)

\* pingHeartbeat: the slot last seen, then the one the device names
Alive == (cached # Missing /\ Running(cached)) \/ Running(ActiveSlot)
CacheAfterPing == IF cached # Missing /\ Running(cached) THEN cached ELSE ActiveSlot

\* a ping finds out, or fails
Ping(result) ==
  \/ Answered /\ result = Alive /\ cached' = CacheAfterPing
  \/ Fails /\ result = FALSE /\ UNCHANGED cached

PingAllHeartbeats ==
  /\ beat.sample = "none"
  /\ \E ok \in BOOLEAN : Ping(ok) /\ beat' = [beat EXCEPT !.sample = IF ok THEN "alive" ELSE "dead"]
  /\ UNCHANGED <<device, chain, job, planApplyInProgress, currentPlan, sync, now, hist>>

\* checkHeartbeatHealth; its second ping and the decision are one step
CheckHeartbeatHealth ==
  /\ beat.sample # "none"
  /\ LET missed == IF beat.missed < ConfirmCycles THEN beat.missed + 1 ELSE beat.missed
         confirmed == beat.sample = "dead" /\ missed >= ConfirmCycles
     IN
     \/ /\ ~confirmed
        /\ beat' = [beat EXCEPT !.sample = "none", !.missed = IF beat.sample = "alive" THEN 0 ELSE missed]
        /\ UNCHANGED <<chain, job, currentPlan, cached, bounds>>
     \/ /\ confirmed
        /\ \E alive \in BOOLEAN :
             /\ Ping(alive)
             /\ IF ~alive /\ ~planApplyInProgress /\ beat.mayHeal
                THEN /\ Enqueue([kind |-> "heal", plan |-> NoPlan])
                     /\ beat' = [missed |-> missed, sample |-> "none", mayHeal |-> FALSE]
                ELSE /\ beat' = [beat EXCEPT !.sample = "none", !.missed = IF alive THEN 0 ELSE missed]
                     /\ UNCHANGED <<chain, job, currentPlan>>
  /\ UNCHANGED <<device, planApplyInProgress, sync, now, hist>>

\* ten minutes, in which the heal and any takeover get to their end
HealIntervalPasses ==
  /\ ~beat.mayHeal /\ TakeoverOver
  /\ \A i \in DOMAIN chain : chain[i].kind # "heal"
  /\ beat' = [beat EXCEPT !.mayHeal = TRUE]
  /\ UNCHANGED <<device, daemon, sync, now, hist, bounds>>

\* the heal looks again when its turn has come
ProbeUnderLock ==
  /\ Awaits("probe")
  /\ \E alive \in BOOLEAN :
       /\ Ping(alive)
       /\ IF alive THEN EndJob(~hist.dirty) ELSE NextCall("deleteAll") /\ UNCHANGED hist
  /\ UNCHANGED <<device, beat, sync, now>>

-----------------------------------------------------------------------------
(* The end of an override, and the rest of the world. *)

\* The override is cleared, which is HeaterScript's, and should_be_on is to be brought in
\* step with the plan: the request leaves with what the plan says now.
setSaunaOverride(o) ==
  /\ Requested
  /\ sync[o] = NoWrite
  /\ sync' = [sync EXCEPT ![o] = [plan |-> currentPlan, at |-> now]]
  /\ UNCHANGED <<device, daemon, beat, now, hist>>

\* A plan or an instant overtook the write, and no apply writes the flag after it.
Overtaken(o) ==
  /\ sync[o] # [plan |-> currentPlan, at |-> now]
  /\ job.awaits \notin {"flagOff", "flag"}

\* The write lands, in the midst of whatever rebuild; or it fails.
SyncFlag(o) ==
  /\ sync[o] # NoWrite
  /\ sync' = [sync EXCEPT ![o] = NoWrite]
  /\ \/ /\ Answered
        /\ flag' = InSlot(sync[o].plan, sync[o].at)
        /\ IF Overtaken(o) THEN Marred ELSE UNCHANGED hist
     \/ Fails /\ UNCHANGED <<flag, hist>>
  /\ UNCHANGED <<run, enabled, active, schedule, daemon, beat, now>>

\* a plan arrives
applyOperationalPlan ==
  /\ Requested
  /\ \E p \in Plans : Enqueue([kind |-> "plan", plan |-> p])
  /\ planApplyInProgress' = TRUE
  /\ UNCHANGED <<device, cached, beat, sync, now, hist>>

\* an instant begins, and the entries for it fire
Tick ==
  /\ now < Horizon
  /\ now' = now + 1
  /\ flag' = IF \E e \in schedule : e.at = now'
             THEN \E e \in schedule : e.at = now' /\ e.value ELSE flag
  /\ UNCHANGED <<run, enabled, active, schedule, daemon, beat, sync, hist, bounds>>

\* the device starts the scripts that are enabled
Reboot ==
  /\ Fault
  /\ run' = [s \in Slots |-> IF s \notin enabled THEN "off" ELSE IF active = Missing THEN "on" ELSE "store"]
  /\ hist' = [hist EXCEPT !.interrupted = TRUE, !.stopFailed = FALSE]
  /\ UNCHANGED <<enabled, active, flag, schedule, daemon, beat, sync, now>>

\* the daemon starts again and deploys its script
Restart ==
  /\ Fault
  /\ chain' = <<[kind |-> "startup", plan |-> NoPlan]>>
  /\ job' = [Idle EXCEPT !.awaits = "active"]
  /\ planApplyInProgress' = FALSE
  /\ currentPlan' = NoPlan
  /\ cached' = Missing
  /\ beat' = [missed |-> 0, sample |-> "none", mayHeal |-> TRUE]
  /\ sync' = [o \in Overrides |-> NoWrite]
  /\ hist' = [hist EXCEPT !.dirty = FALSE, !.interrupted = TRUE]
  /\ UNCHANGED <<device, now>>

JobStep ==
  \/ DeleteAll \/ FlagOff \/ SetFlag \/ ScheduleSetFlag
  \/ ReadActive \/ ListScripts \/ StopIdle \/ StartScript \/ VerifyTakeover \/ ProbeUnderLock
Monitor == PingAllHeartbeats \/ CheckHeartbeatHealth

Next ==
  \/ JobStep \/ Monitor \/ HealIntervalPasses
  \/ \E s \in Slots : Takeover(s)
  \/ \E o \in Overrides : setSaunaOverride(o) \/ SyncFlag(o)
  \/ applyOperationalPlan \/ Tick \/ Reboot \/ Restart

\* calls are answered or time out, the monitor's interval and the clock go on, and a
\* script on the device makes its calls
Fairness ==
  /\ WF_vars(JobStep) /\ WF_vars(Monitor) /\ WF_vars(HealIntervalPasses) /\ WF_vars(Tick)
  /\ \A s \in Slots : WF_vars(Takeover(s))

Spec == Init /\ [][Next]_vars /\ Fairness

-----------------------------------------------------------------------------
(* Properties. *)

Stages == {"off", "store", "stopOther", "disableOther", "enableSelf", "on"}
JobTypes == [kind : {"startup", "plan", "heal"}, plan : Plans \cup {NoPlan}]
JobCalls == {"nothing", "deleteAll", "flagOff", "flag", "scheduleOn", "scheduleOff",
             "active", "list", "stop", "start", "verify", "probe"}

\* The variables of the device and of the daemon keep their types.
TypeOK ==
  /\ run \in [Slots -> Stages] /\ enabled \subseteq Slots /\ active \in Slots \cup {Missing}
  /\ flag \in BOOLEAN /\ schedule \subseteq UNION {Entries(p) : p \in Plans \cup {NoPlan}}
  /\ chain \in Seq(JobTypes) /\ job \in [awaits : JobCalls, slot : Slots, at : 0..Horizon]
  /\ planApplyInProgress \in BOOLEAN /\ currentPlan \in Plans \cup {NoPlan}
  /\ cached \in Slots \cup {Missing}
  /\ beat \in [missed : 0..ConfirmCycles, sample : {"none", "alive", "dead"}, mayHeal : BOOLEAN]
  /\ now \in 0..Horizon
  /\ sync \in [Overrides -> [plan : Plans \cup {NoPlan}, at : -1..Horizon]]
  /\ hist \in [dirty : BOOLEAN, interrupted : BOOLEAN, stopFailed : BOOLEAN]

\* "at most one slot is ever enabled" (line 992), unless a call on the device failed.
OneEnabled == hist.interrupted \/ Cardinality(enabled) <= 1

\* Two thermostats never work one relay, whatever deploys, reboots and takeovers overlap,
\* unless the call that stops the old one failed and none was stopped since; and no boot
\* can start two.
OneThermostat == (hist.stopFailed \/ ~(On(1, "on") /\ On(2, "on"))) /\ OneEnabled

\* "A slow or failed upload therefore never leaves the heater without its watchdog"
\* (line 538): without a reboot or a failure on the device one script always runs.
NeverUnwatched == hist.interrupted \/ \E s \in Slots : Running(s)

\* The plan that came last is the one on the device: with the queue empty should_be_on
\* is what it says, unless a call of its apply failed or came too late, or the write that
\* follows the end of an override came after a plan or an instant had overtaken it.
FlagFollowsPlan ==
  chain = <<>> /\ currentPlan # NoPlan /\ ~hist.dirty => flag = InSlot(currentPlan, now)

\* Whatever failed, rebooted or restarted, in the end a script is in charge for good.
SomeoneInCharge == <>[](\E s \in Slots : On(s, "on"))
=============================================================================
