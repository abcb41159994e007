---------------------------- MODULE SteamControl ----------------------------
(***************************************************************************)
(* The steam room (src/steamController.ts) and the TOLO unit it drives.    *)
(*                                                                         *)
(* An apply is a sequence of round-trips to the unit; between two of them  *)
(* overrides, plans, control ticks, status reports, the clock, somebody at *)
(* the panel and a shutdown interleave.  A round-trip may fail, and its    *)
(* command may have landed all the same.  The unit switches itself and its *)
(* fan off when their timers lapse.                                        *)
(*                                                                         *)
(* One unit of time is at least one control interval.  An apply takes less *)
(* (a call gives up after three one-second attempts), so the clock moves   *)
(* at most once during an apply.                                           *)
(***************************************************************************)
EXTENDS FanCooldown

CONSTANTS
  Plans,             \* the sets of periods the server may send
  Temperatures,      \* the readings of the room, in whole degrees Celsius
  OverrideTime,      \* OVERRIDE_ON_DURATION_MS
  PowerTimerTime,    \* POWER_TIMER_MINUTES
  FanTimerTime,      \* FAN_TIMER_MINUTES
  None,              \* null
  Horizon,           \* bound: the last instant
  MaxInputs,         \* bound: overrides and plans received
  MaxFailures,       \* bound: round-trips that fail
  MaxTouches,        \* bound: times somebody is at the panel
  MaxRestarts        \* bound: restarts of the daemon

Time == 0..Horizon
Period == {p \in [start : Time, stop : Time] : p.start < p.stop}

ASSUME SteamAssumption ==
  /\ Horizon \in Nat
  /\ PowerTimerTime \in Nat /\ PowerTimerTime >= 2
  /\ FanTimerTime \in Nat /\ FanTimerTime >= 2
  /\ OverrideTime \in Nat
  /\ MaxTime \in Nat /\ MaxTime >= 1
  /\ \A plan \in Plans : plan \subseteq Period

VARIABLES
  phase,           \* "up" (the client is there), "stopped" (it is null) or "dead"
  mem,             \* steamOverride, steamOverrideExpiresAt, schedule, lastDesiredOn,
                   \* endedBeforePlanAt and fanCooldown
  apply,           \* the apply under way: the call it awaits and its pinned values
  applyRequested,  \* an apply is to follow the one under way
  unit,            \* power and fan of the unit, with what is left on their timers
  now,
  hist,            \* history: see NoHistory
  inputs, failures, touches, restarts

bounds == <<inputs, failures, touches, restarts>>
vars == <<phase, mem, apply, applyRequested, unit, now, hist, bounds>>

Fresh == [override |-> "none", expiresAt |-> 0, schedule |-> {},
          lastDesired |-> "null", endedBeforePlanAt |-> None, fanCooldown |-> None]
Idle == [awaits |-> "nothing", desiredOn |-> FALSE, sessionEnded |-> FALSE, at |-> 0, endedAt |-> 0]
applyRunning == apply.awaits # "nothing"

\* unruffled: since the last decision no failure, clock tick, panel or shutdown;
\* heated: the room was driven on since the fan last started; sessionEndedAt: the
\* latest end of a session, as noticed by the daemon or told by a plan
NoHistory == [unruffled |-> FALSE, heated |-> FALSE, sessionEndedAt |-> 0]

Init ==
  /\ phase = "up" /\ mem = Fresh
  /\ apply = Idle /\ applyRequested = FALSE
  /\ unit = [powerOn |-> FALSE, powerTimer |-> 0, fanOn |-> FALSE, fanTimer |-> 0]
  /\ now = 0 /\ hist = NoHistory
  /\ inputs = 0 /\ failures = 0 /\ touches = 0 /\ restarts = 0

-----------------------------------------------------------------------------
(* Deciding what the room should do. *)

scheduledOn(m, t) == \E p \in m.schedule : p.start <= t /\ t < p.stop

ExpireOverride(m) ==
  IF m.override = "on" /\ now >= m.expiresAt
  THEN [m EXCEPT !.override = "none", !.expiresAt = 0] ELSE m

DesiredOn(m) == m.override = "on" \/ (m.override = "none" /\ scheduledOn(m, now))

\* mutant of Decide: a decision to turn off is not recorded
DecideForgetful(memory, history) ==
  LET m == ExpireOverride(memory)
      on == DesiredOn(m)
      ended == m.lastDesired = "on" /\ ~on
  IN  /\ mem' = [m EXCEPT !.lastDesired = IF on THEN "on" ELSE @]
      /\ apply' = [Idle EXCEPT !.awaits = IF on THEN "powerTimer" ELSE "powerOff",
                               !.desiredOn = on, !.sessionEnded = ended, !.at = now]
      /\ applyRequested' = FALSE
      /\ hist' = [history EXCEPT !.unruffled = TRUE, !.heated = @ \/ on,
                                 !.sessionEndedAt = IF ended THEN now ELSE @]

\* the synchronous part of applySteamState, up to its first call to the unit
Decide(memory, history) ==
  LET m == ExpireOverride(memory)
      on == DesiredOn(m)
      ended == m.lastDesired = "on" /\ ~on
  IN  /\ mem' = [m EXCEPT !.lastDesired = IF on THEN "on" ELSE "off"]
      /\ apply' = [Idle EXCEPT !.awaits = IF on THEN "powerTimer" ELSE "powerOff",
                               !.desiredOn = on, !.sessionEnded = ended, !.at = now]
      /\ applyRequested' = FALSE
      /\ hist' = [history EXCEPT !.unruffled = TRUE, !.heated = @ \/ on,
                                 !.sessionEndedAt = IF ended THEN now ELSE @]

\* mutant of RequestApply: a request made during an apply is dropped
RequestApplyDropped(m, h) ==
  IF applyRunning
  THEN mem' = m /\ hist' = h /\ UNCHANGED <<apply, applyRequested>>
  ELSE Decide(m, h)

\* requestApply, called with what the caller has just written
RequestApply(m, h) ==
  IF applyRunning
  THEN mem' = m /\ hist' = h /\ applyRequested' = TRUE /\ UNCHANGED apply
  ELSE Decide(m, h)

\* an apply returned or threw: the loop of requestApply
Finish(m, h) ==
  IF applyRequested /\ phase = "up"
  THEN Decide(m, h)
  ELSE mem' = m /\ hist' = h /\ apply' = Idle /\ applyRequested' = FALSE

SetSteamOverride(override) ==
  /\ phase = "up" /\ inputs < MaxInputs
  /\ inputs' = inputs + 1
  /\ RequestApply([mem EXCEPT !.override = override,
                              !.expiresAt = IF override = "on" THEN now + OverrideTime ELSE 0], hist)
  /\ UNCHANGED <<phase, unit, now, failures, touches, restarts>>

\* Math.max of what ended recently
LatestOf(times) == IF times = {} THEN {None} ELSE {t \in times : \A s \in times : s <= t}

ApplySteamSchedule(plan) ==
  LET recentlyEnded == {p.stop : p \in {q \in plan : q.stop <= now /\ now - q.stop < MaxTime}}
  IN  /\ phase = "up" /\ inputs < MaxInputs
      /\ inputs' = inputs + 1
      /\ \E endedAt \in LatestOf(recentlyEnded) :
           RequestApply([mem EXCEPT !.schedule = {p \in plan : p.stop > now},
                                    !.endedBeforePlanAt = endedAt],
                        [hist EXCEPT !.sessionEndedAt = IF \E t \in recentlyEnded : @ < t
                                                        THEN endedAt ELSE @])
      /\ UNCHANGED <<phase, unit, now, failures, touches, restarts>>

ControlTick ==
  /\ phase = "up"
  /\ RequestApply(mem, hist)
  /\ UNCHANGED <<phase, unit, now, bounds>>

\* getSteamStatus, which expires the override on its own
GetSteamStatus ==
  /\ phase = "up"
  /\ mem' = ExpireOverride(mem)
  /\ UNCHANGED <<phase, apply, applyRequested, unit, now, hist, bounds>>

-----------------------------------------------------------------------------
(* The round-trips of an apply. *)

\* what the awaited command does to the unit
Landed ==
  CASE apply.awaits = "powerTimer" -> [unit EXCEPT !.powerTimer = PowerTimerTime]
    [] apply.awaits = "powerOn"    -> [unit EXCEPT !.powerOn = TRUE]
    [] apply.awaits = "powerOff"   -> [unit EXCEPT !.powerOn = FALSE]
    [] apply.awaits \in {"fanTimer", "fanRearm"} -> [unit EXCEPT !.fanTimer = FanTimerTime]
    [] apply.awaits = "fanOn"      -> [unit EXCEPT !.fanOn = TRUE]
    [] apply.awaits = "fanOff"     -> [unit EXCEPT !.fanOn = FALSE]
    [] OTHER -> unit

WithFan(h, u) == [h EXCEPT !.heated = @ /\ ~(u.fanOn /\ ~unit.fanOn)]

Replies(call) ==
  /\ apply.awaits = call
  /\ unit' = Landed
  /\ UNCHANGED <<phase, now, bounds>>

Then(call) ==
  /\ apply' = [apply EXCEPT !.awaits = call]
  /\ UNCHANGED <<mem, hist, applyRequested>>

\* mutant of DriveFanCooldown: the fan is switched on before its timer is armed
DriveFanBeforeTimer ==
  \/ apply.sessionEnded /\ Then("fanOn")
  \/ ~apply.sessionEnded /\ mem.fanCooldown # None /\ Then("fanStatus")
  \/ ~apply.sessionEnded /\ mem.fanCooldown = None /\ Finish(mem, hist)

\* the synchronous head of driveFanCooldown
DriveFanCooldown ==
  \/ apply.sessionEnded /\ Then("fanTimer")
  \/ ~apply.sessionEnded /\ mem.fanCooldown # None /\ Then("fanStatus")
  \/ /\ ~apply.sessionEnded /\ mem.fanCooldown = None
     /\ mem.endedBeforePlanAt = None \/ apply.desiredOn
     /\ Finish([mem EXCEPT !.endedBeforePlanAt = None], hist)
  \/ /\ ~apply.sessionEnded /\ mem.fanCooldown = None
     /\ mem.endedBeforePlanAt # None /\ ~apply.desiredOn
     /\ apply' = [apply EXCEPT !.awaits = "pickUp", !.endedAt = mem.endedBeforePlanAt]
     /\ mem' = [mem EXCEPT !.endedBeforePlanAt = None]
     /\ UNCHANGED <<hist, applyRequested>>

SetPowerTimer == Replies("powerTimer") /\ Then("target")
SetTargetTemperature == Replies("target") /\ Then("status")
\* mutant of ReadPower: arming the timer is taken to power the unit on
ReadPowerTrusting == Replies("status") /\ DriveFanCooldown
ReadPower == Replies("status") /\ IF unit.powerOn THEN DriveFanCooldown ELSE Then("powerOn")
SetPowerOn == Replies("powerOn") /\ DriveFanCooldown
SetPowerOff == Replies("powerOff") /\ DriveFanCooldown

SetFanTimer == Replies("fanTimer") /\ Then("fanOn")

SetFanOn ==
  /\ Replies("fanOn")
  /\ Finish([mem EXCEPT !.fanCooldown = newFanCooldown(apply.at), !.endedBeforePlanAt = None],
            WithFan(hist, Landed))

\* mutant of PickUpCooldown: the cap is counted from the pick-up
PickUpFromNow ==
  /\ Replies("pickUp")
  /\ IF unit.fanOn
     THEN /\ mem' = [mem EXCEPT !.fanCooldown = newFanCooldown(apply.at)]
          /\ apply' = [apply EXCEPT !.awaits = "fanStatus"]
          /\ UNCHANGED <<hist, applyRequested>>
     ELSE Finish(mem, hist)

PickUpCooldown ==
  /\ Replies("pickUp")
  /\ IF unit.fanOn
     THEN /\ mem' = [mem EXCEPT !.fanCooldown = newFanCooldown(apply.endedAt)]
          /\ apply' = [apply EXCEPT !.awaits = "fanStatus"]
          /\ UNCHANGED <<hist, applyRequested>>
     ELSE Finish(mem, hist)

FanLapsed ==
  /\ Replies("fanStatus") /\ ~unit.fanOn
  /\ Finish([mem EXCEPT !.fanCooldown = None], hist)

\* a shutdown nulls fanCooldown while the status is awaited: withReading throws
ReadingAfterStop ==
  /\ Replies("fanStatus") /\ unit.fanOn /\ mem.fanCooldown = None
  /\ Finish(mem, hist)

\* Math.round((c * 9) / 5 + 32)
celsiusToFahrenheit(c) == (18 * c + 325) \div 10

ReadTemperature(celsius) ==
  LET cooldown == withReading(mem.fanCooldown, apply.at, celsiusToFahrenheit(celsius))
      stops == Stops(cooldown, apply.at, apply.desiredOn)
  IN  /\ Replies("fanStatus") /\ unit.fanOn /\ mem.fanCooldown # None
      /\ apply' = [apply EXCEPT !.awaits = IF stops THEN "fanOff" ELSE "fanRearm"]
      /\ mem' = [mem EXCEPT !.fanCooldown = IF stops THEN None ELSE cooldown]
      /\ UNCHANGED <<hist, applyRequested>>

RearmFan == Replies("fanRearm") /\ Finish(mem, hist)
SetFanOff == Replies("fanOff") /\ Finish(mem, hist)

\* no reply within the attempts: the apply throws
CallFails ==
  /\ applyRunning /\ failures < MaxFailures
  /\ failures' = failures + 1
  /\ unit' \in {unit, Landed}
  /\ Finish(mem, [WithFan(hist, unit') EXCEPT !.unruffled = FALSE])
  /\ UNCHANGED <<phase, now, inputs, touches, restarts>>

ApplyStep ==
  \/ SetPowerTimer \/ SetTargetTemperature \/ ReadPower \/ SetPowerOn \/ SetPowerOff
  \/ SetFanTimer \/ SetFanOn \/ PickUpCooldown \/ FanLapsed \/ ReadingAfterStop
  \/ \E celsius \in Temperatures : ReadTemperature(celsius)
  \/ RearmFan \/ SetFanOff

-----------------------------------------------------------------------------
(* Shutdown, restart, the clock and the unit. *)

\* stopSteamController: the apply under way keeps its client
StopSteamController ==
  /\ phase = "up" /\ restarts < MaxRestarts
  /\ phase' = "stopped" /\ mem' = Fresh
  /\ hist' = [hist EXCEPT !.unruffled = FALSE]
  /\ UNCHANGED <<apply, applyRequested, unit, now, bounds>>

\* the process ends, on its own or after stopSteamController
Exit ==
  /\ phase # "dead" /\ restarts < MaxRestarts
  /\ phase' = "dead" /\ mem' = Fresh /\ apply' = Idle /\ applyRequested' = FALSE
  /\ hist' = [hist EXCEPT !.unruffled = FALSE]
  /\ UNCHANGED <<unit, now, bounds>>

StartSteamController ==
  /\ phase = "dead"
  /\ phase' = "up" /\ restarts' = restarts + 1
  /\ UNCHANGED <<mem, apply, applyRequested, unit, now, hist, inputs, failures, touches>>

Less(timer) == IF timer = 0 THEN 0 ELSE timer - 1

ClockTick ==
  /\ now < Horizon
  /\ applyRunning => apply.at = now
  /\ now' = now + 1
  /\ unit' = [powerTimer |-> Less(unit.powerTimer), fanTimer |-> Less(unit.fanTimer),
              powerOn |-> unit.powerOn /\ unit.powerTimer # 1,
              fanOn |-> unit.fanOn /\ unit.fanTimer # 1]
  /\ hist' = [hist EXCEPT !.unruffled = FALSE]
  /\ UNCHANGED <<phase, mem, apply, applyRequested, bounds>>

\* somebody switches the unit or its fan off at the panel
TouchPanel ==
  /\ touches < MaxTouches
  /\ touches' = touches + 1
  /\ \/ unit.powerOn /\ unit' = [unit EXCEPT !.powerOn = FALSE]
     \/ unit.fanOn /\ unit' = [unit EXCEPT !.fanOn = FALSE]
  /\ hist' = [hist EXCEPT !.unruffled = FALSE]
  /\ UNCHANGED <<phase, mem, apply, applyRequested, now, inputs, failures, restarts>>

Next ==
  \/ \E override \in {"on", "off", "none"} : SetSteamOverride(override)
  \/ \E plan \in Plans : ApplySteamSchedule(plan)
  \/ ControlTick \/ GetSteamStatus
  \/ ApplyStep \/ CallFails
  \/ StopSteamController \/ Exit \/ StartSteamController
  \/ ClockTick \/ TouchPanel

\* the control interval keeps firing, and a call returns or gives up
Fairness == WF_vars(ControlTick) /\ WF_vars(ApplyStep)
Spec == Init /\ [][Next]_vars /\ Fairness

-----------------------------------------------------------------------------
(* Properties. *)

Readings == {celsiusToFahrenheit(c) : c \in Temperatures}
Calls == {"nothing", "powerTimer", "target", "status", "powerOn", "powerOff", "fanTimer",
          "fanOn", "pickUp", "fanStatus", "fanRearm", "fanOff"}
Cooldown == [slotEndedAt : Time, lowest : Readings \cup {NoReading},
             lowestAt : Time, latestAt : Time]

Memory == [override : {"on", "off", "none"}, expiresAt : 0..(Horizon + OverrideTime),
           schedule : SUBSET Period, lastDesired : {"null", "on", "off"},
           endedBeforePlanAt : Time \cup {None}, fanCooldown : Cooldown \cup {None}]
Apply == [awaits : Calls, desiredOn : BOOLEAN, sessionEnded : BOOLEAN, at : Time, endedAt : Time]
Unit == [powerOn : BOOLEAN, powerTimer : 0..PowerTimerTime, fanOn : BOOLEAN, fanTimer : 0..FanTimerTime]

\* The variables of steamController.ts and the unit keep their types.
TypeOK ==
  /\ phase \in {"up", "stopped", "dead"}
  /\ mem \in Memory /\ apply \in Apply /\ applyRequested \in BOOLEAN
  /\ unit \in Unit /\ now \in Time

\* An apply that is about to switch the unit or its fan on has armed the timer in
\* this instant, or in the one before.
StillArmed(timer) == timer >= IF apply.at = now THEN 2 ELSE 1

\* The unit and its fan are never on without the timer that switches them off
\* (steamController.ts:13, :252), wherever a call fails, an apply stops half-way,
\* the daemon dies or a control tick is missed.
BackstopArmed ==
  /\ unit.powerOn => unit.powerTimer > 0
  /\ unit.fanOn => unit.fanTimer > 0

\* BackstopArmed, with what makes it inductive: the timer stays armed through the
\* round-trips between the call that arms it and the one that switches on.
ArmedFirst ==
  /\ BackstopArmed
  /\ apply.awaits \in {"target", "status", "powerOn"} => StillArmed(unit.powerTimer)
  /\ apply.awaits = "fanOn" => StillArmed(unit.fanTimer)

\* Once applies are done the unit follows the latest override and plan: an older
\* apply never has the last word over a newer decision (steamController.ts:168).
LatestDecisionHolds ==
  (phase = "up" /\ ~applyRunning /\ hist.unruffled) => (unit.powerOn <=> DesiredOn(ExpireOverride(mem)))

\* No failure, restart or plan sent again keeps the fan running past the cap and
\* one timer after the end of the latest session (steamController.ts:62).
FanWithinCap == unit.fanOn => now < hist.sessionEndedAt + MaxTime + FanTimerTime

\* A cooldown that has ended is never restarted: the fan starts at most once for
\* each time the room was driven on (steamController.ts:248).
FanStartsOncePerSession == [][(unit'.fanOn /\ ~unit.fanOn) => hist.heated]_vars

\* However calls fail and decisions overlap, a daemon that stays up ends up with
\* the unit as the plan and the override want it.
FollowsPlan ==
  []<>(phase # "up") \/ <>[](unit.powerOn <=> DesiredOn(ExpireOverride(mem)))
=============================================================================
