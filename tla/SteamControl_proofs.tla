------------------------ MODULE SteamControl_proofs ------------------------
(***************************************************************************)
(* For every plan, every duration and every bound: the variables keep      *)
(* their types, the unit is never on without its backstop, the latest      *)
(* decision holds, and the fan ends by the cap, once per session.          *)
(*                                                                         *)
(* BackstopArmed is not inductive: switching on takes up to four round-    *)
(* trips, and what makes the last one safe is the timer armed by the       *)
(* first.  ArmedFirst says that it has not run out meanwhile, which rests  *)
(* on timers of at least two instants and on an apply that straddles at    *)
(* most one.  SteamInv, in the second part, says what an apply under way   *)
(* has in hand of the session that ended and of the decision it serves.    *)
(***************************************************************************)
EXTENDS SteamControl, TLAPS

IInv == TypeOK /\ ArmedFirst

\* What every apply that ends or begins leaves behind.
Between ==
  /\ mem' \in Memory /\ apply' \in Apply /\ applyRequested' \in BOOLEAN
  /\ apply'.awaits \in {"nothing", "powerTimer", "powerOff"}

LEMMA ExpiredTyped ==
  ASSUME TypeOK, NEW m \in Memory
  PROVE  ExpireOverride(m) \in Memory
<1>1. 0 \in 0..(Horizon + OverrideTime)
  BY SteamAssumption
<1>2. [m EXCEPT !.override = "none", !.expiresAt = 0] \in Memory
  BY <1>1 DEF Memory
<1> QED
  BY <1>2 DEF ExpireOverride

LEMMA DecideTyped ==
  ASSUME TypeOK, NEW m \in Memory, NEW h, Decide(m, h)
  PROVE  Between
<1> DEFINE e == ExpireOverride(m)
           on == DesiredOn(e)
<1>1. e \in Memory
  BY ExpiredTyped
<1>2. on \in BOOLEAN
  BY DEF DesiredOn
<1>3. (e.lastDesired = "on" /\ ~on) \in BOOLEAN
  OBVIOUS
<1>4. /\ mem' = [e EXCEPT !.lastDesired = IF on THEN "on" ELSE "off"]
      /\ apply' = [Idle EXCEPT !.awaits = IF on THEN "powerTimer" ELSE "powerOff",
                               !.desiredOn = on, !.sessionEnded = e.lastDesired = "on" /\ ~on,
                               !.at = now]
      /\ applyRequested' = FALSE
  BY DEF Decide
<1> HIDE DEF e, on
<1>5. mem' \in Memory
  BY <1>1, <1>4 DEF Memory
<1>6. now \in Time /\ 0 \in Time
  BY SteamAssumption DEF TypeOK, Time
<1>7. apply' \in Apply /\ apply'.awaits \in {"powerTimer", "powerOff"}
  BY <1>2, <1>3, <1>4, <1>6 DEF Apply, Idle, Calls
<1> QED
  BY <1>4, <1>5, <1>7 DEF Between

LEMMA IdleTyped == Idle \in Apply /\ Idle.awaits = "nothing"
BY SteamAssumption DEF Idle, Apply, Calls, Time

LEMMA FreshTyped == Fresh \in Memory
BY SteamAssumption DEF Fresh, Memory, Time

LEMMA FinishTyped ==
  ASSUME TypeOK, NEW m \in Memory, NEW h, Finish(m, h)
  PROVE  Between
<1>1. CASE applyRequested /\ phase = "up"
  <2>1. Decide(m, h)
    BY <1>1 DEF Finish
  <2> QED
    BY <2>1, DecideTyped
<1>2. CASE ~(applyRequested /\ phase = "up")
  <2>1. mem' = m /\ apply' = Idle /\ applyRequested' = FALSE
    BY <1>2 DEF Finish
  <2> QED
    BY <2>1, IdleTyped DEF Between
<1> QED
  BY <1>1, <1>2

\* A request begins an apply or leaves the one under way alone.
LEMMA RequestTyped ==
  ASSUME TypeOK, NEW m \in Memory, NEW h, RequestApply(m, h)
  PROVE  \/ Between
         \/ mem' \in Memory /\ apply' = apply /\ applyRequested' \in BOOLEAN
<1>1. CASE applyRunning
  BY <1>1 DEF RequestApply
<1>2. CASE ~applyRunning
  <2>1. Decide(m, h)
    BY <1>2 DEF RequestApply
  <2> QED
    BY <2>1, DecideTyped
<1> QED
  BY <1>1, <1>2

\* A command that lands, replied to or not, leaves the unit backed.
LEMMA LandedArmed ==
  ASSUME IInv
  PROVE  /\ Landed \in Unit
         /\ Landed.powerOn => Landed.powerTimer > 0
         /\ Landed.fanOn => Landed.fanTimer > 0
         /\ apply.awaits = "powerTimer" => Landed.powerTimer = PowerTimerTime
         /\ apply.awaits \in {"target", "status"} => Landed.powerTimer = unit.powerTimer
         /\ apply.awaits = "fanTimer" => Landed.fanTimer = FanTimerTime
<1>1. /\ unit \in Unit /\ now \in Time
      /\ unit.powerOn => unit.powerTimer > 0
      /\ unit.fanOn => unit.fanTimer > 0
      /\ apply.awaits = "powerOn" => unit.powerTimer > 0
      /\ apply.awaits = "fanOn" => unit.fanTimer > 0
  BY DEF IInv, TypeOK, ArmedFirst, BackstopArmed, StillArmed, Unit
<1>2. PowerTimerTime \in 0..PowerTimerTime /\ PowerTimerTime > 0
      /\ FanTimerTime \in 0..FanTimerTime /\ FanTimerTime > 0
  BY SteamAssumption
<1>3. CASE apply.awaits = "powerTimer"
  <2>1. Landed = [unit EXCEPT !.powerTimer = PowerTimerTime]
    BY <1>3 DEF Landed
  <2> QED
    BY <1>1, <1>2, <1>3, <2>1 DEF Unit
<1>4. CASE apply.awaits = "powerOn"
  <2>1. Landed = [unit EXCEPT !.powerOn = TRUE]
    BY <1>4 DEF Landed
  <2> QED
    BY <1>1, <1>2, <1>4, <2>1 DEF Unit
<1>5. CASE apply.awaits = "powerOff"
  <2>1. Landed = [unit EXCEPT !.powerOn = FALSE]
    BY <1>5 DEF Landed
  <2> QED
    BY <1>1, <1>2, <1>5, <2>1 DEF Unit
<1>6. CASE apply.awaits \in {"fanTimer", "fanRearm"}
  <2>1. Landed = [unit EXCEPT !.fanTimer = FanTimerTime]
    BY <1>6 DEF Landed
  <2> QED
    BY <1>1, <1>2, <1>6, <2>1 DEF Unit
<1>7. CASE apply.awaits = "fanOn"
  <2>1. Landed = [unit EXCEPT !.fanOn = TRUE]
    BY <1>7 DEF Landed
  <2> QED
    BY <1>1, <1>2, <1>7, <2>1 DEF Unit
<1>8. CASE apply.awaits = "fanOff"
  <2>1. Landed = [unit EXCEPT !.fanOn = FALSE]
    BY <1>8 DEF Landed
  <2> QED
    BY <1>1, <1>2, <1>8, <2>1 DEF Unit
<1>9. CASE apply.awaits \notin {"powerTimer", "powerOn", "powerOff", "fanTimer", "fanRearm", "fanOn", "fanOff"}
  <2>1. Landed = unit
    BY <1>9 DEF Landed
  <2> QED
    BY <1>1, <1>9, <2>1
<1> QED
  BY <1>3, <1>4, <1>5, <1>6, <1>7, <1>8, <1>9

LEMMA InitArmed == Init => IInv
<1> SUFFICES ASSUME Init PROVE IInv
  OBVIOUS
<1>1. mem \in Memory /\ apply \in Apply /\ apply.awaits = "nothing"
  BY FreshTyped, IdleTyped DEF Init
<1>2. unit \in Unit /\ ~unit.powerOn /\ ~unit.fanOn /\ now \in Time
  BY SteamAssumption DEF Init, Unit, Time
<1>3. phase \in {"up", "stopped", "dead"} /\ applyRequested \in BOOLEAN
  BY DEF Init
<1>4. TypeOK
  BY <1>1, <1>2, <1>3 DEF TypeOK
<1>5. BackstopArmed
  BY <1>2 DEF BackstopArmed
<1> QED
  BY <1>1, <1>4, <1>5 DEF IInv, ArmedFirst

\* A step that ends or begins an apply and leaves the unit as it is, or as the
\* command landing on it makes it.
LEMMA BetweenKeeps ==
  ASSUME IInv, Between, unit' \in {unit, Landed}, now' = now, phase' \in {"up", "stopped", "dead"}
  PROVE  IInv'
<1>1. unit' \in Unit /\ (unit'.powerOn => unit'.powerTimer > 0) /\ (unit'.fanOn => unit'.fanTimer > 0)
  BY LandedArmed DEF IInv, TypeOK, ArmedFirst, BackstopArmed
<1> QED
  BY <1>1 DEF IInv, TypeOK, ArmedFirst, BackstopArmed, Between

\* A step of the apply to its next call.
LEMMA ThenKeeps ==
  ASSUME IInv, unit' = Landed, now' = now, phase' = phase,
         mem' \in Memory, applyRequested' \in BOOLEAN, apply' \in Apply, apply'.at = apply.at,
         apply'.awaits = "target" => apply.awaits = "powerTimer",
         apply'.awaits \in {"status", "powerOn"} => apply.awaits \in {"target", "status"},
         apply'.awaits = "fanOn" => apply.awaits = "fanTimer"
  PROVE  IInv'
<1>1. /\ unit' \in Unit
      /\ unit'.powerOn => unit'.powerTimer > 0
      /\ unit'.fanOn => unit'.fanTimer > 0
      /\ apply.awaits = "powerTimer" => unit'.powerTimer = PowerTimerTime
      /\ apply.awaits \in {"target", "status"} => unit'.powerTimer = unit.powerTimer
      /\ apply.awaits = "fanTimer" => unit'.fanTimer = FanTimerTime
  BY LandedArmed
<1>2. apply'.awaits \in {"target", "status", "powerOn"}
        => unit'.powerTimer >= IF apply'.at = now' THEN 2 ELSE 1
  BY <1>1, SteamAssumption DEF IInv, ArmedFirst, StillArmed
<1>3. apply'.awaits = "fanOn" => unit'.fanTimer >= IF apply'.at = now' THEN 2 ELSE 1
  BY <1>1, SteamAssumption
<1> QED
  BY <1>1, <1>2, <1>3 DEF IInv, TypeOK, ArmedFirst, BackstopArmed, StillArmed

\* A request to apply, from an override, a plan or the control tick.
LEMMA RequestKeeps ==
  ASSUME IInv, NEW m \in Memory, NEW h, RequestApply(m, h), UNCHANGED <<phase, unit, now>>
  PROVE  IInv'
<1>1. TypeOK
  BY DEF IInv
<1>2. CASE Between
  BY <1>2, <1>1, BetweenKeeps DEF TypeOK
<1>3. CASE mem' \in Memory /\ apply' = apply /\ applyRequested' \in BOOLEAN
  BY <1>3 DEF IInv, TypeOK, ArmedFirst, BackstopArmed, StillArmed
<1> QED
  BY <1>1, <1>2, <1>3, RequestTyped
LEMMA OverrideKeeps ==
  ASSUME IInv, NEW override \in {"on", "off", "none"}, SetSteamOverride(override)
  PROVE  IInv'
<1> DEFINE expiry == IF override = "on" THEN now + OverrideTime ELSE 0
           m == [mem EXCEPT !.override = override, !.expiresAt = expiry]
<1>1. mem \in Memory /\ now \in Time
  BY DEF IInv, TypeOK
<1>2. expiry \in 0..(Horizon + OverrideTime)
  BY <1>1, SteamAssumption DEF Time
<1>3. m \in Memory
  BY <1>1, <1>2 DEF Memory
<1>4. RequestApply(m, hist) /\ UNCHANGED <<phase, unit, now>>
  BY DEF SetSteamOverride
<1> QED
  BY <1>3, <1>4, RequestKeeps

LEMMA ScheduleKeeps ==
  ASSUME IInv, NEW plan \in Plans, ApplySteamSchedule(plan)
  PROVE  IInv'
<1> DEFINE ended == {p.stop : p \in {q \in plan : q.stop <= now /\ now - q.stop < MaxTime}}
           upcoming == {p \in plan : p.stop > now}
<1>1. mem \in Memory /\ plan \subseteq Period
  BY SteamAssumption DEF IInv, TypeOK
<1>2. ended \subseteq Time /\ upcoming \subseteq Period
  BY <1>1 DEF Period
<1>3. PICK endedAt \in LatestOf(ended) :
        RequestApply([mem EXCEPT !.schedule = upcoming, !.endedBeforePlanAt = endedAt],
                     [hist EXCEPT !.sessionEndedAt = IF \E t \in ended : @ < t THEN endedAt ELSE @])
  BY DEF ApplySteamSchedule
<1>4. endedAt \in Time \cup {None}
  BY <1>2, <1>3 DEF LatestOf
<1>5. [mem EXCEPT !.schedule = upcoming, !.endedBeforePlanAt = endedAt] \in Memory
  BY <1>1, <1>2, <1>4 DEF Memory
<1>6. UNCHANGED <<phase, unit, now>>
  BY DEF ApplySteamSchedule
<1> QED
  BY <1>3, <1>5, <1>6, RequestKeeps

LEMMA TickKeeps == ASSUME IInv, ControlTick PROVE IInv'
<1>1. mem \in Memory
  BY DEF IInv, TypeOK
<1>2. RequestApply(mem, hist) /\ UNCHANGED <<phase, unit, now>>
  BY DEF ControlTick
<1> QED
  BY <1>1, <1>2, RequestKeeps

LEMMA StatusKeeps == ASSUME IInv, GetSteamStatus PROVE IInv'
<1>1. mem' \in Memory
  BY ExpiredTyped DEF IInv, TypeOK, GetSteamStatus
<1> QED
  BY <1>1 DEF IInv, TypeOK, ArmedFirst, BackstopArmed, StillArmed, GetSteamStatus

\* A call that is answered and ends the apply.
LEMMA ReplyFinishes ==
  ASSUME IInv, NEW call, Replies(call), NEW m \in Memory, NEW h, Finish(m, h)
  PROVE  IInv'
<1>1. TypeOK
  BY DEF IInv
<1>2. unit' = Landed /\ now' = now /\ phase' = phase
  BY DEF Replies
<1>3. Between
  BY <1>1, FinishTyped
<1> QED
  BY <1>1, <1>2, <1>3, BetweenKeeps DEF TypeOK

\* A call that is answered and followed by another.
LEMMA ReplyThen ==
  ASSUME IInv, NEW call, Replies(call), NEW next \in Calls, Then(next),
         next = "target" => call = "powerTimer",
         next \in {"status", "powerOn"} => call \in {"target", "status"},
         next = "fanOn" => call = "fanTimer"
  PROVE  IInv'
<1>1. apply \in Apply /\ mem \in Memory /\ applyRequested \in BOOLEAN
  BY DEF IInv, TypeOK
<1>2. apply.awaits = call /\ unit' = Landed /\ now' = now /\ phase' = phase
  BY DEF Replies
<1>3. apply' = [apply EXCEPT !.awaits = next] /\ mem' = mem /\ applyRequested' = applyRequested
  BY DEF Then
<1>4. apply' \in Apply /\ apply'.awaits = next /\ apply'.at = apply.at
  BY <1>1, <1>3 DEF Apply
<1> QED
  BY <1>1, <1>2, <1>3, <1>4, ThenKeeps

LEMMA DriveKeeps ==
  ASSUME IInv, NEW call, Replies(call), DriveFanCooldown
  PROVE  IInv'
<1>1. mem \in Memory /\ apply \in Apply /\ applyRequested \in BOOLEAN
  BY DEF IInv, TypeOK
<1>2. CASE Then("fanTimer")
  BY <1>2, ReplyThen DEF Calls
<1>3. CASE Then("fanStatus")
  BY <1>3, ReplyThen DEF Calls
<1>4. CASE Finish([mem EXCEPT !.endedBeforePlanAt = None], hist)
  <2>1. [mem EXCEPT !.endedBeforePlanAt = None] \in Memory
    BY <1>1 DEF Memory
  <2> QED
    BY <1>4, <2>1, ReplyFinishes
<1>5. CASE /\ mem.endedBeforePlanAt # None
           /\ apply' = [apply EXCEPT !.awaits = "pickUp", !.endedAt = mem.endedBeforePlanAt]
           /\ mem' = [mem EXCEPT !.endedBeforePlanAt = None]
           /\ UNCHANGED <<hist, applyRequested>>
  <2>1. mem.endedBeforePlanAt \in Time
    BY <1>1, <1>5 DEF Memory
  <2>2. apply' \in Apply /\ apply'.awaits = "pickUp" /\ apply'.at = apply.at
    BY <1>1, <1>5, <2>1 DEF Apply, Calls
  <2>3. mem' \in Memory /\ applyRequested' \in BOOLEAN
    BY <1>1, <1>5 DEF Memory
  <2>4. unit' = Landed /\ now' = now /\ phase' = phase
    BY DEF Replies
  <2> QED
    BY <2>2, <2>3, <2>4, ThenKeeps
<1> QED
  BY <1>2, <1>3, <1>4, <1>5 DEF DriveFanCooldown

LEMMA SetFanOnKeeps == ASSUME IInv, SetFanOn PROVE IInv'
<1> DEFINE m == [mem EXCEPT !.fanCooldown = newFanCooldown(apply.at), !.endedBeforePlanAt = None]
<1>1. mem \in Memory /\ apply.at \in Time
  BY DEF IInv, TypeOK, Apply
<1>2. newFanCooldown(apply.at) \in Cooldown
  BY <1>1 DEF newFanCooldown, Cooldown
<1>3. m \in Memory
  BY <1>1, <1>2 DEF Memory
<1>4. Replies("fanOn") /\ Finish(m, WithFan(hist, Landed))
  BY DEF SetFanOn
<1> QED
  BY <1>3, <1>4, ReplyFinishes

LEMMA PickUpKeeps == ASSUME IInv, PickUpCooldown PROVE IInv'
<1>1. mem \in Memory /\ apply \in Apply /\ applyRequested \in BOOLEAN
  BY DEF IInv, TypeOK
<1>2. Replies("pickUp")
  BY DEF PickUpCooldown
<1>3. CASE unit.fanOn
  <2>1. newFanCooldown(apply.endedAt) \in Cooldown
    BY <1>1 DEF newFanCooldown, Cooldown, Apply
  <2>2. /\ mem' = [mem EXCEPT !.fanCooldown = newFanCooldown(apply.endedAt)]
        /\ apply' = [apply EXCEPT !.awaits = "fanStatus"]
        /\ applyRequested' = applyRequested
    BY <1>3 DEF PickUpCooldown
  <2>3. mem' \in Memory
    BY <1>1, <2>1, <2>2 DEF Memory
  <2>4. apply' \in Apply /\ apply'.awaits = "fanStatus" /\ apply'.at = apply.at
    BY <1>1, <2>2 DEF Apply, Calls
  <2>5. unit' = Landed /\ now' = now /\ phase' = phase
    BY <1>2 DEF Replies
  <2> QED
    BY <1>1, <2>2, <2>3, <2>4, <2>5, ThenKeeps
<1>4. CASE ~unit.fanOn
  <2>1. Finish(mem, hist)
    BY <1>4 DEF PickUpCooldown
  <2> QED
    BY <1>1, <1>2, <2>1, ReplyFinishes
<1> QED
  BY <1>3, <1>4

LEMMA LapsedKeeps == ASSUME IInv, FanLapsed PROVE IInv'
<1>1. [mem EXCEPT !.fanCooldown = None] \in Memory
  BY DEF IInv, TypeOK, Memory
<1>2. Replies("fanStatus") /\ Finish([mem EXCEPT !.fanCooldown = None], hist)
  BY DEF FanLapsed
<1> QED
  BY <1>1, <1>2, ReplyFinishes

LEMMA ReadingKeeps ==
  ASSUME IInv, NEW celsius \in Temperatures, ReadTemperature(celsius)
  PROVE  IInv'
<1> DEFINE old == mem.fanCooldown
           reading == celsiusToFahrenheit(celsius)
           cooldown == withReading(old, apply.at, reading)
           stops == Stops(cooldown, apply.at, apply.desiredOn)
<1>1. mem \in Memory /\ apply \in Apply /\ applyRequested \in BOOLEAN
  BY DEF IInv, TypeOK
<1>2. old \in Cooldown /\ apply.at \in Time
  BY <1>1 DEF ReadTemperature, Memory, Apply
<1>3. [old EXCEPT !.lowest = reading, !.lowestAt = apply.at, !.latestAt = apply.at] \in Cooldown
  BY <1>2 DEF Cooldown, Readings
<1>4. [old EXCEPT !.latestAt = apply.at] \in Cooldown
  BY <1>2 DEF Cooldown
<1>5. cooldown \in Cooldown
  BY <1>2, <1>3, <1>4 DEF withReading
<1>6. /\ mem' = [mem EXCEPT !.fanCooldown = IF stops THEN None ELSE cooldown]
      /\ apply' = [apply EXCEPT !.awaits = IF stops THEN "fanOff" ELSE "fanRearm"]
      /\ applyRequested' = applyRequested
  BY DEF ReadTemperature
<1>7. unit' = Landed /\ now' = now /\ phase' = phase
  BY DEF ReadTemperature, Replies
<1> HIDE DEF cooldown, stops
<1>8. mem' \in Memory
  BY <1>1, <1>5, <1>6 DEF Memory
<1>9. apply' \in Apply /\ apply'.awaits \in {"fanOff", "fanRearm"} /\ apply'.at = apply.at
  BY <1>1, <1>6 DEF Apply, Calls
<1> QED
  BY <1>1, <1>6, <1>7, <1>8, <1>9, ThenKeeps

LEMMA StepKeeps == ASSUME IInv, ApplyStep PROVE IInv'
<1>1. mem \in Memory
  BY DEF IInv, TypeOK
<1>2. CASE SetPowerTimer
  BY <1>2, ReplyThen DEF SetPowerTimer, Calls
<1>3. CASE SetTargetTemperature
  BY <1>3, ReplyThen DEF SetTargetTemperature, Calls
<1>4. CASE ReadPower
  BY <1>4, ReplyThen, DriveKeeps DEF ReadPower, Calls
<1>5. CASE SetPowerOn
  BY <1>5, DriveKeeps DEF SetPowerOn
<1>6. CASE SetPowerOff
  BY <1>6, DriveKeeps DEF SetPowerOff
<1>7. CASE SetFanTimer
  BY <1>7, ReplyThen DEF SetFanTimer, Calls
<1>8. CASE SetFanOn
  BY <1>8, SetFanOnKeeps
<1>9. CASE PickUpCooldown
  BY <1>9, PickUpKeeps
<1>10. CASE FanLapsed
  BY <1>10, LapsedKeeps
<1>11. CASE ReadingAfterStop
  BY <1>1, <1>11, ReplyFinishes DEF ReadingAfterStop
<1>12. CASE \E celsius \in Temperatures : ReadTemperature(celsius)
  BY <1>12, ReadingKeeps
<1>13. CASE RearmFan
  BY <1>1, <1>13, ReplyFinishes DEF RearmFan
<1>14. CASE SetFanOff
  BY <1>1, <1>14, ReplyFinishes DEF SetFanOff
<1> QED
  BY <1>2, <1>3, <1>4, <1>5, <1>6, <1>7, <1>8, <1>9, <1>10, <1>11, <1>12, <1>13, <1>14 DEF ApplyStep

LEMMA FailKeeps == ASSUME IInv, CallFails PROVE IInv'
<1> DEFINE h == [WithFan(hist, unit') EXCEPT !.unruffled = FALSE]
<1>1. TypeOK /\ mem \in Memory
  BY DEF IInv, TypeOK
<1>2. Finish(mem, h)
  BY DEF CallFails
<1> HIDE DEF h
<1>3. Between
  BY <1>1, <1>2, FinishTyped
<1>4. unit' \in {unit, Landed} /\ now' = now /\ phase' = phase
  BY DEF CallFails
<1> QED
  BY <1>1, <1>3, <1>4, BetweenKeeps DEF TypeOK

LEMMA StopKeeps == ASSUME IInv, StopSteamController PROVE IInv'
BY FreshTyped DEF StopSteamController, IInv, TypeOK, ArmedFirst, BackstopArmed, StillArmed

LEMMA ExitKeeps == ASSUME IInv, Exit PROVE IInv'
<1>1. mem' \in Memory /\ apply' \in Apply /\ apply'.awaits = "nothing" /\ applyRequested' = FALSE
  BY FreshTyped, IdleTyped DEF Exit
<1>2. unit' = unit /\ now' = now /\ phase' = "dead"
  BY DEF Exit
<1> QED
  BY <1>1, <1>2, BetweenKeeps DEF Between

LEMMA StartKeeps == ASSUME IInv, StartSteamController PROVE IInv'
BY DEF StartSteamController, IInv, TypeOK, ArmedFirst, BackstopArmed, StillArmed

\* A clock tick takes one from the timers, and an apply straddles one at most.
LEMMA ClockKeeps == ASSUME IInv, ClockTick PROVE IInv'
<1>1. unit \in Unit /\ now \in Time /\ apply \in Apply
  BY DEF IInv, TypeOK
<1>2. now' = now + 1 /\ now' \in Time
  BY <1>1, SteamAssumption DEF ClockTick, Time
<1>3. unit' = [powerTimer |-> Less(unit.powerTimer), fanTimer |-> Less(unit.fanTimer),
               powerOn |-> unit.powerOn /\ unit.powerTimer # 1,
               fanOn |-> unit.fanOn /\ unit.fanTimer # 1]
  BY DEF ClockTick
<1>4. /\ Less(unit.powerTimer) \in 0..PowerTimerTime
      /\ Less(unit.fanTimer) \in 0..FanTimerTime
  BY <1>1, SteamAssumption DEF Less, Unit
<1>5. (unit.powerOn /\ unit.powerTimer # 1) \in BOOLEAN /\ (unit.fanOn /\ unit.fanTimer # 1) \in BOOLEAN
  OBVIOUS
<1>6. unit' \in Unit
  BY <1>3, <1>4, <1>5 DEF Unit
<1>7. TypeOK'
  BY <1>2, <1>6 DEF IInv, TypeOK, ClockTick
<1>8. BackstopArmed'
  <2>1. (unit.powerOn => unit.powerTimer > 0) /\ (unit.fanOn => unit.fanTimer > 0)
    BY DEF IInv, ArmedFirst, BackstopArmed
  <2>2. /\ unit'.powerOn => unit.powerOn /\ unit.powerTimer # 1
        /\ unit'.fanOn => unit.fanOn /\ unit.fanTimer # 1
        /\ unit'.powerTimer = Less(unit.powerTimer) /\ unit'.fanTimer = Less(unit.fanTimer)
    BY <1>3
  <2>3. unit.powerTimer \in Nat /\ unit.fanTimer \in Nat
    BY <1>1, SteamAssumption DEF Unit
  <2>4. (unit.powerTimer > 0 /\ unit.powerTimer # 1 => Less(unit.powerTimer) > 0)
        /\ (unit.fanTimer > 0 /\ unit.fanTimer # 1 => Less(unit.fanTimer) > 0)
    BY <2>3 DEF Less
  <2> QED
    BY <2>1, <2>2, <2>4 DEF BackstopArmed
<1>9. ASSUME apply.awaits # "nothing"
      PROVE  apply.at = now /\ apply'.at # now'
  BY <1>1, <1>2, <1>9 DEF ClockTick, applyRunning, Apply, Time
<1>10. apply'.awaits \in {"target", "status", "powerOn"} => StillArmed(unit.powerTimer)'
  <2> SUFFICES ASSUME apply.awaits \in {"target", "status", "powerOn"} PROVE unit'.powerTimer >= 1 /\ apply'.at # now'
    BY DEF ClockTick, StillArmed
  <2>1. unit.powerTimer >= 2
    BY <1>9 DEF IInv, ArmedFirst, StillArmed
  <2> QED
    BY <1>1, <1>3, <1>9, <2>1, SteamAssumption DEF Less, Unit
<1>11. apply'.awaits = "fanOn" => StillArmed(unit.fanTimer)'
  <2> SUFFICES ASSUME apply.awaits = "fanOn" PROVE unit'.fanTimer >= 1 /\ apply'.at # now'
    BY DEF ClockTick, StillArmed
  <2>1. unit.fanTimer >= 2
    BY <1>9 DEF IInv, ArmedFirst, StillArmed
  <2> QED
    BY <1>1, <1>3, <1>9, <2>1, SteamAssumption DEF Less, Unit
<1> QED
  BY <1>7, <1>8, <1>10, <1>11 DEF IInv, ArmedFirst

LEMMA PanelKeeps == ASSUME IInv, TouchPanel PROVE IInv'
<1>1. unit \in Unit
  BY DEF IInv, TypeOK
<1>2. unit' = [unit EXCEPT !.powerOn = FALSE] \/ unit' = [unit EXCEPT !.fanOn = FALSE]
  BY DEF TouchPanel
<1>3. unit' \in Unit /\ unit'.powerTimer = unit.powerTimer /\ unit'.fanTimer = unit.fanTimer
      /\ (unit'.powerOn => unit.powerOn) /\ (unit'.fanOn => unit.fanOn)
  BY <1>1, <1>2 DEF Unit
<1>4. UNCHANGED <<phase, mem, apply, applyRequested, now>>
  BY DEF TouchPanel
<1> QED
  BY <1>3, <1>4 DEF IInv, TypeOK, ArmedFirst, BackstopArmed, StillArmed

LEMMA NextKeeps == IInv /\ [Next]_vars => IInv'
<1> SUFFICES ASSUME IInv, [Next]_vars PROVE IInv'
  OBVIOUS
<1>1. CASE \E override \in {"on", "off", "none"} : SetSteamOverride(override)
  BY <1>1, OverrideKeeps
<1>2. CASE \E plan \in Plans : ApplySteamSchedule(plan)
  BY <1>2, ScheduleKeeps
<1>3. CASE ControlTick
  BY <1>3, TickKeeps
<1>4. CASE GetSteamStatus
  BY <1>4, StatusKeeps
<1>5. CASE ApplyStep
  BY <1>5, StepKeeps
<1>6. CASE CallFails
  BY <1>6, FailKeeps
<1>7. CASE StopSteamController
  BY <1>7, StopKeeps
<1>8. CASE Exit
  BY <1>8, ExitKeeps
<1>9. CASE StartSteamController
  BY <1>9, StartKeeps
<1>10. CASE ClockTick
  BY <1>10, ClockKeeps
<1>11. CASE TouchPanel
  BY <1>11, PanelKeeps
<1>12. CASE UNCHANGED vars
  BY <1>12 DEF vars, IInv, TypeOK, ArmedFirst, BackstopArmed, StillArmed
<1> QED
  BY <1>1, <1>2, <1>3, <1>4, <1>5, <1>6, <1>7, <1>8, <1>9, <1>10, <1>11, <1>12 DEF Next

\* The variables of steamController.ts and the unit keep their types, for every
\* plan, duration and bound.
THEOREM TypeCorrect == Spec => []TypeOK
<1>1. IInv => TypeOK
  BY DEF IInv
<1> QED
  BY InitArmed, NextKeeps, <1>1, PTL DEF Spec

\* The unit and its fan are never on without the timer that switches them off
\* (steamController.ts:13, :252), for every plan, duration and interleaving.
THEOREM NeverWithoutBackstop == Spec => []BackstopArmed
<1>1. IInv => BackstopArmed
  BY DEF IInv, ArmedFirst
<1> QED
  BY InitArmed, NextKeeps, <1>1, PTL DEF Spec

-----------------------------------------------------------------------------
(* What the daemon remembers of a session, and what its last decision      *)
(* makes of the unit.                                                      *)

History == [unruffled : BOOLEAN, heated : BOOLEAN, sessionEndedAt : Time]

Wanted(m) == DesiredOn(ExpireOverride(m))

PowerCalls == {"powerTimer", "target", "status", "powerOn"}
FanCalls == {"fanTimer", "fanOn", "pickUp", "fanStatus", "fanRearm", "fanOff"}

\* The memory is of sessions that took place and ended by sessionEndedAt.
Remembers(m, h) ==
  /\ m.lastDesired = "on" => h.heated
  /\ m.endedBeforePlanAt # None => m.endedBeforePlanAt <= h.sessionEndedAt
  /\ m.fanCooldown # None => m.fanCooldown.slotEndedAt <= h.sessionEndedAt

\* So is the apply under way, which began in this instant or the one before.
Serves(a, m, h) ==
  /\ a.awaits # "nothing" => a.at <= now /\ now <= a.at + 1
  /\ a.awaits # "nothing" /\ a.sessionEnded =>
       h.heated /\ m.lastDesired # "on" /\ a.at <= h.sessionEndedAt
  /\ a.awaits \in {"fanTimer", "fanOn"} => a.sessionEnded
  /\ a.awaits = "pickUp" => a.endedAt <= h.sessionEndedAt
  /\ a.awaits = "fanRearm" => a.at < h.sessionEndedAt + MaxTime

\* The fan that is on lapses, rearmed for the last time before the cap.
Capped(u, h) == u.fanOn => now + u.fanTimer <= h.sessionEndedAt + MaxTime + FanTimerTime

\* What is left of an apply brings the unit to the latest decision, or another
\* apply is to follow.
FollowedBy(m, a, requested, powerOn) ==
  /\ a.awaits = "nothing" => (powerOn <=> Wanted(m))
  /\ a.awaits # "nothing" /\ ~requested => (a.desiredOn <=> Wanted(m))
  /\ a.awaits \in PowerCalls => a.desiredOn
  /\ a.awaits = "powerOff" => ~a.desiredOn
  /\ a.awaits \in FanCalls => (powerOn <=> a.desiredOn)

SteamInv ==
  /\ hist \in History /\ hist.sessionEndedAt <= now /\ (hist.unruffled => phase = "up")
  /\ Remembers(mem, hist)
  /\ Serves(apply, mem, hist)
  /\ hist.unruffled => FollowedBy(mem, apply, applyRequested, unit.powerOn)
  /\ Capped(unit, hist)

LEMMA TimeInt == \A t \in Time : t \in Int
BY SteamAssumption DEF Time

\* A session that ended later leaves as much.
LEMMA LaterSession ==
  ASSUME TypeOK, NEW m \in Memory, NEW u \in Unit, NEW h \in History, NEW k \in History,
         h.sessionEndedAt <= k.sessionEndedAt, h.heated => k.heated
  PROVE  /\ Remembers(m, h) => Remembers(m, k)
         /\ \A a \in Apply : Serves(a, m, h) => Serves(a, m, k)
         /\ Capped(u, h) => Capped(u, k)
<1> DEFINE s == h.sessionEndedAt
           t == k.sessionEndedAt
<1>1. s \in Int /\ t \in Int /\ s <= t /\ now \in Int
  BY TimeInt DEF History, TypeOK
<1>2. MaxTime \in Int /\ FanTimerTime \in Int /\ u.fanTimer \in Int
  BY SteamAssumption DEF Unit
<1>3. /\ m.endedBeforePlanAt # None => m.endedBeforePlanAt \in Int
      /\ m.fanCooldown # None => m.fanCooldown.slotEndedAt \in Int
  BY TimeInt DEF Memory, Cooldown
<1>4. ASSUME NEW a \in Apply, Serves(a, m, h)
      PROVE  Serves(a, m, k)
  <2>1. a.at \in Int /\ a.endedAt \in Int
    BY TimeInt DEF Apply
  <2> HIDE DEF s, t
  <2>2. /\ a.at <= s => a.at <= t
        /\ a.endedAt <= s => a.endedAt <= t
        /\ a.at < s + MaxTime => a.at < t + MaxTime
    BY <1>1, <1>2, <2>1
  <2> QED
    BY <1>4, <2>2 DEF Serves, s, t
<1> HIDE DEF s, t
<1>5. /\ \A x \in Int : x <= s => x <= t
      /\ now + u.fanTimer <= s + MaxTime + FanTimerTime
           => now + u.fanTimer <= t + MaxTime + FanTimerTime
  BY <1>1, <1>2
<1>6. Remembers(m, h) => Remembers(m, k)
  BY <1>3, <1>5 DEF Remembers, s, t
<1>7. Capped(u, h) => Capped(u, k)
  BY <1>5 DEF Capped, s, t
<1> QED
  BY <1>4, <1>6, <1>7

\* The primed invariant, from the new values, when the clock stands still.
LEMMA SteamNext ==
  ASSUME now' = now, hist' \in History, hist'.sessionEndedAt <= now,
         hist'.unruffled => phase' = "up",
         Remembers(mem', hist'), Serves(apply', mem', hist'),
         hist'.unruffled => FollowedBy(mem', apply', applyRequested', unit'.powerOn),
         Capped(unit', hist')
  PROVE  SteamInv'
<1>1. Remembers(mem, hist)' /\ Serves(apply, mem, hist)' /\ Capped(unit, hist)'
  BY DEF Remembers, Serves, Capped
<1>2. Wanted(mem)' <=> Wanted(mem')
  BY DEF Wanted, DesiredOn, ExpireOverride, scheduledOn
<1>3. hist'.unruffled => FollowedBy(mem, apply, applyRequested, unit.powerOn)'
  BY <1>2 DEF FollowedBy
<1> QED
  BY <1>1, <1>3 DEF SteamInv

LEMMA ExpiredKeeps ==
  ASSUME NEW m \in Memory, NEW e, e = ExpireOverride(m)
  PROVE  /\ e.lastDesired = m.lastDesired /\ e.fanCooldown = m.fanCooldown
         /\ e.endedBeforePlanAt = m.endedBeforePlanAt
         /\ ExpireOverride(e) = e
<1>1. CASE m.override = "on" /\ now >= m.expiresAt
  <2>1. e = [m EXCEPT !.override = "none", !.expiresAt = 0]
    BY <1>1 DEF ExpireOverride
  <2> QED
    BY <2>1 DEF Memory, ExpireOverride
<1>2. CASE ~(m.override = "on" /\ now >= m.expiresAt)
  BY <1>2 DEF ExpireOverride
<1> QED
  BY <1>1, <1>2

\* What is wanted depends on the override and the plan alone.
LEMMA WantedSame ==
  ASSUME NEW m \in Memory, NEW n \in Memory, n.override = m.override,
         n.expiresAt = m.expiresAt, n.schedule = m.schedule
  PROVE  Wanted(n) <=> Wanted(m)
<1>1. CASE m.override = "on" /\ now >= m.expiresAt
  <2>1. /\ ExpireOverride(m) = [m EXCEPT !.override = "none", !.expiresAt = 0]
        /\ ExpireOverride(n) = [n EXCEPT !.override = "none", !.expiresAt = 0]
    BY <1>1 DEF ExpireOverride
  <2>2. /\ ExpireOverride(m).override = "none" /\ ExpireOverride(n).override = "none"
        /\ ExpireOverride(m).schedule = m.schedule /\ ExpireOverride(n).schedule = m.schedule
    BY <2>1 DEF Memory
  <2> QED
    BY <2>2 DEF Wanted, DesiredOn, scheduledOn
<1>2. CASE ~(m.override = "on" /\ now >= m.expiresAt)
  <2>1. ExpireOverride(m) = m /\ ExpireOverride(n) = n
    BY <1>2 DEF ExpireOverride
  <2> QED
    BY <2>1 DEF Wanted, DesiredOn, scheduledOn
<1> QED
  BY <1>1, <1>2

LEMMA DecideServes ==
  ASSUME TypeOK, NEW m \in Memory, NEW h \in History, phase = "up",
         h.sessionEndedAt <= now, Remembers(m, h), unit' \in Unit, Capped(unit', h),
         Decide(m, h),
         UNCHANGED <<phase, now>>
  PROVE  SteamInv'
<1> DEFINE e == ExpireOverride(m)
           on == DesiredOn(e)
           ended == e.lastDesired = "on" /\ ~on
<1>1. /\ e \in Memory /\ e.lastDesired = m.lastDesired /\ e.fanCooldown = m.fanCooldown
      /\ e.endedBeforePlanAt = m.endedBeforePlanAt
      /\ ExpireOverride(e) = e
  BY ExpiredTyped, ExpiredKeeps
<1>2. on \in BOOLEAN /\ ended \in BOOLEAN
  BY DEF DesiredOn
<1>3. /\ mem' = [e EXCEPT !.lastDesired = IF on THEN "on" ELSE "off"]
      /\ apply' = [Idle EXCEPT !.awaits = IF on THEN "powerTimer" ELSE "powerOff",
                               !.desiredOn = on, !.sessionEnded = ended, !.at = now]
      /\ applyRequested' = FALSE
      /\ hist' = [h EXCEPT !.unruffled = TRUE, !.heated = @ \/ on,
                           !.sessionEndedAt = IF ended THEN now ELSE @]
  BY DEF Decide
<1>4. Wanted(e) <=> on
  BY <1>1 DEF Wanted
<1>5. ended => m.lastDesired = "on" /\ ~on
  BY <1>1
<1> HIDE DEF e, on, ended
<1>6. now \in Time /\ now \in Int
  BY TimeInt DEF TypeOK
<1>7. /\ mem' \in Memory /\ mem'.lastDesired = (IF on THEN "on" ELSE "off")
      /\ mem'.fanCooldown = m.fanCooldown /\ mem'.endedBeforePlanAt = m.endedBeforePlanAt
      /\ mem'.override = e.override /\ mem'.expiresAt = e.expiresAt /\ mem'.schedule = e.schedule
  BY <1>1, <1>3 DEF Memory
<1>8. /\ apply'.awaits = (IF on THEN "powerTimer" ELSE "powerOff")
      /\ apply'.desiredOn = on /\ apply'.sessionEnded = ended /\ apply'.at = now
  BY <1>3 DEF Idle
<1>9. /\ hist' \in History /\ hist'.unruffled = TRUE /\ hist'.heated = (h.heated \/ on)
      /\ hist'.sessionEndedAt = (IF ended THEN now ELSE h.sessionEndedAt)
  <2>1. (h.heated \/ on) \in BOOLEAN
    OBVIOUS
  <2> QED
    BY <1>3, <1>6, <2>1 DEF History
<1> DEFINE s == h.sessionEndedAt
           s2 == hist'.sessionEndedAt
<1>10. s \in Int /\ s <= now /\ s2 = (IF ended THEN now ELSE s)
  BY <1>9, TimeInt DEF History
<1> HIDE DEF s, s2
<1>11. s <= s2 /\ s2 <= now
  BY <1>2, <1>6, <1>10
<1>12. Remembers(mem', hist')
  <2> DEFINE k == [h EXCEPT !.sessionEndedAt = s2]
  <2>1. k \in History /\ k.sessionEndedAt = s2 /\ k.heated = h.heated
    BY <1>9 DEF History, s2
  <2>2. Remembers(m, k)
    BY <1>11, <2>1, LaterSession DEF s
  <2> QED
    BY <1>7, <1>9, <2>1, <2>2 DEF Remembers, s2
<1>13. Serves(apply', mem', hist')
  BY <1>2, <1>5, <1>6, <1>7, <1>8, <1>9 DEF Serves, Remembers
<1>14. Wanted(mem') <=> on
  BY <1>1, <1>4, <1>7, WantedSame
<1>15. FollowedBy(mem', apply', applyRequested', unit'.powerOn)
  BY <1>8, <1>14 DEF FollowedBy, PowerCalls, FanCalls
<1>16. Capped(unit', hist')
  BY <1>9, <1>11, LaterSession DEF s, s2
<1> QED
  BY <1>9, <1>11, <1>12, <1>13, <1>15, <1>16, SteamNext DEF s2

\* An apply ended, with m in memory: another follows, or the unit is left as m
\* wants it.
LEMMA FinishServes ==
  ASSUME TypeOK, NEW m \in Memory, NEW h \in History, h.sessionEndedAt <= now,
         h.unruffled => phase = "up", Remembers(m, h), unit' \in Unit, Capped(unit', h),
         h.unruffled /\ ~applyRequested => (unit'.powerOn <=> Wanted(m)),
         Finish(m, h), UNCHANGED <<phase, now>>
  PROVE  SteamInv'
<1>1. CASE applyRequested /\ phase = "up"
  <2>1. Decide(m, h)
    BY <1>1 DEF Finish
  <2> QED
    BY <1>1, <2>1, DecideServes
<1>2. CASE ~(applyRequested /\ phase = "up")
  <2>1. mem' = m /\ hist' = h /\ apply' = Idle /\ applyRequested' = FALSE
    BY <1>2 DEF Finish
  <2>2. apply'.awaits = "nothing"
    BY <2>1 DEF Idle
  <2>3. Serves(apply', m, h)
    BY <2>2 DEF Serves
  <2>4. h.unruffled => FollowedBy(m, apply', applyRequested', unit'.powerOn)
    BY <1>2, <2>2 DEF FollowedBy, PowerCalls, FanCalls
  <2> QED
    BY <2>1, <2>3, <2>4, SteamNext
<1> QED
  BY <1>1, <1>2

\* A request, with what its caller has written and learnt of ended sessions.
LEMMA RequestServes ==
  ASSUME IInv, SteamInv, NEW m \in Memory, NEW h \in History, phase = "up",
         hist.sessionEndedAt <= h.sessionEndedAt, h.sessionEndedAt <= now,
         h.heated = hist.heated, h.unruffled = hist.unruffled,
         Remembers(m, h), m.lastDesired = mem.lastDesired,
         RequestApply(m, h), UNCHANGED <<phase, unit, now>>
  PROVE  SteamInv'
<1>1. /\ TypeOK /\ unit \in Unit /\ apply \in Apply /\ mem \in Memory /\ hist \in History
      /\ unit' = unit /\ now' = now /\ phase' = phase
  BY DEF IInv, TypeOK, SteamInv
<1>2. Capped(unit, hist) /\ Serves(apply, mem, hist)
  BY DEF SteamInv
<1>3. Capped(unit, h) /\ Serves(apply, mem, h)
  BY <1>1, <1>2, LaterSession
<1>4. CASE applyRunning
  <2>1. mem' = m /\ hist' = h /\ applyRequested' = TRUE /\ apply' = apply
    BY <1>4 DEF RequestApply
  <2>2. Serves(apply, m, h)
    BY <1>3 DEF Serves
  <2>3. h.unruffled => FollowedBy(m, apply, TRUE, unit.powerOn)
    BY <1>4 DEF SteamInv, FollowedBy, applyRunning
  <2> QED
    BY <1>1, <1>3, <2>1, <2>2, <2>3, SteamNext
<1>5. CASE ~applyRunning
  <2>1. Decide(m, h)
    BY <1>5 DEF RequestApply
  <2> QED
    BY <1>1, <1>3, <2>1, DecideServes
<1> QED
  BY <1>4, <1>5

\* A command that lands leaves the fan capped and the power to the decision.
LEMMA LandedServes ==
  ASSUME IInv, SteamInv
  PROVE  /\ Landed \in Unit /\ Capped(Landed, hist)
         /\ apply.awaits \notin {"powerOn", "powerOff"} => Landed.powerOn = unit.powerOn
         /\ apply.awaits = "powerOn" => Landed.powerOn
         /\ apply.awaits = "powerOff" => ~Landed.powerOn
         /\ Landed.fanOn /\ ~unit.fanOn => apply.awaits = "fanOn"
<1>1. /\ unit \in Unit /\ apply \in Apply /\ now \in Int /\ hist \in History
      /\ Capped(unit, hist) /\ Serves(apply, mem, hist)
  BY TimeInt DEF IInv, TypeOK, SteamInv
<1> DEFINE s == hist.sessionEndedAt
<1>2. s \in Int /\ apply.at \in Int /\ MaxTime \in Int /\ MaxTime >= 1 /\ FanTimerTime \in Int
  BY <1>1, TimeInt, SteamAssumption DEF Apply, History
<1> HIDE DEF s
<1>3. \A t \in 0..FanTimerTime : t \in Int /\ t <= FanTimerTime
  BY <1>2
<1>4. ASSUME apply.awaits \in {"fanTimer", "fanOn", "fanRearm"}, NEW t \in 0..FanTimerTime
      PROVE  now + t <= s + MaxTime + FanTimerTime
  <2>1. now <= apply.at + 1
    BY <1>1, <1>4 DEF Serves
  <2>2. CASE apply.awaits \in {"fanTimer", "fanOn"}
    <3>1. apply.at <= s
      BY <1>1, <2>2 DEF Serves, s
    <3> QED
      BY <1>1, <1>2, <1>3, <2>1, <3>1
  <2>3. CASE apply.awaits = "fanRearm"
    <3>1. apply.at < s + MaxTime
      BY <1>1, <2>3 DEF Serves, s
    <3> QED
      BY <1>1, <1>2, <1>3, <2>1, <3>1
  <2> QED
    BY <1>4, <2>2, <2>3
<1>5. CASE apply.awaits \in {"fanTimer", "fanRearm"}
  <2>1. Landed = [unit EXCEPT !.fanTimer = FanTimerTime]
    BY <1>5 DEF Landed
  <2>2. FanTimerTime \in 0..FanTimerTime
    BY SteamAssumption
  <2> QED
    BY <1>1, <1>4, <1>5, <2>1, <2>2 DEF Unit, Capped, s
<1>6. CASE apply.awaits = "fanOn"
  <2>1. Landed = [unit EXCEPT !.fanOn = TRUE]
    BY <1>6 DEF Landed
  <2>2. unit.fanTimer \in 0..FanTimerTime
    BY <1>1 DEF Unit
  <2> QED
    BY <1>1, <1>4, <1>6, <2>1, <2>2 DEF Unit, Capped, s
<1>7. CASE apply.awaits = "fanOff"
  <2>1. Landed = [unit EXCEPT !.fanOn = FALSE]
    BY <1>7 DEF Landed
  <2> QED
    BY <1>1, <1>7, <2>1 DEF Unit, Capped
<1>8. CASE apply.awaits = "powerOn"
  <2>1. Landed = [unit EXCEPT !.powerOn = TRUE]
    BY <1>8 DEF Landed
  <2> QED
    BY <1>1, <1>8, <2>1 DEF Unit, Capped
<1>9. CASE apply.awaits = "powerOff"
  <2>1. Landed = [unit EXCEPT !.powerOn = FALSE]
    BY <1>9 DEF Landed
  <2> QED
    BY <1>1, <1>9, <2>1 DEF Unit, Capped
<1>10. CASE apply.awaits = "powerTimer"
  <2>1. Landed = [unit EXCEPT !.powerTimer = PowerTimerTime]
    BY <1>10 DEF Landed
  <2> QED
    BY <1>1, <1>10, <2>1, SteamAssumption DEF Unit, Capped
<1>11. CASE apply.awaits \notin {"powerTimer", "powerOn", "powerOff", "fanTimer", "fanRearm",
                                 "fanOn", "fanOff"}
  <2>1. Landed = unit
    BY <1>11 DEF Landed
  <2> QED
    BY <1>1, <1>11, <2>1
<1> QED
  BY <1>5, <1>6, <1>7, <1>8, <1>9, <1>10, <1>11

\* The history of a fan that a landing command has switched on or left alone.
LEMMA FanHistory ==
  ASSUME IInv, SteamInv, NEW u \in {unit, Landed}, NEW h, h = WithFan(hist, u)
  PROVE  /\ h \in History /\ h.sessionEndedAt = hist.sessionEndedAt
         /\ h.unruffled = hist.unruffled /\ Remembers(mem, h)
<1> DEFINE heated == hist.heated /\ ~(u.fanOn /\ ~unit.fanOn)
<1>1. hist \in History /\ heated \in BOOLEAN
  BY DEF SteamInv, History
<1>2. h = [hist EXCEPT !.heated = heated]
  BY DEF WithFan
<1>3. u.fanOn /\ ~unit.fanOn => apply.awaits = "fanOn"
  BY LandedServes
<1>4. u.fanOn /\ ~unit.fanOn => mem.lastDesired # "on"
  BY <1>3 DEF SteamInv, Serves
<1>5. mem.lastDesired = "on" => heated
  BY <1>4 DEF SteamInv, Remembers
<1> HIDE DEF heated
<1>6. /\ h \in History /\ h.sessionEndedAt = hist.sessionEndedAt
      /\ h.unruffled = hist.unruffled /\ h.heated = heated
  BY <1>1, <1>2 DEF History
<1>7. Remembers(mem, h)
  BY <1>5, <1>6 DEF SteamInv, Remembers
<1> QED
  BY <1>6, <1>7

\* Once the power has been seen to, it is as the apply decided.
LEMMA PowerSettled ==
  ASSUME IInv, SteamInv, hist.unruffled,
         \/ apply.awaits \in FanCalls \cup {"powerOn", "powerOff"}
         \/ apply.awaits = "status" /\ unit.powerOn
  PROVE  Landed.powerOn <=> apply.desiredOn
<1>1. FollowedBy(mem, apply, applyRequested, unit.powerOn)
  BY DEF SteamInv
<1>2. CASE apply.awaits \in FanCalls
  <2>1. Landed.powerOn = unit.powerOn
    BY <1>2, LandedServes DEF FanCalls
  <2> QED
    BY <1>1, <1>2, <2>1 DEF FollowedBy
<1>3. CASE apply.awaits \in {"powerOn", "powerOff"}
  BY <1>1, <1>3, LandedServes DEF FollowedBy, PowerCalls
<1>4. CASE apply.awaits = "status" /\ unit.powerOn
  <2>1. Landed.powerOn = unit.powerOn
    BY <1>4, LandedServes
  <2> QED
    BY <1>1, <1>4, <2>1 DEF FollowedBy, PowerCalls
<1> QED
  BY <1>2, <1>3, <1>4

\* A call that is answered and ends the apply; only the memory of the fan changes.
LEMMA ReplyFinishServes ==
  ASSUME IInv, SteamInv, NEW call, Replies(call),
         NEW m \in Memory, m.override = mem.override, m.expiresAt = mem.expiresAt,
         m.schedule = mem.schedule,
         NEW h \in History, h.sessionEndedAt = hist.sessionEndedAt,
         h.unruffled = hist.unruffled, Remembers(m, h), Finish(m, h),
         \/ call \in FanCalls \cup {"powerOn", "powerOff"}
         \/ call = "status" /\ unit.powerOn
  PROVE  SteamInv'
<1>1. /\ apply.awaits = call /\ call # "nothing" /\ unit' = Landed
      /\ UNCHANGED <<phase, now>>
  BY DEF Replies, FanCalls
<1>2. /\ TypeOK /\ mem \in Memory /\ hist \in History /\ hist.sessionEndedAt <= now
      /\ hist.unruffled => phase = "up"
      /\ hist.unruffled => FollowedBy(mem, apply, applyRequested, unit.powerOn)
  BY DEF IInv, TypeOK, SteamInv
<1>3. Landed \in Unit /\ Capped(Landed, hist)
  BY LandedServes
<1>4. Capped(Landed, h)
  BY <1>3 DEF Capped
<1>5. Wanted(m) <=> Wanted(mem)
  BY <1>2, WantedSame
<1>6. h.unruffled /\ ~applyRequested => (unit'.powerOn <=> Wanted(m))
  BY <1>1, <1>2, <1>5, PowerSettled DEF FollowedBy
<1> QED
  BY <1>1, <1>2, <1>3, <1>4, <1>6, FinishServes

\* A call that is answered and followed by another.
LEMMA ThenServes ==
  ASSUME IInv, SteamInv, apply.awaits # "nothing", unit' = Landed,
         UNCHANGED <<phase, now, hist, applyRequested>>,
         mem' \in Memory, mem'.override = mem.override, mem'.expiresAt = mem.expiresAt,
         mem'.schedule = mem.schedule, mem'.lastDesired = mem.lastDesired,
         Remembers(mem', hist),
         apply'.desiredOn = apply.desiredOn, apply'.sessionEnded = apply.sessionEnded,
         apply'.at = apply.at,
         apply'.awaits \notin {"nothing", "powerOff"},
         apply'.awaits \in {"fanTimer", "fanOn"} => apply.sessionEnded,
         apply'.awaits = "pickUp" => apply'.endedAt <= hist.sessionEndedAt,
         apply'.awaits = "fanRearm" => apply.at < hist.sessionEndedAt + MaxTime,
         hist.unruffled /\ apply'.awaits \in PowerCalls => apply.desiredOn,
         hist.unruffled /\ apply'.awaits \in FanCalls => (Landed.powerOn <=> apply.desiredOn)
  PROVE  SteamInv'
<1>1. /\ mem \in Memory /\ hist \in History /\ hist.sessionEndedAt <= now
      /\ hist.unruffled => phase = "up"
      /\ Serves(apply, mem, hist)
      /\ hist.unruffled => FollowedBy(mem, apply, applyRequested, unit.powerOn)
  BY DEF IInv, TypeOK, SteamInv
<1>2. Capped(Landed, hist)
  BY LandedServes
<1>3. Serves(apply', mem', hist)
  BY <1>1 DEF Serves
<1>4. Wanted(mem') <=> Wanted(mem)
  BY <1>1, WantedSame
<1>5. hist.unruffled => FollowedBy(mem', apply', applyRequested, Landed.powerOn)
  BY <1>1, <1>4 DEF FollowedBy
<1> QED
  BY <1>1, <1>2, <1>3, <1>5, SteamNext

LEMMA NextCallServes ==
  ASSUME IInv, SteamInv, NEW call, call # "nothing", Replies(call), NEW next, Then(next),
         next \in {"target", "status", "powerOn", "fanTimer", "fanOn", "fanStatus"},
         next \in {"fanTimer", "fanOn"} => apply.sessionEnded,
         next \in {"target", "status", "powerOn"} => call \in PowerCalls,
         next \in {"fanTimer", "fanOn", "fanStatus"} =>
           \/ call \in FanCalls \cup {"powerOn", "powerOff"}
           \/ call = "status" /\ unit.powerOn
  PROVE  SteamInv'
<1>1. /\ apply \in Apply /\ mem \in Memory /\ Remembers(mem, hist)
      /\ hist.unruffled => FollowedBy(mem, apply, applyRequested, unit.powerOn)
  BY DEF IInv, TypeOK, SteamInv
<1>2. apply.awaits = call /\ unit' = Landed /\ UNCHANGED <<phase, now>>
  BY DEF Replies
<1>3. apply' = [apply EXCEPT !.awaits = next] /\ UNCHANGED <<mem, hist, applyRequested>>
  BY DEF Then
<1>4. /\ apply'.awaits = next /\ apply'.desiredOn = apply.desiredOn
      /\ apply'.sessionEnded = apply.sessionEnded /\ apply'.at = apply.at
  BY <1>1, <1>3 DEF Apply
<1>5. hist.unruffled /\ next \in PowerCalls => apply.desiredOn
  BY <1>1, <1>2 DEF FollowedBy, PowerCalls
<1>6. hist.unruffled /\ next \in FanCalls => (Landed.powerOn <=> apply.desiredOn)
  BY <1>2, PowerSettled DEF FanCalls
<1> QED
  BY <1>1, <1>2, <1>3, <1>4, <1>5, <1>6, ThenServes

LEMMA DriveServes ==
  ASSUME IInv, SteamInv, NEW call, Replies(call), DriveFanCooldown,
         \/ call \in {"powerOn", "powerOff"}
         \/ call = "status" /\ unit.powerOn
  PROVE  SteamInv'
<1>1. /\ mem \in Memory /\ apply \in Apply /\ hist \in History
      /\ Remembers(mem, hist) /\ Serves(apply, mem, hist)
  BY DEF IInv, TypeOK, SteamInv
<1> DEFINE m == [mem EXCEPT !.endedBeforePlanAt = None]
<1>2. /\ m \in Memory /\ m.override = mem.override /\ m.expiresAt = mem.expiresAt
      /\ m.schedule = mem.schedule /\ m.lastDesired = mem.lastDesired
      /\ m.fanCooldown = mem.fanCooldown /\ m.endedBeforePlanAt = None
  BY <1>1 DEF Memory
<1>3. Remembers(m, hist)
  BY <1>1, <1>2 DEF Remembers
<1>4. CASE apply.sessionEnded /\ Then("fanTimer")
  BY <1>4, NextCallServes
<1>5. CASE Then("fanStatus")
  BY <1>5, NextCallServes
<1>6. CASE Finish(m, hist)
  <2> HIDE DEF m
  <2> QED
    BY <1>1, <1>2, <1>3, <1>6, ReplyFinishServes
<1>7. CASE /\ mem.endedBeforePlanAt # None
           /\ apply' = [apply EXCEPT !.awaits = "pickUp", !.endedAt = mem.endedBeforePlanAt]
           /\ mem' = m
           /\ UNCHANGED <<hist, applyRequested>>
  <2>1. /\ apply'.awaits = "pickUp" /\ apply'.endedAt = mem.endedBeforePlanAt
        /\ apply'.desiredOn = apply.desiredOn /\ apply'.sessionEnded = apply.sessionEnded
        /\ apply'.at = apply.at
    BY <1>1, <1>7 DEF Apply
  <2>2. mem.endedBeforePlanAt <= hist.sessionEndedAt
    BY <1>1, <1>7 DEF Remembers
  <2>3. apply.awaits = call /\ unit' = Landed /\ UNCHANGED <<phase, now>>
    BY DEF Replies
  <2>4. hist.unruffled => (Landed.powerOn <=> apply.desiredOn)
    BY <2>3, PowerSettled
  <2>5. mem' = m /\ UNCHANGED <<hist, applyRequested>>
    BY <1>7
  <2> HIDE DEF m
  <2> QED
    BY <1>2, <1>3, <2>1, <2>2, <2>3, <2>4, <2>5, ThenServes DEF PowerCalls
<1> QED
  BY <1>4, <1>5, <1>6, <1>7 DEF DriveFanCooldown

LEMMA FanOnServes == ASSUME IInv, SteamInv, SetFanOn PROVE SteamInv'
<1> DEFINE cooldown == newFanCooldown(apply.at)
           m == [mem EXCEPT !.fanCooldown = cooldown, !.endedBeforePlanAt = None]
           h == WithFan(hist, Landed)
<1>1. mem \in Memory /\ apply.at \in Time /\ Serves(apply, mem, hist)
  BY DEF IInv, TypeOK, Apply, SteamInv
<1>2. cooldown \in Cooldown /\ cooldown.slotEndedAt = apply.at
  BY <1>1 DEF newFanCooldown, Cooldown
<1>3. /\ h \in History /\ h.sessionEndedAt = hist.sessionEndedAt
      /\ h.unruffled = hist.unruffled /\ Remembers(mem, h)
  BY FanHistory
<1>4. Replies("fanOn") /\ Finish(m, h)
  BY DEF SetFanOn
<1>5. apply.at <= hist.sessionEndedAt
  BY <1>1, <1>4 DEF Serves, Replies
<1> HIDE DEF cooldown, h
<1>6. /\ m \in Memory /\ m.override = mem.override /\ m.expiresAt = mem.expiresAt
      /\ m.schedule = mem.schedule /\ m.lastDesired = mem.lastDesired
      /\ m.fanCooldown = cooldown /\ m.endedBeforePlanAt = None
  BY <1>1, <1>2 DEF Memory
<1> HIDE DEF m
<1>7. Remembers(m, h)
  BY <1>2, <1>3, <1>5, <1>6 DEF Remembers
<1> QED
  BY <1>3, <1>4, <1>6, <1>7, ReplyFinishServes DEF FanCalls

LEMMA PickUpServes == ASSUME IInv, SteamInv, PickUpCooldown PROVE SteamInv'
<1>1. /\ mem \in Memory /\ apply \in Apply /\ hist \in History
      /\ Serves(apply, mem, hist) /\ Remembers(mem, hist)
  BY DEF IInv, TypeOK, SteamInv
<1>2. Replies("pickUp") /\ apply.awaits = "pickUp" /\ unit' = Landed /\ UNCHANGED <<phase, now>>
  BY DEF PickUpCooldown, Replies
<1>3. CASE unit.fanOn
  <2> DEFINE cooldown == newFanCooldown(apply.endedAt)
  <2>1. cooldown \in Cooldown /\ cooldown.slotEndedAt = apply.endedAt
    BY <1>1 DEF newFanCooldown, Cooldown, Apply
  <2>2. /\ mem' = [mem EXCEPT !.fanCooldown = cooldown]
        /\ apply' = [apply EXCEPT !.awaits = "fanStatus"]
        /\ UNCHANGED <<hist, applyRequested>>
    BY <1>3 DEF PickUpCooldown
  <2> HIDE DEF cooldown
  <2>3. /\ mem' \in Memory /\ mem'.override = mem.override /\ mem'.expiresAt = mem.expiresAt
        /\ mem'.schedule = mem.schedule /\ mem'.lastDesired = mem.lastDesired
        /\ mem'.fanCooldown = cooldown /\ mem'.endedBeforePlanAt = mem.endedBeforePlanAt
    BY <1>1, <2>1, <2>2 DEF Memory
  <2>4. apply.endedAt <= hist.sessionEndedAt
    BY <1>1, <1>2 DEF Serves
  <2>5. Remembers(mem', hist)
    BY <1>1, <2>1, <2>3, <2>4 DEF Remembers
  <2>6. /\ apply'.awaits = "fanStatus"
        /\ apply'.desiredOn = apply.desiredOn /\ apply'.sessionEnded = apply.sessionEnded
        /\ apply'.at = apply.at
    BY <1>1, <2>2 DEF Apply
  <2>7. hist.unruffled => (Landed.powerOn <=> apply.desiredOn)
    BY <1>2, PowerSettled DEF FanCalls
  <2> QED
    BY <1>2, <2>2, <2>3, <2>5, <2>6, <2>7, ThenServes DEF PowerCalls
<1>4. CASE ~unit.fanOn
  <2>1. Finish(mem, hist)
    BY <1>4 DEF PickUpCooldown
  <2> QED
    BY <1>1, <1>2, <2>1, ReplyFinishServes DEF FanCalls
<1> QED
  BY <1>3, <1>4

LEMMA LapsedServes == ASSUME IInv, SteamInv, FanLapsed PROVE SteamInv'
<1> DEFINE m == [mem EXCEPT !.fanCooldown = None]
<1>1. mem \in Memory /\ hist \in History /\ Remembers(mem, hist)
  BY DEF IInv, TypeOK, SteamInv
<1>2. /\ m \in Memory /\ m.override = mem.override /\ m.expiresAt = mem.expiresAt
      /\ m.schedule = mem.schedule /\ m.lastDesired = mem.lastDesired
      /\ m.fanCooldown = None /\ m.endedBeforePlanAt = mem.endedBeforePlanAt
  BY <1>1 DEF Memory
<1>3. Replies("fanStatus") /\ Finish(m, hist)
  BY DEF FanLapsed
<1> HIDE DEF m
<1>4. Remembers(m, hist)
  BY <1>1, <1>2 DEF Remembers
<1> QED
  BY <1>1, <1>2, <1>3, <1>4, ReplyFinishServes DEF FanCalls

LEMMA ReadingServes ==
  ASSUME IInv, SteamInv, NEW celsius \in Temperatures, ReadTemperature(celsius)
  PROVE  SteamInv'
<1> DEFINE old == mem.fanCooldown
           reading == celsiusToFahrenheit(celsius)
           cooldown == withReading(old, apply.at, reading)
           stops == Stops(cooldown, apply.at, apply.desiredOn)
<1>1. /\ mem \in Memory /\ apply \in Apply /\ hist \in History
      /\ Serves(apply, mem, hist) /\ Remembers(mem, hist)
  BY DEF IInv, TypeOK, SteamInv
<1>2. old \in Cooldown /\ apply.at \in Time /\ old.slotEndedAt <= hist.sessionEndedAt
  BY <1>1 DEF ReadTemperature, Memory, Apply, Remembers
<1>3. /\ [old EXCEPT !.lowest = reading, !.lowestAt = apply.at, !.latestAt = apply.at] \in Cooldown
      /\ [old EXCEPT !.latestAt = apply.at] \in Cooldown
  BY <1>2 DEF Cooldown, Readings
<1>4. cooldown \in Cooldown /\ cooldown.slotEndedAt = old.slotEndedAt
  BY <1>2, <1>3 DEF withReading, Cooldown
<1>5. /\ mem' = [mem EXCEPT !.fanCooldown = IF stops THEN None ELSE cooldown]
      /\ apply' = [apply EXCEPT !.awaits = IF stops THEN "fanOff" ELSE "fanRearm"]
      /\ UNCHANGED <<hist, applyRequested>>
      /\ apply.awaits = "fanStatus" /\ unit' = Landed /\ UNCHANGED <<phase, now>>
  BY DEF ReadTemperature, Replies
<1>6. ~stops => apply.at < hist.sessionEndedAt + MaxTime
  <2>1. /\ apply.at \in Int /\ cooldown.slotEndedAt \in Int /\ hist.sessionEndedAt \in Int
        /\ MaxTime \in Int
    BY <1>1, <1>2, <1>4, TimeInt, SteamAssumption DEF Cooldown, History
  <2>2. ~stops => ~(apply.at - cooldown.slotEndedAt >= MaxTime)
    BY DEF Stops
  <2> QED
    BY <1>2, <1>4, <2>1, <2>2
<1> HIDE DEF cooldown, stops
<1>7. /\ mem' \in Memory /\ mem'.override = mem.override /\ mem'.expiresAt = mem.expiresAt
      /\ mem'.schedule = mem.schedule /\ mem'.lastDesired = mem.lastDesired
      /\ mem'.fanCooldown = (IF stops THEN None ELSE cooldown)
      /\ mem'.endedBeforePlanAt = mem.endedBeforePlanAt
  BY <1>1, <1>4, <1>5 DEF Memory
<1>8. Remembers(mem', hist)
  BY <1>1, <1>2, <1>4, <1>7 DEF Remembers
<1>9. /\ apply'.awaits = (IF stops THEN "fanOff" ELSE "fanRearm")
      /\ apply'.desiredOn = apply.desiredOn /\ apply'.sessionEnded = apply.sessionEnded
      /\ apply'.at = apply.at
  BY <1>1, <1>5 DEF Apply
<1>10. hist.unruffled => (Landed.powerOn <=> apply.desiredOn)
  BY <1>5, PowerSettled DEF FanCalls
<1> QED
  BY <1>5, <1>6, <1>7, <1>8, <1>9, <1>10, ThenServes DEF PowerCalls

LEMMA StepServes == ASSUME IInv, SteamInv, ApplyStep PROVE SteamInv'
<1>1. mem \in Memory /\ hist \in History /\ Remembers(mem, hist) /\ Serves(apply, mem, hist)
  BY DEF IInv, TypeOK, SteamInv
<1>2. CASE SetPowerTimer
  BY <1>2, NextCallServes DEF SetPowerTimer, PowerCalls
<1>3. CASE SetTargetTemperature
  BY <1>3, NextCallServes DEF SetTargetTemperature, PowerCalls
<1>4. CASE ReadPower
  <2>1. CASE unit.powerOn
    BY <1>4, <2>1, DriveServes DEF ReadPower
  <2>2. CASE ~unit.powerOn
    BY <1>4, <2>2, NextCallServes DEF ReadPower, PowerCalls
  <2> QED
    BY <2>1, <2>2
<1>5. CASE SetPowerOn
  BY <1>5, DriveServes DEF SetPowerOn
<1>6. CASE SetPowerOff
  BY <1>6, DriveServes DEF SetPowerOff
<1>7. CASE SetFanTimer
  <2>1. apply.sessionEnded
    BY <1>1, <1>7 DEF SetFanTimer, Replies, Serves
  <2> QED
    BY <1>7, <2>1, NextCallServes DEF SetFanTimer, FanCalls
<1>8. CASE SetFanOn
  BY <1>8, FanOnServes
<1>9. CASE PickUpCooldown
  BY <1>9, PickUpServes
<1>10. CASE FanLapsed
  BY <1>10, LapsedServes
<1>11. CASE ReadingAfterStop
  BY <1>1, <1>11, ReplyFinishServes DEF ReadingAfterStop, FanCalls
<1>12. CASE \E celsius \in Temperatures : ReadTemperature(celsius)
  BY <1>12, ReadingServes
<1>13. CASE RearmFan
  BY <1>1, <1>13, ReplyFinishServes DEF RearmFan, FanCalls
<1>14. CASE SetFanOff
  BY <1>1, <1>14, ReplyFinishServes DEF SetFanOff, FanCalls
<1> QED
  BY <1>2, <1>3, <1>4, <1>5, <1>6, <1>7, <1>8, <1>9, <1>10, <1>11, <1>12, <1>13, <1>14 DEF ApplyStep

LEMMA OverrideServes ==
  ASSUME IInv, SteamInv, NEW override \in {"on", "off", "none"}, SetSteamOverride(override)
  PROVE  SteamInv'
<1> DEFINE expiry == IF override = "on" THEN now + OverrideTime ELSE 0
           m == [mem EXCEPT !.override = override, !.expiresAt = expiry]
<1>1. /\ mem \in Memory /\ now \in Time /\ hist \in History /\ hist.sessionEndedAt <= now
      /\ Remembers(mem, hist)
  BY DEF IInv, TypeOK, SteamInv
<1>2. expiry \in 0..(Horizon + OverrideTime)
  BY <1>1, SteamAssumption DEF Time
<1> HIDE DEF expiry
<1>3. /\ m \in Memory /\ m.lastDesired = mem.lastDesired
      /\ m.endedBeforePlanAt = mem.endedBeforePlanAt /\ m.fanCooldown = mem.fanCooldown
  BY <1>1, <1>2 DEF Memory
<1>4. RequestApply(m, hist) /\ phase = "up" /\ UNCHANGED <<phase, unit, now>>
  BY DEF SetSteamOverride, expiry
<1> HIDE DEF m
<1>5. Remembers(m, hist)
  BY <1>1, <1>3 DEF Remembers
<1>6. hist.sessionEndedAt <= hist.sessionEndedAt
  BY <1>1, TimeInt DEF History
<1> QED
  BY <1>1, <1>3, <1>4, <1>5, <1>6, RequestServes

\* A plan tells of sessions that have ended; the latest end known only moves on.
LEMMA ScheduleServes ==
  ASSUME IInv, SteamInv, NEW plan \in Plans, ApplySteamSchedule(plan)
  PROVE  SteamInv'
<1> DEFINE ended == {p.stop : p \in {q \in plan : q.stop <= now /\ now - q.stop < MaxTime}}
           upcoming == {p \in plan : p.stop > now}
           s == hist.sessionEndedAt
<1>1. /\ mem \in Memory /\ hist \in History /\ s <= now /\ Remembers(mem, hist)
      /\ plan \subseteq Period
  BY SteamAssumption DEF IInv, TypeOK, SteamInv
<1>2. ended \subseteq Time /\ (\A t \in ended : t <= now) /\ upcoming \subseteq Period
  BY <1>1 DEF Period
<1>3. PICK endedAt \in LatestOf(ended) :
        RequestApply([mem EXCEPT !.schedule = upcoming, !.endedBeforePlanAt = endedAt],
                     [hist EXCEPT !.sessionEndedAt = IF \E t \in ended : @ < t THEN endedAt ELSE @])
  BY DEF ApplySteamSchedule
<1>4. phase = "up" /\ UNCHANGED <<phase, unit, now>>
  BY DEF ApplySteamSchedule
<1> HIDE DEF ended, upcoming
<1>5. \/ ended = {} /\ endedAt = None
      \/ endedAt \in ended /\ \A t \in ended : t <= endedAt
  BY <1>3 DEF LatestOf
<1>6. endedAt \in Time \cup {None}
  BY <1>2, <1>5
<1> DEFINE later == IF \E t \in ended : s < t THEN endedAt ELSE s
           m == [mem EXCEPT !.schedule = upcoming, !.endedBeforePlanAt = endedAt]
           h == [hist EXCEPT !.sessionEndedAt = later]
<1>7. RequestApply(m, h)
  BY <1>3
<1>8. s \in Time
  BY <1>1 DEF History
<1>9. /\ later \in Time /\ s <= later /\ later <= now
      /\ endedAt # None => endedAt <= later
  <2>1. s \in Int /\ \A t \in ended : t \in Int
    BY <1>2, <1>8, TimeInt
  <2>2. CASE \E t \in ended : s < t
    <3>1. PICK t \in ended : s < t
      BY <2>2
    <3>2. endedAt \in ended /\ t <= endedAt /\ later = endedAt
      BY <1>5, <2>2, <3>1
    <3> HIDE DEF s, later
    <3>3. s <= later /\ endedAt <= later
      BY <2>1, <3>1, <3>2
    <3> QED
      BY <1>2, <3>2, <3>3
  <2>3. CASE ~(\E t \in ended : s < t)
    <3>1. later = s
      BY <2>3
    <3> HIDE DEF s, later
    <3>2. endedAt \in ended => endedAt <= s
      BY <2>1, <2>3
    <3> QED
      BY <1>1, <1>5, <1>8, <2>1, <3>1, <3>2 DEF s
  <2> QED
    BY <2>2, <2>3
<1> HIDE DEF later
<1>10. /\ m \in Memory /\ m.lastDesired = mem.lastDesired
       /\ m.endedBeforePlanAt = endedAt /\ m.fanCooldown = mem.fanCooldown
  BY <1>1, <1>2, <1>6 DEF Memory
<1>11. /\ h \in History /\ h.sessionEndedAt = later
       /\ h.heated = hist.heated /\ h.unruffled = hist.unruffled
  BY <1>1, <1>9 DEF History
<1> HIDE DEF m, h
<1>12. Remembers(mem, h)
  <2>1. unit \in Unit /\ TypeOK
    BY DEF IInv, TypeOK
  <2> QED
    BY <1>1, <1>9, <1>11, <2>1, LaterSession
<1>13. Remembers(m, h)
  BY <1>9, <1>10, <1>11, <1>12 DEF Remembers
<1> QED
  BY <1>4, <1>7, <1>9, <1>10, <1>11, <1>13, RequestServes

LEMMA TickServes == ASSUME IInv, SteamInv, ControlTick PROVE SteamInv'
<1>1. /\ mem \in Memory /\ hist \in History /\ hist.sessionEndedAt <= now
      /\ Remembers(mem, hist)
  BY DEF IInv, TypeOK, SteamInv
<1>2. RequestApply(mem, hist) /\ phase = "up" /\ UNCHANGED <<phase, unit, now>>
  BY DEF ControlTick
<1>3. hist.sessionEndedAt <= hist.sessionEndedAt
  BY <1>1, TimeInt DEF History
<1> QED
  BY <1>1, <1>2, <1>3, RequestServes

\* Expiring the override on its own changes nothing of what is wanted.
LEMMA StatusServes == ASSUME IInv, SteamInv, GetSteamStatus PROVE SteamInv'
<1>1. mem \in Memory /\ mem' = ExpireOverride(mem)
  BY DEF IInv, TypeOK, GetSteamStatus
<1>2. UNCHANGED <<phase, apply, applyRequested, unit, now, hist>>
  BY DEF GetSteamStatus
<1>3. /\ mem'.lastDesired = mem.lastDesired /\ mem'.fanCooldown = mem.fanCooldown
      /\ mem'.endedBeforePlanAt = mem.endedBeforePlanAt
      /\ ExpireOverride(mem') = mem'
  BY <1>1, ExpiredKeeps
<1>4. Wanted(mem') <=> Wanted(mem)
  BY <1>1, <1>3 DEF Wanted
<1>5. Remembers(mem', hist) /\ Serves(apply, mem', hist)
  BY <1>3 DEF SteamInv, Remembers, Serves
<1>6. hist.unruffled => FollowedBy(mem', apply, applyRequested, unit.powerOn)
  BY <1>4 DEF SteamInv, FollowedBy
<1>7. hist \in History /\ hist.sessionEndedAt <= now /\ (hist.unruffled => phase = "up") /\ Capped(unit, hist)
  BY DEF SteamInv
<1> QED
  BY <1>2, <1>5, <1>6, <1>7, SteamNext

\* A call that gives up, whether its command has landed or not.
LEMMA FailServes == ASSUME IInv, SteamInv, CallFails PROVE SteamInv'
<1> DEFINE fan == WithFan(hist, unit')
           h == [fan EXCEPT !.unruffled = FALSE]
<1>1. /\ TypeOK /\ mem \in Memory /\ unit \in Unit /\ hist \in History
      /\ hist.sessionEndedAt <= now /\ Capped(unit, hist)
  BY DEF IInv, TypeOK, SteamInv
<1>2. unit' \in {unit, Landed} /\ Finish(mem, h) /\ UNCHANGED <<phase, now>>
  BY DEF CallFails
<1>3. fan \in History /\ fan.sessionEndedAt = hist.sessionEndedAt /\ Remembers(mem, fan)
  BY <1>2, FanHistory
<1> HIDE DEF fan
<1>4. /\ h \in History /\ h.sessionEndedAt = hist.sessionEndedAt /\ h.heated = fan.heated
      /\ ~h.unruffled
  BY <1>3 DEF History
<1> HIDE DEF h
<1>5. Remembers(mem, h)
  BY <1>3, <1>4 DEF Remembers
<1>6. unit' \in Unit /\ Capped(unit', hist)
  BY <1>1, <1>2, LandedServes
<1>7. Capped(unit', h)
  BY <1>4, <1>6 DEF Capped
<1> QED
  BY <1>1, <1>2, <1>4, <1>5, <1>6, <1>7, FinishServes

\* A step that leaves the clock and the memory of sessions alone, or forgets it.
LEMMA StopServes == ASSUME IInv, SteamInv, StopSteamController PROVE SteamInv'
<1>1. /\ hist \in History /\ hist.sessionEndedAt <= now
      /\ Serves(apply, mem, hist) /\ Capped(unit, hist)
  BY DEF SteamInv
<1>2. /\ mem' = Fresh /\ hist' = [hist EXCEPT !.unruffled = FALSE]
      /\ UNCHANGED <<apply, applyRequested, unit, now>>
  BY DEF StopSteamController
<1>3. /\ hist' \in History /\ ~hist'.unruffled /\ hist'.heated = hist.heated
      /\ hist'.sessionEndedAt = hist.sessionEndedAt
  BY <1>1, <1>2 DEF History
<1>4. Remembers(mem', hist')
  BY <1>2 DEF Remembers, Fresh
<1>5. Serves(apply, mem', hist')
  BY <1>1, <1>2, <1>3 DEF Serves, Fresh
<1>6. Capped(unit, hist')
  BY <1>1, <1>3 DEF Capped
<1> QED
  BY <1>1, <1>2, <1>3, <1>4, <1>5, <1>6, SteamNext

LEMMA ExitServes == ASSUME IInv, SteamInv, Exit PROVE SteamInv'
<1>1. hist \in History /\ hist.sessionEndedAt <= now /\ Capped(unit, hist)
  BY DEF SteamInv
<1>2. /\ mem' = Fresh /\ apply' = Idle /\ hist' = [hist EXCEPT !.unruffled = FALSE]
      /\ UNCHANGED <<unit, now>>
  BY DEF Exit
<1>3. /\ hist' \in History /\ ~hist'.unruffled
      /\ hist'.sessionEndedAt = hist.sessionEndedAt
  BY <1>1, <1>2 DEF History
<1>4. Remembers(mem', hist') /\ Serves(apply', mem', hist')
  BY <1>2 DEF Remembers, Fresh, Serves, Idle
<1>5. Capped(unit, hist')
  BY <1>1, <1>3 DEF Capped
<1> QED
  BY <1>1, <1>2, <1>3, <1>4, <1>5, SteamNext

LEMMA StartServes == ASSUME IInv, SteamInv, StartSteamController PROVE SteamInv'
<1>1. /\ hist \in History /\ hist.sessionEndedAt <= now /\ ~hist.unruffled
      /\ Remembers(mem, hist) /\ Serves(apply, mem, hist) /\ Capped(unit, hist)
  BY DEF SteamInv, StartSteamController
<1>2. UNCHANGED <<mem, apply, applyRequested, unit, now, hist>>
  BY DEF StartSteamController
<1> QED
  BY <1>1, <1>2, SteamNext

\* Time passes: a fan that stays on has as much less left.
LEMMA ClockServes == ASSUME IInv, SteamInv, ClockTick PROVE SteamInv'
<1>1. /\ unit \in Unit /\ now \in Time /\ apply \in Apply /\ hist \in History
      /\ hist.sessionEndedAt <= now
      /\ Remembers(mem, hist) /\ Serves(apply, mem, hist) /\ Capped(unit, hist)
      /\ unit.fanOn => unit.fanTimer > 0
  BY DEF IInv, TypeOK, SteamInv, ArmedFirst, BackstopArmed
<1>2. /\ now' = now + 1
      /\ apply.awaits # "nothing" => apply.at = now
      /\ hist' = [hist EXCEPT !.unruffled = FALSE]
      /\ mem' = mem /\ apply' = apply
  BY DEF ClockTick, applyRunning
<1>3. /\ unit'.fanTimer = Less(unit.fanTimer)
      /\ unit'.fanOn => unit.fanOn
  BY DEF ClockTick
<1>4. /\ hist' \in History /\ ~hist'.unruffled /\ hist'.heated = hist.heated
      /\ hist'.sessionEndedAt = hist.sessionEndedAt
  BY <1>1, <1>2 DEF History
<1> DEFINE s == hist.sessionEndedAt
<1>5. now \in Int /\ s \in Int /\ unit.fanTimer \in Int /\ apply.at \in Int
      /\ MaxTime \in Int /\ FanTimerTime \in Int
  BY <1>1, TimeInt, SteamAssumption DEF History, Unit, Apply
<1> HIDE DEF s
<1>6. now' \in Int /\ hist'.unruffled = FALSE
  BY <1>2, <1>4, <1>5 DEF History
<1>7. Remembers(mem, hist)'
  BY <1>1, <1>2, <1>4 DEF Remembers
<1>8. Serves(apply, mem, hist)'
  <2>1. /\ Serves(apply, mem, hist)
        /\ apply.awaits # "nothing" => apply.at <= now' /\ now' <= apply.at + 1
    BY <1>1, <1>2, <1>5
  <2> QED
    BY <2>1, <1>2, <1>4 DEF Serves
<1>9. Capped(unit, hist)'
  <2>1. unit.fanOn => now + 1 + Less(unit.fanTimer) = now + unit.fanTimer
    BY <1>1, <1>5 DEF Less
  <2> QED
    BY <1>1, <1>2, <1>3, <1>4, <2>1 DEF Capped
<1>10. s <= now'
  BY <1>1, <1>2, <1>5 DEF s
<1> QED
  BY <1>4, <1>6, <1>7, <1>8, <1>9, <1>10 DEF SteamInv, s

LEMMA PanelServes == ASSUME IInv, SteamInv, TouchPanel PROVE SteamInv'
<1>1. /\ unit \in Unit /\ hist \in History /\ hist.sessionEndedAt <= now
      /\ Remembers(mem, hist) /\ Serves(apply, mem, hist) /\ Capped(unit, hist)
  BY DEF IInv, TypeOK, SteamInv
<1>2. /\ hist' = [hist EXCEPT !.unruffled = FALSE]
      /\ UNCHANGED <<mem, apply, applyRequested, now>>
      /\ unit' = [unit EXCEPT !.powerOn = FALSE] \/ unit' = [unit EXCEPT !.fanOn = FALSE]
  BY DEF TouchPanel
<1>3. /\ hist' \in History /\ ~hist'.unruffled /\ hist'.heated = hist.heated
      /\ hist'.sessionEndedAt = hist.sessionEndedAt
  BY <1>1, <1>2 DEF History
<1>4. unit'.fanTimer = unit.fanTimer /\ (unit'.fanOn => unit.fanOn)
  BY <1>1, <1>2 DEF Unit
<1>5. Remembers(mem, hist')
  BY <1>1, <1>3 DEF Remembers
<1>6. Serves(apply, mem, hist')
  BY <1>1, <1>3 DEF Serves
<1>7. Capped(unit', hist')
  BY <1>1, <1>3, <1>4 DEF Capped
<1> QED
  BY <1>1, <1>2, <1>3, <1>5, <1>6, <1>7, SteamNext

LEMMA InitServes == Init => SteamInv
<1> SUFFICES ASSUME Init PROVE SteamInv
  OBVIOUS
<1>1. /\ mem = Fresh /\ apply = Idle /\ hist = NoHistory /\ now = 0 /\ ~unit.fanOn
  BY DEF Init
<1>2. hist \in History /\ hist.sessionEndedAt <= now /\ ~hist.unruffled
  BY <1>1, SteamAssumption DEF NoHistory, History, Time
<1>3. Remembers(mem, hist) /\ Serves(apply, mem, hist) /\ Capped(unit, hist)
  BY <1>1 DEF Remembers, Serves, Capped, Fresh, Idle
<1> QED
  BY <1>2, <1>3 DEF SteamInv

LEMMA NextServes == IInv /\ SteamInv /\ [Next]_vars => SteamInv'
<1> SUFFICES ASSUME IInv, SteamInv, [Next]_vars PROVE SteamInv'
  OBVIOUS
<1>1. CASE \E override \in {"on", "off", "none"} : SetSteamOverride(override)
  BY <1>1, OverrideServes
<1>2. CASE \E plan \in Plans : ApplySteamSchedule(plan)
  BY <1>2, ScheduleServes
<1>3. CASE ControlTick
  BY <1>3, TickServes
<1>4. CASE GetSteamStatus
  BY <1>4, StatusServes
<1>5. CASE ApplyStep
  BY <1>5, StepServes
<1>6. CASE CallFails
  BY <1>6, FailServes
<1>7. CASE StopSteamController
  BY <1>7, StopServes
<1>8. CASE Exit
  BY <1>8, ExitServes
<1>9. CASE StartSteamController
  BY <1>9, StartServes
<1>10. CASE ClockTick
  BY <1>10, ClockServes
<1>11. CASE TouchPanel
  BY <1>11, PanelServes
<1>12. CASE UNCHANGED vars
  <2>1. UNCHANGED <<phase, mem, apply, applyRequested, unit, now, hist>>
    BY <1>12 DEF vars
  <2>2. /\ hist \in History /\ hist.sessionEndedAt <= now /\ (hist.unruffled => phase = "up")
        /\ Remembers(mem, hist) /\ Serves(apply, mem, hist) /\ Capped(unit, hist)
        /\ hist.unruffled => FollowedBy(mem, apply, applyRequested, unit.powerOn)
    BY DEF SteamInv
  <2> QED
    BY <2>1, <2>2, SteamNext
<1> QED
  BY <1>1, <1>2, <1>3, <1>4, <1>5, <1>6, <1>7, <1>8, <1>9, <1>10, <1>11, <1>12 DEF Next

\* Once applies are done the unit follows the latest override and plan: an older
\* apply never has the last word over a newer decision (steamController.ts:168),
\* for every plan, duration and interleaving.
THEOREM DecisionsHold == Spec => []LatestDecisionHolds
<1>1. IInv /\ SteamInv => LatestDecisionHolds
  BY DEF SteamInv, FollowedBy, LatestDecisionHolds, Wanted, applyRunning
<1> QED
  BY InitArmed, InitServes, NextKeeps, NextServes, <1>1, PTL DEF Spec

\* The fan is off by the cap and one timer after the end of the latest session
\* (steamController.ts:62), whatever fails, restarts or is sent again.
THEOREM FanEndsByCap == Spec => []FanWithinCap
<1>1. IInv /\ SteamInv => FanWithinCap
  <2> SUFFICES ASSUME IInv, SteamInv, unit.fanOn
               PROVE  now < hist.sessionEndedAt + MaxTime + FanTimerTime
    BY DEF FanWithinCap
  <2>1. /\ unit \in Unit /\ now \in Time /\ hist \in History /\ unit.fanTimer > 0
        /\ now + unit.fanTimer <= hist.sessionEndedAt + MaxTime + FanTimerTime
    BY DEF IInv, TypeOK, ArmedFirst, BackstopArmed, SteamInv, Capped
  <2>2. /\ unit.fanTimer \in Int /\ now \in Int /\ hist.sessionEndedAt \in Int
        /\ MaxTime \in Int /\ FanTimerTime \in Int
    BY <2>1, TimeInt, SteamAssumption DEF Unit, History
  <2> QED
    BY <2>1, <2>2
<1> QED
  BY InitArmed, InitServes, NextKeeps, NextServes, <1>1, PTL DEF Spec

\* A cooldown that has ended is never restarted: only the call that switches the
\* fan on starts it, and the apply that awaits that call ended a session the room
\* was driven on in (steamController.ts:248).
THEOREM OneCooldownPerSession == Spec => FanStartsOncePerSession
<1>1. IInv /\ SteamInv /\ [Next]_vars => [(unit'.fanOn /\ ~unit.fanOn) => hist.heated]_vars
  <2> SUFFICES ASSUME IInv, SteamInv, Next, unit'.fanOn, ~unit.fanOn
               PROVE  hist.heated
    OBVIOUS
  <2>1. unit' # unit
    OBVIOUS
  <2>2. CASE unit' = Landed
    <3>1. apply.awaits = "fanOn"
      BY <2>2, LandedServes
    <3> QED
      BY <3>1 DEF SteamInv, Serves
  <2>3. CASE ClockTick
    <3>1. unit'.fanOn = (unit.fanOn /\ unit.fanTimer # 1)
      BY <2>3 DEF ClockTick
    <3> QED
      BY <3>1
  <2>4. CASE TouchPanel
    <3>1. unit \in Unit
      BY DEF IInv, TypeOK
    <3>2. unit' = [unit EXCEPT !.powerOn = FALSE] \/ unit' = [unit EXCEPT !.fanOn = FALSE]
      BY <2>4 DEF TouchPanel
    <3>3. unit'.fanOn => unit.fanOn
      BY <3>1, <3>2 DEF Unit
    <3> QED
      BY <3>3
  <2>5. CASE ApplyStep \/ CallFails
    <3>1. unit' = Landed \/ unit' = unit
      BY <2>5 DEF ApplyStep, CallFails, Replies, SetPowerTimer, SetTargetTemperature,
           ReadPower, SetPowerOn, SetPowerOff, SetFanTimer, SetFanOn, PickUpCooldown,
           FanLapsed, ReadingAfterStop, ReadTemperature, RearmFan, SetFanOff
    <3> QED
      BY <2>1, <2>2, <3>1
  <2>6. CASE \/ \E override \in {"on", "off", "none"} : SetSteamOverride(override)
             \/ \E plan \in Plans : ApplySteamSchedule(plan)
             \/ ControlTick \/ GetSteamStatus \/ StopSteamController \/ Exit
             \/ StartSteamController
    <3>1. unit' = unit
      BY <2>6 DEF SetSteamOverride, ApplySteamSchedule, ControlTick, GetSteamStatus,
           StopSteamController, Exit, StartSteamController
    <3> QED
      BY <2>1, <3>1
  <2> QED
    BY <2>3, <2>4, <2>5, <2>6 DEF Next
<1>2. Spec => [](IInv /\ SteamInv)
  BY InitArmed, InitServes, NextKeeps, NextServes, PTL DEF Spec
<1> QED
  BY <1>1, <1>2, PTL DEF Spec, FanStartsOncePerSession
=============================================================================
