------------------------------ MODULE RoomFans ------------------------------
(***************************************************************************)
(* The lights and the fan of one sauna (src/shellyController.ts, blink.ts, *)
(* fanCooldown.ts): what a plan makes of bookings and heater slots, the    *)
(* device's own schedule, the fan cooldown that the monitor decides, the   *)
(* blinks at the end of a heater slot, and hands on the switches.          *)
(*                                                                         *)
(* Each action is a call to the device with what follows its answer, or a  *)
(* timer.  The queue of plans is in ScriptTakeover: here the next plan     *)
(* comes when the one before it is applied.                                *)
(***************************************************************************)
EXTENDS Integers, SequencesExt

CONSTANTS
  Plans,        \* the plans the server may send: [slots, bookings], sets of periods
  Temps,        \* readings of the heater's sensor
  MinDrop, StallTime, MaxTime, NoReading,  \* FAN_COOLDOWN, see FanCooldown
  Margin,       \* FAN_COOLDOWN_NEXT_SLOT_MARGIN_MS
  BlinkCount,   \* LIGHTS_BLINK_COUNT
  MaxTries,     \* SWITCH_MAX_RETRIES
  Horizon,      \* bound: the last instant
  MaxPlans,     \* bound: plans applied
  MaxFaults     \* bound: failed calls, restarts, hands on a switch

Period == {p \in [start : Nat, stop : Nat] : p.start < p.stop}

ASSUME FansAssumption ==
  /\ \A plan \in Plans :
       /\ plan.slots \cup plan.bookings \subseteq Period
       /\ IsFiniteSet(plan.slots) /\ IsFiniteSet(plan.bookings)
  /\ {StallTime, MaxTime, Margin, BlinkCount, MaxTries} \subseteq Nat \ {0}
  /\ {MinDrop, Horizon, MaxPlans, MaxFaults} \subseteq Nat
  /\ Temps \subseteq Nat /\ NoReading \notin Temps

INSTANCE FanCooldown

VARIABLES
  now,
  lights, fan,  \* the relays
  schedule,     \* the entries of the device's schedule
  currentPlan,
  job,          \* the plan being applied: its stage, the calls to come
  lightsBlinkTasks, fanCooldownTasks, \* the instants of the pending timers
  starting,     \* startFanCooldown: the slot ends that await the switch status
  activeFanCooldown,
  cooldownOff,  \* tries left of the setSwitch that ends a cooldown
  blink,        \* blinkSwitch under way
  monitored,    \* the monitor has looked at the cooldown in this instant
  hist,         \* history, see Accounted
  plans, faults

device == <<lights, fan, schedule>>
timers == <<lightsBlinkTasks, fanCooldownTasks>>
cooldown == <<starting, activeFanCooldown, cooldownOff>>
bounds == <<plans, faults>>
vars == <<now, device, currentPlan, job, timers, cooldown, blink, monitored, hist, bounds>>

NoPlan == [slots |-> {}, bookings |-> {}]
NoCooldown == [slotEndedAt |-> -1]
NoBlink == [stage |-> "none", left |-> 0, resting |-> FALSE]
IdleJob == [stage |-> "idle", todo |-> <<>>, tries |-> MaxTries]

\* lights, fan: the relay is accountable to the plan.  FALSE once a call that turns it on
\* failed or came too late, a hand was on the switch, a plan dropped what was under way,
\* or two callers switched it across each other.  watched: no call of the cooldown failed
\* since the last plan.  plan: the one the device has been given whole.
Accounted == [lights |-> TRUE, fan |-> TRUE, watched |-> TRUE, plan |-> NoPlan]

Init ==
  /\ now = 0
  /\ lights = FALSE /\ fan = FALSE /\ schedule = {}
  /\ currentPlan = NoPlan /\ job = IdleJob
  /\ lightsBlinkTasks = {} /\ fanCooldownTasks = {}
  /\ starting = {} /\ activeFanCooldown = NoCooldown /\ cooldownOff = 0
  /\ blink = NoBlink
  /\ monitored = FALSE
  /\ hist = Accounted
  /\ plans = 0 /\ faults = 0

-----------------------------------------------------------------------------
(* What a plan asks for. *)

In(p, t) == p.start <= t /\ t < p.stop
Larger(a, b) == IF a > b THEN a ELSE b
Smaller(a, b) == IF a < b THEN a ELSE b

Before(p, q) == p.start < q.start \/ (p.start = q.start /\ p.stop < q.stop)
InOrder(periods) ==
  CHOOSE s \in [1..Cardinality(periods) -> periods] :
    \A i, j \in DOMAIN s : i < j => Before(s[i], s[j])

\* a booking that begins by the end of the last period prolongs it
\* Mutant: bookings that touch stay apart.
ProlongsApart(merged, b) == merged # <<>> /\ b.start < Last(merged).stop
Prolongs(merged, b) == merged # <<>> /\ b.start <= Last(merged).stop

Merge(merged, b) ==
  IF Prolongs(merged, b)
  THEN Append(Front(merged), [Last(merged) EXCEPT !.stop = Larger(@, b.stop)])
  ELSE Append(merged, b)

mergeBookings(bookings) ==
  LET sorted == InOrder(bookings)
      merged[i \in 0..Len(sorted)] == IF i = 0 THEN <<>> ELSE Merge(merged[i - 1], sorted[i])
  IN merged[Len(sorted)]

overlappingBookings(slot, plan) == {b \in plan.bookings : b.start < slot.stop /\ b.stop > slot.start}

\* when the device switches the fan off, ahead of the next slot
fanOffTime(slot, plan) ==
  LET caps == {slot.stop + MaxTime} \cup
              {other.start - Margin : other \in {o \in plan.slots : o.start >= slot.stop}}
  IN Larger(CHOOSE c \in caps : \A d \in caps : c <= d, slot.stop)

Set(switch) == [op |-> "set", switch |-> switch]
Entry(switch, at, on) == [switch |-> switch, at |-> at, on |-> on]
Create(switch, at, on) == [op |-> "create", entry |-> Entry(switch, at, on)]
If(cond, call) == IF cond THEN <<call>> ELSE <<>>
Each(Calls(_), periods) == FlattenSeq([i \in DOMAIN periods |-> Calls(periods[i])])

\* applyLightsFanSchedule, in a room that is looked at once, at the instant t
LightsCalls(plan, t) ==
  LET periods == mergeBookings(plan.bookings) IN
  If(\E i \in DOMAIN periods : In(periods[i], t), Set("lights"))
  \o Each(LAMBDA p : If(p.start > t, Create("lights", p.start, TRUE))
                     \o If(p.stop > t, Create("lights", p.stop, FALSE)), periods)
  \o <<[op |-> "blinks", ends |-> {s.stop : s \in {r \in plan.slots : r.stop > t}}]>>

\* Mutant: the fan is left to the daemon alone.
NoCapCall(slot, plan, t) == <<>>
CapCall(slot, plan, t) ==
  If(fanOffTime(slot, plan) > t, Create("fan", fanOffTime(slot, plan), FALSE))

\* none when the next slot follows right behind; one that has begun is taken up where it is
\* Mutant: a cooldown that has begun is not taken up.
LaterCalls(slot, plan, t) ==
  If(fanOffTime(slot, plan) > slot.stop /\ slot.stop > t, [op |-> "later", end |-> slot.stop])
CooldownCalls(slot, plan, t) ==
  LET off == fanOffTime(slot, plan) IN
  If(off > slot.stop /\ slot.stop > t, [op |-> "later", end |-> slot.stop])
  \o If(off > slot.stop /\ slot.stop <= t /\ t < off, [op |-> "resume", end |-> slot.stop])

SlotCalls(slot, plan, t) ==
  Each(LAMBDA p : If(In(p, t), Set("fan")) \o If(p.start > t, Create("fan", p.start, TRUE)),
       mergeBookings(overlappingBookings(slot, plan)))
  \o CapCall(slot, plan, t) \o CooldownCalls(slot, plan, t)

ApplyCalls(plan, t) ==
  LightsCalls(plan, t)
  \o <<[op |-> "cancelFanCooldowns"]>>
  \o Each(LAMBDA slot : SlotCalls(slot, plan, t),
          InOrder({s \in plan.slots : overlappingBookings(s, plan) # {}}))

-----------------------------------------------------------------------------
(* Calls. *)

Fault == faults < MaxFaults /\ faults' = faults + 1 /\ UNCHANGED plans
Answered == UNCHANGED bounds

Forfeit(what) == hist' = [hist EXCEPT ![what] = FALSE]

Switched(switch, on) ==
  IF switch = "lights" THEN lights' = on /\ UNCHANGED fan ELSE fan' = on /\ UNCHANGED lights

\* somebody else is about to put this relay into another state
Crossing(switch) == IF switch = "lights" THEN blink # NoBlink ELSE cooldownOff > 0

-----------------------------------------------------------------------------
(* Applying a plan. *)

Stage(stage) == job.stage = stage
Head1 == Head(job.todo)
Next1(op) == Stage("calls") /\ job.todo # <<>> /\ Head1.op = op
Done == job' = [job EXCEPT !.todo = Tail(@), !.tries = MaxTries]
GivesUp == job' = IdleJob

applyOperationalPlan ==
  /\ Stage("idle") /\ plans < MaxPlans /\ plans' = plans + 1 /\ UNCHANGED faults
  /\ currentPlan' \in Plans
  /\ job' = [IdleJob EXCEPT !.stage = "clear"]
  /\ lightsBlinkTasks' = {}  \* cancelLightsBlinks
  /\ hist' = [hist EXCEPT !.plan = NoPlan]
  /\ UNCHANGED <<now, device, fanCooldownTasks, cooldown, blink, monitored>>

\* a failure to clear the schedule is swallowed
clearAllSchedulesAndScripts ==
  /\ Stage("clear")
  /\ job' = [job EXCEPT !.stage = "begin"]
  /\ \/ Answered /\ schedule' = {} /\ UNCHANGED hist
     \/ Fault /\ schedule' \in {schedule, {}} /\ hist' = [hist EXCEPT !.lights = FALSE, !.fan = FALSE]
  /\ UNCHANGED <<now, lights, fan, currentPlan, timers, cooldown, blink, monitored>>

InSession(slot, plan, t) ==
  \E b \in overlappingBookings(slot, plan) : b.start <= t /\ t < fanOffTime(slot, plan)

\* the clock is read; a relay that this plan does not ask for is left as it is
BeginApply ==
  /\ Stage("begin")
  /\ job' = [job EXCEPT !.stage = "calls", !.todo = ApplyCalls(currentPlan, now)]
  /\ hist' = [hist EXCEPT
       !.lights = @ /\ blink = NoBlink /\ (lights => \E b \in currentPlan.bookings : In(b, now)),
       !.fan = @ /\ (fan => \E s \in currentPlan.slots : InSession(s, currentPlan, now))]
  /\ UNCHANGED <<now, device, currentPlan, timers, cooldown, blink, monitored, bounds>>

LastTry == job.tries = 1

\* an attempt of setSwitch with its verification, which may land unseen: the last one
\* pages and returns
SetOn ==
  /\ Next1("set")
  /\ \/ /\ Answered
        /\ Switched(Head1.switch, TRUE) /\ Done
        /\ IF Crossing(Head1.switch) THEN Forfeit(Head1.switch) ELSE UNCHANGED hist
     \/ /\ Fault
        /\ UNCHANGED <<lights, fan>> \/ Switched(Head1.switch, TRUE)
        /\ IF LastTry THEN Done ELSE job' = [job EXCEPT !.tries = @ - 1]
        /\ IF LastTry \/ Crossing(Head1.switch) THEN Forfeit(Head1.switch) ELSE UNCHANGED hist
  /\ UNCHANGED <<now, schedule, currentPlan, timers, cooldown, blink, monitored>>

\* scheduleSwitch; a failure ends the phase
scheduleSwitch ==
  /\ Next1("create")
  /\ LET entry == Head1.entry IN
     \/ /\ Answered /\ Done
        /\ schedule' = schedule \cup {entry}
        /\ IF entry.at <= now THEN Forfeit(entry.switch) ELSE UNCHANGED hist
     \/ /\ Fault /\ GivesUp
        /\ schedule' \in {schedule, schedule \cup {entry}}
        /\ UNCHANGED hist
  /\ UNCHANGED <<now, lights, fan, currentPlan, timers, cooldown, blink, monitored>>

\* cancelLightsBlinks, scheduleLightsBlink; a time that has passed meanwhile fires at once
scheduleLightsBlink ==
  /\ Next1("blinks") /\ Done
  /\ lightsBlinkTasks' = Head1.ends
  /\ UNCHANGED <<now, device, currentPlan, fanCooldownTasks, cooldown, blink, monitored, hist, bounds>>

\* Mutant: the timers only.
CooldownTimersCancelled == fanCooldownTasks' = {} /\ UNCHANGED activeFanCooldown
CooldownsCancelled == fanCooldownTasks' = {} /\ activeFanCooldown' = NoCooldown

\* a start that awaits the status is beyond its reach
cancelFanCooldowns ==
  /\ Next1("cancelFanCooldowns") /\ Done
  /\ CooldownsCancelled
  /\ hist' = [hist EXCEPT !.watched = TRUE, !.fan = @ /\ starting = {}]
  /\ UNCHANGED <<now, device, currentPlan, lightsBlinkTasks, starting, cooldownOff, blink, monitored, bounds>>

scheduleFanCooldown ==
  /\ Next1("later") /\ Done
  /\ fanCooldownTasks' = fanCooldownTasks \cup {Head1.end}
  /\ UNCHANGED <<now, device, currentPlan, lightsBlinkTasks, cooldown, blink, monitored, hist, bounds>>

\* startFanCooldown, awaited: only a fan that runs is kept running
ResumeFanCooldown ==
  /\ Next1("resume")
  /\ \/ /\ Answered /\ Done
        /\ activeFanCooldown' = IF fan THEN newFanCooldown(Head1.end) ELSE activeFanCooldown
     \/ Fault /\ GivesUp /\ UNCHANGED activeFanCooldown
  /\ UNCHANGED <<now, device, currentPlan, timers, starting, cooldownOff, blink, monitored, hist>>

EndApply ==
  /\ Stage("calls") /\ job.todo = <<>>
  /\ GivesUp
  /\ hist' = [hist EXCEPT !.plan = currentPlan]
  /\ UNCHANGED <<now, device, currentPlan, timers, cooldown, blink, monitored, bounds>>

Apply ==
  \/ clearAllSchedulesAndScripts \/ BeginApply \/ SetOn \/ scheduleSwitch \/ scheduleLightsBlink
  \/ cancelFanCooldowns \/ scheduleFanCooldown \/ ResumeFanCooldown \/ EndApply

-----------------------------------------------------------------------------
(* The cooldown. *)

\* the timer at the end of a slot: startFanCooldown asks for the status
FanCooldownDue ==
  /\ \E t \in fanCooldownTasks :
       /\ t <= now
       /\ fanCooldownTasks' = fanCooldownTasks \ {t}
       /\ starting' = starting \cup {t}
  /\ UNCHANGED <<now, device, currentPlan, job, lightsBlinkTasks, activeFanCooldown, cooldownOff,
                 blink, monitored, hist, bounds>>

startFanCooldown ==
  /\ \E t \in starting :
       /\ starting' = starting \ {t}
       /\ \/ /\ Answered /\ UNCHANGED hist
             /\ activeFanCooldown' = IF fan THEN newFanCooldown(t) ELSE activeFanCooldown
          \/ Fault /\ UNCHANGED activeFanCooldown /\ Forfeit("watched")
  /\ UNCHANGED <<now, device, currentPlan, job, timers, cooldownOff, blink, monitored>>

saunaHeaterShouldBeOn == \E s \in currentPlan.slots : In(s, now)

updateFanCooldown ==
  /\ ~monitored /\ monitored' = TRUE
  /\ IF activeFanCooldown = NoCooldown THEN UNCHANGED cooldown
     ELSE \E reading \in Temps \cup {NoReading} :
       LET state == withReading(activeFanCooldown, now, reading)
           over == Stops(state, now, saunaHeaterShouldBeOn)
       IN /\ activeFanCooldown' = IF over THEN NoCooldown ELSE state
          /\ cooldownOff' = IF over THEN MaxTries ELSE cooldownOff
          /\ UNCHANGED starting
  /\ UNCHANGED <<now, device, currentPlan, job, timers, blink, hist, bounds>>

\* an attempt of its setSwitch: it may land unseen, and then again after another caller's
CooldownSetOff ==
  /\ cooldownOff > 0
  /\ \/ /\ Answered
        /\ fan' = FALSE /\ cooldownOff' = 0
        /\ UNCHANGED hist
     \/ /\ Fault
        /\ fan' \in {fan, FALSE} /\ cooldownOff' = cooldownOff - 1
        /\ IF cooldownOff = 1 THEN Forfeit("watched") ELSE UNCHANGED hist
  /\ UNCHANGED <<now, lights, schedule, currentPlan, job, timers, starting, activeFanCooldown, blink, monitored>>

-----------------------------------------------------------------------------
(* Blinks. *)

\* the timer after the end of a slot: the state the blink returns to is read
LightsBlinkDue ==
  /\ blink = NoBlink
  /\ \E t \in lightsBlinkTasks :
       /\ t <= now
       /\ lightsBlinkTasks' = lightsBlinkTasks \ {t}
       /\ \/ Answered /\ blink' = [stage |-> "away", left |-> BlinkCount, resting |-> lights]
          \/ Fault /\ UNCHANGED blink
  /\ UNCHANGED <<now, device, currentPlan, job, fanCooldownTasks, cooldown, monitored, hist>>

\* away and back, BlinkCount times; a failure ends it where it is
blinkSwitch ==
  /\ blink # NoBlink
  /\ \/ /\ Answered /\ UNCHANGED hist
        /\ lights' = IF blink.stage = "away" THEN ~blink.resting ELSE blink.resting
        /\ blink' = IF blink.stage = "away" THEN [blink EXCEPT !.stage = "back"]
                    ELSE IF blink.left > 1 THEN [blink EXCEPT !.stage = "away", !.left = @ - 1]
                    ELSE NoBlink
     \/ Fault /\ UNCHANGED lights /\ blink' = NoBlink /\ Forfeit("lights")
  /\ UNCHANGED <<now, fan, schedule, currentPlan, job, timers, cooldown, monitored>>

-----------------------------------------------------------------------------
(* The rest of the world. *)

\* setLights and manualControl
ByHand ==
  /\ Fault
  /\ \E switch \in {"lights", "fan"}, on \in BOOLEAN : Switched(switch, on) /\ Forfeit(switch)
  /\ UNCHANGED <<now, schedule, currentPlan, job, timers, cooldown, blink, monitored>>

Restart ==
  /\ Fault
  /\ currentPlan' = NoPlan /\ job' = IdleJob
  /\ lightsBlinkTasks' = {} /\ fanCooldownTasks' = {}
  /\ starting' = {} /\ activeFanCooldown' = NoCooldown /\ cooldownOff' = 0
  /\ blink' = NoBlink
  /\ hist' = [hist EXCEPT !.lights = @ /\ blink = NoBlink]
  /\ UNCHANGED <<now, device, monitored>>

\* Timing: by the next instant the timers of this one have fired, what they started is
\* over, and the monitor, which comes twice a minute, has looked at the cooldown.
InstantOver ==
  /\ \A t \in lightsBlinkTasks \cup fanCooldownTasks : t > now
  /\ starting = {} /\ blink = NoBlink /\ cooldownOff = 0
  /\ activeFanCooldown # NoCooldown => monitored

\* the entries of the next instant fire, in either order if there are two for a relay
Fires(switch, on) ==
  LET due == {e \in schedule : e.switch = switch /\ e.at = now + 1} IN
  IF due = {} THEN {on} ELSE {e.on : e \in due}

Tick ==
  /\ now < Horizon /\ InstantOver
  /\ now' = now + 1
  /\ lights' \in Fires("lights", lights) /\ fan' \in Fires("fan", fan)
  /\ monitored' = FALSE
  /\ UNCHANGED <<schedule, currentPlan, job, timers, cooldown, blink, hist, bounds>>

Next ==
  \/ applyOperationalPlan \/ Apply
  \/ FanCooldownDue \/ startFanCooldown \/ updateFanCooldown \/ CooldownSetOff
  \/ LightsBlinkDue \/ blinkSwitch
  \/ ByHand \/ Restart \/ Tick

Spec == Init /\ [][Next]_vars

-----------------------------------------------------------------------------
(* Properties. *)

Switches == {"lights", "fan"}

\* The variables of the device and of the daemon keep their types.
TypeOK ==
  /\ now \in 0..Horizon /\ lights \in BOOLEAN /\ fan \in BOOLEAN
  /\ \A e \in schedule : e.switch \in Switches /\ e.on \in BOOLEAN /\ e.at \in Nat
  /\ currentPlan \in Plans \cup {NoPlan} /\ job.stage \in {"idle", "clear", "begin", "calls"}
  /\ job.tries \in 1..MaxTries /\ cooldownOff \in 0..MaxTries
  /\ lightsBlinkTasks \subseteq Nat /\ fanCooldownTasks \subseteq Nat /\ starting \subseteq Nat
  /\ activeFanCooldown.slotEndedAt \in {-1} \cup 0..Horizon
  /\ blink.stage \in {"none", "away", "back"} /\ blink.left \in 0..BlinkCount

\* a plan was applied, no other one is being applied, and nothing that this instant
\* started is under way
Settled == Stage("idle") /\ hist.plan # NoPlan /\ InstantOver

\* The lights are on in the bookings, across those that touch, and off between them,
\* after a restart as well; a blink "never changes what the schedule already decided"
\* (blink.ts:21).
LightsFollowBookings ==
  Settled /\ hist.lights => lights = (\E b \in hist.plan.bookings : In(b, now))

\* The heater slots of a plan are apart.
Apart(plan) == \A r, s \in plan.slots : r = s \/ r.stop <= s.start \/ s.stop <= r.start

\* The slot is the first that is booked, or all its bookings begin after it does.
Handed(slot, plan) ==
  (\E r \in plan.slots : r.stop <= slot.start /\ overlappingBookings(r, plan) # {}) =>
    \A b \in overlappingBookings(slot, plan) : slot.start < b.start

\* The fan runs in the bookings of a slot and, if the plan came before they were over, on to
\* the end of the slot: what is left of an earlier slot or plan never switches it off.  Of a
\* slot behind another one this is said if none of its bookings has begun when it does: for
\* those that have see FanNeverCut.
FanServesBookings ==
  Settled /\ hist.fan /\ Apart(hist.plan) =>
    \A s \in hist.plan.slots : Handed(s, hist.plan) =>
      \A b \in overlappingBookings(s, hist.plan) :
        /\ b.start <= now /\ now < s.stop
        /\ In(b, now) \/ Entry("fan", b.start, TRUE) \in schedule
        => fan

\* "Fan: on during bookings that overlap heater slots", with an off "pulled in ahead of the
\* next heater slot so it can never cut the fan during a later booking"
\* (shellyController.ts:1374-1378): the fan runs while a slot and a booking of it go on.
FanNeverCut ==
  Settled /\ hist.fan =>
    \A s \in hist.plan.slots : \A b \in overlappingBookings(s, hist.plan) :
      In(s, now) /\ In(b, now) => fan

\* No booking goes on when the device has ended the fan of its slot.
Within(plan) ==
  \A s \in plan.slots : \A b \in overlappingBookings(s, plan) : b.stop <= fanOffTime(s, plan)

\* Outside of the sessions, each with its time to cool down, the fan is off, also when the
\* cooldown was never started, could not switch it off, or was lost in a restart.  Not so
\* when a plan comes in a booking that outlasts them: it turns the fan on with no off.
FanRests ==
  /\ Settled /\ hist.fan /\ Apart(hist.plan) /\ Within(hist.plan)
  /\ ~(\E s \in hist.plan.slots : InSession(s, hist.plan, now))
  => ~fan

\* The daemon watches every fan that runs on after its slot, whatever was under way when
\* the plan came, and again when the plan comes after a restart.
CooldownIsWatched ==
  /\ Settled /\ hist.fan /\ hist.watched /\ fan /\ currentPlan # NoPlan
  /\ Apart(currentPlan) /\ Within(currentPlan)
  => \/ activeFanCooldown # NoCooldown
     \/ \E s \in currentPlan.slots : InSession(s, currentPlan, now) /\ now < s.stop
=============================================================================
