---------------------------- MODULE SaunaAlerts ----------------------------
(***************************************************************************)
(* The daemon's device alerts (src/shellyController.ts, alertUrgency.ts):  *)
(* the cycles of the temperature monitor, which nobody awaits, what each   *)
(* check makes of a cycle's readings, and the triggers and resolves that   *)
(* go out to PagerDuty under a loud (bare) or a quiet (-low) key.          *)
(*                                                                         *)
(* The checks share nothing but the readings, the outage test and the      *)
(* sweep of quiet keys, so a behaviour follows one check, picked in Init.  *)
(* Time is counted in intervals of the monitor.                            *)
(***************************************************************************)
EXTENDS Integers, SequencesExt

CONSTANTS
  Checks,        \* the checks to follow
  Temps,         \* temperatures the sensor may report
  Threshold, OverheatMargin, NotHotTolerance, MinRise, Epsilon, \* degrees
  Window,        \* TEMP_RISE_WINDOW_MS and TEMP_STUCK_WINDOW_MS, which agree
  AlertCycles, NotHeatingCycles, ConfirmCycles, Debounce,
  Overlapping,   \* bound: the checks followed through cycles that overlap
  Troubled,      \* bound: the checks followed through faults
  MaxCalls,      \* bound: requests to PagerDuty under way when a check sends one
  MaxFaults      \* bound: lost requests, restarts, incidents closed by hand

Persistent == {"unreachable", "steam"}
ManualOnly == {"welded-relay"}
Immediate == {"overheat", "manual-reset"}
Heating == {"not-heating", "temp-stuck"}
Link == {"unreachable", "steam", "no-temp", "heartbeat"}  \* severity follows the heater
AllChecks == Persistent \cup ManualOnly \cup Immediate \cup Heating \cup Link \cup {"not-hot", "coil-open"}

ASSUME AlertsAssumption ==
  /\ Checks \subseteq AllChecks /\ Overlapping \subseteq Checks /\ Troubled \subseteq Checks
  /\ Temps \subseteq Nat
  /\ {Threshold, OverheatMargin, NotHotTolerance, MinRise, Epsilon, MaxFaults} \subseteq Nat
  /\ {Window, AlertCycles, NotHeatingCycles, ConfirmCycles, Debounce, MaxCalls} \subseteq Nat \ {0}
  /\ ConfirmCycles <= AlertCycles

VARIABLES
  check,        \* the check followed
  room,         \* the device as it is; ok: its script answers, it is not locked out;
                \* dark: so is the booking server, and so are all other devices
  phase,        \* of the plan: heater not due, due within the hour, warming up, hot
  cycles,       \* the monitor cycles under way
  failCounts, faultFirstSeen, lowKeysOpened, lowKeySweepDone, tempHistory,
  calls,        \* requests to PagerDuty under way
  incidents,    \* the keys open at PagerDuty
  hist,         \* history, see Unbroken
  faults

world == <<check, room, phase>>
vars == <<world, cycles, failCounts, faultFirstSeen, lowKeysOpened, lowKeySweepDone,
          tempHistory, calls, incidents, hist, faults>>

NoTemp == -1
Unseen == -1
Tiers == {"bare", "low"}
Cycles == {1, 2}

Unreachable(dark) == [reachable |-> FALSE, on |-> FALSE, temp |-> NoTemp, power |-> "unknown",
                      ok |-> FALSE, dark |-> dark]
Room(on, temp, power, ok) == [reachable |-> TRUE, on |-> on, temp |-> temp, power |-> power,
                              ok |-> ok, dark |-> FALSE]
OutOfReach == Unreachable(FALSE)
Fine == Room(FALSE, Threshold, "unknown", TRUE)

\* what the device and the plan may come to, as far as the check can tell (the two checks
\* on heating divide the cases between them: one sees all temperatures, one the outages)
Rooms == {Unreachable(dark) : dark \in BOOLEAN \ (IF check = "not-heating" THEN {TRUE} ELSE {})} \cup
  CASE check \in Persistent -> {Fine}
    [] check = "heartbeat" -> {Room(on, Threshold, "unknown", ok) : on, ok \in BOOLEAN}
    [] check = "manual-reset" -> {Room(FALSE, Threshold, "unknown", ok) : ok \in BOOLEAN}
    [] check \in {"no-temp", "not-hot", "overheat"} -> {Room(FALSE, t, "unknown", TRUE) : t \in Temps \cup {NoTemp}}
    [] check = "not-heating" -> {Room(TRUE, t, "some", TRUE) : t \in Temps}
    [] check = "temp-stuck" -> {Room(TRUE, t, "some", TRUE) : t \in {u \in Temps : u < Threshold}}
    [] check = "coil-open" -> {Room(TRUE, Threshold, p, TRUE) : p \in {"none", "some"}}
    [] OTHER -> {Room(on, Threshold, p, TRUE) : on \in BOOLEAN, p \in {"none", "some"}}

Phases ==
  CASE check \in Link -> {"none", "due"}
    [] check = "not-hot" -> {"warming", "hot"}
    [] check \in Heating \cup {"coil-open"} -> {"due", "warming"}
    [] OTHER -> {"none"}

NoCycle == [stage |-> "idle", beat |-> TRUE, status |-> OutOfReach]

\* misses: readings of the fault since the last one without it, or the last outage;
\* age: intervals since then; planAge: cycles since the plan came;
\* stranded: a quiet incident is open that the daemon does not know of
Unbroken == [misses |-> 0, age |-> 0, planAge |-> 0, stranded |-> FALSE]

Call(op, key, then) == [op |-> op, key |-> key, then |-> then]

\* Mutant: an escalation leaves the quiet incident beside the loud one.
TriggerAlone(key) == Call("trigger", key, IF key = "low" THEN "noteLow" ELSE "nothing")

Trigger(key) == Call("trigger", key, IF check \in ManualOnly \cup Immediate THEN "nothing"
                                     ELSE IF key = "low" THEN "noteLow" ELSE "resolveLow")
Resolve(key, then) == Call("resolve", key, then)
AnyCall == {Call("trigger", "bare", "nothing"), Call("trigger", "low", "noteLow"),
            Call("trigger", "bare", "resolveLow"), Call("resolve", "bare", "nothing"),
            Call("resolve", "bare", "resolveLow"), Call("resolve", "low", "nothing")}

\* an earlier process may have left incidents
Init ==
  /\ check \in Checks
  /\ room = Fine /\ phase \in Phases
  /\ cycles = [c \in Cycles |-> NoCycle]
  /\ failCounts = 0 /\ faultFirstSeen = Unseen
  /\ lowKeysOpened = FALSE /\ lowKeySweepDone = FALSE
  /\ tempHistory = <<>>
  /\ calls = [call \in AnyCall |-> 0]
  /\ incidents \in SUBSET (IF check \in Link THEN Tiers ELSE {"bare"})
  /\ hist = Unbroken
  /\ faults = 0

Capped(n, cap) == IF n > cap THEN cap ELSE n

-----------------------------------------------------------------------------
(* What the checks make of a status. *)

saunaHeaterShouldBeOn == phase \in {"warming", "hot"}
saunaShouldBeHot == phase = "hot"
heaterOnOrDue(status) == status.on \/ phase # "none"

\* the key a trigger goes to
linkFaultSeverity(status) == IF heaterOnOrDue(status) THEN "critical" ELSE "warning"
dedupKeyFor(severity) == IF severity = "warning" THEN "low" ELSE "bare"
KeyOf(status) == IF check \in Link THEN dedupKeyFor(linkFaultSeverity(status)) ELSE "bare"

localNetworkOutage(status) == status.dark /\ room.dark

\* one entry per cycle, NoTemp where there was no reading
recordTemp(status) ==
  LET longer == Append(tempHistory, status.temp) IN
  IF Len(longer) > Window + 1 THEN Tail(longer) ELSE longer

Readings(history) == {i \in DOMAIN history : history[i] # NoTemp}
FirstReading(history) == CHOOSE i \in Readings(history) : \A j \in Readings(history) : i <= j

\* two readings at least, the first of them old enough
EnoughReadings(history) ==
  /\ Cardinality(Readings(history)) >= 2
  /\ 10 * (Len(history) - FirstReading(history)) >= 8 * Window

checkTempRising(history) == Last(history) - history[FirstReading(history)] >= MinRise
checkTempStuck(history) ==
  \A i, j \in Readings(history) : history[i] - history[j] < Epsilon

\* checkOverheatFromStatus and the conditions of checkSaunaHealth; history is current
Faulty(status, history) ==
  LET measured == status.reachable /\ status.temp # NoTemp IN
  CASE check \in Persistent -> ~status.reachable
    [] check = "no-temp" -> status.reachable /\ status.temp = NoTemp
    [] check = "not-heating" ->
         /\ saunaHeaterShouldBeOn /\ measured /\ status.temp < Threshold - OverheatMargin
         /\ EnoughReadings(history) /\ ~checkTempRising(history)
    [] check = "not-hot" -> saunaShouldBeHot /\ measured /\ status.temp < Threshold - NotHotTolerance
    [] check = "temp-stuck" ->
         saunaHeaterShouldBeOn /\ measured /\ EnoughReadings(history) /\ checkTempStuck(history)
    [] check = "welded-relay" -> status.reachable /\ status.power = "some" /\ ~status.on
    [] check = "coil-open" -> saunaHeaterShouldBeOn /\ status.reachable /\ status.power = "none" /\ status.on
    [] check = "overheat" -> measured /\ status.temp >= Threshold + OverheatMargin
    [] OTHER -> FALSE

-----------------------------------------------------------------------------
(* The helpers that count and send. *)

\* a request goes out
Sends(call) == calls' = [calls EXCEPT ![call] = @ + 1]

ThresholdOf == IF check = "not-heating" THEN NotHeatingCycles ELSE AlertCycles

FaultSeen == hist' = [hist EXCEPT !.misses = IF check \in Persistent THEN 0 ELSE Capped(@ + 1, ThresholdOf),
                                  !.planAge = IF check \in Heating THEN Capped(@ + 1, Window) ELSE 0]
Broken == hist' = [hist EXCEPT !.misses = 0, !.age = 0,
                               !.planAge = IF check \in Heating THEN Capped(@ + 1, Window) ELSE 0]

\* nothing looks at a count beyond the threshold
CountUp == failCounts' = Capped(failCounts + 1, ThresholdOf)

\* alertIfThreshold and alertIfThresholdManualOnly, which differ in what follows the trigger
alertIfThreshold(status) ==
  /\ CountUp
  /\ IF failCounts' >= ThresholdOf THEN Sends(Trigger(KeyOf(status))) ELSE UNCHANGED calls
  /\ UNCHANGED <<faultFirstSeen, lowKeysOpened>>

alertIfPersistent(status) ==
  /\ faultFirstSeen' = IF faultFirstSeen = Unseen THEN 0 ELSE faultFirstSeen
  /\ IF faultFirstSeen' >= Debounce THEN Sends(Trigger(KeyOf(status))) ELSE UNCHANGED calls
  /\ UNCHANGED <<failCounts, lowKeysOpened>>

\* Mutant: the quiet key is forgotten.
resolveBareIfClear ==
  /\ failCounts' = 0 /\ faultFirstSeen' = Unseen
  /\ Sends(Resolve("bare", "nothing"))
  /\ UNCHANGED lowKeysOpened

resolveIfClear ==
  /\ failCounts' = 0 /\ faultFirstSeen' = Unseen
  /\ LET both == ~lowKeySweepDone \/ lowKeysOpened IN
     Sends(Resolve("bare", IF both THEN "resolveLow" ELSE "nothing"))
  /\ lowKeysOpened' = (lowKeysOpened /\ ~lowKeySweepDone)

-----------------------------------------------------------------------------
(* A cycle of the monitor: pings, statuses, checks, heartbeat, sweep, steam. *)

At(c, stage) == cycles[c].stage = stage
Goes(c, stage) == cycles' = [cycles EXCEPT ![c].stage = stage]
Ends(c) == cycles' = [cycles EXCEPT ![c] = NoCycle]
UnderWay == FoldFunction(LAMBDA m, n : m + n, 0, calls)
MaySend == UnderWay < MaxCalls
SameMemory == UNCHANGED <<failCounts, faultFirstSeen, lowKeysOpened>>

\* the rest of a cycle only sets lowKeySweepDone
Checked(c) == IF lowKeySweepDone /\ check # "steam" THEN Ends(c)
              ELSE cycles' = [cycles EXCEPT ![c].stage = "checked",
                                            ![c].status = IF check = "steam" THEN @ ELSE OutOfReach]

\* another interval is over; only checkHeartbeatHealth looks at the answer
PingAllHeartbeats(c) ==
  /\ At(c, "idle")
  /\ c = 1 \/ (check \in Overlapping /\ ~At(1, "idle"))
  /\ cycles' = [cycles EXCEPT ![c].stage = "pinged", ![c].beat = check # "heartbeat" \/ room.ok]
  /\ faultFirstSeen' = IF faultFirstSeen = Unseen THEN Unseen ELSE Capped(faultFirstSeen + 1, Debounce)
  /\ hist' = IF check \in Persistent THEN [hist EXCEPT !.age = Capped(@ + 1, Debounce)] ELSE hist
  /\ UNCHANGED <<world, failCounts, lowKeysOpened, lowKeySweepDone, tempHistory, calls, incidents, faults>>

FetchAllHeaterStatus(c) ==
  /\ At(c, "pinged")
  /\ cycles' = [cycles EXCEPT ![c].stage = "fetched", ![c].status = room]
  /\ UNCHANGED <<world, failCounts, faultFirstSeen, lowKeysOpened, lowKeySweepDone, tempHistory,
                 calls, incidents, hist, faults>>

\* Mutant: an outage suspends the alerts, and keeps the history of the faults.
OnlySuspendAlerts(c) ==
  /\ At(c, "fetched") /\ localNetworkOutage(cycles[c].status)
  /\ tempHistory' = IF check \in Heating THEN recordTemp(OutOfReach) ELSE tempHistory
  /\ Broken
  /\ Ends(c)
  /\ UNCHANGED <<world, failCounts, faultFirstSeen, lowKeysOpened, lowKeySweepDone, calls, incidents, faults>>

\* every device and the booking server are unreachable: start clean afterwards
SuspendAlerts(c) ==
  /\ At(c, "fetched") /\ localNetworkOutage(cycles[c].status)
  /\ failCounts' = 0 /\ faultFirstSeen' = Unseen
  /\ tempHistory' = IF check \in Heating THEN recordTemp(OutOfReach) ELSE tempHistory
  /\ Broken
  /\ Ends(c)
  /\ UNCHANGED <<world, lowKeysOpened, lowKeySweepDone, calls, incidents, faults>>

\* the checks that come later in the cycle, or in an interval of their own
Later == {"heartbeat", "steam", "manual-reset"}

checkSaunaHealth(c) ==
  LET status == cycles[c].status
      history == recordTemp(status)
      faulty == Faulty(status, history)
  IN
  /\ At(c, "fetched") /\ ~localNetworkOutage(status) /\ MaySend
  /\ check \notin Later \cup Immediate
  /\ tempHistory' = IF check \in Heating THEN history ELSE tempHistory
  /\ \/ faulty /\ check \in Persistent /\ alertIfPersistent(status) /\ FaultSeen
     \/ faulty /\ check \notin Persistent /\ alertIfThreshold(status) /\ FaultSeen
     \/ ~faulty /\ check \notin ManualOnly /\ resolveIfClear /\ Broken
     \/ ~faulty /\ check \in ManualOnly /\ SameMemory /\ UNCHANGED <<calls, hist>>
  /\ Checked(c)
  /\ UNCHANGED <<world, lowKeySweepDone, incidents, faults>>

checkOverheatFromStatus(c) ==
  LET status == cycles[c].status IN
  /\ At(c, "fetched") /\ ~localNetworkOutage(status) /\ MaySend
  /\ check = "overheat"
  /\ IF status.temp = NoTemp THEN UNCHANGED calls
     ELSE Sends(IF Faulty(status, tempHistory) THEN Trigger("bare") ELSE Resolve("bare", "nothing"))
  /\ Checked(c)
  /\ SameMemory
  /\ UNCHANGED <<world, lowKeySweepDone, tempHistory, incidents, hist, faults>>

\* up to its second ping; with the device out of reach the count is frozen
checkHeartbeatHealth(c) ==
  /\ At(c, "fetched") /\ ~localNetworkOutage(cycles[c].status) /\ MaySend
  /\ check = "heartbeat"
  /\ \/ cycles[c].beat /\ resolveIfClear /\ Broken /\ Checked(c)
     \/ /\ ~cycles[c].beat /\ ~cycles[c].status.reachable
        /\ SameMemory /\ UNCHANGED <<calls, hist>> /\ Checked(c)
     \/ /\ ~cycles[c].beat /\ cycles[c].status.reachable
        /\ CountUp /\ FaultSeen
        /\ UNCHANGED <<faultFirstSeen, lowKeysOpened, calls>>
        /\ IF failCounts' < ConfirmCycles THEN Checked(c)
           ELSE Goes(c, IF failCounts' < AlertCycles THEN "probe" ELSE "probe or page")
  /\ UNCHANGED <<world, lowKeySweepDone, tempHistory, incidents, faults>>

\* the second ping; a relay that was on at the status is forced off before the page
ProbeHeartbeat(c) ==
  LET status == cycles[c].status IN
  /\ cycles[c].stage \in {"probe", "probe or page"} /\ MaySend
  /\ \/ room.ok /\ resolveIfClear /\ Broken /\ Checked(c)
     \/ /\ ~room.ok /\ status.on /\ SameMemory /\ UNCHANGED <<calls, hist>>
        /\ Goes(c, IF At(c, "probe") THEN "force off" ELSE "force off and page")
     \/ /\ ~room.ok /\ ~status.on /\ SameMemory /\ UNCHANGED hist
        /\ IF At(c, "probe or page") THEN Sends(Trigger(KeyOf(status))) ELSE UNCHANGED calls
        /\ Checked(c)
  /\ UNCHANGED <<world, lowKeySweepDone, tempHistory, incidents, faults>>

\* setSwitch comes back, whether it reached the relay or gave up; only then the page
ForceOff(c) ==
  /\ cycles[c].stage \in {"force off", "force off and page"} /\ MaySend
  /\ room' \in {room, [room EXCEPT !.on = FALSE]}
  /\ IF At(c, "force off and page") THEN Sends(Trigger(KeyOf(cycles[c].status))) ELSE UNCHANGED calls
  /\ Checked(c)
  /\ SameMemory
  /\ UNCHANGED <<check, phase, lowKeySweepDone, tempHistory, incidents, hist, faults>>

\* The sweep is over.  (A cycle first awaits the requests of its heartbeat checks, which
\* is left out: here it may end before they do.)
FinishSweep(c) ==
  /\ At(c, "checked") \/ (At(c, "fetched") /\ check \in {"steam", "manual-reset"}
                          /\ ~localNetworkOutage(cycles[c].status))
  /\ lowKeySweepDone' = TRUE
  /\ hist' = [hist EXCEPT !.stranded = @ \/
       /\ ~lowKeySweepDone /\ "low" \in incidents /\ ~lowKeysOpened
       /\ \A call \in AnyCall : calls[call] > 0 => call.key # "low" /\ call.then # "resolveLow"]
  /\ IF check = "steam" THEN Goes(c, "swept") ELSE Ends(c)
  /\ SameMemory
  /\ UNCHANGED <<world, tempHistory, calls, incidents, faults>>

checkSteamReachable(c) ==
  LET status == cycles[c].status IN
  /\ At(c, "swept") /\ MaySend
  /\ IF Faulty(status, tempHistory) THEN alertIfPersistent(status) /\ FaultSeen
                                    ELSE resolveIfClear /\ Broken
  /\ Ends(c)
  /\ UNCHANGED <<world, lowKeySweepDone, tempHistory, incidents, faults>>

\* nothing is done if the flag cannot be read
checkManualResetRequired ==
  /\ check = "manual-reset" /\ room.reachable /\ MaySend
  /\ Sends(IF room.ok THEN Resolve("bare", "nothing") ELSE Trigger("bare"))
  /\ SameMemory
  /\ UNCHANGED <<world, cycles, lowKeySweepDone, tempHistory, incidents, hist, faults>>

CycleStep(c) ==
  \/ PingAllHeartbeats(c) \/ FetchAllHeaterStatus(c) \/ SuspendAlerts(c)
  \/ checkSaunaHealth(c) \/ checkOverheatFromStatus(c) \/ checkHeartbeatHealth(c)
  \/ ProbeHeartbeat(c) \/ ForceOff(c) \/ FinishSweep(c) \/ checkSteamReachable(c)

-----------------------------------------------------------------------------
(* PagerDuty, and the rest of the world. *)

Fault == check \in Troubled /\ faults < MaxFaults /\ faults' = faults + 1

After(call) == IF call.op = "trigger" THEN incidents \cup {call.key} ELSE incidents \ {call.key}

Without(call) == [calls EXCEPT ![call] = @ - 1]
ThenResolveLow(call) == [Without(call) EXCEPT ![Resolve("low", "nothing")] = @ + 1]

\* a request lands and is answered; sendTrigger and resolveIfClear go on
Answered(call) ==
  /\ calls[call] > 0
  /\ incidents' = After(call)
  /\ calls' = IF call.then = "resolveLow" THEN ThenResolveLow(call) ELSE Without(call)
  /\ lowKeysOpened' = IF call.op = "resolve" \/ call.then = "nothing" THEN lowKeysOpened
                      ELSE call.then = "noteLow"
  /\ hist' = [hist EXCEPT !.stranded = @ /\ "low" \in incidents']
  /\ UNCHANGED <<world, cycles, failCounts, faultFirstSeen, lowKeySweepDone, tempHistory, faults>>

\* the request is lost, or its answer is: a trigger goes no further, a resolve does
NotAnswered(call) ==
  /\ calls[call] > 0 /\ Fault
  /\ incidents' \in {incidents, After(call)}
  /\ calls' = IF call.op = "resolve" /\ call.then = "resolveLow" THEN ThenResolveLow(call)
                                                                 ELSE Without(call)
  /\ hist' = [hist EXCEPT !.stranded = (@ \/ call.key = "low" \/ call.then = "resolveLow") /\ "low" \in incidents']
  /\ SameMemory
  /\ UNCHANGED <<world, cycles, lowKeySweepDone, tempHistory>>

Nothing(else) == SameMemory /\ UNCHANGED <<cycles, lowKeySweepDone, calls, faults, else>>

DeviceChanges ==
  /\ room' \in Rooms \ {room}
  /\ Nothing(<<check, phase, tempHistory, incidents, hist>>)

PlanMoves ==
  /\ phase' \in Phases \ {phase}
  /\ Nothing(<<check, room, tempHistory, incidents, hist>>)

\* a new plan, which resets the history
applyOperationalPlan ==
  /\ check \in Heating
  /\ phase' \in Phases
  /\ tempHistory' = <<>>
  /\ hist' = [hist EXCEPT !.planAge = 0]
  /\ Nothing(<<check, room, incidents>>)

\* requests under way land, or they do not
Restart ==
  /\ Fault
  /\ incidents' \in {incidents} \cup {After(call) : call \in {d \in AnyCall : calls[d] > 0}}
  /\ cycles' = [c \in Cycles |-> NoCycle]
  /\ failCounts' = 0 /\ faultFirstSeen' = Unseen
  /\ lowKeysOpened' = FALSE /\ lowKeySweepDone' = FALSE
  /\ tempHistory' = <<>> /\ calls' = [call \in AnyCall |-> 0]
  /\ hist' = Unbroken
  /\ UNCHANGED world

\* someone resolves an incident at PagerDuty
ResolvedByHand ==
  /\ Fault
  /\ \E key \in incidents : incidents' = incidents \ {key}
  /\ SameMemory
  /\ UNCHANGED <<world, cycles, lowKeySweepDone, tempHistory, calls, hist>>

Next ==
  \/ \E c \in Cycles : CycleStep(c)
  \/ checkManualResetRequired
  \/ \E call \in AnyCall : Answered(call) \/ NotAnswered(call)
  \/ DeviceChanges \/ PlanMoves \/ applyOperationalPlan \/ Restart \/ ResolvedByHand

\* the intervals fire, the calls of a cycle are answered or time out, and a request to
\* PagerDuty comes to its end
Fairness ==
  /\ \A c \in Cycles : WF_vars(CycleStep(c))
  /\ WF_vars(checkManualResetRequired)
  /\ \A call \in AnyCall : WF_vars(Answered(call))

Spec == Init /\ [][Next]_vars /\ Fairness

-----------------------------------------------------------------------------
(* Properties. *)

Stages == {"idle", "pinged", "fetched", "probe", "probe or page", "force off",
           "force off and page", "checked", "swept"}

\* The variables of the monitor keep their types.
TypeOK ==
  /\ check \in Checks /\ room \in Rooms \cup {Fine} /\ phase \in Phases
  /\ cycles \in [Cycles -> [stage : Stages, beat : BOOLEAN, status : Rooms \cup {Fine}]]
  /\ failCounts \in 0..ThresholdOf /\ faultFirstSeen \in {Unseen} \cup 0..Debounce
  /\ lowKeysOpened \in BOOLEAN /\ lowKeySweepDone \in BOOLEAN
  /\ Len(tempHistory) <= Window + 1
  /\ calls \in [AnyCall -> 0..MaxCalls] /\ incidents \subseteq Tiers

TriggerSent == \E call \in AnyCall : call.op = "trigger" /\ calls'[call] > calls[call]

\* No page about what was not seen long enough without a break: for the debounce time if
\* the device is out of reach, else for the threshold of readings; an outage of the
\* daemon's own network is such a break, so that it pages about nothing "in a burst".
\* A page that says the script is down rests on a second ping, not on "the stale sample
\* alone": the script is down when the page goes out, unless the relay had been on and the
\* daemon first saw to it, when the script may have come back meanwhile.  A page about
\* heating rests on readings since the plan came, most of a window of them
\* (applyOperationalPlanInner: "new plan may change expectations").
PagesEarned == [][TriggerSent =>
  /\ check \in Persistent => hist'.age >= Debounce
  /\ check \notin Persistent \cup ManualOnly \cup Immediate \cup {"heartbeat"} => hist'.misses >= ThresholdOf
  /\ check = "heartbeat" =>
       \/ ~room.ok
       \/ \E c \in Cycles : At(c, "force off and page") /\ ~cycles[c].beat /\ cycles[c].status.on
  /\ check \in Heating => 10 * hist'.planAge >= 8 * Window]_vars

Outage == localNetworkOutage(room)
Wrong == IF check \in {"heartbeat", "manual-reset"} THEN room.reachable /\ ~room.ok
         ELSE Faulty(room, tempHistory)
Right == IF check \in {"heartbeat", "manual-reset"} THEN room.ok
         ELSE ~Faulty(room, tempHistory) /\ (check = "overheat" => room.temp # NoTemp)

Settles == <>[][UNCHANGED world /\ Len(tempHistory') >= Len(tempHistory)]_vars

\* A fault that stays ends up as an incident, whatever was lost, resolved by hand or
\* forgotten: as a loud one alone with the heater on or due, or where that does not
\* matter, and as a quiet one otherwise.
StandingFaultIsKnown ==
  Settles => <>[](Wrong /\ ~Outage =>
                    IF KeyOf(room) = "bare" THEN incidents = {"bare"} ELSE "low" \in incidents)

\* Once all is well for good no incident stays open, but those left to a human and a
\* quiet one of which the daemon lost track (see the README).
AllClear ==
  Settles => <>[](Right /\ ~Outage /\ check \notin ManualOnly =>
                    "bare" \notin incidents /\ ("low" \in incidents => hist.stranded))
=============================================================================
