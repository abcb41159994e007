---------------------------- MODULE HeaterScript ----------------------------
(***************************************************************************)
(* The script that src/shellyController.ts (544-990) deploys to a heater's *)
(* Shelly: the thermostat cycle with its lockouts, duty limit, heartbeat   *)
(* and override, on a relay that the hardware and the daemon also open.    *)
(*                                                                         *)
(* A cycle is a chain of KVS reads.  Each action is one callback of it and *)
(* between two of them the daemon, the device's schedules and timers, and  *)
(* the room go on.  Calls that the script does not wait for (Switch.Set,   *)
(* KVS.Set) take effect at once.                                           *)
(*                                                                         *)
(* The timer fires every ten seconds and a cycle of local calls is over by *)
(* then, so cycles do not overlap: a tick of the clock is a timer period.  *)
(* The reserved key offUntil is written by nobody (markTemporaryShutoff is  *)
(* not called), so its read always goes on.                                *)
(***************************************************************************)
EXTENDS DutyLog

CONSTANTS
  Calls,             \* calls of setSaunaOverride that may be under way together
  HeartbeatStale,    \* HEARTBEAT_STALE_S
  ReadingGrace,      \* 60 s
  WifiGrace,         \* WIFI_GRACE_S
  AutoOff,           \* HEATER_AUTO_OFF_DELAY_S
  OverrideTime,      \* OVERRIDE_ON_DURATION_MS
  Temperatures,      \* classes of readings, a subset of Readings
  Horizon,           \* bound: the last instant
  MaxInputs,         \* bound: schedules, overrides, room, wifi, resets
  MaxFaults          \* bound: failed reads and writes, external offs, reboots

Readings == {"none", "cold", "warm", "hot", "over"}

ASSUME HeaterAssumption ==
  /\ {DutyLimit, LookBack, HeartbeatStale, ReadingGrace, WifiGrace, AutoOff} \subseteq Nat
  /\ OverrideTime \in Nat \ {0}
  /\ {Horizon, MaxInputs, MaxFaults} \subseteq Nat
  /\ DutyLimit < AutoOff
  /\ Temperatures \subseteq Readings

VARIABLES
  kvs,       \* manualResetRequired, override, overrideExpiresAt, should_be_on
  relay,     \* switch:0, with the instant it last closed
  script,    \* the on-time log, lastHeartbeatMs, lastGoodReadingS, prevTempF
  cycle,     \* the read awaited, and what this cycle has read before it
  wifi,      \* is it up, and since when wifiKillTimer runs
  room,      \* temperature class, welded contactor, has the clock been set by NTP
  calls,     \* calls of setSaunaOverride: the write awaited and the override asked
  planOn,    \* is the current instant inside a slot of currentPlan
  now,
  hist,      \* history: see NoHistory
  inputs, faults

bounds == <<inputs, faults>>
daemon == <<calls, planOn>>
vars == <<kvs, relay, script, cycle, wifi, room, calls, planOn, now, hist, bounds>>

Null == -1
Never == -1 - HeartbeatStale  \* so that it is stale at any instant
NoScript == [log |-> NewLog, lastHeartbeat |-> Never, lastGoodReading |-> Null, prevTemp |-> "none"]
IdleCycle == [awaits |-> "timer", temp |-> "none", override |-> "none"]

NoCall == [awaits |-> "nothing", want |-> "none"]

\* cycled: a cycle ended since the clock moved; calm: nothing but the script acted
\* since this cycle began; outside: the relay was opened behind the log's back;
\* loose: an override write failed or two calls overlapped
NoHistory == [cycled |-> FALSE, calm |-> FALSE, outside |-> FALSE, loose |-> FALSE]

Init ==
  /\ \E flag \in {"missing", "false", "true"} :
       kvs = [flag |-> flag, override |-> "none", expiresAt |-> 0, shouldBeOn |-> FALSE]
  /\ relay = [on |-> FALSE, since |-> 0]
  /\ script = NoScript
  /\ cycle = [IdleCycle EXCEPT !.awaits = "start"]
  /\ wifi = [up |-> TRUE, killFrom |-> Null]
  /\ room \in [temp : Temperatures, welded : {FALSE}, clockSet : {TRUE}]
  /\ calls = [c \in Calls |-> NoCall]
  /\ planOn = FALSE
  /\ now = 0
  /\ hist = NoHistory
  /\ inputs = 0 /\ faults = 0

-----------------------------------------------------------------------------
(* Helpers of the script. *)

Locked == kvs.flag # "false"
Opened == [on |-> FALSE, since |-> 0]
Closed == [on |-> TRUE, since |-> now]

\* Switch.Set off without an entry in the log, as a reader of the relay sees it
OpenedBehindLog(s) == relay.on /\ BelievesOn(s.log)

switchOff(s) == relay' = Opened /\ script' = [s EXCEPT !.log = LogOff(@, now)]

switchOffUntilManualReset(s) == switchOff(s) /\ kvs' = [kvs EXCEPT !.flag = "true"]

\* the cycle is over; the timer starts the next one
EndCycle == cycle' = IdleCycle
Ended == [hist EXCEPT !.cycled = TRUE]

ScriptOnly == UNCHANGED <<wifi, room, daemon, now>>
Reads(key) == cycle.awaits = key /\ ScriptOnly

\* a KVS read is answered, or fails
Answered == UNCHANGED faults
Fails == faults < MaxFaults /\ faults' = faults + 1

-----------------------------------------------------------------------------
(* Start of the script. *)

\* Mutant: a start arms the heater whatever it finds.
StartArms ==
  /\ Reads("start")
  /\ kvs' = [kvs EXCEPT !.flag = "false"]
  /\ relay' = Opened
  /\ hist' = Ended
  /\ EndCycle
  /\ UNCHANGED <<script, bounds>>

\* Mutant: a start leaves the relay as its predecessor had it.
StartOnLiveRelay ==
  /\ Reads("start")
  /\ kvs.flag # "missing"
  /\ hist' = Ended
  /\ EndCycle
  /\ UNCHANGED <<kvs, relay, script, bounds>>

\* A failed read has no result, which the code takes for a key never written.
startupResetFlagInit ==
  /\ Reads("start")
  /\ \/ /\ kvs.flag = "missing" /\ Answered
        /\ kvs' = [kvs EXCEPT !.flag = "false"]
        /\ hist' = [Ended EXCEPT !.outside = @ \/ relay.on]
        /\ UNCHANGED relay
     \/ /\ Fails
        /\ kvs' = [kvs EXCEPT !.flag = "false"]
        /\ hist' = [Ended EXCEPT !.outside = @ \/ relay.on]
        /\ UNCHANGED relay
     \/ /\ kvs.flag # "missing" /\ Answered
        /\ relay' = Opened
        /\ hist' = Ended
        /\ UNCHANGED kvs
  /\ EndCycle
  /\ UNCHANGED <<script, inputs>>

-----------------------------------------------------------------------------
(* The cycle. *)

\* Mutant: a lockout that cannot be read does not count.
UnreadIsUnlocked ==
  /\ Reads("timer") /\ ~hist.cycled
  /\ hist' = [hist EXCEPT !.calm = TRUE]
  /\ (~Locked /\ Answered) \/ Fails
  /\ cycle' = [cycle EXCEPT !.awaits = "offUntil"]
  /\ UNCHANGED <<kvs, relay, script, inputs>>

\* the timer fires; a lockout, or a failed read, opens the relay past the log
checkTemperatureManualResetWrapper ==
  /\ Reads("timer") /\ ~hist.cycled
  /\ \/ /\ ~Locked /\ Answered
        /\ cycle' = [cycle EXCEPT !.awaits = "offUntil"]
        /\ hist' = [hist EXCEPT !.calm = TRUE]
        /\ UNCHANGED relay
     \/ /\ (Locked /\ Answered) \/ Fails
        /\ relay' = Opened
        /\ EndCycle
        /\ hist' = [Ended EXCEPT !.calm = TRUE, !.outside = @ \/ OpenedBehindLog(script)]
  /\ UNCHANGED <<kvs, script, inputs>>

HeartbeatIsStale == now - script.lastHeartbeat > HeartbeatStale

\* checkTemperatureInner up to the read of the override
checkTemperatureInner ==
  LET read == [script EXCEPT !.lastGoodReading = now]
      trimmed == [read EXCEPT !.log = trimTimeLog(@, now)]
  IN
  \/ /\ room.temp = "none"
     /\ EndCycle
     /\ IF script.lastGoodReading # Null /\ now - script.lastGoodReading > ReadingGrace
        THEN switchOffUntilManualReset(script) /\ hist' = Ended
        ELSE switchOff(script) /\ hist' = Ended /\ UNCHANGED kvs
  \/ /\ room.temp = "over"
     /\ EndCycle
     /\ switchOffUntilManualReset(read) /\ hist' = Ended
  \/ /\ room.temp \notin {"none", "over"}
     /\ IF TotalTimeOn(trimmed.log, now) > DutyLimit
        THEN EndCycle /\ switchOffUntilManualReset(trimmed) /\ hist' = Ended
        ELSE /\ script' = trimmed
             /\ cycle' = [cycle EXCEPT !.awaits = "override", !.temp = room.temp]
             /\ UNCHANGED <<kvs, relay, hist>>

\* the clock sanity check, then the heartbeat, then the reading
checkTemperatureOffUntilWrapper ==
  /\ Reads("offUntil")
  /\ \/ /\ ~room.clockSet
        /\ EndCycle
        /\ switchOffUntilManualReset(script) /\ hist' = Ended
     \/ /\ room.clockSet /\ HeartbeatIsStale
        /\ EndCycle
        /\ switchOff(script) /\ hist' = Ended
        /\ UNCHANGED kvs
     \/ room.clockSet /\ ~HeartbeatIsStale /\ checkTemperatureInner
  /\ UNCHANGED bounds

ReadOverride ==
  /\ Reads("override")
  /\ \/ /\ Answered
        /\ cycle' = [cycle EXCEPT !.awaits = "expiry", !.override = kvs.override]
        /\ UNCHANGED hist
     \/ /\ Fails
        /\ cycle' = [cycle EXCEPT !.awaits = "expiry", !.override = "none"]
        /\ hist' = [hist EXCEPT !.calm = FALSE]
  /\ UNCHANGED <<kvs, relay, script, inputs>>

\* Mutant: the expiry is cleared and the override kept.
ReadExpiryHalf ==
  /\ Reads("expiry")
  /\ cycle' = [cycle EXCEPT !.awaits = "should_be_on"]
  /\ kvs' = IF cycle.override = "on" /\ kvs.expiresAt > 0 /\ now >= kvs.expiresAt
            THEN [kvs EXCEPT !.expiresAt = 0] ELSE kvs
  /\ UNCHANGED <<relay, script, hist, bounds>>

\* an expired "on" is cleared together with its expiry
ReadExpiry ==
  /\ Reads("expiry")
  /\ \E expiresAt \in {kvs.expiresAt, 0} :
       /\ \/ expiresAt = kvs.expiresAt /\ Answered /\ UNCHANGED hist
          \/ expiresAt = 0 /\ Fails /\ hist' = [hist EXCEPT !.calm = FALSE]
       /\ IF cycle.override = "on" /\ expiresAt > 0 /\ now >= expiresAt
          THEN /\ kvs' = [kvs EXCEPT !.override = "none", !.expiresAt = 0]
               /\ cycle' = [cycle EXCEPT !.awaits = "should_be_on", !.override = "none"]
          ELSE /\ cycle' = [cycle EXCEPT !.awaits = "should_be_on"]
               /\ UNCHANGED kvs
  /\ UNCHANGED <<relay, script, inputs>>

Warmth == [cold |-> 1, warm |-> 2, hot |-> 3]

\* what the rate of change since the previous sample can predict: within a class the
\* reading may rise or fall, and from one to the other it goes on the same way
Predictions ==
  LET temp == cycle.temp  prev == script.prevTemp IN
  {class \in DOMAIN Warmth :
     \/ class = temp
     \/ prev = temp
     \/ prev # "none" /\ Warmth[prev] < Warmth[temp] /\ Warmth[temp] < Warmth[class]
     \/ prev # "none" /\ Warmth[prev] > Warmth[temp] /\ Warmth[temp] > Warmth[class]}

\* the coil draws power while the contactor is engaged
HasPower == relay.on \/ room.welded

Decide(shouldBeOn, predicted) ==
  LET sampled == [script EXCEPT !.prevTemp = cycle.temp] IN
  \/ /\ (~relay.on \/ ~BelievesOn(script.log)) /\ HasPower
     /\ switchOffUntilManualReset(sampled) /\ hist' = Ended
  \/ /\ ~((~relay.on \/ ~BelievesOn(script.log)) /\ HasPower)
     /\ hist' = Ended
     /\ UNCHANGED kvs
     /\ \/ /\ relay.on /\ (~shouldBeOn \/ "hot" \in {cycle.temp, predicted})
           /\ switchOff(sampled)
        \/ /\ ~relay.on /\ shouldBeOn /\ "cold" \in {cycle.temp, predicted}
           /\ relay' = Closed
           /\ script' = [sampled EXCEPT !.log = LogOn(@, now)]
        \/ /\ IF relay.on THEN shouldBeOn /\ "hot" \notin {cycle.temp, predicted}
                          ELSE ~(shouldBeOn /\ "cold" \in {cycle.temp, predicted})
           /\ script' = sampled
           /\ UNCHANGED relay

\* the last callback of a cycle: override over schedule, then the thermostat
ReadShouldBeOn ==
  /\ Reads("should_be_on")
  /\ EndCycle
  /\ \/ /\ Answered
        /\ \E predicted \in Predictions :
             Decide(cycle.override = "on" \/ (cycle.override = "none" /\ kvs.shouldBeOn), predicted)
     \/ /\ Fails
        /\ switchOff(script) /\ hist' = Ended
        /\ UNCHANGED kvs
  /\ UNCHANGED inputs

CycleStep ==
  \/ startupResetFlagInit \/ checkTemperatureManualResetWrapper \/ checkTemperatureOffUntilWrapper
  \/ ReadOverride \/ ReadExpiry \/ ReadShouldBeOn

-----------------------------------------------------------------------------
(* What goes on around the script. *)

Disturbed == [hist EXCEPT !.calm = FALSE]
Input == inputs < MaxInputs /\ inputs' = inputs + 1 /\ UNCHANGED faults
Fault == faults < MaxFaults /\ faults' = faults + 1 /\ UNCHANGED inputs
Device == <<kvs, relay, script, cycle>>

heartbeatEndpoint ==
  /\ wifi.up /\ cycle.awaits # "start" /\ script.lastHeartbeat # now
  /\ script' = [script EXCEPT !.lastHeartbeat = now]
  /\ hist' = Disturbed
  /\ UNCHANGED <<kvs, relay, cycle, wifi, room, daemon, now, bounds>>

\* the handler of wifi status changes, and the timer that it sets
WifiStatus ==
  /\ Input
  /\ wifi' = [up |-> ~wifi.up, killFrom |-> IF wifi.up THEN now ELSE Null]
  /\ hist' = Disturbed
  /\ UNCHANGED <<Device, room, daemon, now>>

KillDue == wifi.killFrom # Null /\ now - wifi.killFrom >= WifiGrace

wifiKillTimer ==
  /\ KillDue
  /\ switchOffUntilManualReset(script)
  /\ hist' = Disturbed
  /\ wifi' = [wifi EXCEPT !.killFrom = Null]
  /\ UNCHANGED <<cycle, room, daemon, now, bounds>>

\* a slot begins or ends; the device's own schedule sets the flag, unless it missed it
SlotBoundary ==
  /\ planOn' = ~planOn
  /\ \/ Input /\ kvs' = [kvs EXCEPT !.shouldBeOn = planOn']
     \/ Fault /\ UNCHANGED kvs
  /\ hist' = Disturbed
  /\ UNCHANGED <<relay, script, cycle, wifi, room, calls, now>>

RoomChanges ==
  /\ Input
  /\ \E temp \in Temperatures \ {room.temp} : room' = [room EXCEPT !.temp = temp]
  /\ hist' = Disturbed
  /\ UNCHANGED <<Device, wifi, daemon, now>>

ContactorWelds ==
  /\ Fault /\ ~room.welded
  /\ room' = [room EXCEPT !.welded = TRUE]
  /\ hist' = Disturbed
  /\ UNCHANGED <<Device, wifi, daemon, now>>

\* by hand, after the cause was looked into
ManualReset ==
  /\ Input /\ wifi.up /\ kvs.flag = "true"
  /\ kvs' = [kvs EXCEPT !.flag = "false"]
  /\ hist' = Disturbed
  /\ UNCHANGED <<relay, script, cycle, wifi, room, daemon, now>>

\* the daemon opens the relay because a heartbeat to a running script was lost
ForceOff ==
  /\ Fault /\ wifi.up
  /\ relay' = Opened
  /\ hist' = [Disturbed EXCEPT !.outside = @ \/ OpenedBehindLog(script)]
  /\ UNCHANGED <<kvs, script, cycle, wifi, room, daemon, now>>

AutoOffDue == relay.on /\ now - relay.since >= AutoOff

\* auto_off of switch 0
HardwareAutoOff ==
  /\ AutoOffDue
  /\ relay' = Opened
  /\ hist' = [Disturbed EXCEPT !.outside = @ \/ OpenedBehindLog(script)]
  /\ UNCHANGED <<kvs, script, cycle, wifi, room, daemon, now, bounds>>

\* a redeploy: the new instance knows nothing of the old one's log
Redeploy ==
  /\ Input /\ wifi.up
  /\ script' = NoScript
  /\ cycle' = [IdleCycle EXCEPT !.awaits = "start"]
  /\ wifi' = [wifi EXCEPT !.killFrom = Null]
  /\ hist' = [Disturbed EXCEPT !.outside = FALSE]
  /\ UNCHANGED <<kvs, relay, room, daemon, now>>

\* power comes back: initial_state is off, and the clock may not be set yet
Reboot ==
  /\ Fault
  /\ relay' = Opened
  /\ script' = NoScript
  /\ cycle' = [IdleCycle EXCEPT !.awaits = "start"]
  /\ wifi' = [up |-> TRUE, killFrom |-> Null]
  /\ \E clockSet \in BOOLEAN : room' = [room EXCEPT !.clockSet = clockSet]
  /\ hist' = [Disturbed EXCEPT !.outside = FALSE]
  /\ UNCHANGED <<kvs, daemon, now>>

NtpSync ==
  /\ ~room.clockSet
  /\ room' = [room EXCEPT !.clockSet = TRUE]
  /\ hist' = Disturbed
  /\ UNCHANGED <<Device, wifi, daemon, now, bounds>>

\* time passes once the script has had its cycle and what is due has happened
Tick ==
  /\ now < Horizon
  /\ cycle.awaits = "timer" /\ hist.cycled
  /\ ~KillDue /\ ~AutoOffDue
  /\ now' = now + 1
  /\ hist' = [Disturbed EXCEPT !.cycled = FALSE]
  /\ UNCHANGED <<Device, wifi, room, daemon, bounds>>

-----------------------------------------------------------------------------
(* setSaunaOverride: two or three writes, one after the other. *)

setSaunaOverride(c, want) ==
  /\ Input /\ calls[c].awaits = "nothing"
  /\ want = "on" => now + OverrideTime <= Horizon
  /\ calls' = [calls EXCEPT ![c] = [awaits |-> "override", want |-> want]]
  /\ hist' = [Disturbed EXCEPT !.loose = @ \/ \E d \in Calls : calls[d].awaits # "nothing"]
  /\ UNCHANGED <<Device, wifi, room, planOn, now>>

Write(c) ==
  CASE calls[c].awaits = "override" -> [kvs EXCEPT !.override = calls[c].want]
    [] calls[c].awaits = "expiry" ->
         [kvs EXCEPT !.expiresAt = IF calls[c].want = "on" THEN now + OverrideTime ELSE 0]
    [] calls[c].awaits = "should_be_on" -> [kvs EXCEPT !.shouldBeOn = planOn]

NextWrite(c) ==
  CASE calls[c].awaits = "override" -> "expiry"
    [] calls[c].awaits = "expiry" /\ calls[c].want = "none" -> "should_be_on"
    [] OTHER -> "nothing"

\* a write lands and is answered
WriteLands(c) ==
  /\ calls[c].awaits # "nothing" /\ wifi.up
  /\ kvs' = Write(c)
  /\ calls' = [calls EXCEPT ![c] = IF NextWrite(c) = "nothing" THEN NoCall ELSE [@ EXCEPT !.awaits = NextWrite(c)]]
  /\ hist' = Disturbed
  /\ UNCHANGED <<relay, script, cycle, wifi, room, planOn, now, bounds>>

\* a write that is not answered throws, and the call ends there
WriteFails(c) ==
  /\ calls[c].awaits # "nothing"
  /\ \/ Fault /\ wifi.up /\ kvs' \in {kvs, Write(c)}
     \/ ~wifi.up /\ UNCHANGED <<kvs, bounds>>
  /\ calls' = [calls EXCEPT ![c] = NoCall]
  /\ hist' = [Disturbed EXCEPT !.loose = TRUE]
  /\ UNCHANGED <<relay, script, cycle, wifi, room, planOn, now>>

Overrides ==
  \E c \in Calls :
    \/ \E want \in {"on", "off", "none"} : setSaunaOverride(c, want)
    \/ WriteLands(c) \/ WriteFails(c)

Around ==
  \/ heartbeatEndpoint \/ WifiStatus \/ wifiKillTimer \/ SlotBoundary \/ RoomChanges
  \/ ContactorWelds \/ ManualReset \/ ForceOff \/ HardwareAutoOff \/ Redeploy \/ Reboot \/ NtpSync

Next == CycleStep \/ Around \/ Overrides \/ Tick

Spec == Init /\ [][Next]_vars

-----------------------------------------------------------------------------
(* Properties. *)

KVS == [flag : {"missing", "false", "true"}, override : {"on", "off", "none"},
        expiresAt : 0..(Horizon + OverrideTime), shouldBeOn : BOOLEAN]
Script == [log : [events : Seq(0..Horizon), total : Int],
           lastHeartbeat : (0..Horizon) \cup {Never}, lastGoodReading : (0..Horizon) \cup {Null},
           prevTemp : Readings]
Cycle == [awaits : {"start", "timer", "offUntil", "override", "expiry", "should_be_on"},
          temp : Readings, override : {"on", "off", "none"}]

\* The script's variables, the KVS keys and the device keep their types.
TypeOK ==
  /\ kvs \in KVS /\ script \in Script /\ cycle \in Cycle
  /\ relay \in [on : BOOLEAN, since : 0..Horizon]
  /\ wifi \in [up : BOOLEAN, killFrom : (0..Horizon) \cup {Null}]
  /\ room \in [temp : Temperatures, welded : BOOLEAN, clockSet : BOOLEAN]
  /\ calls \in [Calls -> [awaits : {"nothing", "override", "expiry", "should_be_on"},
                          want : {"on", "off", "none"}]]
  /\ planOn \in BOOLEAN /\ now \in 0..Horizon

\* The parity of the log says what the relay does (the invariant stated at line 629),
\* through lockouts, lost heartbeats and redeploys, as long as nobody but the script
\* has opened the relay.
LogFollowsRelay ==
  cycle.awaits # "start" /\ ~hist.outside => (BelievesOn(script.log) <=> relay.on)

Expired == kvs.expiresAt > 0 /\ now >= kvs.expiresAt
Asked == \/ kvs.override = "on" /\ ~Expired
         \/ kvs.override = "none" /\ kvs.shouldBeOn

Permitted ==
  /\ kvs.flag = "false"
  /\ room.clockSet /\ ~HeartbeatIsStale
  /\ room.temp \in {"cold", "warm"} \/ (room.temp = "hot" /\ relay.since = now)
  /\ Asked

\* After a cycle that nothing disturbed the heater is on only if every condition
\* allows it, whichever of the dozen paths through the callbacks the cycle took.  At
\* the limit it may be on for a moment: a reading that falls fast enough for the
\* prediction to be below TEMP_ON closes the relay above TEMP_OFF, until the next cycle.
OnOnlyWhenPermitted ==
  cycle.awaits = "timer" /\ hist.calm /\ relay.on => Permitted

\* The lockout for power through an open switch is raised only for a welded
\* contactor, or when something outside the script has opened the relay.
NoFalseLockout ==
  [][/\ cycle.awaits = "should_be_on" /\ cycle'.awaits = "timer"
     /\ kvs.flag # "true" /\ kvs'.flag = "true"
     => room.welded \/ hist.outside]_vars

\* A lockout, once stored, is lifted by hand only: no redeploy, reboot or cycle
\* clears it, unless a start could not read it (see the README).
LockoutStays ==
  [][kvs.flag = "true" /\ kvs'.flag # "true" => ManualReset \/ (cycle.awaits = "start" /\ faults' > faults)]_vars

\* An "on" override ends by itself, so it always has an expiry, however the daemon's
\* two writes interleave with the script's clearing of an expired one (if no write
\* fails and no two calls overlap: see the README).
OverrideBounded ==
  kvs.override = "on" /\ ~hist.loose /\ (\A c \in Calls : calls[c] = NoCall) => kvs.expiresAt > 0

\* "If the heater is ever on for more than 60 out of 70 minutes, there is a problem": a
\* cycle that nothing disturbed leaves the relay on only if the 70 minutes before it hold
\* no more on-time than that, by the script's own log while that tells the truth.
DutyLimited ==
  cycle.awaits = "timer" /\ hist.calm /\ relay.on /\ ~hist.outside =>
    TotalTimeOn(Recounted(script.log, now), now) <= DutyLimit
=============================================================================
