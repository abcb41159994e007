------------------------ MODULE HeaterScript_proofs ------------------------
(***************************************************************************)
(* The thermostat for every duration, every bound and every number of      *)
(* overlapping overrides: its log tells the relay, the heater is left on   *)
(* only when every condition allows it, lockouts are neither false nor     *)
(* lost, and an "on" override has an expiry.                               *)
(*                                                                         *)
(* None of them is inductive alone.  What a cycle may rely on when it ends *)
(* was found out by its earlier callbacks, and stays so as long as nothing *)
(* disturbs the cycle (Calm); that the parity of the log is the relay's    *)
(* state rests on a log that starts empty and on trims that keep its       *)
(* parity (LogFollows); and that the second write of an override brings    *)
(* the expiry rests on one call being under way (Bounded).                 *)
(***************************************************************************)
EXTENDS HeaterScript, FiniteSetTheorems, SequenceTheorems, TLAPS

IsLog(l) == l = [events |-> l.events, total |-> l.total] /\ l.events \in Seq(Int)
IsScript(s) ==
  /\ s = [log |-> s.log, lastHeartbeat |-> s.lastHeartbeat, lastGoodReading |-> s.lastGoodReading,
          prevTemp |-> s.prevTemp]
  /\ IsLog(s.log)

History == [cycled : BOOLEAN, calm : BOOLEAN, outside : BOOLEAN, loose : BOOLEAN]

\* the types the argument rests on: all but those of the total, of wifi and of times
Typed ==
  /\ kvs \in KVS /\ IsScript(script) /\ cycle \in Cycle
  /\ relay \in [on : BOOLEAN, since : 0..Horizon]
  /\ room \in [temp : Temperatures, welded : BOOLEAN, clockSet : BOOLEAN]
  /\ calls \in [Calls -> [awaits : {"nothing", "override", "expiry", "should_be_on"},
                          want : {"on", "off", "none"}]]
  /\ planOn \in BOOLEAN /\ now \in 0..Horizon
  /\ hist \in History

LogFollows ==
  /\ cycle.awaits = "start" => ~BelievesOn(script.log)
  /\ LogFollowsRelay

\* what an undisturbed cycle has found out by the read it awaits
Calm ==
  /\ cycle.awaits = "start" => ~hist.calm
  /\ hist.calm =>
       /\ cycle.awaits \in {"offUntil", "override", "expiry", "should_be_on"} => kvs.flag = "false"
       /\ cycle.awaits \in {"override", "expiry", "should_be_on"} =>
            /\ room.clockSet /\ ~HeartbeatIsStale
            /\ cycle.temp = room.temp /\ room.temp \in {"cold", "warm", "hot"}
       /\ cycle.awaits \in {"expiry", "should_be_on"} => cycle.override = kvs.override
       /\ cycle.awaits = "should_be_on" => ~(kvs.override = "on" /\ Expired)
       /\ cycle.awaits = "timer" /\ relay.on => Permitted

Idles(c) == calls[c].awaits = "nothing"

\* one override at a time, and only between its two writes is an "on" without an expiry
Bounded ==
  ~hist.loose =>
    /\ \A c, d \in Calls : c # d => Idles(c) \/ Idles(d)
    /\ (\A c \in Calls : calls[c].awaits # "expiry") => (kvs.override = "on" => kvs.expiresAt > 0)
    /\ \A c \in Calls : calls[c].awaits \in {"expiry", "should_be_on"} /\ calls[c].want # "on" => kvs.override # "on"

IInv == Typed /\ LogFollows /\ Calm /\ Bounded

-----------------------------------------------------------------------------
(* The log. *)

LEMMA Parity ==
  ASSUME NEW n \in Nat
  PROVE  /\ n % 2 = 1 => (n + 1) % 2 = 0
         /\ n % 2 # 1 => (n + 1) % 2 = 1
         /\ \A d \in Nat : (n - 2 * d) % 2 = n % 2
OBVIOUS

LEMMA LogOffFacts ==
  ASSUME NEW l, IsLog(l), NEW t \in Int
  PROVE  IsLog(LogOff(l, t)) /\ ~BelievesOn(LogOff(l, t))
<1>1. l.events \in Seq(Int) /\ Len(l.events) \in Nat
  BY DEF IsLog
<1>2. CASE BelievesOn(l)
  <2>1. LogOff(l, t) = [events |-> Append(l.events, t), total |-> l.total]
    BY <1>2 DEF LogOff, IsLog
  <2>2. Append(l.events, t) \in Seq(Int) /\ Len(Append(l.events, t)) = Len(l.events) + 1
    BY <1>1
  <2>3. (Len(l.events) + 1) % 2 = 0
    BY <1>1, <1>2, Parity DEF BelievesOn
  <2> QED
    BY <2>1, <2>2, <2>3 DEF IsLog, BelievesOn
<1>3. CASE ~BelievesOn(l)
  BY <1>3 DEF LogOff
<1> QED
  BY <1>2, <1>3

LEMMA LogOnFacts ==
  ASSUME NEW l, IsLog(l), NEW t \in Int
  PROVE  IsLog(LogOn(l, t)) /\ (~BelievesOn(l) => BelievesOn(LogOn(l, t)))
<1>1. l.events \in Seq(Int) /\ Len(l.events) \in Nat
  BY DEF IsLog
<1>2. LogOn(l, t) = [events |-> Append(l.events, t), total |-> l.total]
  <2> DEFINE events == Append(l.events, t)
  <2>1. LogOn(l, t) = [l EXCEPT !.events = events]
    BY DEF LogOn
  <2> HIDE DEF events
  <2>2. [l EXCEPT !.events = events] = [events |-> events, total |-> l.total]
    BY DEF IsLog
  <2> QED
    BY <2>1, <2>2 DEF events
<1>3. Append(l.events, t) \in Seq(Int) /\ Len(Append(l.events, t)) = Len(l.events) + 1
  BY <1>1
<1>4. ASSUME ~BelievesOn(l) PROVE (Len(l.events) + 1) % 2 = 1
  BY <1>1, <1>4, Parity DEF BelievesOn
<1> QED
  BY <1>2, <1>3, <1>4 DEF IsLog, BelievesOn

\* Trimming drops whole intervals and cuts at most the first.
LEMMA TrimmedFacts ==
  ASSUME NEW events \in Seq(Int), NEW cutoff \in Int
  PROVE  Trimmed(events, cutoff) \in Seq(Int) /\ Len(Trimmed(events, cutoff)) % 2 = Len(events) % 2
<1> DEFINE n == completeIntervals(events)
           over == {i \in 1..n : events[2 * i] < cutoff}
           toDrop == Cardinality(over)
           kept == SubSeq(events, 2 * toDrop + 1, Len(events))
<1>1. Len(events) \in Nat /\ n \in Nat /\ 2 * n <= Len(events)
  BY DEF completeIntervals
<1>2. toDrop \in Nat /\ toDrop <= n
  <2>1. IsFiniteSet(1..n) /\ Cardinality(1..n) = n
    BY <1>1, FS_Interval
  <2>2. over \subseteq 1..n
    OBVIOUS
  <2> HIDE DEF over, n
  <2>3. IsFiniteSet(over) /\ Cardinality(over) <= Cardinality(1..n)
    BY <2>1, <2>2, FS_Subset
  <2> QED
    BY <2>1, <2>3, FS_CardinalityType
<1>3. kept \in Seq(Int) /\ Len(kept) = Len(events) - 2 * toDrop
  <2> DEFINE from == 2 * toDrop + 1
             to == Len(events)
  <2> HIDE DEF toDrop, n
  <2>1. from \in Int /\ to \in Int /\ from >= 1 /\ from <= to + 1
    BY <1>1, <1>2
  <2>2. to - from + 1 = Len(events) - 2 * toDrop /\ (from = to + 1 => Len(events) - 2 * toDrop = 0)
    BY <1>1, <1>2
  <2>3. \A i \in from..to : events[i] \in Int
    BY <2>1
  <2>4. kept = SubSeq(events, from, to)
    OBVIOUS
  <2> HIDE DEF from, to, kept
  <2>5. SubSeq(events, from, to) \in Seq(Int) /\ Len(SubSeq(events, from, to)) = IF from <= to THEN to - from + 1 ELSE 0
    BY <2>1, <2>3, SubSeqProperties
  <2> QED
    BY <2>1, <2>2, <2>4, <2>5
<1>4. (Len(events) - 2 * toDrop) % 2 = Len(events) % 2
  <2> HIDE DEF toDrop, n
  <2> QED
    BY <1>1, <1>2, Parity
<1>5. CASE Len(kept) >= 2 /\ kept[1] < cutoff
  <2>1. Trimmed(events, cutoff) = [kept EXCEPT ![1] = cutoff]
    BY <1>5 DEF Trimmed
  <2> HIDE DEF kept
  <2>2. Len(kept) \in Nat /\ 1 \in 1..Len(kept)
    BY <1>3, <1>5
  <2>3. [kept EXCEPT ![1] = cutoff] \in Seq(Int) /\ Len([kept EXCEPT ![1] = cutoff]) = Len(kept)
    BY <1>3, <2>2, ExceptSeq
  <2> QED
    BY <1>3, <1>4, <2>1, <2>3
<1>6. CASE ~(Len(kept) >= 2 /\ kept[1] < cutoff)
  <2>1. Trimmed(events, cutoff) = kept
    BY <1>6 DEF Trimmed
  <2> HIDE DEF kept
  <2> QED
    BY <1>3, <1>4, <2>1
<1> QED
  BY <1>5, <1>6

LEMMA TrimFacts ==
  ASSUME NEW l, IsLog(l), NEW t \in Int
  PROVE  IsLog(trimTimeLog(l, t)) /\ (BelievesOn(trimTimeLog(l, t)) <=> BelievesOn(l))
<1> DEFINE events == Trimmed(l.events, t - LookBack)
<1>1. l.events \in Seq(Int) /\ t - LookBack \in Int
  BY HeaterAssumption DEF IsLog
<1>2. events \in Seq(Int) /\ Len(events) % 2 = Len(l.events) % 2
  BY <1>1, TrimmedFacts
<1>3. trimTimeLog(l, t) = [events |-> events, total |-> l.total - (OnTime(l.events) - OnTime(events))]
  BY DEF trimTimeLog
<1> HIDE DEF events
<1> QED
  BY <1>2, <1>3 DEF IsLog, BelievesOn

\* What is left of a script of which one variable is set.
LEMMA ScriptFacts ==
  ASSUME NEW s, IsScript(s), NEW x, NEW l, IsLog(l)
  PROVE  /\ IsScript([s EXCEPT !.log = l]) /\ [s EXCEPT !.log = l].log = l
         /\ [s EXCEPT !.log = l].lastHeartbeat = s.lastHeartbeat
         /\ IsScript([s EXCEPT !.lastHeartbeat = x]) /\ [s EXCEPT !.lastHeartbeat = x].log = s.log
         /\ IsScript([s EXCEPT !.lastGoodReading = x]) /\ [s EXCEPT !.lastGoodReading = x].log = s.log
         /\ [s EXCEPT !.lastGoodReading = x].lastHeartbeat = s.lastHeartbeat
         /\ IsScript([s EXCEPT !.prevTemp = x]) /\ [s EXCEPT !.prevTemp = x].log = s.log
         /\ [s EXCEPT !.prevTemp = x].lastHeartbeat = s.lastHeartbeat
BY DEF IsScript

LEMMA NewScript == IsScript(NoScript) /\ ~BelievesOn(NoScript.log)
<1>1. NewLog.events = <<>> /\ Len(NewLog.events) = 0 /\ <<>> \in Seq(Int)
  BY DEF NewLog
<1>2. IsLog(NewLog) /\ ~BelievesOn(NewLog)
  BY <1>1 DEF IsLog, NewLog, BelievesOn
<1> QED
  BY <1>2 DEF IsScript, NoScript

\* switchOff leaves the relay open and a log that says so.
LEMMA SwitchOffFacts ==
  ASSUME NEW s, IsScript(s), now \in Int, switchOff(s)
  PROVE  relay' = Opened /\ IsScript(script') /\ ~BelievesOn(script'.log)
<1>1. IsLog(s.log)
  BY DEF IsScript
<1>2. IsLog(LogOff(s.log, now)) /\ ~BelievesOn(LogOff(s.log, now))
  BY <1>1, LogOffFacts
<1>3. script' = [s EXCEPT !.log = LogOff(s.log, now)] /\ relay' = Opened
  BY DEF switchOff
<1> QED
  BY <1>2, <1>3, ScriptFacts

-----------------------------------------------------------------------------
(* What leaves the invariant alone. *)

LEMMA HistFacts ==
  ASSUME hist \in History
  PROVE  /\ hist' = Disturbed => /\ hist' \in History /\ hist'.calm = FALSE
                                 /\ hist'.outside = hist.outside /\ hist'.loose = hist.loose
         /\ hist' = Ended => /\ hist' \in History /\ hist'.calm = hist.calm
                             /\ hist'.outside = hist.outside /\ hist'.loose = hist.loose
BY DEF History, Disturbed, Ended

\* Nothing is said of a cycle that was disturbed.
LEMMA CalmOver ==
  ASSUME hist'.calm = FALSE
  PROVE  Calm'
BY DEF Calm

LEMMA LogSame ==
  ASSUME LogFollows, UNCHANGED relay, cycle'.awaits = cycle.awaits, script'.log = script.log,
         hist'.outside = hist.outside
  PROVE  LogFollows'
BY DEF LogFollows, LogFollowsRelay

LEMMA LogOpened ==
  ASSUME relay' = Opened, ~BelievesOn(script'.log)
  PROVE  LogFollows'
BY DEF LogFollows, LogFollowsRelay, Opened

LEMMA BoundedSame ==
  ASSUME Bounded, UNCHANGED calls, kvs'.override = kvs.override, kvs'.expiresAt = kvs.expiresAt,
         hist'.loose = hist.loose
  PROVE  Bounded'
BY DEF Bounded, Idles

LEMMA OpenedTyped == Opened \in [on : BOOLEAN, since : 0..Horizon] /\ Opened.on = FALSE
BY HeaterAssumption DEF Opened

LEMMA IdleTyped == IdleCycle \in Cycle /\ IdleCycle.awaits = "timer"
                   /\ [IdleCycle EXCEPT !.awaits = "start"] \in Cycle
                   /\ [IdleCycle EXCEPT !.awaits = "start"].awaits = "start"
BY DEF IdleCycle, Cycle, Readings

LEMMA FlagTyped ==
  ASSUME kvs \in KVS, NEW f \in {"missing", "false", "true"}
  PROVE  /\ [kvs EXCEPT !.flag = f] \in KVS /\ [kvs EXCEPT !.flag = f].flag = f
         /\ [kvs EXCEPT !.flag = f].override = kvs.override /\ [kvs EXCEPT !.flag = f].expiresAt = kvs.expiresAt
BY DEF KVS

-----------------------------------------------------------------------------
(* The cycle. *)

\* A cycle that ends with the relay open, locked out or not.
LEMMA EndsOff ==
  ASSUME IInv, ScriptOnly, NEW s, IsScript(s), switchOff(s), EndCycle, hist' = Ended,
         kvs' = kvs \/ kvs' = [kvs EXCEPT !.flag = "true"]
  PROVE  IInv'
<1>1. now \in Int /\ hist \in History /\ kvs \in KVS
  BY HeaterAssumption DEF IInv, Typed
<1>2. relay' = Opened /\ IsScript(script') /\ ~BelievesOn(script'.log)
  BY <1>1, SwitchOffFacts
<1>3. kvs' \in KVS /\ kvs'.override = kvs.override /\ kvs'.expiresAt = kvs.expiresAt
  BY <1>1, FlagTyped
<1>4. hist' \in History /\ hist'.loose = hist.loose
  BY <1>1, HistFacts
<1>5. cycle' \in Cycle /\ cycle'.awaits = "timer"
  BY IdleTyped DEF EndCycle
<1>6. UNCHANGED <<room, calls, planOn, now>>
  BY DEF ScriptOnly, daemon
<1>7. Typed'
  BY <1>2, <1>3, <1>4, <1>5, <1>6, OpenedTyped DEF IInv, Typed
<1>8. LogFollows' /\ Bounded'
  BY <1>2, <1>3, <1>4, <1>6, LogOpened, BoundedSame DEF IInv
<1>9. Calm'
  BY <1>2, <1>5, OpenedTyped DEF Calm
<1> QED
  BY <1>7, <1>8, <1>9 DEF IInv

LEMMA StartKeeps ==
  ASSUME IInv, startupResetFlagInit
  PROVE  IInv'
<1>1. /\ cycle.awaits = "start" /\ UNCHANGED <<room, calls, planOn, now, script>>
      /\ cycle' \in Cycle /\ cycle'.awaits = "timer"
  BY IdleTyped DEF startupResetFlagInit, Reads, ScriptOnly, daemon, EndCycle
<1>2. hist \in History /\ kvs \in KVS /\ hist.calm = FALSE /\ ~BelievesOn(script.log)
  <2>1. hist \in History /\ kvs \in KVS /\ ~hist.calm /\ ~BelievesOn(script.log)
    BY <1>1 DEF IInv, Typed, Calm, LogFollows
  <2> QED
    BY <2>1 DEF History
<1>3. CASE kvs' = [kvs EXCEPT !.flag = "false"] /\ hist' = [Ended EXCEPT !.outside = @ \/ relay.on] /\ UNCHANGED relay
  <2>1. hist' \in History /\ hist'.calm = FALSE /\ hist'.loose = hist.loose /\ (relay.on => hist'.outside)
    BY <1>2, <1>3 DEF History, Ended, IInv, Typed
  <2>2. kvs' \in KVS /\ kvs'.override = kvs.override /\ kvs'.expiresAt = kvs.expiresAt
    BY <1>2, <1>3, FlagTyped
  <2>3. Typed'
    BY <1>1, <1>3, <2>1, <2>2 DEF IInv, Typed
  <2>4. LogFollows'
    BY <1>1, <1>2, <1>3, <2>1 DEF LogFollows, LogFollowsRelay
  <2>5. Calm' /\ Bounded'
    BY <1>1, <2>1, <2>2, CalmOver, BoundedSame DEF IInv
  <2> QED
    BY <2>3, <2>4, <2>5 DEF IInv
<1>4. CASE relay' = Opened /\ hist' = Ended /\ UNCHANGED kvs
  <2>1. hist' \in History /\ hist'.calm = FALSE /\ hist'.loose = hist.loose
    BY <1>2, <1>4, HistFacts
  <2>2. Typed'
    BY <1>1, <1>4, <2>1, OpenedTyped DEF IInv, Typed
  <2>3. LogFollows' /\ Calm' /\ Bounded'
    BY <1>1, <1>2, <1>4, <2>1, LogOpened, CalmOver, BoundedSame DEF IInv
  <2> QED
    BY <2>2, <2>3 DEF IInv
<1> QED
  BY <1>3, <1>4 DEF startupResetFlagInit

LEMMA LockoutReadKeeps ==
  ASSUME IInv, checkTemperatureManualResetWrapper
  PROVE  IInv'
<1>1. cycle.awaits = "timer" /\ UNCHANGED <<room, calls, planOn, now, script, kvs>>
  BY DEF checkTemperatureManualResetWrapper, Reads, ScriptOnly, daemon
<1>2. hist \in History /\ cycle \in Cycle
  BY DEF IInv, Typed
<1>3. CASE ~Locked /\ cycle' = [cycle EXCEPT !.awaits = "offUntil"] /\ hist' = [hist EXCEPT !.calm = TRUE] /\ UNCHANGED relay
  <2>1. cycle' \in Cycle /\ cycle'.awaits = "offUntil"
    BY <1>2, <1>3 DEF Cycle
  <2>2. hist' \in History /\ hist'.outside = hist.outside /\ hist'.loose = hist.loose
    BY <1>2, <1>3 DEF History
  <2>3. Typed'
    BY <1>1, <1>3, <2>1, <2>2 DEF IInv, Typed
  <2>4. LogFollows'
    BY <1>1, <1>3, <2>1, <2>2 DEF IInv, LogFollows, LogFollowsRelay
  <2>5. Calm' /\ Bounded'
    BY <1>1, <1>3, <2>1, <2>2, BoundedSame DEF IInv, Calm, Locked
  <2> QED
    BY <2>3, <2>4, <2>5 DEF IInv
<1>4. CASE relay' = Opened /\ EndCycle /\ hist' = [Ended EXCEPT !.calm = TRUE, !.outside = @ \/ OpenedBehindLog(script)]
  <2>1. cycle' \in Cycle /\ cycle'.awaits = "timer"
    BY <1>4, IdleTyped DEF EndCycle
  <2>2. OpenedBehindLog(script) \in BOOLEAN
    BY DEF OpenedBehindLog, BelievesOn
  <2>3. hist' \in History /\ hist'.loose = hist.loose /\ hist'.outside = (hist.outside \/ OpenedBehindLog(script))
    BY <1>2, <1>4, <2>2 DEF History, Ended
  <2>4. Typed'
    BY <1>1, <1>4, <2>1, <2>3, OpenedTyped DEF IInv, Typed
  <2>5. LogFollows'
    BY <1>1, <1>4, <2>1, <2>3, OpenedTyped DEF IInv, LogFollows, LogFollowsRelay, OpenedBehindLog
  <2>6. Calm' /\ Bounded'
    BY <1>1, <1>4, <2>1, <2>3, OpenedTyped, BoundedSame DEF IInv, Calm
  <2> QED
    BY <2>4, <2>5, <2>6 DEF IInv
<1> QED
  BY <1>3, <1>4 DEF checkTemperatureManualResetWrapper

LEMMA ReadingKeeps ==
  ASSUME IInv, checkTemperatureOffUntilWrapper
  PROVE  IInv'
<1> DEFINE read == [script EXCEPT !.lastGoodReading = now]
           trimmed == [read EXCEPT !.log = trimTimeLog(@, now)]
<1>1. cycle.awaits = "offUntil" /\ ScriptOnly /\ UNCHANGED <<room, calls, planOn, now>>
  BY DEF checkTemperatureOffUntilWrapper, Reads, ScriptOnly, daemon
<1>2. IsScript(script) /\ IsLog(script.log) /\ now \in Int
  BY HeaterAssumption DEF IInv, Typed, IsScript
<1>3. IsScript(read) /\ read.log = script.log /\ read.lastHeartbeat = script.lastHeartbeat
  BY <1>2, ScriptFacts
<1>4. /\ IsScript(trimmed) /\ trimmed.lastHeartbeat = script.lastHeartbeat
      /\ BelievesOn(trimmed.log) <=> BelievesOn(script.log)
  <2>1. /\ IsLog(trimTimeLog(script.log, now))
        /\ BelievesOn(trimTimeLog(script.log, now)) <=> BelievesOn(script.log)
    BY <1>2, TrimFacts
  <2>2. trimmed = [read EXCEPT !.log = trimTimeLog(script.log, now)]
    BY <1>3
  <2> HIDE DEF read, trimmed
  <2>3. /\ IsScript(trimmed) /\ trimmed.log = trimTimeLog(script.log, now)
        /\ trimmed.lastHeartbeat = read.lastHeartbeat
    BY <1>3, <2>1, <2>2, ScriptFacts, Zenon
  <2> QED
    BY <1>3, <2>1, <2>3
<1>5. CASE /\ \E s \in {script, read, trimmed} : switchOff(s)
           /\ EndCycle /\ hist' = Ended /\ (kvs' = kvs \/ kvs' = [kvs EXCEPT !.flag = "true"])
  BY <1>1, <1>2, <1>3, <1>4, <1>5, EndsOff
<1>6. CASE /\ room.clockSet /\ ~HeartbeatIsStale /\ room.temp \notin {"none", "over"}
           /\ script' = trimmed /\ UNCHANGED <<kvs, relay, hist>>
           /\ cycle' = [cycle EXCEPT !.awaits = "override", !.temp = room.temp]
  <2>1. room.temp \in {"cold", "warm", "hot"}
    BY <1>6, HeaterAssumption DEF IInv, Typed, Readings
  <2>2. cycle' \in Cycle /\ cycle'.awaits = "override" /\ cycle'.temp = room.temp
    BY <1>6, <2>1 DEF IInv, Typed, Cycle, Readings
  <2>3. IsScript(script') /\ script'.lastHeartbeat = script.lastHeartbeat /\ (BelievesOn(script'.log) <=> BelievesOn(script.log))
    BY <1>4, <1>6
  <2> HIDE DEF trimmed, read
  <2>4. Typed'
    BY <1>1, <1>6, <2>2, <2>3 DEF IInv, Typed
  <2>5. LogFollows'
    BY <1>1, <1>6, <2>2, <2>3 DEF IInv, LogFollows, LogFollowsRelay
  <2>6. HeartbeatIsStale' <=> HeartbeatIsStale
    BY <1>1, <2>3 DEF HeartbeatIsStale
  <2>7. Calm'
    BY <1>1, <1>6, <2>1, <2>2, <2>6 DEF IInv, Calm
  <2>8. Bounded'
    BY <1>1, <1>6, BoundedSame DEF IInv
  <2> QED
    BY <2>4, <2>5, <2>7, <2>8 DEF IInv
<1> QED
  BY <1>5, <1>6, Zenon DEF checkTemperatureOffUntilWrapper, checkTemperatureInner, switchOffUntilManualReset

LEMMA OverrideReadKeeps ==
  ASSUME IInv, ReadOverride
  PROVE  IInv'
<1>1. cycle.awaits = "override" /\ UNCHANGED <<room, calls, planOn, now, script, kvs, relay>>
  BY DEF ReadOverride, Reads, ScriptOnly, daemon
<1>2. hist \in History /\ cycle \in Cycle /\ kvs \in KVS
  BY DEF IInv, Typed
<1>3. cycle' \in Cycle /\ cycle'.awaits = "expiry" /\ cycle'.temp = cycle.temp
  BY <1>2 DEF ReadOverride, Cycle, KVS
<1>4. /\ hist' \in History /\ hist'.outside = hist.outside /\ hist'.loose = hist.loose
      /\ hist'.calm = FALSE \/ (hist' = hist /\ cycle'.override = kvs.override)
  BY <1>2 DEF ReadOverride, History, Cycle
<1>5. Typed'
  BY <1>1, <1>3, <1>4 DEF IInv, Typed
<1>6. LogFollows' /\ Bounded'
  BY <1>1, <1>3, <1>4, BoundedSame DEF IInv, LogFollows, LogFollowsRelay
<1>7. HeartbeatIsStale' <=> HeartbeatIsStale
  BY <1>1 DEF HeartbeatIsStale
<1>8. Calm'
  BY <1>1, <1>3, <1>4, <1>7 DEF IInv, Calm
<1> QED
  BY <1>5, <1>6, <1>8 DEF IInv

LEMMA ExpiryReadKeeps ==
  ASSUME IInv, ReadExpiry
  PROVE  IInv'
<1>1. cycle.awaits = "expiry" /\ UNCHANGED <<room, calls, planOn, now, script, relay>>
  BY DEF ReadExpiry, Reads, ScriptOnly, daemon
<1>2. hist \in History /\ cycle \in Cycle /\ kvs \in KVS
  BY DEF IInv, Typed
<1>3. PICK expiresAt \in {kvs.expiresAt, 0} :
        /\ \/ expiresAt = kvs.expiresAt /\ UNCHANGED hist
           \/ hist' = [hist EXCEPT !.calm = FALSE]
        /\ IF cycle.override = "on" /\ expiresAt > 0 /\ now >= expiresAt
           THEN /\ kvs' = [kvs EXCEPT !.override = "none", !.expiresAt = 0]
                /\ cycle' = [cycle EXCEPT !.awaits = "should_be_on", !.override = "none"]
           ELSE /\ cycle' = [cycle EXCEPT !.awaits = "should_be_on"]
                /\ UNCHANGED kvs
  BY DEF ReadExpiry
<1>4. hist' \in History /\ hist'.outside = hist.outside /\ hist'.loose = hist.loose /\ (hist'.calm = FALSE \/ (hist' = hist /\ expiresAt = kvs.expiresAt))
  BY <1>2, <1>3 DEF History
<1>5. cycle' \in Cycle /\ cycle'.awaits = "should_be_on" /\ cycle'.temp = cycle.temp
  BY <1>2, <1>3 DEF Cycle
<1>6. \/ UNCHANGED kvs /\ cycle'.override = cycle.override /\ ~(cycle.override = "on" /\ expiresAt > 0 /\ now >= expiresAt)
      \/ kvs' \in KVS /\ kvs'.override = "none" /\ cycle'.override = "none" /\ kvs'.flag = kvs.flag
  <2>1. 0 \in 0..(Horizon + OverrideTime)
    BY HeaterAssumption
  <2> QED
    BY <1>2, <1>3, <2>1 DEF KVS, Cycle
<1>7. Typed'
  BY <1>1, <1>4, <1>5, <1>6 DEF IInv, Typed
<1>8. LogFollows'
  BY <1>1, <1>4, <1>5 DEF IInv, LogFollows, LogFollowsRelay
<1>9. Bounded'
  <2>1. CASE UNCHANGED kvs
    BY <1>1, <1>4, <2>1, BoundedSame DEF IInv
  <2>2. CASE kvs'.override = "none"
    BY <1>1, <1>4, <2>2 DEF IInv, Bounded, Idles
  <2> QED
    BY <1>6, <2>1, <2>2
<1>10. HeartbeatIsStale' <=> HeartbeatIsStale
  BY <1>1 DEF HeartbeatIsStale
<1>11. Calm'
  <2>1. CASE hist'.calm = FALSE
    BY <2>1, CalmOver
  <2>2. CASE hist' = hist /\ expiresAt = kvs.expiresAt
    <3>1. ~hist.calm \/ (kvs'.flag = "false" /\ cycle'.override = kvs'.override /\ ~(kvs'.override = "on" /\ Expired'))
      BY <1>1, <1>6, <2>2 DEF IInv, Calm, Expired
    <3> QED
      BY <1>1, <1>5, <1>10, <2>2, <3>1 DEF IInv, Calm
  <2> QED
    BY <1>4, <2>1, <2>2
<1> QED
  BY <1>7, <1>8, <1>9, <1>11 DEF IInv

LEMMA ThermostatKeeps ==
  ASSUME IInv, ReadShouldBeOn
  PROVE  IInv'
<1> DEFINE sampled == [script EXCEPT !.prevTemp = cycle.temp]
           wanted == cycle.override = "on" \/ (cycle.override = "none" /\ kvs.shouldBeOn)
<1>1. /\ cycle.awaits = "should_be_on" /\ ScriptOnly /\ UNCHANGED <<room, calls, planOn, now>>
      /\ EndCycle /\ cycle' \in Cycle /\ cycle'.awaits = "timer"
  BY IdleTyped DEF ReadShouldBeOn, Reads, ScriptOnly, daemon, EndCycle
<1>2. IsScript(script) /\ IsLog(script.log) /\ now \in Int /\ hist \in History
  BY HeaterAssumption DEF IInv, Typed, IsScript
<1>3. IsScript(sampled) /\ sampled.log = script.log /\ sampled.lastHeartbeat = script.lastHeartbeat
  BY <1>2, ScriptFacts
<1>4. CASE /\ \E s \in {script, sampled} : switchOff(s)
           /\ hist' = Ended /\ (kvs' = kvs \/ kvs' = [kvs EXCEPT !.flag = "true"])
  BY <1>1, <1>2, <1>3, <1>4, EndsOff
<1>5. ASSUME hist.calm
      PROVE  /\ kvs.flag = "false" /\ room.clockSet /\ ~HeartbeatIsStale
             /\ cycle.temp = room.temp /\ room.temp \in {"cold", "warm", "hot"}
             /\ wanted => Asked
  BY <1>1, <1>5 DEF IInv, Calm, Asked
<1>6. CASE /\ hist' = Ended /\ UNCHANGED kvs /\ ~relay.on /\ wanted
           /\ relay' = Closed /\ script' = [sampled EXCEPT !.log = LogOn(@, now)]
  <2>1. IsLog(LogOn(script.log, now)) /\ (~BelievesOn(script.log) => BelievesOn(LogOn(script.log, now)))
    BY <1>2, LogOnFacts
  <2>2. script' = [sampled EXCEPT !.log = LogOn(script.log, now)]
    BY <1>3, <1>6
  <2> HIDE DEF sampled, wanted
  <2>3. IsScript(script') /\ script'.log = LogOn(script.log, now) /\ script'.lastHeartbeat = script.lastHeartbeat
    BY <1>3, <2>1, <2>2, ScriptFacts, Zenon
  <2>4. hist' \in History /\ hist'.calm = hist.calm /\ hist'.outside = hist.outside /\ hist'.loose = hist.loose
    BY <1>2, <1>6, HistFacts
  <2>5. relay' \in [on : BOOLEAN, since : 0..Horizon] /\ relay'.on /\ relay'.since = now
    BY <1>6 DEF Closed, IInv, Typed
  <2>6. Typed'
    BY <1>1, <1>6, <2>3, <2>4, <2>5 DEF IInv, Typed
  <2>7. LogFollows'
    BY <1>1, <1>6, <2>1, <2>3, <2>4, <2>5 DEF IInv, LogFollows, LogFollowsRelay
  <2>8. Calm'
    <3>1. HeartbeatIsStale' <=> HeartbeatIsStale
      BY <1>1, <2>3 DEF HeartbeatIsStale
    <3>2. Asked' <=> Asked
      BY <1>1, <1>6 DEF Asked, Expired
    <3> QED
      BY <1>1, <1>5, <1>6, <2>4, <2>5, <3>1, <3>2 DEF Calm, Permitted
  <2>9. Bounded'
    BY <1>1, <1>6, <2>4, BoundedSame DEF IInv
  <2> QED
    BY <2>6, <2>7, <2>8, <2>9 DEF IInv
<1>7. CASE /\ hist' = Ended /\ UNCHANGED <<kvs, relay>> /\ script' = sampled
           /\ relay.on => wanted /\ cycle.temp # "hot"
  <2> HIDE DEF sampled, wanted
  <2>1. IsScript(script') /\ script'.log = script.log /\ script'.lastHeartbeat = script.lastHeartbeat
    BY <1>3, <1>7
  <2>2. hist' \in History /\ hist'.calm = hist.calm /\ hist'.outside = hist.outside /\ hist'.loose = hist.loose
    BY <1>2, <1>7, HistFacts
  <2>3. Typed'
    BY <1>1, <1>7, <2>1, <2>2 DEF IInv, Typed
  <2>4. LogFollows'
    BY <1>1, <1>7, <2>1, <2>2 DEF IInv, LogFollows, LogFollowsRelay
  <2>5. Calm'
    <3>1. HeartbeatIsStale' <=> HeartbeatIsStale
      BY <1>1, <2>1 DEF HeartbeatIsStale
    <3>2. Asked' <=> Asked
      BY <1>1, <1>7 DEF Asked, Expired
    <3> QED
      BY <1>1, <1>5, <1>7, <2>2, <3>1, <3>2 DEF Calm, Permitted
  <2>6. Bounded'
    BY <1>1, <1>7, <2>2, BoundedSame DEF IInv
  <2> QED
    BY <2>3, <2>4, <2>5, <2>6 DEF IInv
<1>8. \/ switchOff(script) /\ hist' = Ended /\ UNCHANGED kvs
      \/ \E predicted \in Predictions : Decide(wanted, predicted)
  BY DEF ReadShouldBeOn
<1>9. ASSUME NEW predicted, Decide(wanted, predicted) PROVE IInv'
  <2> HIDE DEF wanted
  <2>1. CASE switchOffUntilManualReset(sampled) /\ hist' = Ended
    BY <1>4, <2>1 DEF switchOffUntilManualReset
  <2>2. CASE hist' = Ended /\ UNCHANGED kvs /\ switchOff(sampled)
    BY <1>4, <2>2
  <2> QED
    BY <1>6, <1>7, <1>9, <2>1, <2>2, Zenon DEF Decide
<1> QED
  BY <1>4, <1>8, <1>9

-----------------------------------------------------------------------------
(* What goes on around the script. *)

\* Any step that disturbs the cycle, and leaves the relay and the log in agreement.
LEMMA DisturbedKeeps ==
  ASSUME IInv, Typed', LogFollows', UNCHANGED calls, hist'.calm = FALSE, hist'.loose = hist.loose,
         kvs'.override = kvs.override, kvs'.expiresAt = kvs.expiresAt
  PROVE  IInv'
BY CalmOver, BoundedSame DEF IInv

LEMMA AroundKeeps ==
  ASSUME IInv, Around \/ Tick
  PROVE  IInv'
<1>1. /\ kvs \in KVS /\ IsScript(script) /\ IsLog(script.log) /\ hist \in History /\ now \in Int
      /\ room \in [temp : Temperatures, welded : BOOLEAN, clockSet : BOOLEAN] /\ cycle \in Cycle
  BY HeaterAssumption DEF IInv, Typed, IsScript
<1>2. /\ Disturbed \in History /\ Disturbed.calm = FALSE
      /\ Disturbed.outside = hist.outside /\ Disturbed.loose = hist.loose
  BY <1>1 DEF History, Disturbed
\* the relay is opened by something that the log does not see
<1>3. ASSUME relay' = Opened, hist' = [Disturbed EXCEPT !.outside = @ \/ OpenedBehindLog(script)],
             UNCHANGED <<kvs, script, cycle, room, calls, planOn, now>>
      PROVE  IInv'
  <2>1. OpenedBehindLog(script) \in BOOLEAN
    BY DEF OpenedBehindLog, BelievesOn
  <2>2. /\ hist' \in History /\ hist'.calm = FALSE /\ hist'.loose = hist.loose
        /\ hist'.outside = (hist.outside \/ OpenedBehindLog(script))
    BY <1>1, <1>3, <2>1 DEF History, Disturbed
  <2>3. Typed'
    BY <1>3, <2>2, OpenedTyped DEF IInv, Typed
  <2>4. LogFollows'
    BY <1>3, <2>2, OpenedTyped DEF IInv, LogFollows, LogFollowsRelay, OpenedBehindLog
  <2> QED
    BY <1>3, <2>2, <2>3, <2>4, DisturbedKeeps
\* a new instance of the script, with an empty log, that has not started yet
<1>4. ASSUME script' = NoScript, cycle' = [IdleCycle EXCEPT !.awaits = "start"],
             hist' = [Disturbed EXCEPT !.outside = FALSE], relay' \in {relay, Opened},
             room' \in [temp : Temperatures, welded : BOOLEAN, clockSet : BOOLEAN],
             UNCHANGED <<kvs, calls, planOn, now>>
      PROVE  IInv'
  <2>1. hist' \in History /\ hist'.calm = FALSE /\ hist'.loose = hist.loose
    BY <1>1, <1>4 DEF History, Disturbed
  <2>2. cycle' \in Cycle /\ cycle'.awaits = "start" /\ IsScript(script') /\ ~BelievesOn(script'.log)
    BY <1>4, IdleTyped, NewScript
  <2>3. Typed'
    BY <1>4, <2>1, <2>2, OpenedTyped DEF IInv, Typed
  <2>4. LogFollows'
    BY <2>2 DEF LogFollows, LogFollowsRelay
  <2> QED
    BY <1>4, <2>1, <2>3, <2>4, DisturbedKeeps
\* anything that touches neither the relay nor the log
<1>5. ASSUME hist' = Disturbed, UNCHANGED <<relay, cycle, calls>>, script'.log = script.log, IsScript(script'),
             kvs' \in KVS, kvs'.override = kvs.override, kvs'.expiresAt = kvs.expiresAt,
             room' \in [temp : Temperatures, welded : BOOLEAN, clockSet : BOOLEAN],
             planOn' \in BOOLEAN, now' \in 0..Horizon
      PROVE  IInv'
  <2>1. Typed'
    BY <1>2, <1>5 DEF IInv, Typed
  <2>2. LogFollows'
    BY <1>2, <1>5, LogSame DEF IInv
  <2> QED
    BY <1>2, <1>5, <2>1, <2>2, DisturbedKeeps
<1>6. planOn \in BOOLEAN /\ now \in 0..Horizon
  BY DEF IInv, Typed
<1>7. CASE heartbeatEndpoint
  <2>1. script' = [script EXCEPT !.lastHeartbeat = now] /\ UNCHANGED <<kvs, relay, cycle, room, calls, planOn, now>>
        /\ hist' = Disturbed
    BY <1>7 DEF heartbeatEndpoint, daemon
  <2>2. IsScript(script') /\ script'.log = script.log
    BY <1>1, <2>1, ScriptFacts
  <2> QED
    BY <1>1, <1>5, <1>6, <2>1, <2>2
<1>8. CASE WifiStatus
  BY <1>1, <1>5, <1>6, <1>8 DEF WifiStatus, Device, daemon
<1>9. CASE wifiKillTimer
  <2>1. /\ switchOff(script) /\ kvs' = [kvs EXCEPT !.flag = "true"] /\ hist' = Disturbed
        /\ UNCHANGED <<cycle, room, calls, planOn, now>>
    BY <1>9 DEF wifiKillTimer, switchOffUntilManualReset, daemon
  <2>2. relay' = Opened /\ IsScript(script') /\ ~BelievesOn(script'.log)
    BY <1>1, <2>1, SwitchOffFacts
  <2>3. kvs' \in KVS /\ kvs'.override = kvs.override /\ kvs'.expiresAt = kvs.expiresAt
    BY <1>1, <2>1, FlagTyped
  <2>4. Typed'
    BY <1>2, <2>1, <2>2, <2>3, OpenedTyped DEF IInv, Typed
  <2> QED
    BY <1>2, <2>1, <2>2, <2>3, <2>4, LogOpened, DisturbedKeeps
<1>10. CASE SlotBoundary
  <2>1. planOn' \in BOOLEAN
    BY <1>6, <1>10 DEF SlotBoundary
  <2>2. kvs' \in KVS /\ kvs'.override = kvs.override /\ kvs'.expiresAt = kvs.expiresAt
    BY <1>1, <1>10, <2>1 DEF SlotBoundary, KVS
  <2> QED
    BY <1>1, <1>5, <1>6, <1>10, <2>1, <2>2 DEF SlotBoundary
<1>11. CASE RoomChanges
  <2>1. room' \in [temp : Temperatures, welded : BOOLEAN, clockSet : BOOLEAN]
    BY <1>1, <1>11 DEF RoomChanges
  <2> QED
    BY <1>1, <1>5, <1>6, <1>11, <2>1 DEF RoomChanges, Device, daemon
<1>12. CASE ContactorWelds
  <2>1. room' \in [temp : Temperatures, welded : BOOLEAN, clockSet : BOOLEAN]
    BY <1>1, <1>12 DEF ContactorWelds
  <2> QED
    BY <1>1, <1>5, <1>6, <1>12, <2>1 DEF ContactorWelds, Device, daemon
<1>13. CASE ManualReset
  <2>1. kvs' \in KVS /\ kvs'.override = kvs.override /\ kvs'.expiresAt = kvs.expiresAt
    BY <1>1, <1>13, FlagTyped DEF ManualReset
  <2> QED
    BY <1>1, <1>5, <1>6, <1>13, <2>1 DEF ManualReset, daemon
<1>14. CASE ForceOff
  BY <1>3, <1>14 DEF ForceOff, daemon
<1>15. CASE HardwareAutoOff
  BY <1>3, <1>15 DEF HardwareAutoOff, daemon
<1>16. CASE Redeploy
  BY <1>1, <1>4, <1>16 DEF Redeploy, daemon
<1>17. CASE Reboot
  <2>1. room' \in [temp : Temperatures, welded : BOOLEAN, clockSet : BOOLEAN]
    BY <1>1, <1>17 DEF Reboot
  <2> QED
    BY <1>4, <1>17, <2>1 DEF Reboot, daemon
<1>18. CASE NtpSync
  <2>1. room' \in [temp : Temperatures, welded : BOOLEAN, clockSet : BOOLEAN]
    BY <1>1, <1>18 DEF NtpSync
  <2> QED
    BY <1>1, <1>5, <1>6, <1>18, <2>1 DEF NtpSync, Device, daemon
<1>19. CASE Tick
  <2>1. /\ hist' = [Disturbed EXCEPT !.cycled = FALSE] /\ now' = now + 1 /\ now < Horizon
        /\ UNCHANGED <<kvs, relay, script, cycle, room, calls, planOn>>
    BY <1>19 DEF Tick, Device, daemon
  <2>2. hist' \in History /\ hist'.calm = FALSE /\ hist'.outside = hist.outside /\ hist'.loose = hist.loose
    BY <1>1, <2>1 DEF History, Disturbed
  <2>3. now' \in 0..Horizon
    BY <1>6, <2>1, HeaterAssumption
  <2>4. Typed' /\ LogFollows'
    BY <2>1, <2>2, <2>3, LogSame DEF IInv, Typed
  <2> QED
    BY <2>1, <2>2, <2>4, DisturbedKeeps
<1> QED
  BY <1>7, <1>8, <1>9, <1>10, <1>11, <1>12, <1>13, <1>14, <1>15, <1>16, <1>17, <1>18, <1>19, Zenon DEF Around

-----------------------------------------------------------------------------
(* setSaunaOverride. *)

\* What each write leaves in the store.
LEMMA WriteFacts ==
  ASSUME Typed, NEW c \in Calls, ~Idles(c)
  PROVE  /\ Write(c) \in KVS
         /\ calls[c].awaits = "override" => Write(c).override = calls[c].want
         /\ calls[c].awaits = "expiry" =>
              /\ Write(c).override = kvs.override
              /\ calls[c].want = "on" => Write(c).expiresAt > 0
         /\ calls[c].awaits = "should_be_on" =>
              Write(c).override = kvs.override /\ Write(c).expiresAt = kvs.expiresAt
<1>1. /\ calls[c].awaits \in {"override", "expiry", "should_be_on"}
      /\ calls[c].want \in {"on", "off", "none"} /\ kvs \in KVS /\ planOn \in BOOLEAN
  BY DEF Typed, Idles
<1>2. CASE calls[c].awaits = "override"
  <2>1. Write(c) = [kvs EXCEPT !.override = calls[c].want]
    BY <1>2 DEF Write
  <2> QED
    BY <1>1, <1>2, <2>1 DEF KVS
<1>3. CASE calls[c].awaits = "expiry"
  <2> DEFINE until == IF calls[c].want = "on" THEN now + OverrideTime ELSE 0
  <2>1. Write(c) = [kvs EXCEPT !.expiresAt = until]
    BY <1>3 DEF Write
  <2>2. until \in 0..(Horizon + OverrideTime) /\ (calls[c].want = "on" => until > 0)
    BY HeaterAssumption DEF Typed
  <2> HIDE DEF until
  <2> QED
    BY <1>1, <1>3, <2>1, <2>2 DEF KVS
<1>4. CASE calls[c].awaits = "should_be_on"
  <2>1. Write(c) = [kvs EXCEPT !.shouldBeOn = planOn]
    BY <1>4 DEF Write
  <2> QED
    BY <1>1, <1>4, <2>1 DEF KVS
<1> QED
  BY <1>1, <1>2, <1>3, <1>4

LEMMA OverridesKeep ==
  ASSUME IInv, Overrides
  PROVE  IInv'
<1>1. hist \in History /\ kvs \in KVS /\ Typed
      /\ calls \in [Calls -> [awaits : {"nothing", "override", "expiry", "should_be_on"},
                              want : {"on", "off", "none"}]]
  BY DEF IInv, Typed
<1>2. PICK c \in Calls : \/ \E want \in {"on", "off", "none"} : setSaunaOverride(c, want)
                         \/ WriteLands(c) \/ WriteFails(c)
  BY DEF Overrides
<1>3. /\ Disturbed \in History /\ Disturbed.calm = FALSE
      /\ Disturbed.outside = hist.outside /\ Disturbed.loose = hist.loose
  BY <1>1 DEF History, Disturbed
\* whatever a call does, neither the cycle nor the relay is touched
<1>4. ASSUME UNCHANGED <<relay, script, cycle, room, planOn, now>>, kvs' \in KVS, hist' \in History,
             calls' \in [Calls -> [awaits : {"nothing", "override", "expiry", "should_be_on"},
                                   want : {"on", "off", "none"}]],
             hist'.calm = FALSE, hist'.outside = hist.outside, Bounded'
      PROVE  IInv'
  <2>1. Typed' /\ LogFollows'
    BY <1>4, LogSame DEF IInv, Typed
  <2> QED
    BY <1>4, <2>1, CalmOver DEF IInv
<1>5. CASE \E want \in {"on", "off", "none"} : setSaunaOverride(c, want)
  <2>1. PICK want \in {"on", "off", "none"} : setSaunaOverride(c, want)
    BY <1>5
  <2>2. /\ calls[c].awaits = "nothing"
        /\ calls' = [calls EXCEPT ![c] = [awaits |-> "override", want |-> want]]
        /\ UNCHANGED <<kvs, relay, script, cycle, room, planOn, now>>
    BY <2>1 DEF setSaunaOverride, Device
  <2> DEFINE busy == \E d \in Calls : calls[d].awaits # "nothing"
  <2>3. hist' = [Disturbed EXCEPT !.loose = @ \/ busy]
    BY <2>1 DEF setSaunaOverride
  <2>4. busy \in BOOLEAN
    OBVIOUS
  <2> HIDE DEF busy
  <2>5. /\ hist' \in History /\ hist'.calm = FALSE /\ hist'.outside = hist.outside
        /\ hist'.loose = (hist.loose \/ busy)
    BY <1>1, <2>3, <2>4 DEF History, Disturbed
  <2>6. /\ calls' \in [Calls -> [awaits : {"nothing", "override", "expiry", "should_be_on"},
                                 want : {"on", "off", "none"}]]
        /\ calls'[c].awaits = "override" /\ \A d \in Calls \ {c} : calls'[d] = calls[d]
    BY <1>1, <2>2
  <2>7. Bounded'
    <3>1. SUFFICES ASSUME ~hist.loose, \A d \in Calls : Idles(d)
                   PROVE  Bounded'
      BY <2>5 DEF Bounded, busy, Idles
    <3>2. \A d \in Calls \ {c} : calls'[d].awaits = "nothing"
      BY <2>6, <3>1 DEF Idles
    <3>3. kvs'.override = "on" => kvs'.expiresAt > 0
      BY <2>2, <3>1 DEF IInv, Bounded, Idles
    <3> QED
      BY <2>6, <3>2, <3>3 DEF Bounded, Idles
  <2> QED
    BY <1>1, <1>4, <2>2, <2>5, <2>6, <2>7
<1>6. CASE WriteLands(c)
  <2> DEFINE next == IF NextWrite(c) = "nothing" THEN NoCall ELSE [calls[c] EXCEPT !.awaits = NextWrite(c)]
  <2>1. /\ ~Idles(c) /\ kvs' = Write(c) /\ calls' = [calls EXCEPT ![c] = next] /\ hist' = Disturbed
        /\ UNCHANGED <<relay, script, cycle, room, planOn, now>>
    BY <1>6 DEF WriteLands, Idles
  <2>2. /\ calls[c].awaits = "override" => next.awaits = "expiry" /\ next.want = calls[c].want
        /\ calls[c].awaits = "expiry" /\ calls[c].want = "none" =>
             next.awaits = "should_be_on" /\ next.want = "none"
        /\ calls[c].awaits = "expiry" /\ calls[c].want # "none" => next = NoCall
        /\ calls[c].awaits = "should_be_on" => next = NoCall
        /\ next \in [awaits : {"nothing", "override", "expiry", "should_be_on"}, want : {"on", "off", "none"}]
    BY <1>1 DEF NextWrite, NoCall
  <2> HIDE DEF next
  <2>3. /\ calls' \in [Calls -> [awaits : {"nothing", "override", "expiry", "should_be_on"},
                                 want : {"on", "off", "none"}]]
        /\ calls'[c] = next /\ \A d \in Calls \ {c} : calls'[d] = calls[d]
    BY <1>1, <2>1, <2>2
  <2>4. Bounded'
    <3>1. SUFFICES ASSUME ~hist.loose PROVE Bounded'
      BY <1>3, <2>1 DEF Bounded
    <3>2. \A d \in Calls \ {c} : calls'[d].awaits = "nothing" /\ calls[d].awaits = "nothing"
      BY <2>1, <2>3, <3>1 DEF IInv, Bounded, Idles
    <3>3. NoCall.awaits = "nothing"
      BY DEF NoCall
    <3>4. CASE calls[c].awaits = "override"
      <4>1. kvs'.override = calls[c].want /\ calls'[c].awaits = "expiry" /\ calls'[c].want = calls[c].want
        BY <1>1, <2>1, <2>2, <2>3, <3>4, WriteFacts
      <4> QED
        BY <3>2, <4>1 DEF Bounded, Idles
    <3>5. CASE calls[c].awaits = "expiry"
      <4>1. calls[c].want # "on" => kvs.override # "on"
        BY <3>1, <3>5 DEF IInv, Bounded
      <4>2. kvs'.override = kvs.override /\ (kvs'.override = "on" => kvs'.expiresAt > 0)
        BY <1>1, <2>1, <3>5, <4>1, WriteFacts
      <4>3. calls'[c].awaits = "nothing" \/ (calls'[c].awaits = "should_be_on" /\ kvs.override # "on")
        BY <2>2, <2>3, <3>3, <3>5, <4>1
      <4> QED
        BY <3>2, <4>2, <4>3 DEF Bounded, Idles
    <3>6. CASE calls[c].awaits = "should_be_on"
      <4>1. kvs'.override = kvs.override /\ kvs'.expiresAt = kvs.expiresAt
        BY <1>1, <2>1, <3>6, WriteFacts
      <4>2. calls'[c].awaits = "nothing"
        BY <2>2, <2>3, <3>3, <3>6
      <4>3. kvs.override = "on" => kvs.expiresAt > 0
        BY <3>1, <3>2, <3>6 DEF IInv, Bounded
      <4> QED
        BY <3>2, <4>1, <4>2, <4>3 DEF Bounded, Idles
    <3> QED
      BY <1>1, <2>1, <3>4, <3>5, <3>6 DEF Idles
  <2> QED
    BY <1>1, <1>3, <1>4, <2>1, <2>3, <2>4, WriteFacts
<1>7. CASE WriteFails(c)
  <2>1. /\ ~Idles(c) /\ kvs' \in {kvs, Write(c)} /\ calls' = [calls EXCEPT ![c] = NoCall]
        /\ hist' = [Disturbed EXCEPT !.loose = TRUE]
        /\ UNCHANGED <<relay, script, cycle, room, planOn, now>>
    BY <1>7 DEF WriteFails, Idles
  <2>2. hist' \in History /\ hist'.calm = FALSE /\ hist'.outside = hist.outside /\ hist'.loose = TRUE
    BY <1>1, <2>1 DEF History, Disturbed
  <2>3. calls' \in [Calls -> [awaits : {"nothing", "override", "expiry", "should_be_on"},
                              want : {"on", "off", "none"}]]
    BY <1>1, <2>1 DEF NoCall
  <2>4. kvs' \in KVS
    BY <1>1, <2>1, WriteFacts
  <2> QED
    BY <1>4, <2>1, <2>2, <2>3, <2>4 DEF Bounded
<1> QED
  BY <1>2, <1>5, <1>6, <1>7

-----------------------------------------------------------------------------
(* The invariant. *)

LEMMA InvInit ==
  ASSUME Init
  PROVE  IInv /\ faults = 0
<1>1. \A c \in Calls : calls[c] = NoCall
  BY DEF Init
<1>2. NoHistory \in History /\ NoHistory.calm = FALSE
  BY DEF NoHistory, History
<1>3. IsScript(script) /\ ~BelievesOn(script.log) /\ cycle \in Cycle /\ cycle.awaits = "start"
  BY NewScript, IdleTyped DEF Init
<1>4. kvs \in KVS /\ kvs.override = "none"
  <2>1. 0 \in 0..(Horizon + OverrideTime)
    BY HeaterAssumption
  <2>2. PICK flag \in {"missing", "false", "true"} :
          kvs = [flag |-> flag, override |-> "none", expiresAt |-> 0, shouldBeOn |-> FALSE]
    BY DEF Init
  <2> QED
    BY <2>1, <2>2 DEF KVS
<1>5. 0 \in 0..Horizon /\ NoCall \in [awaits : {"nothing", "override", "expiry", "should_be_on"}, want : {"on", "off", "none"}]
  BY HeaterAssumption DEF NoCall
<1>6. room \in [temp : Temperatures, welded : BOOLEAN, clockSet : BOOLEAN]
  BY DEF Init
<1>7. Typed
  BY <1>2, <1>3, <1>4, <1>5, <1>6 DEF Typed, Init
<1>8. LogFollows /\ Calm /\ Bounded
  BY <1>1, <1>2, <1>3, <1>4 DEF Init, LogFollows, LogFollowsRelay, Calm, Bounded, Idles, NoCall
<1> QED
  BY <1>7, <1>8 DEF IInv, Init

LEMMA InvStep ==
  ASSUME IInv, [Next]_vars
  PROVE  IInv'
<1>1. CASE CycleStep
  BY <1>1, StartKeeps, LockoutReadKeeps, ReadingKeeps, OverrideReadKeeps, ExpiryReadKeeps, ThermostatKeeps DEF CycleStep
<1>2. CASE Around \/ Tick
  BY <1>2, AroundKeeps
<1>3. CASE Overrides
  BY <1>3, OverridesKeep
<1>4. CASE UNCHANGED vars
  BY <1>4 DEF vars, daemon, IInv, Typed, LogFollows, LogFollowsRelay, Calm, Bounded, Idles, Permitted,
              Asked, Expired, HeartbeatIsStale
<1> QED
  BY <1>1, <1>2, <1>3, <1>4 DEF Next

\* Every part of the strengthened invariant holds of every reachable state.
THEOREM Inductive == Spec => []IInv
<1>1. Init => IInv
  BY InvInit
<1>2. IInv /\ [Next]_vars => IInv'
  BY InvStep
<1> QED
  BY <1>1, <1>2, PTL DEF Spec

\* The parity of the log (events, lines 626-631) is the state of the relay, whatever
\* the durations, as long as nobody but the script has opened the relay.
THEOREM LogFollowsRelayHolds == Spec => []LogFollowsRelay
<1>1. IInv => LogFollowsRelay
  BY DEF IInv, LogFollows
<1> QED
  BY <1>1, Inductive, PTL

\* A cycle that nothing disturbed leaves the heater on only if the lockout, the clock,
\* the heartbeat, the temperature and the override or schedule all allow it.
THEOREM OnOnlyWhenPermittedHolds == Spec => []OnOnlyWhenPermitted
<1>1. IInv => OnOnlyWhenPermitted
  BY DEF IInv, Calm, OnOnlyWhenPermitted
<1> QED
  BY <1>1, Inductive, PTL

\* Between calls of setSaunaOverride (line 2214) an "on" override has an expiry, however
\* its writes interleave with the script's clearing of an expired one.
THEOREM OverrideBoundedHolds == Spec => []OverrideBounded
<1>1. IInv => OverrideBounded
  <2>1. NoCall.awaits = "nothing"
    BY DEF NoCall
  <2> QED
    BY <2>1 DEF IInv, Bounded, OverrideBounded
<1> QED
  BY <1>1, Inductive, PTL

\* The end of a cycle (line 883) raises the lockout for power through an open switch
\* only for a welded contactor or after the relay was opened from outside.
THEOREM NoFalseLockoutHolds == Spec => NoFalseLockout
<1> DEFINE Right == (cycle.awaits = "should_be_on" /\ cycle'.awaits = "timer"
                     /\ kvs.flag # "true" /\ kvs'.flag = "true" => room.welded \/ hist.outside)
<1>1. IInv /\ [Next]_vars => [Right]_vars
  <2> SUFFICES ASSUME IInv, Next, cycle.awaits = "should_be_on", cycle'.awaits = "timer",
                      kvs.flag # "true", kvs'.flag = "true", ~room.welded
               PROVE  hist.outside
    BY Zenon
  <2>1. UNCHANGED cycle \/ cycle'.awaits = "start" \/ CycleStep
    BY IdleTyped DEF Next, Around, Overrides, Tick, heartbeatEndpoint, WifiStatus, wifiKillTimer, SlotBoundary,
       RoomChanges, ContactorWelds, ManualReset, ForceOff, HardwareAutoOff, Redeploy, Reboot, NtpSync,
       setSaunaOverride, WriteLands, WriteFails, Device
  <2>2. ReadShouldBeOn
    BY <2>1 DEF CycleStep, startupResetFlagInit, checkTemperatureManualResetWrapper,
       checkTemperatureOffUntilWrapper, ReadOverride, ReadExpiry, Reads
  <2>3. PICK shouldBeOn, predicted : Decide(shouldBeOn, predicted)
    BY <2>2 DEF ReadShouldBeOn
  <2>4. (~relay.on \/ ~BelievesOn(script.log)) /\ HasPower
    BY <2>3 DEF Decide
  <2> QED
    BY <2>4 DEF HasPower, IInv, LogFollows, LogFollowsRelay
<1> QED
  BY <1>1, Inductive, PTL DEF Spec, NoFalseLockout

LEMMA FaultsCounted == Spec => [](faults \in Nat)
<1>1. Init => faults \in Nat
  BY DEF Init
<1>2. faults \in Nat /\ [Next]_vars => (faults \in Nat)'
  <2> SUFFICES ASSUME faults \in Nat, [Next]_vars PROVE faults' = faults \/ faults' = faults + 1
    OBVIOUS
  <2>1. CASE CycleStep
    BY <2>1 DEF CycleStep, startupResetFlagInit, checkTemperatureManualResetWrapper, bounds,
       checkTemperatureOffUntilWrapper, ReadOverride, ReadExpiry, ReadShouldBeOn, Answered, Fails
  <2>2. CASE Around \/ Tick
    BY <2>2 DEF Around, Tick, heartbeatEndpoint, WifiStatus, wifiKillTimer, SlotBoundary, bounds, Input, Fault,
       RoomChanges, ContactorWelds, ManualReset, ForceOff, HardwareAutoOff, Redeploy, Reboot, NtpSync
  <2>3. CASE Overrides
    BY <2>3 DEF Overrides, setSaunaOverride, WriteLands, WriteFails, bounds, Input, Fault
  <2>4. CASE UNCHANGED vars
    BY <2>4 DEF vars, bounds
  <2> QED
    BY <2>1, <2>2, <2>3, <2>4 DEF Next
<1> QED
  BY <1>1, <1>2, PTL DEF Spec

\* A stored lockout (manualResetRequired) is lifted by a reset by hand or by a start
\* that could not read it (startupResetFlagInit, line 954), and by nothing else.
THEOREM LockoutStaysHolds == Spec => LockoutStays
<1> DEFINE Lifted == ManualReset \/ (cycle.awaits = "start" /\ faults' > faults)
           Stays == kvs.flag = "true" /\ kvs'.flag # "true" => Lifted
<1>1. IInv /\ faults \in Nat /\ [Next]_vars => [Stays]_vars
  <2> HIDE DEF Lifted
  <2> SUFFICES ASSUME IInv, faults \in Nat, Next, kvs.flag = "true", kvs'.flag # "true"
               PROVE  Lifted
    BY Zenon
  <2>1. kvs \in KVS
    BY DEF IInv, Typed
  <2>2. kvs' # kvs /\ kvs' # [kvs EXCEPT !.flag = "true"]
    BY <2>1, FlagTyped
  <2>3. CASE CycleStep
    <3>1. CASE startupResetFlagInit
      BY <2>2, <3>1 DEF startupResetFlagInit, Reads, Fails, Lifted
    <3>2. CASE ReadExpiry
      <4>1. kvs' = [kvs EXCEPT !.override = "none", !.expiresAt = 0]
        BY <2>2, <3>2 DEF ReadExpiry
      <4> QED
        BY <2>1, <4>1 DEF KVS
    <3> QED
      BY <2>2, <2>3, <3>1, <3>2, Zenon DEF CycleStep, checkTemperatureManualResetWrapper, ReadOverride,
         checkTemperatureOffUntilWrapper, checkTemperatureInner, switchOffUntilManualReset, ReadShouldBeOn, Decide
  <2>4. CASE Around
    <3>1. CASE SlotBoundary
      BY <2>1, <2>2, <3>1 DEF SlotBoundary, KVS
    <3>2. CASE ManualReset
      BY <3>2 DEF Lifted
    <3> QED
      BY <2>2, <2>4, <3>1, <3>2 DEF Around, heartbeatEndpoint, WifiStatus, wifiKillTimer, switchOffUntilManualReset,
         RoomChanges, ContactorWelds, ForceOff, HardwareAutoOff, Redeploy, Reboot, NtpSync, Device
  <2>5. CASE Overrides
    <3>1. PICK c \in Calls : kvs' = Write(c) /\ ~Idles(c)
      BY <2>2, <2>5 DEF Overrides, setSaunaOverride, WriteLands, WriteFails, Device, Idles
    <3>2. Write(c).flag = kvs.flag
      BY <2>1, <3>1 DEF Write, KVS, IInv, Typed, Idles
    <3> QED
      BY <3>1, <3>2
  <2>6. CASE Tick
    BY <2>2, <2>6 DEF Tick, Device
  <2> QED
    BY <2>3, <2>4, <2>5, <2>6 DEF Next
<1> QED
  BY <1>1, Inductive, FaultsCounted, PTL DEF Spec, LockoutStays
=============================================================================
