------------------------------ MODULE DutyLog ------------------------------
(***************************************************************************)
(* The on-time log of the heater script (src/shellyController.ts 624-738): *)
(* the times at which the relay was switched, on and off in turn, and the  *)
(* running total kept beside them.                                         *)
(*                                                                         *)
(* The ring buffer is a sequence: its thousand entries cannot fill up, as  *)
(* a log trimmed to 70 minutes of ten-second cycles holds 420.             *)
(***************************************************************************)
EXTENDS Integers, Sequences, FiniteSets, FiniteSetsExt

CONSTANTS
  DutyLimit,   \* 3600 s
  LookBack     \* 70 * 60 s

NewLog == [events |-> <<>>, total |-> 0]

\* odd length: the script believes the relay to be on
BelievesOn(log) == Len(log.events) % 2 = 1

completeIntervals(events) == Len(events) \div 2

\* what totalTimeOnForCompleteIntervals stands for
OnTime(events) ==
  MapThenSumSet(LAMBDA i : events[2 * i] - events[2 * i - 1], 1..completeIntervals(events))

\* Mutant: a second off is recorded too.
LogOffAlways(log, nowS) == [log EXCEPT !.events = Append(@, nowS)]

\* the push of switchOff, which leaves an "off" log as it is
LogOff(log, nowS) ==
  IF BelievesOn(log) THEN [log EXCEPT !.events = Append(@, nowS)] ELSE log

LogOn(log, nowS) == [log EXCEPT !.events = Append(@, nowS)]

\* intervals that ended before the cutoff are dropped, one that straddles it is cut
Trimmed(events, cutoff) ==
  LET toDrop == Cardinality({i \in 1..completeIntervals(events) : events[2 * i] < cutoff})
      kept   == SubSeq(events, 2 * toDrop + 1, Len(events))
  IN IF Len(kept) >= 2 /\ kept[1] < cutoff THEN [kept EXCEPT ![1] = cutoff] ELSE kept

\* the total is lowered by what is trimmed, and raised by nothing
trimTimeLog(log, nowS) ==
  LET events == Trimmed(log.events, nowS - LookBack) IN
  [events |-> events, total |-> log.total - (OnTime(log.events) - OnTime(events))]

\* the total as it would be if each complete interval had been added to it
Recounted(log, nowS) ==
  LET events == Trimmed(log.events, nowS - LookBack) IN [events |-> events, total |-> OnTime(events)]

TotalTimeOn(log, nowS) ==
  log.total + IF BelievesOn(log) THEN nowS - log.events[Len(log.events)] ELSE 0
=============================================================================
