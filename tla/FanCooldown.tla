---------------------------- MODULE FanCooldown ----------------------------
(***************************************************************************)
(* The post-session fan cooldown (src/fanCooldown.ts): once a heater slot  *)
(* ends the fan runs for as long as the room keeps cooling.  Pure          *)
(* operators; the controller that owns the fan keeps the state.            *)
(***************************************************************************)
EXTENDS Integers

CONSTANTS
  MinDrop,    \* minDropF: how far below the lowest a reading is a new low
  StallTime,  \* stallMs: stop after this long without a new low
  MaxTime,    \* maxMs: stop this long after the slot ended
  NoReading   \* null: no temperature read

newFanCooldown(endedAt) ==
  [slotEndedAt |-> endedAt, lowest |-> NoReading, lowestAt |-> endedAt, latestAt |-> endedAt]

IsNewLow(c, reading) == c.lowest = NoReading \/ reading <= c.lowest - MinDrop

withReading(c, t, reading) ==
  IF reading = NoReading THEN c
  ELSE IF IsNewLow(c, reading)
  THEN [c EXCEPT !.lowest = reading, !.lowestAt = t, !.latestAt = t]
  ELSE [c EXCEPT !.latestAt = t]

\* stopReason(c, t, heaterShouldBeOn) is not null
Stops(c, t, heaterShouldBeOn) ==
  \/ heaterShouldBeOn
  \/ t - c.slotEndedAt >= MaxTime
  \/ c.latestAt - c.lowestAt >= StallTime
=============================================================================
