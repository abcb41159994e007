---------------------------- MODULE ScheduledTask ---------------------------
(***************************************************************************)
(* ScheduledTask of src/scheduledTask.ts: a one-shot timer for times       *)
(* further out than setTimeout can express, chained from waits of at most  *)
(* MAX_DELAY_MS.                                                           *)
(*                                                                         *)
(* setTimeout counts on the monotonic clock while the task's time is a     *)
(* time of day, and NTP may step one against the other.  setTimeout with a *)
(* longer delay than it can hold fires at once.                            *)
(***************************************************************************)
EXTENDS Integers

CONSTANTS
  MAX_DELAY,   \* MAX_DELAY_MS
  Horizon,     \* bound: the times considered
  MaxSteps     \* bound: times the time of day is stepped

ASSUME TaskAssumption ==
  /\ MAX_DELAY \in Nat \ {0} /\ Horizon \in Nat /\ MaxSteps \in Nat

VARIABLES
  mono,        \* monotonic clock
  wall,        \* Date.now()
  due,         \* t, the task's time of day
  timeout,     \* monotonic time its timeout is due; NoTimer if none
  finalState,
  runs,        \* times f has been called
  wakes,       \* timeouts that have fired
  steps        \* times the time of day was stepped

taskVars == <<mono, wall, due, timeout, finalState, runs, wakes, steps>>

NoTimer == -1

TaskTypeOK ==
  /\ mono \in 0..Horizon /\ wall \in 0..Horizon /\ due \in 0..Horizon
  /\ timeout \in {NoTimer} \cup 0..(2 * Horizon + 1)
  /\ finalState \in {"undefined", "finishedEarly", "cancelled", "occurred"}
  /\ runs \in Nat /\ wakes \in Nat /\ steps \in 0..MaxSteps

\* A delay of more than MAX_DELAY overflows and becomes 1 ms.
SetTimeout(delay) == mono + IF delay > MAX_DELAY THEN 1 ELSE delay

Smaller(a, b) == IF a < b THEN a ELSE b

DelayRemainder(left) == left - MAX_DELAY
Delay(left) == Smaller(left, MAX_DELAY)

\* Mutant: a timeout that fires is taken for the task's time.
OverWhenWoken == wakes > 0 \/ wall >= due
DelayOver == wall >= due

\* Mutant of Arm: the chain has one link.
ArmOnce ==
  /\ timeout' = NoTimer
  /\ IF DelayOver /\ finalState = "undefined"
     THEN finalState' = "occurred" /\ runs' = runs + 1
     ELSE UNCHANGED <<finalState, runs>>

\* arm(), from the constructor or from its own timeout.
Arm ==
  IF DelayOver
  THEN /\ timeout' = NoTimer
       /\ IF finalState = "undefined"
          THEN finalState' = "occurred" /\ runs' = runs + 1
          ELSE UNCHANGED <<finalState, runs>>
  ELSE /\ timeout' = SetTimeout(Delay(due - wall))
       /\ UNCHANGED <<finalState, runs>>

\* The constructor runs arm() on the spot.
TaskInit ==
  /\ mono = 0 /\ wall \in 0..Horizon /\ due \in 0..Horizon
  /\ wakes = 0 /\ steps = 0
  /\ IF DelayOver
     THEN timeout = NoTimer /\ finalState = "occurred" /\ runs = 1
     ELSE timeout = SetTimeout(Delay(due - wall)) /\ finalState = "undefined" /\ runs = 0

\* The timeout fires.
Wake ==
  /\ timeout # NoTimer /\ mono >= timeout
  /\ wakes' = wakes + 1
  /\ Arm
  /\ UNCHANGED <<mono, wall, due, steps>>

Cancel ==
  /\ finalState = "undefined"
  /\ finalState' = "cancelled" /\ timeout' = NoTimer
  /\ UNCHANGED <<mono, wall, due, runs, wakes, steps>>

FinishEarly ==
  /\ finalState = "undefined"
  /\ finalState' = "finishedEarly" /\ timeout' = NoTimer /\ runs' = runs + 1
  /\ UNCHANGED <<mono, wall, due, wakes, steps>>

\* Time passes on both clocks; a timeout that is due fires first.
TaskTick ==
  /\ timeout = NoTimer \/ mono < timeout
  /\ mono < Horizon /\ wall < Horizon
  /\ mono' = mono + 1 /\ wall' = wall + 1
  /\ UNCHANGED <<due, timeout, finalState, runs, wakes, steps>>

\* The time of day is set.
StepWall ==
  /\ steps < MaxSteps /\ steps' = steps + 1
  /\ wall' \in 0..Horizon
  /\ UNCHANGED <<mono, due, timeout, finalState, runs, wakes>>

TaskNext == Wake \/ Cancel \/ FinishEarly \/ TaskTick \/ StepWall

TaskSpec == TaskInit /\ [][TaskNext]_taskVars

FairTaskSpec == TaskSpec /\ WF_taskVars(Wake) /\ WF_taskVars(TaskTick)

-----------------------------------------------------------------------------
(* Properties *)

Fate == CASE finalState = "undefined" -> "pending"
          [] finalState = "occurred" -> "ran"
          [] finalState = "finishedEarly" -> "ranEarly"
          [] finalState = "cancelled" -> "cancelled"

\* The chain of timeouts implements a one-shot task: f never runs before its
\* time of day, whatever the clocks do, and never again.
Promise == INSTANCE OneShot WITH t <- due, fate <- Fate
OneShotTask == Promise!Spec

\* f has run exactly when the task has ended other than by being cancelled.
RanOnce == runs = IF finalState \in {"occurred", "finishedEarly"} THEN 1 ELSE 0

\* A task that is over has no timeout left that could wake it, and one that is
\* not has one: nothing is armed twice and nothing is forgotten.
ArmedWhilePending == timeout # NoTimer <=> finalState = "undefined"

\* The chain is not broken off: unless the clock is set, the task ends.
EventuallyRuns == [](steps = 0) => <>(finalState # "undefined")
=============================================================================
