---------------------------- MODULE LockLiveness ----------------------------
(***************************************************************************)
(* The liveness of one lock: LockHealth and checkLiveness of               *)
(* src/lockHealth.ts with the callers that start a check (the watchdog,    *)
(* the heal-check timer of LockManager, the admin's buttons in             *)
(* lockGroups.ts), the out-of-order mark, the pairing flag, and the        *)
(* PagerDuty incidents the daemon opens and closes.                        *)
(*                                                                         *)
(* Times appear only through the limits that are compared with them: the   *)
(* lock has been silent for SILENCE_LIMIT_MS, the re-interview cooldown is *)
(* over.                                                                   *)
(***************************************************************************)
EXTENDS Naturals, SequencesExt

CONSTANTS
  Checks,       \* identities of calls of checkLiveness
  MaxEvents,    \* bound: changes of the lock, of pairing, of the mark
  MaxWrites,    \* bound: writes of the lock manager
  MaxCalls,     \* bound: calls to PagerDuty under way when a tick begins
  MaxFaults     \* bound: calls to PagerDuty that fail, restarts of the daemon

ASSUME LivenessAssumption ==
  /\ MaxEvents \in Nat /\ MaxWrites \in Nat
  /\ MaxCalls \in Nat \ {0} /\ MaxFaults \in Nat

VARIABLES
  answering,    \* the lock answers application frames
  interview,    \* what the driver knows of it
  health,       \* LockHealth: [silent, unresponsive, unconfirmed]
  canHeal,      \* the re-interview cooldown is over
  check,        \* each call of checkLiveness -> where it stands
  healTimer,    \* requestHealCheck has a timer armed
  startupProbe, \* the watchdog's first, forced tick is still to come
  pairing,      \* pairingInProgress
  outOfOrder,   \* the mark, in the marks file
  retired,      \* the lock was excluded or replaced
  calls,        \* calls to PagerDuty that have not been answered, as they were sent
  open,         \* the incidents PagerDuty has open
  newest,       \* history: what became of the newest call about each incident; "unknown"
                \* if it failed, an older one landed after it, or the daemon restarted since
  events, writes, faults

vars == <<answering, interview, health, canHeal, check, healTimer, startupProbe, pairing,
          outOfOrder, retired, calls, open, newest, events, writes, faults>>

Keys == {"unresponsive", "unconfirmed"}

TypeOK ==
  /\ answering \in BOOLEAN
  /\ interview \in {"complete", "running", "failed"}
  /\ health \in [silent : BOOLEAN, unresponsive : BOOLEAN, unconfirmed : BOOLEAN]
  /\ canHeal \in BOOLEAN
  /\ check \in [Checks -> {"idle", "probing", "waiting", "reprobing",
                           "interviewing", "healProbing"}]
  /\ healTimer \in BOOLEAN /\ startupProbe \in BOOLEAN
  /\ pairing \in BOOLEAN /\ outOfOrder \in BOOLEAN /\ retired \in BOOLEAN
  /\ calls \in Seq({"trigger", "resolve"} \X Keys)
  /\ open \subseteq Keys /\ newest \in [Keys -> {"waiting", "landed", "unknown"}]
  /\ events \in 0..MaxEvents /\ writes \in 0..MaxWrites
  /\ faults \in 0..MaxFaults

-----------------------------------------------------------------------------
(* LockHealth, as functions of h == [health |-> ..., calls |-> ..., newest |-> ...] *)

Now == [health |-> health, calls |-> calls, newest |-> newest]

Becomes(h) == health' = h.health /\ calls' = h.calls /\ newest' = h.newest

\* notifier.trigger and notifier.resolve: a request goes out, and nobody awaits it
Call(h, what, key) ==
  [h EXCEPT !.calls = Append(@, <<what, key>>), !.newest[key] = "waiting"]

\* Mutant: hearing from the lock leaves its incident open.
HeardQuietly(h) == [h EXCEPT !.health.silent = FALSE, !.health.unresponsive = FALSE]

RecordHeard(h) ==
  LET heard == [h EXCEPT !.health.silent = FALSE, !.health.unresponsive = FALSE]
  IN IF h.health.unresponsive THEN Call(heard, "resolve", "unresponsive") ELSE heard

RecordConfirmed(h) ==
  LET heard == RecordHeard(h)
  IN IF h.health.unconfirmed
     THEN Call([heard EXCEPT !.health.unconfirmed = FALSE], "resolve", "unconfirmed")
     ELSE heard

RecordUnconfirmed(h) ==
  IF outOfOrder THEN h
  ELSE Call([h EXCEPT !.health.unconfirmed = TRUE], "trigger", "unconfirmed")

\* Mutants: a page about a lock marked meanwhile; a page nobody sends.
PagedRegardless(h) == Call([h EXCEPT !.health.unresponsive = TRUE], "trigger", "unresponsive")
NotPaged(h) == [h EXCEPT !.health.unresponsive = TRUE]

RecordUnresponsive(h) ==
  IF outOfOrder THEN h
  ELSE Call([h EXCEPT !.health.unresponsive = TRUE], "trigger", "unresponsive")

ResolveIncidents(h) ==
  Call(Call([h EXCEPT !.health.unresponsive = FALSE, !.health.unconfirmed = FALSE],
            "resolve", "unresponsive"), "resolve", "unconfirmed")

-----------------------------------------------------------------------------
(* checkLiveness                                                           *)

\* Mutant: a second check may start beside the first.
NeverChecking == FALSE
Checking == \E c \in Checks : check[c] # "idle"

\* A call of checkLiveness up to its first probe, or its early return.  The
\* marks are as the caller leaves them.
Begin(force, marked) ==
  IF Checking \/ marked \/ pairing \/ ~(force \/ health.silent)
  THEN UNCHANGED check
  ELSE \E c \in Checks : /\ check[c] = "idle"
                         /\ check' = [check EXCEPT ![c] = "probing"]

Step(c, from, to) == check[c] = from /\ check' = [check EXCEPT ![c] = to]

\* A probe needs the driver to know the lock; while a lock is being paired the
\* others answer late or not at all.
Reachable == answering /\ interview = "complete"
MayMiss == ~Reachable \/ pairing

Answers(c, at) ==
  /\ Reachable
  /\ Step(c, at, "idle")
  /\ Becomes(RecordHeard(Now))
  /\ UNCHANGED <<answering, interview, canHeal, healTimer, startupProbe, pairing, outOfOrder,
                 retired, open, events, writes, faults>>

ProbeMissed(c) ==
  /\ MayMiss
  /\ Step(c, "probing", "waiting")
  /\ UNCHANGED <<answering, interview, health, canHeal, healTimer, startupProbe, pairing,
                 outOfOrder, retired, calls, newest, open, events, writes, faults>>

RetryDelayPasses(c) ==
  /\ Step(c, "waiting", IF pairing THEN "idle" ELSE "reprobing")
  /\ UNCHANGED <<answering, interview, health, canHeal, healTimer, startupProbe, pairing,
                 outOfOrder, retired, calls, newest, open, events, writes, faults>>

\* The second miss: out of order, heal, or page.
ReprobeMissed(c) ==
  /\ MayMiss
  /\ \/ /\ outOfOrder
        /\ Step(c, "reprobing", "idle")
        /\ UNCHANGED <<interview, health, calls, newest>>
     \/ /\ ~outOfOrder /\ canHeal
        /\ Step(c, "reprobing", "interviewing")
        /\ interview' = "running"
        /\ UNCHANGED <<health, calls, newest>>
     \/ /\ ~outOfOrder /\ ~canHeal
        /\ Step(c, "reprobing", "idle")
        /\ Becomes(RecordUnresponsive(Now))
        /\ UNCHANGED interview
  /\ UNCHANGED <<answering, canHeal, healTimer, startupProbe, pairing, outOfOrder, retired,
                 open, events, writes, faults>>

InterviewReady(c) ==
  /\ answering
  /\ interview' = "complete"
  /\ canHeal' = FALSE
  /\ Step(c, "interviewing", "healProbing")
  /\ UNCHANGED <<answering, health, healTimer, startupProbe, pairing, outOfOrder, retired,
                 calls, newest, open, events, writes, faults>>

\* The driver gave up, which starts no cooldown, or the interview ran out of
\* time and goes on without the daemon.
InterviewFails(c) ==
  /\ ~answering \/ pairing
  /\ Step(c, "interviewing", "idle")
  /\ \/ interview' = "failed" /\ UNCHANGED canHeal
     \/ UNCHANGED interview /\ canHeal' = FALSE
  /\ Becomes(RecordUnresponsive(Now))
  /\ UNCHANGED <<answering, healTimer, startupProbe, pairing, outOfOrder, retired, open,
                 events, writes, faults>>

HealProbeMissed(c) ==
  /\ MayMiss
  /\ Step(c, "healProbing", "idle")
  /\ Becomes(RecordUnresponsive(Now))
  /\ UNCHANGED <<answering, interview, canHeal, healTimer, startupProbe, pairing, outOfOrder,
                 retired, open, events, writes, faults>>

CheckStep(c) ==
  \/ \E at \in {"probing", "reprobing", "healProbing"} : Answers(c, at)
  \/ ProbeMissed(c) \/ RetryDelayPasses(c) \/ ReprobeMissed(c)
  \/ InterviewReady(c) \/ InterviewFails(c) \/ HealProbeMissed(c)

-----------------------------------------------------------------------------
(* What starts a check                                                     *)

\* The watchdog: forced once after start, then every half hour.
WatchdogTick ==
  /\ ~retired /\ Len(calls) < MaxCalls
  /\ Begin(startupProbe, outOfOrder)
  /\ startupProbe' = FALSE
  /\ UNCHANGED <<answering, interview, health, canHeal, healTimer, pairing, outOfOrder,
                 retired, calls, newest, open, events, writes, faults>>

HealTimerFires ==
  /\ healTimer
  /\ healTimer' = FALSE
  /\ Begin(TRUE, outOfOrder)
  /\ UNCHANGED <<answering, interview, health, canHeal, startupProbe, pairing, outOfOrder,
                 retired, calls, newest, open, events, writes, faults>>

\* The lock manager's command and its read-back (querySlot, allocateCodeSlot,
\* freeCodeSlot).  A call under way outlives the retirement of its lock.
WriteConfirmed ==
  /\ Reachable /\ writes < MaxWrites /\ writes' = writes + 1
  /\ Becomes(RecordConfirmed(Now))
  /\ UNCHANGED <<answering, interview, canHeal, check, healTimer, startupProbe, pairing,
                 outOfOrder, retired, open, events, faults>>

\* The first read-back of a write is not recorded: the write is tried again.
WriteUnanswered ==
  /\ MayMiss /\ writes < MaxWrites /\ writes' = writes + 1
  /\ \/ Becomes(RecordUnconfirmed(Now))
     \/ UNCHANGED <<health, calls, newest>>
  /\ healTimer' = ~retired
  /\ UNCHANGED <<answering, interview, canHeal, check, startupProbe, pairing, outOfOrder,
                 retired, open, events, faults>>

WriteAnsweredWrong ==
  /\ Reachable /\ writes < MaxWrites /\ writes' = writes + 1
  /\ Becomes(RecordUnconfirmed(RecordHeard(Now)))
  /\ UNCHANGED <<answering, interview, canHeal, check, healTimer, startupProbe, pairing,
                 outOfOrder, retired, open, events, faults>>

\* A keypad event or another report the lock pushes.  A lock that was replaced
\* and not excluded still does.
LockPushes ==
  /\ answering
  /\ Becomes(RecordHeard(Now))
  /\ UNCHANGED <<answering, interview, canHeal, check, healTimer, startupProbe, pairing,
                 outOfOrder, retired, open, events, writes, faults>>

-----------------------------------------------------------------------------
(* Time, the lock, the people, PagerDuty                                   *)

SilenceLimitPasses ==
  /\ health' = [health EXCEPT !.silent = TRUE]
  /\ UNCHANGED <<answering, interview, canHeal, check, healTimer, startupProbe, pairing,
                 outOfOrder, retired, calls, newest, open, events, writes, faults>>

CooldownPasses ==
  /\ canHeal' = TRUE
  /\ UNCHANGED <<answering, interview, health, check, healTimer, startupProbe, pairing,
                 outOfOrder, retired, calls, newest, open, events, writes, faults>>

\* An interview that outlived its check completes.
LateReady ==
  /\ interview = "running" /\ answering
  /\ \A c \in Checks : check[c] # "interviewing"
  /\ interview' = "complete"
  /\ UNCHANGED <<answering, health, canHeal, check, healTimer, startupProbe, pairing,
                 outOfOrder, retired, calls, newest, open, events, writes, faults>>

Event == events < MaxEvents /\ events' = events + 1
Fault == faults < MaxFaults /\ faults' = faults + 1

LockChanges ==
  /\ Event /\ answering' = ~answering
  /\ UNCHANGED <<interview, health, canHeal, check, healTimer, startupProbe, pairing,
                 outOfOrder, retired, calls, newest, open, writes, faults>>

PairingChanges ==
  /\ Event /\ pairing' = ~pairing
  /\ UNCHANGED <<answering, interview, health, canHeal, check, healTimer, startupProbe,
                 outOfOrder, retired, calls, newest, open, writes, faults>>

\* setLockOutOfOrder, both ways.
MarkOutOfOrder ==
  /\ Event /\ ~retired
  /\ outOfOrder' = TRUE
  /\ Becomes(ResolveIncidents(Now))
  /\ UNCHANGED <<answering, interview, canHeal, check, healTimer, startupProbe, pairing,
                 retired, open, writes, faults>>

BackInService ==
  /\ Event /\ ~retired /\ outOfOrder
  /\ outOfOrder' = FALSE
  /\ Begin(TRUE, FALSE)
  /\ UNCHANGED <<answering, interview, health, canHeal, healTimer, startupProbe, pairing,
                 retired, calls, newest, open, writes, faults>>

\* checkLock: the admin asks for a check now.
CheckLock ==
  /\ Event /\ ~retired /\ ~outOfOrder
  /\ Begin(TRUE, outOfOrder)
  /\ UNCHANGED <<answering, interview, health, canHeal, healTimer, startupProbe, pairing,
                 outOfOrder, retired, calls, newest, open, writes, faults>>

\* retireLock; the mark of a retired node is cleared.
Retire ==
  /\ Event /\ ~retired
  /\ retired' = TRUE /\ healTimer' = FALSE /\ outOfOrder' = FALSE
  /\ UNCHANGED <<answering, interview, health, canHeal, check, startupProbe, pairing,
                 calls, newest, open, writes, faults>>

\* The newest call about its incident, and one about an incident whose newest call is over.
Newest(i) ==
  /\ newest[calls[i][2]] = "waiting"
  /\ \A j \in DOMAIN calls : j > i => calls[j][2] # calls[i][2]
Late(i) == newest[calls[i][2]] # "waiting"

\* A call lands.  The calls are requests of their own, and land in any order.
Deliver(i) ==
  /\ i \in DOMAIN calls
  /\ LET key == calls[i][2] IN
     /\ open' = IF calls[i][1] = "trigger" THEN open \cup {key} ELSE open \ {key}
     /\ newest' = [newest EXCEPT ![key] = IF Newest(i) THEN "landed"
                                         ELSE IF Late(i) THEN "unknown" ELSE @]
  /\ calls' = RemoveAt(calls, i)
  /\ UNCHANGED <<answering, interview, health, canHeal, check, healTimer, startupProbe,
                 pairing, outOfOrder, retired, events, writes, faults>>

\* The call fails; it is logged and never repeated.
DeliveryFails(i) ==
  /\ i \in DOMAIN calls /\ Fault
  /\ newest' = [newest EXCEPT ![calls[i][2]] = IF Newest(i) THEN "unknown" ELSE @]
  /\ calls' = RemoveAt(calls, i)
  /\ UNCHANGED <<answering, interview, health, canHeal, check, healTimer, startupProbe,
                 pairing, outOfOrder, retired, open, events, writes>>

Fresh == [silent |-> FALSE, unresponsive |-> FALSE, unconfirmed |-> FALSE]

\* The daemon restarts: only the marks file and PagerDuty remember anything.
Restart ==
  /\ ~retired /\ Fault
  /\ health' = Fresh /\ calls' = <<>> /\ newest' = [k \in Keys |-> "unknown"]
  /\ canHeal' = TRUE /\ healTimer' = FALSE /\ startupProbe' = TRUE /\ pairing' = FALSE
  /\ check' = [c \in Checks |-> "idle"]
  /\ interview' = IF interview = "complete" THEN "complete" ELSE "failed"
  /\ UNCHANGED <<answering, outOfOrder, retired, open, events, writes>>

-----------------------------------------------------------------------------

Init ==
  /\ answering \in BOOLEAN
  /\ interview \in {"complete", "failed"}
  /\ health = Fresh
  /\ canHeal = TRUE
  /\ check = [c \in Checks |-> "idle"]
  /\ healTimer = FALSE /\ startupProbe = TRUE
  /\ pairing = FALSE /\ retired = FALSE
  /\ outOfOrder \in BOOLEAN
  /\ calls = <<>> /\ open = {} /\ newest = [k \in Keys |-> "landed"]
  /\ events = 0 /\ writes = 0 /\ faults = 0

Next ==
  \/ \E c \in Checks : CheckStep(c)
  \/ WatchdogTick \/ HealTimerFires
  \/ WriteConfirmed \/ WriteUnanswered \/ WriteAnsweredWrong \/ LockPushes
  \/ SilenceLimitPasses \/ CooldownPasses \/ LateReady
  \/ LockChanges \/ PairingChanges \/ MarkOutOfOrder \/ BackInService \/ CheckLock \/ Retire
  \/ (\E i \in DOMAIN calls : Deliver(i) \/ DeliveryFails(i)) \/ Restart

Spec == Init /\ [][Next]_vars

\* Timers fire, radio calls return or time out, and no call to PagerDuty is under way for
\* ever (the oldest is the first of them).
Fairness ==
  /\ \A c \in Checks : WF_vars(CheckStep(c))
  /\ WF_vars(WatchdogTick) /\ WF_vars(HealTimerFires)
  /\ WF_vars(SilenceLimitPasses) /\ WF_vars(CooldownPasses)
  /\ WF_vars(Deliver(1))

FairSpec == Spec /\ Fairness

-----------------------------------------------------------------------------
(* Properties *)

\* One check at a time, so that two re-interviews of a lock never overlap
\* (the checking set).
OneInterview ==
  \A c, d \in Checks : check[c] # "idle" /\ check[d] # "idle" => c = d

\* If the newest call about an incident landed, and landed last, PagerDuty has the incident
\* as the daemon remembers it: none is forgotten open, none is believed open that is not,
\* whatever happened to the calls before it.
PagerAgrees == \A k \in Keys : newest[k] = "landed" => (k \in open <=> health[k])

\* A lock marked out of order raises no incident, wherever the check or the
\* write was when it was marked.
NoPageOutOfOrder ==
  [][outOfOrder /\ outOfOrder' /\ Len(calls') > Len(calls)
       => calls'[Len(calls')][1] = "resolve"]_vars

\* A lock in service that has stopped answering for good is paged for good.
DeafLockIsPaged ==
  <>[](~answering /\ ~outOfOrder /\ ~pairing /\ ~retired) => <>[]("unresponsive" \in open)

\* "turns silence ... into a PagerDuty incident that resolves itself once the
\* lock answers again": for a lock that answers again for good.
SilenceIncidentResolves ==
  <>[](answering /\ ~outOfOrder /\ ~pairing /\ ~retired) => <>[]("unresponsive" \notin open)

\* It does, even if the driver had lost the lock to a failed interview, unless the last call
\* about the incident failed, was overtaken, or came before the daemon's last restart.
IncidentCloses == <>[](newest["unresponsive"] # "unknown") => SilenceIncidentResolves
=============================================================================
