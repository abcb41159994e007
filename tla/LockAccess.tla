----------------------------- MODULE LockAccess -----------------------------
(***************************************************************************)
(* One LockManager of src/lockManager.ts: the access intervals of a lock,  *)
(* the timers that start and stop them, the ref-counted map from a code to *)
(* the user-code slot it occupies, and the radio commands that write, read *)
(* back and clear those slots.                                             *)
(*                                                                         *)
(* JavaScript runs one callback at a time, so an action is what one        *)
(* callback does up to its next await.  A call of allocateCodeSlot or      *)
(* freeCodeSlot that is suspended on the radio is a job; the driver sends  *)
(* the commands of one node in the order they were issued (sendQueue).     *)
(* Times are milliseconds of which only the interval endpoints matter.     *)
(***************************************************************************)
EXTENDS Integers, Sequences, FiniteSets

CONSTANTS
  Codes,          \* the door codes
  Intervals,      \* identities of the bookings' access intervals
  CodeOf,         \* interval -> code
  Low, High,      \* interval -> start and stop time
  UserCodeSlots,  \* slots 1..N the lock reported (lockSlots.ts)
  Capacity,       \* CAPACITY: codes admitted at any one time
  Masked,         \* the lock masks the digits it reports
  MaxFaults,      \* bound: commands lost, rejected or unanswered
  MaxHeals,       \* bound: re-interviews started
  MaxTroubled     \* bound: intervals added if a command goes wrong or the lock is healed

ASSUME AccessAssumption ==
  /\ CodeOf \in [Intervals -> Codes]
  /\ Low \in [Intervals -> Nat] /\ High \in [Intervals -> Nat]
  /\ \A i \in Intervals : Low[i] < High[i]
  /\ IsFiniteSet(Codes)
  /\ UserCodeSlots \subseteq Nat \ {0} /\ IsFiniteSet(UserCodeSlots)
  /\ Capacity \in Nat /\ MaxFaults \in Nat /\ MaxHeals \in Nat /\ MaxTroubled \in Nat
  /\ Masked \in BOOLEAN

VARIABLES
  now,         \* the wall clock
  tree,        \* intervals in the interval tree
  startEvent,  \* interval -> state of the ScheduledTask that starts it
  stopEvent,   \* interval -> state of the ScheduledTask that stops it
  codeToSlot,  \* code -> [slotNo, count]
  job,         \* suspended calls of allocateCodeSlot and freeCodeSlot
  sendQueue,   \* jobs whose command waits for the radio, in order
  lockHolds,   \* the lock itself: slot -> the code enabled in it
  slotsKnown,  \* the driver knows the lock's slots
  heal,        \* where LockManager.heal stands
  toReapply,   \* intervals reapplyAccess has still to write
  retired,     \* LockManager.retired
  incident,    \* an "unconfirmed" incident is open (lockHealth.ts)
  faults,      \* commands that went wrong so far
  heals,       \* re-interviews started so far
  mishaps      \* history: what has happened that the code does not allow for

vars == <<now, tree, startEvent, stopEvent, codeToSlot, job, sendQueue, lockHolds,
          slotsKnown, heal, toReapply, retired, incident, faults, heals, mishaps>>

-----------------------------------------------------------------------------
(* Types *)

NoSlot == 0
NoCode == "none"
Absent == [slotNo |-> NoSlot, count |-> 0]

\* A door code is a string of digits.
ASSUME CodesAssumption == NoCode \notin Codes

ManagedSlots == UserCodeSlots \ {1}

EventState == {"unset", "armed", "cancelled", "finishedEarly", "occurred"}

\* One start and one stop call per interval, and the calls heal makes in turn.
Jobs == ({"start", "stop"} \X Intervals) \cup {<<"reapply">>}

Idle == [at |-> "idle"]
JobState ==
  {Idle}
    \cup [at : {"writing", "readingBack"}, code : Codes, slotNo : ManagedSlots, attempt : {1, 2}]
    \cup [at : {"clearing", "readingClear"}, code : Codes, slotNo : ManagedSlots]

TypeOK ==
  /\ now \in Nat
  /\ tree \subseteq Intervals
  /\ startEvent \in [Intervals -> EventState]
  /\ stopEvent \in [Intervals -> EventState]
  /\ codeToSlot \in [Codes -> [slotNo : ManagedSlots \cup {NoSlot}, count : Nat]]
  /\ job \in [Jobs -> JobState]
  /\ sendQueue \in Seq(Jobs)
  /\ lockHolds \in [ManagedSlots -> Codes \cup {NoCode}]
  /\ slotsKnown \in BOOLEAN
  /\ heal \in {"idle", "interviewing", "probing", "reapplying"}
  /\ toReapply \subseteq Intervals
  /\ retired \in BOOLEAN /\ incident \in BOOLEAN
  /\ faults \in 0..MaxFaults /\ heals \in 0..MaxHeals
  /\ mishaps \subseteq {"refused", "overtaken", "lost"}

-----------------------------------------------------------------------------
(* The synchronous part of the calls, as functions of the manager's state  *)

Manager == [slots |-> codeToSlot, job |-> job, queue |-> sendQueue, mishaps |-> mishaps]

Becomes(m) ==
  /\ codeToSlot' = m.slots
  /\ job' = m.job
  /\ sendQueue' = m.queue
  /\ mishaps' = m.mishaps

Holds(m, c) == m.slots[c].slotNo # NoSlot

FreeIgnoringUse(m) == IF slotsKnown THEN ManagedSlots ELSE {}

Free(m) == IF slotsKnown THEN ManagedSlots \ {m.slots[c].slotNo : c \in Codes} ELSE {}

FreeSlot(m) == CHOOSE s \in Free(m) : \A t \in Free(m) : s <= t

\* Job j issues a command: it runs to an await, its frame goes to the back.
Issue(m, j, state) ==
  [m EXCEPT !.job[j] = state, !.queue = Append(@, j)]

\* allocateCodeSlot up to its first await.
AllocateCodeSlot(m, j, c) ==
  LET take(entry) ==
        Issue([m EXCEPT !.slots[c] = entry], j,
              [at |-> "writing", code |-> c, slotNo |-> entry.slotNo, attempt |-> 1])
  IN CASE Holds(m, c) -> take([m.slots[c] EXCEPT !.count = @ + 1])
       [] ~Holds(m, c) /\ Free(m) # {} -> take([slotNo |-> FreeSlot(m), count |-> 1])
       [] OTHER -> [m EXCEPT !.mishaps = @ \cup {"refused"}]

\* A write of code c that the manager has issued and not yet given up on.
WritingCode(m, c) ==
  \E j \in Jobs : m.job[j].at \in {"writing", "readingBack"} /\ m.job[j].code = c

\* Mutants of FreeCodeSlot: the count is ignored; the clear is never sent.
FreeAtOnce(m, j, c) ==
  IF Holds(m, c)
  THEN Issue([m EXCEPT !.slots[c] = Absent], j,
             [at |-> "clearing", code |-> c, slotNo |-> m.slots[c].slotNo])
  ELSE m
FreeSilently(m, j, c) ==
  CASE ~Holds(m, c) -> m
    [] Holds(m, c) /\ m.slots[c].count > 1 -> [m EXCEPT !.slots[c].count = @ - 1]
    [] OTHER -> [m EXCEPT !.slots[c] = Absent]

\* freeCodeSlot up to its first await.
FreeCodeSlot(m, j, c) ==
  CASE ~Holds(m, c) -> m
    [] Holds(m, c) /\ m.slots[c].count > 1 -> [m EXCEPT !.slots[c].count = @ - 1]
    [] OTHER ->
         Issue([m EXCEPT !.slots[c] = Absent,
                         !.mishaps = IF WritingCode(m, c) THEN @ \cup {"overtaken"} ELSE @],
               j, [at |-> "clearing", code |-> c, slotNo |-> m.slots[c].slotNo])

-----------------------------------------------------------------------------
(* Access intervals *)

\* IntervalTree.search: the intervals that meet the closed range.
Search(i) == {r \in tree : Low[r] <= High[i] /\ Low[i] <= High[r]}

EPSILON == 1

\* addAccessInterval's capacity test.
TestPoints(i) ==
  {t \in {Low[r] + EPSILON : r \in Search(i)} \cup {High[r] - EPSILON : r \in Search(i)} :
     Low[i] < t /\ t < High[i]}

SpaceAvailable(i) ==
  \A t \in TestPoints(i) :
    Cardinality({CodeOf[r] : r \in {r \in Search(i) : Low[r] < t /\ t < High[r]}}
                  \ {CodeOf[i]}) < Capacity

AlreadyPresent(i) ==
  \E r \in Search(i) : CodeOf[r] = CodeOf[i] /\ Low[r] = Low[i] /\ High[r] = High[i]

\* The bound on what goes wrong and on heals: few enough intervals, with n more.
Troubled(n) == Cardinality({i \in Intervals : startEvent[i] # "unset"}) + n <= MaxTroubled

\* A new ScheduledTask fires in its constructor when its time has come.
NewTask(t) == IF t <= now THEN "occurred" ELSE "armed"

\* What the start and the stop task of interval i run: nothing once retired.
Started(m, i) == IF retired THEN m ELSE AllocateCodeSlot(m, <<"start", i>>, CodeOf[i])
Stopped(m, i) == IF retired THEN m ELSE FreeCodeSlot(m, <<"stop", i>>, CodeOf[i])

\* The booking server adds interval i; both tasks may fire on the spot.  A
\* retired manager has left its group and hears of no more bookings.
AddAccessInterval(i) ==
  /\ ~retired
  /\ startEvent[i] = "unset"
  /\ faults + heals > 0 => Troubled(1)
  /\ ~AlreadyPresent(i)
  /\ SpaceAvailable(i)
  /\ LET m == IF Low[i] <= now THEN Started(Manager, i) ELSE Manager
     IN Becomes(IF High[i] <= now THEN Stopped(m, i) ELSE m)
  /\ startEvent' = [startEvent EXCEPT ![i] = NewTask(Low[i])]
  /\ stopEvent' = [stopEvent EXCEPT ![i] = NewTask(High[i])]
  /\ tree' = tree \cup {i}
  /\ UNCHANGED <<now, lockHolds, slotsKnown, heal, toReapply, retired, incident, faults, heals>>

UnderWay(i) == startEvent[i] = "occurred" /\ stopEvent[i] = "armed"

\* removeAccessInterval of an interval in the tree.
RemoveAccessInterval(i) ==
  /\ ~retired
  /\ i \in tree
  /\ tree' = tree \ {i}
  /\ IF UnderWay(i)
     THEN /\ stopEvent' = [stopEvent EXCEPT ![i] = "finishedEarly"]
          /\ Becomes(Stopped(Manager, i))
          /\ UNCHANGED startEvent
     ELSE /\ startEvent' = [startEvent EXCEPT ![i] = IF @ = "armed" THEN "cancelled" ELSE @]
          /\ stopEvent' = [stopEvent EXCEPT ![i] = IF @ = "armed" THEN "cancelled" ELSE @]
          /\ UNCHANGED <<codeToSlot, job, sendQueue, mishaps>>
  /\ UNCHANGED <<now, lockHolds, slotsKnown, heal, toReapply, retired, incident, faults, heals>>

StartTimer(i) ==
  /\ startEvent[i] = "armed" /\ Low[i] <= now
  /\ startEvent' = [startEvent EXCEPT ![i] = "occurred"]
  /\ Becomes(Started(Manager, i))
  /\ UNCHANGED <<now, tree, stopEvent, lockHolds, slotsKnown, heal, toReapply,
                 retired, incident, faults, heals>>

StopTimer(i) ==
  /\ stopEvent[i] = "armed" /\ High[i] <= now
  /\ stopEvent' = [stopEvent EXCEPT ![i] = "occurred"]
  /\ Becomes(Stopped(Manager, i))
  /\ UNCHANGED <<now, tree, startEvent, lockHolds, slotsKnown, heal, toReapply,
                 retired, incident, faults, heals>>

\* The clock moves to the next endpoint once every due timer has fired.
Instants == {Low[i] : i \in Intervals} \cup {High[i] : i \in Intervals}

Due(i) == \/ startEvent[i] = "armed" /\ Low[i] <= now
          \/ stopEvent[i] = "armed" /\ High[i] <= now

Tick ==
  /\ \A i \in Intervals : ~Due(i)
  /\ \E t \in Instants : /\ t > now
                         /\ \A u \in Instants : u > now => t <= u
                         /\ now' = t
  /\ UNCHANGED <<tree, startEvent, stopEvent, codeToSlot, job, sendQueue, lockHolds,
                 slotsKnown, heal, toReapply, retired, incident, faults, heals, mishaps>>

\* The lock left the network: cancel what is pending and refuse new writes.
Retire ==
  /\ ~retired
  /\ retired' = TRUE
  /\ LET cancelled(e) == [i \in Intervals |-> IF i \in tree /\ e[i] = "armed"
                                              THEN "cancelled" ELSE e[i]]
     IN /\ startEvent' = cancelled(startEvent)
        /\ stopEvent' = cancelled(stopEvent)
  /\ UNCHANGED <<now, tree, codeToSlot, job, sendQueue, lockHolds, slotsKnown, heal,
                 toReapply, incident, faults, heals, mishaps>>

-----------------------------------------------------------------------------
(* The radio answers the command at the head of the queue, and the call    *)
(* that was waiting for it runs on to its next await.                      *)

Sending(at) ==
  {j \in Jobs : sendQueue # <<>> /\ Head(sendQueue) = j /\ job[j].at = at}

\* A command that goes wrong uses up one of MaxFaults.
Fault(wrong) ==
  /\ wrong => faults < MaxFaults /\ Troubled(0)
  /\ faults' = IF wrong THEN faults + 1 ELSE faults

Answered(m) ==
  [m EXCEPT !.queue = Tail(@)]

Lost(m, wrong) == IF wrong THEN [m EXCEPT !.mishaps = @ \cup {"lost"}] ELSE m

\* setValue(code) returned.  An accepted frame may still not have landed, and
\* a rejected one may have.
WriteReturns(j) ==
  /\ j \in Sending("writing")
  /\ \E landed, ok \in BOOLEAN :
       LET wrong == ~(landed /\ ok)
           m     == Lost(Answered(Manager), wrong)
       IN /\ Fault(wrong)
          /\ lockHolds' = IF landed THEN [lockHolds EXCEPT ![job[j].slotNo] = job[j].code]
                          ELSE lockHolds
          /\ Becomes(IF ok THEN Issue(m, j, [job[j] EXCEPT !.at = "readingBack"])
                     ELSE [m EXCEPT !.job[j] = Idle])
          \* A write that throws, rather than being refused, ends heal.
          /\ \/ UNCHANGED <<heal, toReapply>>
             \/ ~ok /\ j = <<"reapply">> /\ heal' = "idle" /\ toReapply' = {}
  /\ UNCHANGED <<now, tree, startEvent, stopEvent, slotsKnown, retired, incident, heals>>

\* confirmsCode, of what the lock says a slot holds.
ConfirmsCode(slotNo, c) ==
  lockHolds[slotNo] # NoCode /\ (Masked \/ lockHolds[slotNo] = c)

\* recordConfirmed closes the incident about unconfirmed commands,
\* recordUnconfirmed opens it.  Mutant: it is never closed.
RecordNeverCloses(confirmed) == incident' = (incident \/ ~confirmed)
Record(confirmed) == incident' = ~confirmed

\* One retry.
Retry(j, confirmed) == ~confirmed /\ job[j].attempt = 1

\* querySlot returned to allocateCodeSlot: confirmed, one retry, or a page.
ReadBackReturns(j) ==
  /\ j \in Sending("readingBack")
  /\ \E silent \in BOOLEAN :
       LET m         == Lost(Answered(Manager), silent)
           confirmed == ~silent /\ ConfirmsCode(job[j].slotNo, job[j].code)
       IN /\ Fault(silent)
          /\ Becomes(IF Retry(j, confirmed)
                     THEN Issue(m, j, [job[j] EXCEPT !.at = "writing", !.attempt = 2])
                     ELSE [m EXCEPT !.job[j] = Idle])
          /\ IF Retry(j, confirmed) THEN UNCHANGED incident ELSE Record(confirmed)
  /\ UNCHANGED <<now, tree, startEvent, stopEvent, lockHolds, slotsKnown, heal, toReapply,
                 retired, heals>>

\* setValue(userIdStatus, Available) returned.
ClearReturns(j) ==
  /\ j \in Sending("clearing")
  /\ \E landed, ok \in BOOLEAN :
       LET wrong == ~(landed /\ ok)
           m     == Lost(Answered(Manager), wrong)
       IN /\ Fault(wrong)
          /\ lockHolds' = IF landed THEN [lockHolds EXCEPT ![job[j].slotNo] = NoCode]
                          ELSE lockHolds
          /\ Becomes(IF ok THEN Issue(m, j, [job[j] EXCEPT !.at = "readingClear"])
                     ELSE [m EXCEPT !.job[j] = Idle])
  /\ UNCHANGED <<now, tree, startEvent, stopEvent, slotsKnown, heal, toReapply, retired,
                 incident, heals>>

\* querySlot returned to freeCodeSlot.
ReadClearReturns(j) ==
  /\ j \in Sending("readingClear")
  /\ \E silent \in BOOLEAN :
       /\ Fault(silent)
       /\ Becomes([Lost(Answered(Manager), silent) EXCEPT !.job[j] = Idle])
       /\ Record(~silent /\ lockHolds[job[j].slotNo] = NoCode)
  /\ UNCHANGED <<now, tree, startEvent, stopEvent, lockHolds, slotsKnown, heal, toReapply,
                 retired, heals>>

-----------------------------------------------------------------------------
(* heal: re-interview, probe, reapplyAccess                                *)

\* checkLiveness found the lock silent.  The driver forgets the lock until the
\* interview is over; a check that was running when the lock was retired may
\* still get here.
HealBegins ==
  /\ heal = "idle" /\ heals < MaxHeals /\ Troubled(0)
  /\ heal' = "interviewing" /\ heals' = heals + 1
  /\ slotsKnown' = FALSE
  /\ UNCHANGED <<now, tree, startEvent, stopEvent, codeToSlot, job, sendQueue, lockHolds,
                 toReapply, retired, incident, faults, mishaps>>

InterviewEnds ==
  /\ heal = "interviewing"
  /\ \/ heal' = "probing" /\ slotsKnown' = TRUE     \* ready
     \/ heal' = "idle" /\ UNCHANGED slotsKnown      \* interview failed, or timed out
  /\ UNCHANGED <<now, tree, startEvent, stopEvent, codeToSlot, job, sendQueue, lockHolds,
                 toReapply, retired, incident, faults, heals, mishaps>>

\* The intervals under way whose code holds no slot.  Mutant: those still to
\* come.
RefusedYetToStart == {i \in tree : startEvent[i] = "armed" /\ ~Holds(Manager, CodeOf[i])}
Refused == {i \in tree : UnderWay(i) /\ ~Holds(Manager, CodeOf[i])}

\* The probe was answered: reapplyAccess takes its snapshot.
ProbeReturns ==
  /\ heal = "probing"
  /\ \/ /\ heal' = "reapplying"
        /\ toReapply' = Refused
     \/ heal' = "idle" /\ UNCHANGED toReapply
  /\ UNCHANGED <<now, tree, startEvent, stopEvent, codeToSlot, job, sendQueue, lockHolds,
                 slotsKnown, retired, incident, faults, heals, mishaps>>

\* reapplyAccess, one interval after another, lowest first.
ReapplyNext ==
  /\ heal = "reapplying" /\ job[<<"reapply">>] = Idle
  /\ \E i \in toReapply :
       /\ \A k \in toReapply : Low[i] <= Low[k]
       /\ toReapply' = toReapply \ {i}
       /\ Becomes(AllocateCodeSlot(Manager, <<"reapply">>, CodeOf[i]))
  /\ UNCHANGED <<now, tree, startEvent, stopEvent, lockHolds, slotsKnown, heal, retired,
                 incident, faults, heals>>

HealEnds ==
  /\ heal = "reapplying" /\ job[<<"reapply">>] = Idle /\ toReapply = {}
  /\ heal' = "idle"
  /\ UNCHANGED <<now, tree, startEvent, stopEvent, codeToSlot, job, sendQueue, lockHolds,
                 slotsKnown, toReapply, retired, incident, faults, heals, mishaps>>

-----------------------------------------------------------------------------

\* A daemon restarted while the lock's re-interview was failing knows no slots.
Init ==
  /\ now = 0
  /\ tree = {}
  /\ startEvent = [i \in Intervals |-> "unset"]
  /\ stopEvent = [i \in Intervals |-> "unset"]
  /\ codeToSlot = [c \in Codes |-> Absent]
  /\ job = [j \in Jobs |-> Idle]
  /\ sendQueue = <<>>
  /\ lockHolds = [s \in ManagedSlots |-> NoCode]
  /\ slotsKnown \in BOOLEAN
  /\ heal = "idle" /\ toReapply = {}
  /\ retired = FALSE /\ incident = FALSE
  /\ faults = 0 /\ heals = 0
  /\ mishaps = {}

Radio == \E j \in Jobs : \/ WriteReturns(j) \/ ReadBackReturns(j)
                         \/ ClearReturns(j) \/ ReadClearReturns(j)

Timers == \E i \in Intervals : StartTimer(i) \/ StopTimer(i)

Healing == HealBegins \/ InterviewEnds \/ ProbeReturns \/ ReapplyNext \/ HealEnds

Next ==
  \/ \E i \in Intervals : AddAccessInterval(i) \/ RemoveAccessInterval(i)
  \/ Timers
  \/ Tick
  \/ Retire
  \/ Radio
  \/ Healing

Spec == Init /\ [][Next]_vars

-----------------------------------------------------------------------------
(* Properties *)

\* No two codes are ever given the same slot, however calls interleave
\* (freeSlot, allocateCodeSlot).
SlotsDistinct ==
  \A c, d \in Codes :
    c # d /\ codeToSlot[c].slotNo # NoSlot => codeToSlot[c].slotNo # codeToSlot[d].slotNo

\* Unless a start was refused a slot, a code's ref-count is the number of its
\* intervals under way: overlapping bookings of one code neither cut it off
\* early nor keep it for good (codeToSlot, "ref-counting to handle overlapping
\* intervals with the same code").
RefCountExact ==
  ~retired /\ "refused" \notin mishaps =>
    \A c \in Codes :
      codeToSlot[c].count = Cardinality({i \in Intervals : UnderWay(i) /\ CodeOf[i] = c})

\* Once every command has been answered, and nothing went wrong on the way,
\* the lock opens to exactly the codes the manager has put in its slots.
Settled == sendQueue = <<>>

LockMatchesMap ==
  Settled /\ mishaps = {} =>
    \A s \in ManagedSlots : \A c \in Codes :
      lockHolds[s] = c <=> codeToSlot[c].slotNo = s

\* An incident opened because another code already sat in a slot being
\* cleared does not outlive the commands in flight (recordConfirmed).
NoLastingFalseAlarm == Settled /\ mishaps = {} => ~incident

\* When heal is done, every interval under way has its code in a slot, whether
\* it was refused before the interview or began during it; stated for a code
\* no other booking uses and a lock with a slot for every code.
OnlyUserOf(i) == \A k \in Intervals \ {i} : CodeOf[k] # CodeOf[i]

HealRestoresAccess ==
  [][HealEnds /\ Cardinality(ManagedSlots) >= Cardinality(Codes) =>
       \A i \in Intervals :
         UnderWay(i) /\ OnlyUserOf(i) => codeToSlot[CodeOf[i]].slotNo # NoSlot]_vars

-----------------------------------------------------------------------------
(* What comments of lockManager.ts promise and the code does not keep *)

\* "Make sure at every point in this interval there's less than CAPACITY other
\* people": at no time do the admitted intervals need more than Capacity codes.
WithinCapacity ==
  \A t \in {Low[k] + EPSILON : k \in tree} :
    Cardinality({CodeOf[r] : r \in {r \in tree : Low[r] < t /\ t < High[r]}}) <= Capacity

\* "One call per interval keeps the ref-count right for a code with two
\* overlapping intervals": a code is not taken away while one of its
\* intervals is still under way.
HeldWhileUnderWay ==
  [][\A i \in Intervals :
       UnderWay(i) /\ UnderWay(i)' /\ codeToSlot[CodeOf[i]].slotNo # NoSlot
         => codeToSlot'[CodeOf[i]].slotNo # NoSlot]_vars

\* "Write the code of every access interval that is under way": a code is
\* given a slot only while one of its intervals is under way.
TakenOnlyUnderWay ==
  [][\A c \in Codes :
       codeToSlot[c].slotNo = NoSlot /\ codeToSlot'[c].slotNo # NoSlot
         => \E i \in Intervals : CodeOf[i] = c /\ UnderWay(i)']_vars

\* "in case both are in the past, we need the start code to run before the
\* stop code": with a faultless radio, a lock whose last interval is over and
\* whose commands are all answered holds no code.
NothingLeftBehind ==
  Settled /\ faults = 0 /\ heals = 0 /\ (\A i \in Intervals : ~UnderWay(i))
    => \A s \in ManagedSlots : lockHolds[s] = NoCode
=============================================================================
