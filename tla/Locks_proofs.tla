---------------------------- MODULE Locks_proofs ----------------------------
(***************************************************************************)
(* The locks: the codes in them (LockAccess) and the locks themselves      *)
(* (LockPairing), with the timers a booking is kept by (ScheduledTask).    *)
(* The three have no variable in common, and no step of one is used in a   *)
(* proof about another.                                                    *)
(*                                                                         *)
(* For every set of codes, intervals and slots: LockAccess is type         *)
(* correct, no two codes ever share a slot, the counts are those of the    *)
(* intervals under way, a heal gives back what it found missing, and a     *)
(* lock left alone by faults ends up with the codes of the map and without *)
(* alarm.  The tasks of an interval are one-shot, and ScheduledTask, which *)
(* runs them, implements a one-shot task.                                  *)
(*                                                                         *)
(* Every action changes the map, the jobs and the send queue only by       *)
(* applying AllocateCodeSlot, FreeCodeSlot or the return of a command to   *)
(* the manager's state, so each argument is made once for those functions  *)
(* (the lemmas on ManagerOK, LinkedM, Flow) and each action cites it.      *)
(*                                                                         *)
(* For any servers, nodes and bounds of LockPairing: the flag that         *)
(* silences the watchdog follows the flow, a flow no lock has joined       *)
(* always ends by itself, no server keeps a lock that is not in the        *)
(* network, a restart brings back the locks there were, and a lock goes to *)
(* whom it was asked for.                                                  *)
(***************************************************************************)
EXTENDS LockAccess, LockPairing, ScheduledTask, WellFoundedInduction, NaturalsInduction, SequenceTheorems,
        FiniteSetTheorems, TLAPS

ManagerType ==
  [slots : [Codes -> [slotNo : ManagedSlots \cup {NoSlot}, count : Nat]],
   job : [Jobs -> JobState],
   queue : Seq(Jobs),
   mishaps : SUBSET {"refused", "overtaken", "lost"}]

ManagerOK(m) ==
  /\ m \in ManagerType
  /\ \A c, d \in Codes :
       c # d /\ m.slots[c].slotNo # NoSlot => m.slots[c].slotNo # m.slots[d].slotNo

IInv == TypeOK /\ SlotsDistinct

LEMMA ManagedSlotsNat == ManagedSlots \subseteq Nat \ {NoSlot}
  BY AccessAssumption DEF ManagedSlots, NoSlot

\* A non-empty set of naturals has a least element, so freeSlot finds one.
LEMMA LeastExists ==
  ASSUME NEW S, S \subseteq Nat, S # {}
  PROVE  \E s \in S : \A t \in S : s <= t
  <1>1. IsWellFoundedOn(OpToRel(<, Nat), Nat)
    BY NatLessThanWellFounded
  <1>2. PICK s \in S : \A t \in S : ~(<<t, s>> \in OpToRel(<, Nat))
    BY <1>1, WFMin
  <1>3. \A t \in S : ~(t < s)
    BY <1>2 DEF OpToRel
  <1> QED
    BY <1>3

LEMMA FreeSlotIsFree ==
  ASSUME NEW m, Free(m) # {}
  PROVE  FreeSlot(m) \in Free(m)
  <1>1. Free(m) \subseteq Nat
    BY ManagedSlotsNat DEF Free
  <1>2. \E s \in Free(m) : \A t \in Free(m) : s <= t
    BY <1>1, LeastExists
  <1> QED
    BY <1>2 DEF FreeSlot

LEMMA IssueOK ==
  ASSUME NEW m, ManagerOK(m), NEW j \in Jobs, NEW state \in JobState
  PROVE  ManagerOK(Issue(m, j, state))
  <1>1. Append(m.queue, j) \in Seq(Jobs)
    BY AppendProperties DEF ManagerOK, ManagerType
  <1>2. [m.job EXCEPT ![j] = state] \in [Jobs -> JobState]
    BY DEF ManagerOK, ManagerType
  <1>3. Issue(m, j, state) \in ManagerType
    BY <1>1, <1>2 DEF ManagerOK, ManagerType, Issue
  <1>4. Issue(m, j, state).slots = m.slots
    BY DEF ManagerOK, ManagerType, Issue
  <1> QED
    BY <1>3, <1>4 DEF ManagerOK

LEMMA ReturnOK ==
  ASSUME NEW m, ManagerOK(m), NEW j \in Jobs
  PROVE  ManagerOK([m EXCEPT !.job[j] = Idle])
  BY DEF ManagerOK, ManagerType, JobState

LEMMA AnsweredOK ==
  ASSUME NEW m, ManagerOK(m), m.queue # <<>>
  PROVE  ManagerOK(Answered(m))
  <1>1. Tail(m.queue) \in Seq(Jobs)
    BY HeadTailProperties DEF ManagerOK, ManagerType
  <1>2. Answered(m) \in ManagerType
    BY <1>1 DEF ManagerOK, ManagerType, Answered
  <1>3. Answered(m).slots = m.slots
    BY DEF ManagerOK, ManagerType, Answered
  <1> QED
    BY <1>2, <1>3 DEF ManagerOK

LEMMA LostOK ==
  ASSUME NEW m, ManagerOK(m), NEW wrong
  PROVE  ManagerOK(Lost(m, wrong))
  BY DEF ManagerOK, ManagerType, Lost

\* Putting one code into a free slot, or into the one it has, keeps the map
\* injective.
LEMMA TakeOK ==
  ASSUME NEW m, ManagerOK(m), NEW c \in Codes,
         NEW entry \in [slotNo : ManagedSlots, count : Nat],
         \A d \in Codes \ {c} : m.slots[d].slotNo # entry.slotNo
  PROVE  ManagerOK([m EXCEPT !.slots[c] = entry])
  BY DEF ManagerOK, ManagerType

LEMMA AllocateOK ==
  ASSUME NEW m, ManagerOK(m), NEW j \in Jobs, NEW c \in Codes
  PROVE  ManagerOK(AllocateCodeSlot(m, j, c))
  <1> DEFINE take(entry) ==
        Issue([m EXCEPT !.slots[c] = entry], j,
              [at |-> "writing", code |-> c, slotNo |-> entry.slotNo, attempt |-> 1])
  <1>1. ASSUME NEW entry \in [slotNo : ManagedSlots, count : Nat],
               \A d \in Codes \ {c} : m.slots[d].slotNo # entry.slotNo
        PROVE  ManagerOK(take(entry))
    <2>1. ManagerOK([m EXCEPT !.slots[c] = entry])
      BY <1>1, TakeOK
    <2>2. [at |-> "writing", code |-> c, slotNo |-> entry.slotNo, attempt |-> 1] \in JobState
      BY DEF JobState
    <2> QED
      BY <2>1, <2>2, IssueOK
  <1>2. CASE Holds(m, c)
    <2>1. [m.slots[c] EXCEPT !.count = @ + 1] \in [slotNo : ManagedSlots, count : Nat]
      BY <1>2 DEF Holds, ManagerOK, ManagerType
    <2>2. \A d \in Codes \ {c} : m.slots[d].slotNo # [m.slots[c] EXCEPT !.count = @ + 1].slotNo
      BY <1>2 DEF Holds, ManagerOK, ManagerType
    <2>3. ManagerOK(take([m.slots[c] EXCEPT !.count = @ + 1]))
      BY <2>1, <2>2, <1>1
    <2> QED
      BY <1>2, <2>3 DEF AllocateCodeSlot
  <1>3. CASE ~Holds(m, c) /\ Free(m) # {}
    <2>1. FreeSlot(m) \in Free(m)
      BY <1>3, FreeSlotIsFree
    <2>2. [slotNo |-> FreeSlot(m), count |-> 1] \in [slotNo : ManagedSlots, count : Nat]
      BY <2>1 DEF Free
    <2>3. \A d \in Codes \ {c} : m.slots[d].slotNo # FreeSlot(m)
      BY <2>1 DEF Free
    <2>4. ManagerOK(take([slotNo |-> FreeSlot(m), count |-> 1]))
      BY <2>2, <2>3, <1>1
    <2> QED
      BY <1>3, <2>4 DEF AllocateCodeSlot
  <1>4. CASE ~Holds(m, c) /\ Free(m) = {}
    <2>1. AllocateCodeSlot(m, j, c) = [m EXCEPT !.mishaps = @ \cup {"refused"}]
      BY <1>4 DEF AllocateCodeSlot
    <2> QED
      BY <2>1 DEF ManagerOK, ManagerType
  <1> QED
    BY <1>2, <1>3, <1>4

LEMMA FreeOK ==
  ASSUME NEW m, ManagerOK(m), NEW j \in Jobs, NEW c \in Codes
  PROVE  ManagerOK(FreeCodeSlot(m, j, c))
  <1>1. CASE ~Holds(m, c)
    BY <1>1 DEF FreeCodeSlot
  <1>2. CASE Holds(m, c) /\ m.slots[c].count > 1
    <2>1. FreeCodeSlot(m, j, c) = [m EXCEPT !.slots[c].count = @ - 1]
      BY <1>2 DEF FreeCodeSlot
    <2> DEFINE entry == [m.slots[c] EXCEPT !.count = @ - 1]
    <2>2. entry \in [slotNo : ManagedSlots, count : Nat]
      BY <1>2 DEF Holds, ManagerOK, ManagerType
    <2>3. \A d \in Codes \ {c} : m.slots[d].slotNo # entry.slotNo
      BY <1>2 DEF Holds, ManagerOK, ManagerType
    <2>4. ManagerOK([m EXCEPT !.slots[c] = entry])
      BY <2>2, <2>3, TakeOK
    <2>5. FreeCodeSlot(m, j, c) = [m EXCEPT !.slots[c] = entry]
      BY <2>1
    <2> QED
      BY <2>4, <2>5
  <1>3. CASE Holds(m, c) /\ ~(m.slots[c].count > 1)
    <2> DEFINE state == [at |-> "clearing", code |-> c, slotNo |-> m.slots[c].slotNo]
               gone == [m EXCEPT !.slots[c] = Absent,
                                 !.mishaps = IF WritingCode(m, c)
                                             THEN @ \cup {"overtaken"} ELSE @]
    <2>1. state \in JobState
      BY <1>3 DEF JobState, Holds, ManagerOK, ManagerType
    <2>2. ManagerOK(gone)
      BY DEF ManagerOK, ManagerType, Absent, NoSlot
    <2>3. FreeCodeSlot(m, j, c) = Issue(gone, j, state)
      BY <1>3 DEF FreeCodeSlot
    <2> QED
      BY <2>1, <2>2, <2>3, IssueOK
  <1> QED
    BY <1>1, <1>2, <1>3

\* Every action that touches the map does so through these.
LEMMA BecomesKeeps ==
  ASSUME NEW m, ManagerOK(m), Becomes(m)
  PROVE  /\ codeToSlot' \in [Codes -> [slotNo : ManagedSlots \cup {NoSlot}, count : Nat]]
         /\ job' \in [Jobs -> JobState]
         /\ sendQueue' \in Seq(Jobs)
         /\ mishaps' \subseteq {"refused", "overtaken", "lost"}
         /\ SlotsDistinct'
  BY DEF ManagerOK, ManagerType, Becomes, SlotsDistinct

LEMMA ManagerIsOK ==
  ASSUME IInv
  PROVE  ManagerOK(Manager)
  BY DEF IInv, TypeOK, SlotsDistinct, ManagerOK, ManagerType, Manager

LEMMA TasksOK ==
  ASSUME NEW m, ManagerOK(m), NEW i \in Intervals
  PROVE  ManagerOK(Started(m, i)) /\ ManagerOK(Stopped(m, i))
  <1>1. CodeOf[i] \in Codes /\ <<"start", i>> \in Jobs /\ <<"stop", i>> \in Jobs
    BY AccessAssumption DEF Jobs
  <1> QED
    BY <1>1, AllocateOK, FreeOK DEF Started, Stopped

\* The state a call carries, from where it is suspended.
LEMMA SendingOK ==
  ASSUME IInv, NEW at, NEW j \in Sending(at)
  PROVE  /\ j \in Jobs
         /\ job[j].at = at
         /\ ManagerOK(Manager)
         /\ Manager.queue # <<>>
  BY ManagerIsOK DEF Sending, Manager

LEMMA WriterState ==
  ASSUME IInv, NEW j \in Jobs, job[j].at \in {"writing", "readingBack"}
  PROVE  /\ job[j] \in [at : {"writing", "readingBack"}, code : Codes,
                         slotNo : ManagedSlots, attempt : {1, 2}]
         /\ [job[j] EXCEPT !.at = "readingBack"] \in JobState
         /\ [job[j] EXCEPT !.at = "writing", !.attempt = 2] \in JobState
  <1>1. job[j] \in JobState
    BY DEF IInv, TypeOK
  <1>2. job[j] \in [at : {"writing", "readingBack"}, code : Codes,
                    slotNo : ManagedSlots, attempt : {1, 2}]
    BY <1>1 DEF JobState, Idle
  <1> QED
    BY <1>2 DEF JobState

LEMMA ClearerState ==
  ASSUME IInv, NEW j \in Jobs, job[j].at = "clearing"
  PROVE  [job[j] EXCEPT !.at = "readingClear"] \in JobState
  <1>1. job[j] \in JobState
    BY DEF IInv, TypeOK
  <1>2. job[j] \in [at : {"clearing", "readingClear"}, code : Codes, slotNo : ManagedSlots]
    BY <1>1 DEF JobState, Idle
  <1> QED
    BY <1>2 DEF JobState

\* The returns of the four radio commands preserve the invariant.
LEMMA RadioOK ==
  ASSUME IInv, Radio
  PROVE  IInv'
  <1> USE DEF IInv
  <1>1. ASSUME NEW wrong, Fault(wrong)
        PROVE  faults' \in 0..MaxFaults
    BY <1>1, AccessAssumption DEF Fault, TypeOK
  <1>2. ASSUME NEW j \in Jobs, WriteReturns(j)
        PROVE  IInv'
    <2>1. j \in Sending("writing")
      BY <1>2 DEF WriteReturns
    <2>2. PICK landed \in BOOLEAN, ok \in BOOLEAN :
            /\ Fault(~(landed /\ ok))
            /\ lockHolds' = IF landed THEN [lockHolds EXCEPT ![job[j].slotNo] = job[j].code]
                            ELSE lockHolds
            /\ Becomes(IF ok
                 THEN Issue(Lost(Answered(Manager), ~(landed /\ ok)), j,
                            [job[j] EXCEPT !.at = "readingBack"])
                 ELSE [Lost(Answered(Manager), ~(landed /\ ok)) EXCEPT !.job[j] = Idle])
            /\ \/ UNCHANGED <<heal, toReapply>>
               \/ heal' = "idle" /\ toReapply' = {}
      BY <1>2 DEF WriteReturns
    <2> DEFINE m == Lost(Answered(Manager), ~(landed /\ ok))
    <2>3. ManagerOK(m)
      BY <2>1, SendingOK, AnsweredOK, LostOK
    <2>4. [job[j] EXCEPT !.at = "readingBack"] \in JobState
      BY <2>1, SendingOK, WriterState
    <2>5. ManagerOK(IF ok THEN Issue(m, j, [job[j] EXCEPT !.at = "readingBack"])
                    ELSE [m EXCEPT !.job[j] = Idle])
      BY <2>3, <2>4, IssueOK, ReturnOK
    <2>6. lockHolds' \in [ManagedSlots -> Codes \cup {NoCode}]
      BY <2>1, <2>2, SendingOK, WriterState DEF TypeOK
    <2>7. faults' \in 0..MaxFaults
      BY <1>1, <2>2
    <2> HIDE DEF m
    <2> QED
      BY <1>2, <2>2, <2>5, <2>6, <2>7, BecomesKeeps DEF WriteReturns, TypeOK, m
  <1>3. ASSUME NEW j \in Jobs, ReadBackReturns(j)
        PROVE  IInv'
    <2>1. j \in Sending("readingBack")
      BY <1>3 DEF ReadBackReturns
    <2>2. PICK silent \in BOOLEAN :
            LET m         == Lost(Answered(Manager), silent)
                confirmed == ~silent /\ ConfirmsCode(job[j].slotNo, job[j].code)
            IN /\ Fault(silent)
               /\ Becomes(IF Retry(j, confirmed)
                          THEN Issue(m, j, [job[j] EXCEPT !.at = "writing", !.attempt = 2])
                          ELSE [m EXCEPT !.job[j] = Idle])
               /\ IF Retry(j, confirmed) THEN UNCHANGED incident ELSE Record(confirmed)
      BY <1>3 DEF ReadBackReturns
    <2> DEFINE m         == Lost(Answered(Manager), silent)
               confirmed == ~silent /\ ConfirmsCode(job[j].slotNo, job[j].code)
    <2>3. ManagerOK(m)
      BY <2>1, SendingOK, AnsweredOK, LostOK
    <2>4. [job[j] EXCEPT !.at = "writing", !.attempt = 2] \in JobState
      BY <2>1, SendingOK, WriterState
    <2>5. ManagerOK(IF Retry(j, confirmed)
                    THEN Issue(m, j, [job[j] EXCEPT !.at = "writing", !.attempt = 2])
                    ELSE [m EXCEPT !.job[j] = Idle])
      BY <2>3, <2>4, IssueOK, ReturnOK
    <2>6. incident' \in BOOLEAN
      BY <2>2 DEF TypeOK, Record
    <2>7. faults' \in 0..MaxFaults
      BY <1>1, <2>2
    <2> QED
      BY <1>3, <2>2, <2>5, <2>6, <2>7, BecomesKeeps DEF ReadBackReturns, TypeOK
  <1>4. ASSUME NEW j \in Jobs, ClearReturns(j)
        PROVE  IInv'
    <2>1. j \in Sending("clearing")
      BY <1>4 DEF ClearReturns
    <2>2. PICK landed \in BOOLEAN, ok \in BOOLEAN :
            /\ Fault(~(landed /\ ok))
            /\ lockHolds' = IF landed THEN [lockHolds EXCEPT ![job[j].slotNo] = NoCode]
                            ELSE lockHolds
            /\ Becomes(IF ok
                 THEN Issue(Lost(Answered(Manager), ~(landed /\ ok)), j,
                            [job[j] EXCEPT !.at = "readingClear"])
                 ELSE [Lost(Answered(Manager), ~(landed /\ ok)) EXCEPT !.job[j] = Idle])
      BY <1>4 DEF ClearReturns
    <2> DEFINE m == Lost(Answered(Manager), ~(landed /\ ok))
    <2>3. ManagerOK(m)
      BY <2>1, SendingOK, AnsweredOK, LostOK
    <2>4. [job[j] EXCEPT !.at = "readingClear"] \in JobState
      BY <2>1, SendingOK, ClearerState
    <2>5. ManagerOK(IF ok THEN Issue(m, j, [job[j] EXCEPT !.at = "readingClear"])
                    ELSE [m EXCEPT !.job[j] = Idle])
      BY <2>3, <2>4, IssueOK, ReturnOK
    <2>6. lockHolds' \in [ManagedSlots -> Codes \cup {NoCode}]
      BY <2>2 DEF TypeOK
    <2>7. faults' \in 0..MaxFaults
      BY <1>1, <2>2
    <2> QED
      BY <1>4, <2>2, <2>5, <2>6, <2>7, BecomesKeeps DEF ClearReturns, TypeOK
  <1>5. ASSUME NEW j \in Jobs, ReadClearReturns(j)
        PROVE  IInv'
    <2>1. j \in Sending("readingClear")
      BY <1>5 DEF ReadClearReturns
    <2>2. PICK silent \in BOOLEAN :
            /\ Fault(silent)
            /\ Becomes([Lost(Answered(Manager), silent) EXCEPT !.job[j] = Idle])
            /\ Record(~silent /\ lockHolds[job[j].slotNo] = NoCode)
      BY <1>5 DEF ReadClearReturns
    <2>3. ManagerOK([Lost(Answered(Manager), silent) EXCEPT !.job[j] = Idle])
      BY <2>1, SendingOK, AnsweredOK, LostOK, ReturnOK
    <2>4. faults' \in 0..MaxFaults
      BY <1>1, <2>2
    <2>5. incident' \in BOOLEAN
      BY <2>2 DEF Record
    <2> QED
      BY <1>5, <2>2, <2>3, <2>4, <2>5, BecomesKeeps DEF ReadClearReturns, TypeOK
  <1> QED
    BY <1>2, <1>3, <1>4, <1>5 DEF Radio

\* So do the steps of heal.
LEMMA HealingOK ==
  ASSUME IInv, Healing
  PROVE  IInv'
  <1> USE DEF IInv
  <1>1. ASSUME HealBegins
        PROVE  IInv'
    <2>1. heals' \in 0..MaxHeals
      BY <1>1, AccessAssumption DEF HealBegins, TypeOK
    <2> QED
      BY <1>1, <2>1 DEF HealBegins, TypeOK, SlotsDistinct
  <1>2. ASSUME InterviewEnds
        PROVE  IInv'
    BY <1>2 DEF InterviewEnds, TypeOK, SlotsDistinct
  <1>3. ASSUME ProbeReturns
        PROVE  IInv'
    BY <1>3 DEF ProbeReturns, Refused, TypeOK, SlotsDistinct
  <1>4. ASSUME ReapplyNext
        PROVE  IInv'
    <2>1. PICK i \in toReapply :
            /\ toReapply' = toReapply \ {i}
            /\ Becomes(AllocateCodeSlot(Manager, <<"reapply">>, CodeOf[i]))
      BY <1>4 DEF ReapplyNext
    <2>2. CodeOf[i] \in Codes /\ <<"reapply">> \in Jobs
      BY AccessAssumption DEF TypeOK, Jobs
    <2>3. ManagerOK(AllocateCodeSlot(Manager, <<"reapply">>, CodeOf[i]))
      BY <2>2, ManagerIsOK, AllocateOK
    <2> QED
      BY <1>4, <2>1, <2>3, BecomesKeeps DEF ReapplyNext, TypeOK
  <1>5. ASSUME HealEnds
        PROVE  IInv'
    BY <1>5 DEF HealEnds, TypeOK, SlotsDistinct
  <1> QED
    BY <1>1, <1>2, <1>3, <1>4, <1>5 DEF Healing

\* Init establishes the invariant.
LEMMA InitOK ==
  ASSUME Init
  PROVE  IInv
  <1> USE DEF Init
  <1>1. codeToSlot \in [Codes -> [slotNo : ManagedSlots \cup {NoSlot}, count : Nat]]
    BY DEF Absent
  <1>2. job \in [Jobs -> JobState]
    BY DEF JobState
  <1>3. sendQueue \in Seq(Jobs)
    OBVIOUS
  <1>4. /\ startEvent \in [Intervals -> EventState]
        /\ stopEvent \in [Intervals -> EventState]
    BY DEF EventState
  <1>5. faults \in 0..MaxFaults /\ heals \in 0..MaxHeals
    BY AccessAssumption
  <1>6. lockHolds \in [ManagedSlots -> Codes \cup {NoCode}]
    OBVIOUS
  <1>7. TypeOK
    BY <1>1, <1>2, <1>3, <1>4, <1>5, <1>6 DEF TypeOK
  <1>8. SlotsDistinct
    BY DEF SlotsDistinct, Absent
  <1> QED
    BY <1>7, <1>8 DEF IInv

\* Every step preserves it, one step of the proof per action.
LEMMA NextOK ==
  ASSUME IInv, Next
  PROVE  IInv'
  <1> USE DEF IInv
  <1>1. ManagerOK(Manager)
    BY ManagerIsOK
  <1>2. ASSUME NEW i \in Intervals, AddAccessInterval(i)
        PROVE  IInv'
    <2> DEFINE m == IF Low[i] <= now THEN Started(Manager, i) ELSE Manager
    <2>1. ManagerOK(m)
      BY <1>1, TasksOK
    <2>2. ManagerOK(IF High[i] <= now THEN Stopped(m, i) ELSE m)
      BY <2>1, TasksOK
    <2>3. Becomes(IF High[i] <= now THEN Stopped(m, i) ELSE m)
      BY <1>2 DEF AddAccessInterval
    <2>4. /\ startEvent' \in [Intervals -> EventState]
          /\ stopEvent' \in [Intervals -> EventState]
      BY <1>2 DEF AddAccessInterval, TypeOK, EventState, NewTask
    <2> QED
      BY <1>2, <2>2, <2>3, <2>4, BecomesKeeps DEF AddAccessInterval, TypeOK
  <1>3. ASSUME NEW i \in Intervals, RemoveAccessInterval(i)
        PROVE  IInv'
    <2>1. /\ startEvent' \in [Intervals -> EventState]
          /\ stopEvent' \in [Intervals -> EventState]
      BY <1>3 DEF RemoveAccessInterval, TypeOK, EventState
    <2>2. CASE UnderWay(i)
      BY <1>1, <1>3, <2>1, <2>2, TasksOK, BecomesKeeps DEF RemoveAccessInterval, TypeOK
    <2>3. CASE ~UnderWay(i)
      BY <1>3, <2>1, <2>3 DEF RemoveAccessInterval, TypeOK, SlotsDistinct
    <2> QED
      BY <2>2, <2>3
  <1>4. ASSUME NEW i \in Intervals, StartTimer(i)
        PROVE  IInv'
    <2>1. startEvent' \in [Intervals -> EventState]
      BY <1>4 DEF StartTimer, TypeOK, EventState
    <2> QED
      BY <1>1, <1>4, <2>1, TasksOK, BecomesKeeps DEF StartTimer, TypeOK
  <1>5. ASSUME NEW i \in Intervals, StopTimer(i)
        PROVE  IInv'
    <2>1. stopEvent' \in [Intervals -> EventState]
      BY <1>5 DEF StopTimer, TypeOK, EventState
    <2> QED
      BY <1>1, <1>5, <2>1, TasksOK, BecomesKeeps DEF StopTimer, TypeOK
  <1>6. ASSUME Tick
        PROVE  IInv'
    BY <1>6, AccessAssumption DEF Tick, Instants, TypeOK, SlotsDistinct
  <1>7. ASSUME Retire
        PROVE  IInv'
    <2>1. /\ startEvent' \in [Intervals -> EventState]
          /\ stopEvent' \in [Intervals -> EventState]
      BY <1>7 DEF Retire, TypeOK, EventState
    <2> QED
      BY <1>7, <2>1 DEF Retire, TypeOK, SlotsDistinct
  <1>8. ASSUME Radio
        PROVE  IInv'
    BY <1>8, RadioOK
  <1>9. ASSUME Healing
        PROVE  IInv'
    BY <1>9, HealingOK
  <1> QED
    BY <1>2, <1>3, <1>4, <1>5, <1>6, <1>7, <1>8, <1>9 DEF Next, Timers

LEMMA Invariance == Spec => []IInv
  <1>1. Init => IInv
    BY InitOK
  <1>2. IInv /\ [Next]_vars => IInv'
    <2>1. ASSUME IInv, UNCHANGED vars
          PROVE  IInv'
      BY <2>1 DEF IInv, vars, TypeOK, SlotsDistinct
    <2> QED
      BY <2>1, NextOK
  <1> QED
    BY <1>1, <1>2, PTL DEF Spec

\* The variables of the manager keep their types in every reachable state; in
\* particular every job is suspended on a slot the daemon may use, never on
\* slot 1 (managedSlots), and no ref-count is negative.
THEOREM TypeCorrect == Spec => []TypeOK
  BY Invariance, PTL DEF IInv

\* Whatever the interleaving of bookings, timers, radio answers, re-interviews
\* and retirement, freeSlot never hands a slot to a second code while the first
\* one has it.
THEOREM NoSharedSlot == Spec => []SlotsDistinct
  BY Invariance, PTL DEF IInv

-----------------------------------------------------------------------------
(* What each function does to the manager's state, part by part.           *)

\* allocateCodeSlot gave code c the entry and issued its write.
Taken(m, n, j, c, entry) ==
  /\ entry \in [slotNo : ManagedSlots, count : Nat]
  /\ Holds(m, c) => /\ entry.slotNo = m.slots[c].slotNo
                    /\ entry.count = m.slots[c].count + 1
  /\ ~Holds(m, c) => entry.slotNo \in Free(m) /\ entry.count = 1
  /\ n.slots = [m.slots EXCEPT ![c] = entry]
  /\ n.job = [m.job EXCEPT ![j] = [at |-> "writing", code |-> c,
                                   slotNo |-> entry.slotNo, attempt |-> 1]]
  /\ n.queue = Append(m.queue, j)
  /\ n.mishaps = m.mishaps

\* It found no free slot.
RefusedOne(m, n, c) ==
  /\ ~Holds(m, c) /\ Free(m) = {}
  /\ n.slots = m.slots /\ n.job = m.job /\ n.queue = m.queue
  /\ "refused" \in n.mishaps /\ m.mishaps \subseteq n.mishaps

\* freeCodeSlot: the code had no slot, or is used by another interval, or its
\* clear is issued.
Nothing(m, n) ==
  n.slots = m.slots /\ n.job = m.job /\ n.queue = m.queue /\ n.mishaps = m.mishaps

Counted(m, n, c) ==
  /\ Holds(m, c) /\ m.slots[c].count > 1
  /\ n.slots = [m.slots EXCEPT ![c] = [slotNo |-> m.slots[c].slotNo,
                                       count |-> m.slots[c].count - 1]]
  /\ n.job = m.job /\ n.queue = m.queue /\ n.mishaps = m.mishaps

Cleared(m, n, j, c) ==
  /\ Holds(m, c) /\ ~(m.slots[c].count > 1)
  /\ n.slots = [m.slots EXCEPT ![c] = Absent]
  /\ n.job = [m.job EXCEPT ![j] = [at |-> "clearing", code |-> c,
                                   slotNo |-> m.slots[c].slotNo]]
  /\ n.queue = Append(m.queue, j)
  /\ n.mishaps = IF WritingCode(m, c) THEN m.mishaps \cup {"overtaken"} ELSE m.mishaps

LEMMA IssueEffect ==
  ASSUME NEW m, ManagerOK(m), NEW j \in Jobs, NEW state
  PROVE  /\ Issue(m, j, state).slots = m.slots
         /\ Issue(m, j, state).job = [m.job EXCEPT ![j] = state]
         /\ Issue(m, j, state).queue = Append(m.queue, j)
         /\ Issue(m, j, state).mishaps = m.mishaps
  BY DEF Issue, ManagerOK, ManagerType

LEMMA TakeEffect ==
  ASSUME NEW m, ManagerOK(m), NEW j \in Jobs, NEW c \in Codes,
         NEW entry \in [slotNo : ManagedSlots, count : Nat],
         \A d \in Codes \ {c} : m.slots[d].slotNo # entry.slotNo,
         NEW state, NEW n, n = Issue([m EXCEPT !.slots[c] = entry], j, state)
  PROVE  /\ n.slots = [m.slots EXCEPT ![c] = entry]
         /\ n.job = [m.job EXCEPT ![j] = state]
         /\ n.queue = Append(m.queue, j)
         /\ n.mishaps = m.mishaps
  <1> DEFINE g == [m EXCEPT !.slots[c] = entry]
  <1>1. ManagerOK(g)
    BY TakeOK
  <1>2. /\ g.slots = [m.slots EXCEPT ![c] = entry] /\ g.job = m.job
        /\ g.queue = m.queue /\ g.mishaps = m.mishaps
    BY DEF ManagerOK, ManagerType
  <1>3. n = Issue(g, j, state)
    OBVIOUS
  <1> HIDE DEF g
  <1>4. /\ Issue(g, j, state).slots = g.slots
        /\ Issue(g, j, state).job = [g.job EXCEPT ![j] = state]
        /\ Issue(g, j, state).queue = Append(g.queue, j)
        /\ Issue(g, j, state).mishaps = g.mishaps
    BY <1>1, IssueEffect, Zenon
  <1> QED
    BY <1>2, <1>3, <1>4, Zenon

LEMMA AllocateEffect ==
  ASSUME NEW m, ManagerOK(m), NEW j \in Jobs, NEW c \in Codes
  PROVE  \/ RefusedOne(m, AllocateCodeSlot(m, j, c), c)
         \/ \E entry : Taken(m, AllocateCodeSlot(m, j, c), j, c, entry)
  <1> DEFINE writing(entry) == [at |-> "writing", code |-> c, slotNo |-> entry.slotNo,
                                attempt |-> 1]
             take(entry) == Issue([m EXCEPT !.slots[c] = entry], j, writing(entry))
  <1>1. ASSUME NEW entry \in [slotNo : ManagedSlots, count : Nat],
               \A d \in Codes \ {c} : m.slots[d].slotNo # entry.slotNo
        PROVE  /\ take(entry).slots = [m.slots EXCEPT ![c] = entry]
               /\ take(entry).job = [m.job EXCEPT ![j] = writing(entry)]
               /\ take(entry).queue = Append(m.queue, j)
               /\ take(entry).mishaps = m.mishaps
    <2> DEFINE n == take(entry)
               state == writing(entry)
    <2>1. n = Issue([m EXCEPT !.slots[c] = entry], j, state)
      OBVIOUS
    <2> HIDE DEF n, state
    <2>2. /\ n.slots = [m.slots EXCEPT ![c] = entry] /\ n.job = [m.job EXCEPT ![j] = state]
          /\ n.queue = Append(m.queue, j) /\ n.mishaps = m.mishaps
      BY <1>1, <2>1, TakeEffect
    <2> QED
      BY <2>2 DEF n, state
  <1>2. CASE Holds(m, c)
    <2> DEFINE entry == [m.slots[c] EXCEPT !.count = @ + 1]
    <2>1. /\ entry \in [slotNo : ManagedSlots, count : Nat]
          /\ entry.slotNo = m.slots[c].slotNo /\ entry.count = m.slots[c].count + 1
      BY <1>2 DEF Holds, ManagerOK, ManagerType
    <2>2. AllocateCodeSlot(m, j, c) = take(entry)
      BY <1>2 DEF AllocateCodeSlot
    <2> HIDE DEF entry
    <2>3. \A d \in Codes \ {c} : m.slots[d].slotNo # entry.slotNo
      BY <1>2, <2>1 DEF Holds, ManagerOK, ManagerType
    <2>4. Taken(m, take(entry), j, c, entry)
      <3>1. /\ take(entry).slots = [m.slots EXCEPT ![c] = entry]
            /\ take(entry).job = [m.job EXCEPT ![j] = writing(entry)]
            /\ take(entry).queue = Append(m.queue, j)
            /\ take(entry).mishaps = m.mishaps
        BY <1>1, <2>1, <2>3
      <3> HIDE DEF take
      <3> QED
        BY <1>2, <2>1, <3>1 DEF Taken
    <2> QED
      BY <2>2, <2>4
  <1>3. CASE ~Holds(m, c) /\ Free(m) # {}
    <2> DEFINE entry == [slotNo |-> FreeSlot(m), count |-> 1]
    <2>1. /\ FreeSlot(m) \in Free(m)
          /\ entry \in [slotNo : ManagedSlots, count : Nat]
          /\ entry.slotNo = FreeSlot(m) /\ entry.count = 1
      BY <1>3, FreeSlotIsFree DEF Free
    <2>2. AllocateCodeSlot(m, j, c) = take(entry)
      BY <1>3 DEF AllocateCodeSlot
    <2> HIDE DEF entry
    <2>3. \A d \in Codes \ {c} : m.slots[d].slotNo # entry.slotNo
      BY <2>1 DEF Free
    <2>4. Taken(m, take(entry), j, c, entry)
      <3>1. /\ take(entry).slots = [m.slots EXCEPT ![c] = entry]
            /\ take(entry).job = [m.job EXCEPT ![j] = writing(entry)]
            /\ take(entry).queue = Append(m.queue, j)
            /\ take(entry).mishaps = m.mishaps
        BY <1>1, <2>1, <2>3
      <3> HIDE DEF take
      <3> QED
        BY <1>3, <2>1, <3>1 DEF Taken
    <2> QED
      BY <2>2, <2>4
  <1>4. CASE ~Holds(m, c) /\ Free(m) = {}
    <2>1. AllocateCodeSlot(m, j, c) = [m EXCEPT !.mishaps = @ \cup {"refused"}]
      BY <1>4 DEF AllocateCodeSlot
    <2>2. RefusedOne(m, [m EXCEPT !.mishaps = @ \cup {"refused"}], c)
      BY <1>4 DEF RefusedOne, ManagerOK, ManagerType
    <2> QED
      BY <2>1, <2>2
  <1> QED
    BY <1>2, <1>3, <1>4

LEMMA FreeEffect ==
  ASSUME NEW m, ManagerOK(m), NEW j \in Jobs, NEW c \in Codes
  PROVE  LET n == FreeCodeSlot(m, j, c)
         IN \/ ~Holds(m, c) /\ Nothing(m, n)
            \/ Counted(m, n, c)
            \/ Cleared(m, n, j, c)
  <1>1. CASE ~Holds(m, c)
    BY <1>1 DEF FreeCodeSlot, Nothing
  <1>2. CASE Holds(m, c) /\ m.slots[c].count > 1
    <2> DEFINE n == [m EXCEPT !.slots[c].count = @ - 1]
    <2>1. FreeCodeSlot(m, j, c) = n
      BY <1>2 DEF FreeCodeSlot
    <2>2. [m.slots[c] EXCEPT !.count = @ - 1]
            = [slotNo |-> m.slots[c].slotNo, count |-> m.slots[c].count - 1]
      BY DEF ManagerOK, ManagerType
    <2>3. /\ n.slots = [m.slots EXCEPT ![c] = [m.slots[c] EXCEPT !.count = @ - 1]]
          /\ n.job = m.job /\ n.queue = m.queue /\ n.mishaps = m.mishaps
      BY DEF ManagerOK, ManagerType
    <2> HIDE DEF n
    <2>4. Counted(m, n, c)
      BY <1>2, <2>2, <2>3 DEF Counted
    <2> QED
      BY <2>1, <2>4
  <1>3. CASE Holds(m, c) /\ ~(m.slots[c].count > 1)
    <2> DEFINE state == [at |-> "clearing", code |-> c, slotNo |-> m.slots[c].slotNo]
               gone == [m EXCEPT !.slots[c] = Absent,
                                 !.mishaps = IF WritingCode(m, c)
                                             THEN @ \cup {"overtaken"} ELSE @]
    <2>1. ManagerOK(gone)
      BY DEF ManagerOK, ManagerType, Absent, NoSlot
    <2>2. /\ gone.slots = [m.slots EXCEPT ![c] = Absent] /\ gone.job = m.job
          /\ gone.queue = m.queue
          /\ gone.mishaps = IF WritingCode(m, c) THEN m.mishaps \cup {"overtaken"}
                            ELSE m.mishaps
      BY DEF ManagerOK, ManagerType
    <2>3. FreeCodeSlot(m, j, c) = Issue(gone, j, state)
      BY <1>3 DEF FreeCodeSlot
    <2> HIDE DEF gone
    <2>4. Cleared(m, Issue(gone, j, state), j, c)
      BY <1>3, <2>1, <2>2, IssueEffect DEF Cleared
    <2> QED
      BY <2>3, <2>4
  <1> QED
    BY <1>1, <1>2, <1>3

-----------------------------------------------------------------------------
(* What the return of a radio command does.                                *)

\* The call that was suspended runs to its next command, or to its end.
Advanced(j, state) ==
  job' = [job EXCEPT ![j] = state] /\ sendQueue' = Append(Tail(sendQueue), j)

Finished(j) ==
  job' = [job EXCEPT ![j] = Idle] /\ sendQueue' = Tail(sendQueue)

Returning(j, at) ==
  j \in Jobs /\ sendQueue # <<>> /\ Head(sendQueue) = j /\ job[j].at = at

LEMMA AnsweredEffect ==
  ASSUME IInv, sendQueue # <<>>, NEW wrong, NEW m, m = Lost(Answered(Manager), wrong)
  PROVE  /\ ManagerOK(m)
         /\ m.slots = codeToSlot /\ m.job = job /\ m.queue = Tail(sendQueue)
         /\ mishaps \subseteq m.mishaps
         /\ wrong => "lost" \in m.mishaps
         /\ ~wrong => m.mishaps = mishaps
  <1> DEFINE a == Answered(Manager)
  <1>1. ManagerOK(Manager) /\ Manager.queue # <<>>
    BY ManagerIsOK DEF Manager
  <1>2. ManagerOK(a)
    BY <1>1, AnsweredOK
  <1>3. ManagerOK(m)
    BY <1>2, LostOK
  <1>4. /\ a.slots = codeToSlot /\ a.job = job /\ a.queue = Tail(sendQueue)
        /\ a.mishaps = mishaps
    BY DEF Answered, Manager
  <1>5. m = Lost(a, wrong)
    OBVIOUS
  <1> HIDE DEF a
  <1>6. CASE wrong
    <2>1. m = [a EXCEPT !.mishaps = @ \cup {"lost"}]
      BY <1>5, <1>6 DEF Lost
    <2>2. /\ m.slots = a.slots /\ m.job = a.job /\ m.queue = a.queue
          /\ m.mishaps = a.mishaps \cup {"lost"}
      BY <1>2, <2>1 DEF ManagerOK, ManagerType
    <2> QED
      BY <1>3, <1>4, <1>6, <2>2
  <1>7. CASE ~wrong
    <2>1. m = a
      BY <1>5, <1>7 DEF Lost
    <2> QED
      BY <1>3, <1>4, <1>7, <2>1
  <1> QED
    BY <1>6, <1>7

LEMMA BecomesIssue ==
  ASSUME IInv, NEW j \in Jobs, NEW state, NEW m, ManagerOK(m),
         m.slots = codeToSlot, m.job = job, m.queue = Tail(sendQueue),
         Becomes(Issue(m, j, state))
  PROVE  UNCHANGED codeToSlot /\ mishaps' = m.mishaps /\ Advanced(j, state)
  <1> DEFINE g == Issue(m, j, state)
  <1>1. ManagerOK(m)
    OBVIOUS
  <1>2. Becomes(g)
    OBVIOUS
  <1>3. /\ Issue(m, j, state).slots = m.slots
        /\ Issue(m, j, state).job = [m.job EXCEPT ![j] = state]
        /\ Issue(m, j, state).queue = Append(m.queue, j)
        /\ Issue(m, j, state).mishaps = m.mishaps
    BY <1>1, IssueEffect, Zenon
  <1>4. /\ g.slots = m.slots /\ g.job = [m.job EXCEPT ![j] = state]
        /\ g.queue = Append(m.queue, j) /\ g.mishaps = m.mishaps
    BY <1>3
  <1> HIDE DEF g
  <1> QED
    BY <1>2, <1>4 DEF Becomes, Advanced

LEMMA BecomesIdle ==
  ASSUME IInv, NEW j \in Jobs, NEW m, ManagerOK(m),
         m.slots = codeToSlot, m.job = job, m.queue = Tail(sendQueue),
         Becomes([m EXCEPT !.job[j] = Idle])
  PROVE  UNCHANGED codeToSlot /\ mishaps' = m.mishaps /\ Finished(j)
  <1> DEFINE g == [m EXCEPT !.job[j] = Idle]
  <1>1. /\ g.slots = m.slots /\ g.job = [m.job EXCEPT ![j] = Idle]
        /\ g.queue = m.queue /\ g.mishaps = m.mishaps
    BY DEF ManagerOK, ManagerType
  <1>2. Becomes(g)
    OBVIOUS
  <1> HIDE DEF g
  <1> QED
    BY <1>1, <1>2 DEF Becomes, Finished

LEMMA WriteReturnsEffect ==
  ASSUME IInv, NEW j, WriteReturns(j)
  PROVE  /\ Returning(j, "writing")
         /\ UNCHANGED codeToSlot /\ mishaps \subseteq mishaps'
         /\ Finished(j) \/ Advanced(j, [job[j] EXCEPT !.at = "readingBack"])
         /\ \/ "lost" \in mishaps'
            \/ /\ Advanced(j, [job[j] EXCEPT !.at = "readingBack"])
               /\ lockHolds' = [lockHolds EXCEPT ![job[j].slotNo] = job[j].code]
  <1>1. Returning(j, "writing")
    BY DEF WriteReturns, Sending, Returning
  <1>2. PICK landed \in BOOLEAN, ok \in BOOLEAN :
          /\ lockHolds' = IF landed THEN [lockHolds EXCEPT ![job[j].slotNo] = job[j].code]
                          ELSE lockHolds
          /\ Becomes(IF ok
               THEN Issue(Lost(Answered(Manager), ~(landed /\ ok)), j,
                          [job[j] EXCEPT !.at = "readingBack"])
               ELSE [Lost(Answered(Manager), ~(landed /\ ok)) EXCEPT !.job[j] = Idle])
    BY DEF WriteReturns
  <1> DEFINE m == Lost(Answered(Manager), ~(landed /\ ok))
             state == [job[j] EXCEPT !.at = "readingBack"]
  <1>3. /\ ManagerOK(m)
        /\ m.slots = codeToSlot /\ m.job = job /\ m.queue = Tail(sendQueue)
        /\ mishaps \subseteq m.mishaps
        /\ ~(landed /\ ok) => "lost" \in m.mishaps
    BY <1>1, AnsweredEffect DEF Returning
  <1>4. Becomes(IF ok THEN Issue(m, j, state) ELSE [m EXCEPT !.job[j] = Idle])
    BY <1>2
  <1> HIDE DEF m, state
  <1>5. CASE ok
    <2>1. Becomes(Issue(m, j, state))
      BY <1>4, <1>5
    <2>2. UNCHANGED codeToSlot /\ mishaps' = m.mishaps /\ Advanced(j, state)
      BY <1>1, <1>3, <2>1, BecomesIssue DEF Returning
    <2> QED
      BY <1>1, <1>2, <1>3, <1>5, <2>2 DEF state
  <1>6. CASE ~ok
    <2>1. Becomes([m EXCEPT !.job[j] = Idle])
      BY <1>4, <1>6
    <2>2. UNCHANGED codeToSlot /\ mishaps' = m.mishaps /\ Finished(j)
      BY <1>1, <1>3, <2>1, BecomesIdle DEF Returning
    <2> QED
      BY <1>1, <1>3, <1>6, <2>2
  <1> QED
    BY <1>5, <1>6

LEMMA ReadBackReturnsEffect ==
  ASSUME IInv, NEW j, ReadBackReturns(j)
  PROVE  LET confirmed == ConfirmsCode(job[j].slotNo, job[j].code)
             again     == [job[j] EXCEPT !.at = "writing", !.attempt = 2]
         IN /\ Returning(j, "readingBack")
            /\ UNCHANGED codeToSlot /\ mishaps \subseteq mishaps'
            /\ Finished(j) \/ Advanced(j, again)
            /\ \/ "lost" \in mishaps'
               \/ IF Retry(j, confirmed) THEN Advanced(j, again) /\ UNCHANGED incident
                  ELSE Finished(j) /\ Record(confirmed)
  <1> DEFINE again == [job[j] EXCEPT !.at = "writing", !.attempt = 2]
             confirmed == ConfirmsCode(job[j].slotNo, job[j].code)
  <1>1. Returning(j, "readingBack")
    BY DEF ReadBackReturns, Sending, Returning
  <1>2. PICK silent \in BOOLEAN :
          /\ Becomes(IF Retry(j, ~silent /\ confirmed)
                     THEN Issue(Lost(Answered(Manager), silent), j, again)
                     ELSE [Lost(Answered(Manager), silent) EXCEPT !.job[j] = Idle])
          /\ IF Retry(j, ~silent /\ confirmed) THEN UNCHANGED incident
             ELSE Record(~silent /\ confirmed)
    BY DEF ReadBackReturns
  <1> DEFINE m == Lost(Answered(Manager), silent)
             retry == Retry(j, ~silent /\ confirmed)
  <1>3. /\ ManagerOK(m)
        /\ m.slots = codeToSlot /\ m.job = job /\ m.queue = Tail(sendQueue)
        /\ mishaps \subseteq m.mishaps
        /\ silent => "lost" \in m.mishaps
    BY <1>1, AnsweredEffect DEF Returning
  <1>4. /\ Becomes(IF retry THEN Issue(m, j, again) ELSE [m EXCEPT !.job[j] = Idle])
        /\ IF retry THEN UNCHANGED incident ELSE Record(~silent /\ confirmed)
    BY <1>2
  <1>5. ~silent => /\ retry <=> Retry(j, confirmed)
                   /\ Record(~silent /\ confirmed) => Record(confirmed)
    BY DEF Retry, Record
  <1> HIDE DEF m, again, confirmed, retry
  <1>6. CASE retry
    <2>1. Becomes(Issue(m, j, again))
      BY <1>4, <1>6
    <2>2. UNCHANGED codeToSlot /\ mishaps' = m.mishaps /\ Advanced(j, again)
      BY <1>1, <1>3, <2>1, BecomesIssue DEF Returning
    <2> QED
      BY <1>1, <1>3, <1>4, <1>5, <1>6, <2>2 DEF again, confirmed
  <1>7. CASE ~retry
    <2>1. Becomes([m EXCEPT !.job[j] = Idle])
      BY <1>4, <1>7
    <2>2. UNCHANGED codeToSlot /\ mishaps' = m.mishaps /\ Finished(j)
      BY <1>1, <1>3, <2>1, BecomesIdle DEF Returning
    <2> QED
      BY <1>1, <1>3, <1>4, <1>5, <1>7, <2>2 DEF again, confirmed
  <1> QED
    BY <1>6, <1>7

LEMMA ClearReturnsEffect ==
  ASSUME IInv, NEW j, ClearReturns(j)
  PROVE  /\ Returning(j, "clearing")
         /\ UNCHANGED codeToSlot /\ mishaps \subseteq mishaps'
         /\ Finished(j) \/ Advanced(j, [job[j] EXCEPT !.at = "readingClear"])
         /\ \/ "lost" \in mishaps'
            \/ /\ Advanced(j, [job[j] EXCEPT !.at = "readingClear"])
               /\ lockHolds' = [lockHolds EXCEPT ![job[j].slotNo] = NoCode]
  <1>1. Returning(j, "clearing")
    BY DEF ClearReturns, Sending, Returning
  <1>2. PICK landed \in BOOLEAN, ok \in BOOLEAN :
          /\ lockHolds' = IF landed THEN [lockHolds EXCEPT ![job[j].slotNo] = NoCode]
                          ELSE lockHolds
          /\ Becomes(IF ok
               THEN Issue(Lost(Answered(Manager), ~(landed /\ ok)), j,
                          [job[j] EXCEPT !.at = "readingClear"])
               ELSE [Lost(Answered(Manager), ~(landed /\ ok)) EXCEPT !.job[j] = Idle])
    BY DEF ClearReturns
  <1> DEFINE m == Lost(Answered(Manager), ~(landed /\ ok))
             state == [job[j] EXCEPT !.at = "readingClear"]
  <1>3. /\ ManagerOK(m)
        /\ m.slots = codeToSlot /\ m.job = job /\ m.queue = Tail(sendQueue)
        /\ mishaps \subseteq m.mishaps
        /\ ~(landed /\ ok) => "lost" \in m.mishaps
    BY <1>1, AnsweredEffect DEF Returning
  <1>4. Becomes(IF ok THEN Issue(m, j, state) ELSE [m EXCEPT !.job[j] = Idle])
    BY <1>2
  <1> HIDE DEF m, state
  <1>5. CASE ok
    <2>1. Becomes(Issue(m, j, state))
      BY <1>4, <1>5
    <2>2. UNCHANGED codeToSlot /\ mishaps' = m.mishaps /\ Advanced(j, state)
      BY <1>1, <1>3, <2>1, BecomesIssue DEF Returning
    <2> QED
      BY <1>1, <1>2, <1>3, <1>5, <2>2 DEF state
  <1>6. CASE ~ok
    <2>1. Becomes([m EXCEPT !.job[j] = Idle])
      BY <1>4, <1>6
    <2>2. UNCHANGED codeToSlot /\ mishaps' = m.mishaps /\ Finished(j)
      BY <1>1, <1>3, <2>1, BecomesIdle DEF Returning
    <2> QED
      BY <1>1, <1>3, <1>6, <2>2
  <1> QED
    BY <1>5, <1>6

LEMMA ReadClearReturnsEffect ==
  ASSUME IInv, NEW j, ReadClearReturns(j)
  PROVE  /\ Returning(j, "readingClear")
         /\ UNCHANGED codeToSlot /\ mishaps \subseteq mishaps'
         /\ Finished(j)
         /\ "lost" \in mishaps' \/ incident' = (lockHolds[job[j].slotNo] # NoCode)
  <1>1. Returning(j, "readingClear")
    BY DEF ReadClearReturns, Sending, Returning
  <1>2. PICK silent \in BOOLEAN :
          /\ Becomes([Lost(Answered(Manager), silent) EXCEPT !.job[j] = Idle])
          /\ Record(~silent /\ lockHolds[job[j].slotNo] = NoCode)
    BY DEF ReadClearReturns
  <1> DEFINE m == Lost(Answered(Manager), silent)
  <1>3. /\ ManagerOK(m)
        /\ m.slots = codeToSlot /\ m.job = job /\ m.queue = Tail(sendQueue)
        /\ mishaps \subseteq m.mishaps
        /\ silent => "lost" \in m.mishaps
    BY <1>1, AnsweredEffect DEF Returning
  <1>4. Becomes([m EXCEPT !.job[j] = Idle])
    BY <1>2
  <1> HIDE DEF m
  <1>5. UNCHANGED codeToSlot /\ mishaps' = m.mishaps /\ Finished(j)
    BY <1>1, <1>3, <1>4, BecomesIdle DEF Returning
  <1> QED
    BY <1>1, <1>2, <1>3, <1>5 DEF Record

\* No return of a command touches the map, the bookings or their timers.
LEMMA RadioKeeps ==
  ASSUME IInv, Radio
  PROVE  /\ UNCHANGED <<now, tree, startEvent, stopEvent, codeToSlot, slotsKnown, retired>>
         /\ mishaps \subseteq mishaps'
         /\ UNCHANGED <<heal, toReapply>> \/ (heal' = "idle" /\ toReapply' = {})
  <1>1. PICK j \in Jobs : \/ WriteReturns(j) \/ ReadBackReturns(j)
                          \/ ClearReturns(j) \/ ReadClearReturns(j)
    BY DEF Radio
  <1>2. UNCHANGED codeToSlot /\ mishaps \subseteq mishaps'
    BY <1>1, WriteReturnsEffect, ReadBackReturnsEffect, ClearReturnsEffect,
       ReadClearReturnsEffect
  <1>3. /\ UNCHANGED <<now, tree, startEvent, stopEvent, slotsKnown, retired>>
        /\ UNCHANGED <<heal, toReapply>> \/ (heal' = "idle" /\ toReapply' = {})
    <2>1. CASE WriteReturns(j)
      BY <2>1 DEF WriteReturns
    <2>2. CASE ReadBackReturns(j)
      BY <2>2 DEF ReadBackReturns
    <2>3. CASE ClearReturns(j)
      BY <2>3 DEF ClearReturns
    <2>4. CASE ReadClearReturns(j)
      BY <2>4 DEF ReadClearReturns
    <2> QED
      BY <1>1, <2>1, <2>2, <2>3, <2>4
  <1> QED
    BY <1>2, <1>3

-----------------------------------------------------------------------------
(* The timers of an interval, and the slots in use.                        *)

\* An interval's stop task is armed only after its start task, and fires only
\* after it; a retired manager has no task armed.
TimersOK ==
  \A i \in Intervals :
    /\ startEvent[i] = "armed" => stopEvent[i] = "armed" /\ now <= Low[i]
    /\ stopEvent[i] = "armed" =>
         startEvent[i] \in {"armed", "occurred"} /\ i \in tree /\ ~retired

\* A code has a slot as long as it is counted.
LinkedM(m) == \A c \in Codes : Holds(m, c) <=> m.slots[c].count > 0

Linked == LinkedM(Manager)

LEMMA AllocateCounts ==
  ASSUME NEW m, ManagerOK(m), LinkedM(m), NEW j \in Jobs, NEW c \in Codes,
         NEW n, n = AllocateCodeSlot(m, j, c)
  PROVE  /\ ManagerOK(n) /\ LinkedM(n)
         /\ m.mishaps \subseteq n.mishaps
         /\ \A d \in Codes \ {c} : n.slots[d] = m.slots[d]
         /\ Holds(m, c) \/ Free(m) # {} => Holds(n, c)
         /\ Holds(m, c) => n.slots[c].slotNo = m.slots[c].slotNo
         /\ n.slots[c].count = m.slots[c].count + 1 \/ "refused" \in n.mishaps
  <1>1. ManagerOK(n)
    BY AllocateOK
  <1>2. m.slots \in [Codes -> [slotNo : ManagedSlots \cup {NoSlot}, count : Nat]]
    BY DEF ManagerOK, ManagerType
  <1>3. CASE RefusedOne(m, n, c)
    BY <1>1, <1>3 DEF RefusedOne, LinkedM, Holds
  <1>4. ASSUME NEW entry, Taken(m, n, j, c, entry)
        PROVE  /\ LinkedM(n)
               /\ m.mishaps \subseteq n.mishaps
               /\ \A d \in Codes \ {c} : n.slots[d] = m.slots[d]
               /\ Holds(n, c)
               /\ Holds(m, c) => n.slots[c].slotNo = m.slots[c].slotNo
               /\ n.slots[c].count = m.slots[c].count + 1
    <2>1. /\ entry.slotNo \in ManagedSlots /\ entry.count \in Nat
          /\ n.slots = [m.slots EXCEPT ![c] = entry] /\ n.mishaps = m.mishaps
          /\ Holds(m, c) => entry.count = m.slots[c].count + 1
          /\ Holds(m, c) => entry.slotNo = m.slots[c].slotNo
          /\ ~Holds(m, c) => entry.count = 1
      BY <1>4 DEF Taken
    <2>2. n.slots[c] = entry /\ \A d \in Codes \ {c} : n.slots[d] = m.slots[d]
      BY <1>2, <2>1
    <2>3. entry.slotNo # NoSlot
      BY <2>1, ManagedSlotsNat
    <2>4. m.slots[c].count \in Nat /\ (~Holds(m, c) => m.slots[c].count = 0)
      BY <1>2 DEF LinkedM
    <2>5. entry.count = m.slots[c].count + 1
      BY <2>1, <2>4
    <2>6. \A d \in Codes : Holds(n, d) <=> n.slots[d].count > 0
      BY <2>2, <2>3, <2>4, <2>5 DEF LinkedM, Holds
    <2> QED
      BY <2>1, <2>2, <2>3, <2>5, <2>6 DEF LinkedM, Holds
  <1>5. RefusedOne(m, n, c) \/ \E entry : Taken(m, n, j, c, entry)
    BY AllocateEffect
  <1> QED
    BY <1>1, <1>3, <1>4, <1>5

LEMMA FreeCounts ==
  ASSUME NEW m, ManagerOK(m), LinkedM(m), NEW j \in Jobs, NEW c \in Codes,
         NEW n, n = FreeCodeSlot(m, j, c)
  PROVE  /\ ManagerOK(n) /\ LinkedM(n)
         /\ m.mishaps \subseteq n.mishaps
         /\ \A d \in Codes \ {c} : n.slots[d] = m.slots[d]
         /\ m.slots[c].count > 0 => n.slots[c].count = m.slots[c].count - 1
  <1>1. ManagerOK(n)
    BY FreeOK
  <1>2. m.slots \in [Codes -> [slotNo : ManagedSlots \cup {NoSlot}, count : Nat]]
    BY DEF ManagerOK, ManagerType
  <1>3. m.slots[c].count \in Nat /\ (Holds(m, c) <=> m.slots[c].count > 0)
    BY <1>2 DEF LinkedM
  <1>4. CASE ~Holds(m, c) /\ Nothing(m, n)
    BY <1>1, <1>3, <1>4 DEF Nothing, LinkedM, Holds
  <1>5. CASE Counted(m, n, c)
    <2> DEFINE entry == [slotNo |-> m.slots[c].slotNo, count |-> m.slots[c].count - 1]
    <2>1. n.slots = [m.slots EXCEPT ![c] = entry] /\ n.mishaps = m.mishaps
      BY <1>5 DEF Counted
    <2>2. entry.slotNo = m.slots[c].slotNo /\ entry.count = m.slots[c].count - 1
      OBVIOUS
    <2> HIDE DEF entry
    <2>3. n.slots[c] = entry /\ \A d \in Codes \ {c} : n.slots[d] = m.slots[d]
      BY <1>2, <2>1
    <2>4. Holds(n, c) /\ entry.count > 0
      BY <1>3, <1>5, <2>2, <2>3 DEF Counted, Holds
    <2>5. \A d \in Codes : Holds(n, d) <=> n.slots[d].count > 0
      BY <2>3, <2>4 DEF LinkedM, Holds
    <2> QED
      BY <1>1, <2>1, <2>2, <2>3, <2>5 DEF LinkedM
  <1>6. CASE Cleared(m, n, j, c)
    <2>1. n.slots = [m.slots EXCEPT ![c] = Absent] /\ m.mishaps \subseteq n.mishaps
      BY <1>6 DEF Cleared
    <2>2. n.slots[c] = Absent /\ \A d \in Codes \ {c} : n.slots[d] = m.slots[d]
      BY <1>2, <2>1
    <2>3. Absent.slotNo = NoSlot /\ Absent.count = 0
      BY DEF Absent
    <2>4. m.slots[c].count = 1
      BY <1>3, <1>6 DEF Cleared
    <2>5. \A d \in Codes : Holds(n, d) <=> n.slots[d].count > 0
      BY <2>2, <2>3 DEF LinkedM, Holds
    <2> QED
      BY <1>1, <2>1, <2>2, <2>3, <2>4, <2>5 DEF LinkedM
  <1>7. \/ ~Holds(m, c) /\ Nothing(m, n)
        \/ Counted(m, n, c)
        \/ Cleared(m, n, j, c)
    BY FreeEffect
  <1> QED
    BY <1>4, <1>5, <1>6, <1>7

\* The same of the two tasks of an interval, on a manager that is not retired.
LEMMA TaskCounts ==
  ASSUME ~retired, NEW m, ManagerOK(m), LinkedM(m), NEW i \in Intervals
  PROVE  /\ Started(m, i) = AllocateCodeSlot(m, <<"start", i>>, CodeOf[i])
         /\ Stopped(m, i) = FreeCodeSlot(m, <<"stop", i>>, CodeOf[i])
         /\ <<"start", i>> \in Jobs /\ <<"stop", i>> \in Jobs /\ CodeOf[i] \in Codes
  BY AccessAssumption DEF Started, Stopped, Jobs

LEMMA TimersInvariance ==
  ASSUME IInv, TimersOK, [Next]_vars
  PROVE  TimersOK'
  <1> USE DEF TimersOK
  <1>0. /\ startEvent \in [Intervals -> EventState] /\ stopEvent \in [Intervals -> EventState]
        /\ now \in Nat /\ Low \in [Intervals -> Nat] /\ High \in [Intervals -> Nat]
        /\ \A i \in Intervals : Low[i] < High[i]
    BY AccessAssumption DEF IInv, TypeOK
  <1>1. ASSUME NEW i \in Intervals, AddAccessInterval(i)
        PROVE  TimersOK'
    <2>1. /\ startEvent' = [startEvent EXCEPT ![i] = NewTask(Low[i])]
          /\ stopEvent' = [stopEvent EXCEPT ![i] = NewTask(High[i])]
          /\ tree' = tree \cup {i} /\ now' = now /\ ~retired /\ ~retired'
      BY <1>1 DEF AddAccessInterval
    <2> QED
      BY <1>0, <2>1 DEF NewTask
  <1>2. ASSUME NEW i \in Intervals, RemoveAccessInterval(i)
        PROVE  TimersOK'
    <2>1. tree' = tree \ {i} /\ now' = now /\ ~retired /\ ~retired'
      BY <1>2 DEF RemoveAccessInterval
    <2>2. CASE UnderWay(i)
      <3>1. stopEvent' = [stopEvent EXCEPT ![i] = "finishedEarly"] /\ startEvent' = startEvent
        BY <1>2, <2>2 DEF RemoveAccessInterval
      <3> QED
        BY <1>0, <2>1, <2>2, <3>1 DEF UnderWay
    <2>3. CASE ~UnderWay(i)
      <3>1. /\ startEvent' = [startEvent EXCEPT ![i] = IF @ = "armed" THEN "cancelled" ELSE @]
            /\ stopEvent' = [stopEvent EXCEPT ![i] = IF @ = "armed" THEN "cancelled" ELSE @]
        BY <1>2, <2>3 DEF RemoveAccessInterval
      <3> QED
        BY <1>0, <2>1, <3>1
    <2> QED
      BY <2>2, <2>3
  <1>3. ASSUME NEW i \in Intervals, StartTimer(i)
        PROVE  TimersOK'
    BY <1>0, <1>3 DEF StartTimer
  <1>4. ASSUME NEW i \in Intervals, StopTimer(i)
        PROVE  TimersOK'
    <2>1. startEvent[i] # "armed"
      BY <1>0, <1>4 DEF StopTimer
    <2> QED
      BY <1>0, <1>4, <2>1 DEF StopTimer
  <1>5. ASSUME Tick
        PROVE  TimersOK'
    <2>1. PICK t \in Instants : t > now /\ (\A u \in Instants : u > now => t <= u) /\ now' = t
      BY <1>5 DEF Tick
    <2>2. \A i \in Intervals : startEvent[i] = "armed" => ~(Low[i] <= now)
      BY <1>5 DEF Tick, Due
    <2>3. \A i \in Intervals : Low[i] \in Instants
      BY DEF Instants
    <2>4. UNCHANGED <<startEvent, stopEvent, tree, retired>>
      BY <1>5 DEF Tick
    <2>5. ASSUME NEW i \in Intervals, startEvent[i] = "armed"
          PROVE  now' <= Low[i]
      BY <1>0, <2>1, <2>2, <2>3, <2>5
    <2> QED
      BY <2>4, <2>5
  <1>6. ASSUME Retire
        PROVE  TimersOK'
    <2>1. /\ startEvent' = [i \in Intervals |-> IF i \in tree /\ startEvent[i] = "armed"
                                                THEN "cancelled" ELSE startEvent[i]]
          /\ stopEvent' = [i \in Intervals |-> IF i \in tree /\ stopEvent[i] = "armed"
                                               THEN "cancelled" ELSE stopEvent[i]]
      BY <1>6 DEF Retire
    <2> QED
      BY <1>0, <2>1
  <1>7. ASSUME Radio
        PROVE  TimersOK'
    BY <1>7, RadioKeeps
  <1>8. ASSUME Healing \/ UNCHANGED vars
        PROVE  TimersOK'
    BY <1>8 DEF Healing, HealBegins, InterviewEnds, ProbeReturns, ReapplyNext, HealEnds, vars
  <1> QED
    BY <1>1, <1>2, <1>3, <1>4, <1>5, <1>6, <1>7, <1>8 DEF Next, Timers

LEMMA LinkedInvariance ==
  ASSUME IInv, Linked, [Next]_vars
  PROVE  Linked'
  <1>1. ManagerOK(Manager) /\ LinkedM(Manager)
    BY ManagerIsOK DEF Linked
  <1>2. ASSUME NEW m, LinkedM(m), Becomes(m)
        PROVE  Linked'
    BY <1>2 DEF Linked, LinkedM, Becomes, Manager, Holds
  <1>3. ASSUME UNCHANGED codeToSlot
        PROVE  Linked'
    BY <1>3 DEF Linked, LinkedM, Manager, Holds
  <1>4. ASSUME NEW m, ManagerOK(m), LinkedM(m), NEW i \in Intervals
        PROVE  /\ ManagerOK(Started(m, i)) /\ LinkedM(Started(m, i))
               /\ LinkedM(Stopped(m, i))
    <2>1. CASE retired
      BY <1>4, <2>1 DEF Started, Stopped
    <2>2. CASE ~retired
      <3>1. /\ Started(m, i) = AllocateCodeSlot(m, <<"start", i>>, CodeOf[i])
            /\ Stopped(m, i) = FreeCodeSlot(m, <<"stop", i>>, CodeOf[i])
            /\ <<"start", i>> \in Jobs /\ <<"stop", i>> \in Jobs /\ CodeOf[i] \in Codes
        BY <1>4, <2>2, TaskCounts
      <3>2. ManagerOK(Started(m, i)) /\ LinkedM(Started(m, i))
        BY <1>4, <3>1, AllocateCounts
      <3>3. LinkedM(Stopped(m, i))
        BY <1>4, <3>1, FreeCounts
      <3> QED
        BY <3>2, <3>3
    <2> QED
      BY <2>1, <2>2
  <1>5. ASSUME NEW i \in Intervals, AddAccessInterval(i)
        PROVE  Linked'
    <2> DEFINE m == IF Low[i] <= now THEN Started(Manager, i) ELSE Manager
    <2>1. ManagerOK(m) /\ LinkedM(m)
      BY <1>1, <1>4
    <2>2. Becomes(IF High[i] <= now THEN Stopped(m, i) ELSE m)
      BY <1>5 DEF AddAccessInterval
    <2> HIDE DEF m
    <2>3. LinkedM(IF High[i] <= now THEN Stopped(m, i) ELSE m)
      BY <1>4, <2>1
    <2> QED
      BY <1>2, <2>2, <2>3
  <1>6. ASSUME NEW i \in Intervals, RemoveAccessInterval(i)
        PROVE  Linked'
    <2>1. Becomes(Stopped(Manager, i)) \/ UNCHANGED codeToSlot
      BY <1>6 DEF RemoveAccessInterval
    <2> QED
      BY <1>1, <1>2, <1>3, <1>4, <2>1
  <1>7. ASSUME NEW i \in Intervals, StartTimer(i) \/ StopTimer(i)
        PROVE  Linked'
    <2>1. Becomes(Started(Manager, i)) \/ Becomes(Stopped(Manager, i))
      BY <1>7 DEF StartTimer, StopTimer
    <2> QED
      BY <1>1, <1>2, <1>4, <2>1
  <1>8. ASSUME ReapplyNext
        PROVE  Linked'
    <2>1. PICK i \in toReapply : Becomes(AllocateCodeSlot(Manager, <<"reapply">>, CodeOf[i]))
      BY <1>8 DEF ReapplyNext
    <2>2. <<"reapply">> \in Jobs /\ CodeOf[i] \in Codes
      BY AccessAssumption DEF Jobs, IInv, TypeOK
    <2>3. LinkedM(AllocateCodeSlot(Manager, <<"reapply">>, CodeOf[i]))
      BY <1>1, <2>2, AllocateCounts
    <2> QED
      BY <1>2, <2>1, <2>3
  <1>9. ASSUME \/ Tick \/ Retire \/ HealBegins \/ InterviewEnds \/ ProbeReturns \/ HealEnds
               \/ UNCHANGED vars
        PROVE  Linked'
    BY <1>3, <1>9 DEF Tick, Retire, HealBegins, InterviewEnds, ProbeReturns, HealEnds, vars
  <1>10. ASSUME Radio
         PROVE  Linked'
    BY <1>3, <1>10, RadioKeeps
  <1> QED
    BY <1>5, <1>6, <1>7, <1>8, <1>9, <1>10 DEF Next, Timers, Healing

-----------------------------------------------------------------------------
(* The ref-count of a code is the number of its intervals under way.       *)

Users(c) == {i \in Intervals : UnderWay(i) /\ CodeOf[i] = c}

CountsExact ==
  \A c \in Codes : IsFiniteSet(Users(c)) /\ codeToSlot[c].count = Cardinality(Users(c))

\* Where no start was refused, heal finds nothing to reapply.
RefInv ==
  ~retired /\ "refused" \notin mishaps => toReapply = {} /\ CountsExact

LEMMA CountsSame ==
  ASSUME CountsExact, \A i \in Intervals : UnderWay(i)' <=> UnderWay(i),
         \A c \in Codes : codeToSlot'[c].count = codeToSlot[c].count
  PROVE  CountsExact'
  <1>1. \A c \in Codes : Users(c)' = Users(c)
    BY DEF Users
  <1> QED
    BY <1>1 DEF CountsExact

LEMMA CountsUp ==
  ASSUME CountsExact, NEW i \in Intervals, ~UnderWay(i), UnderWay(i)',
         \A k \in Intervals \ {i} : UnderWay(k)' <=> UnderWay(k),
         \A c \in Codes \ {CodeOf[i]} : codeToSlot'[c] = codeToSlot[c],
         codeToSlot'[CodeOf[i]].count = codeToSlot[CodeOf[i]].count + 1
  PROVE  CountsExact'
  <1> SUFFICES ASSUME NEW c \in Codes
               PROVE  IsFiniteSet(Users(c)') /\ codeToSlot'[c].count = Cardinality(Users(c)')
    BY DEF CountsExact
  <1>1. IsFiniteSet(Users(c)) /\ codeToSlot[c].count = Cardinality(Users(c))
    BY DEF CountsExact
  <1>2. CASE c = CodeOf[i]
    <2>1. Users(c)' = Users(c) \cup {i} /\ i \notin Users(c)
      BY <1>2 DEF Users
    <2>2. IsFiniteSet(Users(c) \cup {i}) /\ Cardinality(Users(c) \cup {i}) = Cardinality(Users(c)) + 1
      BY <1>1, <2>1, FS_AddElement
    <2> QED
      BY <1>1, <1>2, <2>1, <2>2
  <1>3. CASE c # CodeOf[i]
    <2>1. Users(c)' = Users(c)
      BY <1>3 DEF Users
    <2> QED
      BY <1>1, <1>3, <2>1
  <1> QED
    BY <1>2, <1>3

LEMMA CountsDown ==
  ASSUME CountsExact, NEW i \in Intervals, UnderWay(i), ~UnderWay(i)',
         \A k \in Intervals \ {i} : UnderWay(k)' <=> UnderWay(k),
         \A c \in Codes \ {CodeOf[i]} : codeToSlot'[c] = codeToSlot[c],
         codeToSlot'[CodeOf[i]].count = codeToSlot[CodeOf[i]].count - 1
  PROVE  CountsExact'
  <1> SUFFICES ASSUME NEW c \in Codes
               PROVE  IsFiniteSet(Users(c)') /\ codeToSlot'[c].count = Cardinality(Users(c)')
    BY DEF CountsExact
  <1>1. IsFiniteSet(Users(c)) /\ codeToSlot[c].count = Cardinality(Users(c))
    BY DEF CountsExact
  <1>2. CASE c = CodeOf[i]
    <2>1. Users(c)' = Users(c) \ {i} /\ i \in Users(c)
      BY <1>2 DEF Users
    <2>2. IsFiniteSet(Users(c) \ {i}) /\ Cardinality(Users(c) \ {i}) = Cardinality(Users(c)) - 1
      BY <1>1, <2>1, FS_RemoveElement
    <2> QED
      BY <1>1, <1>2, <2>1, <2>2
  <1>3. CASE c # CodeOf[i]
    <2>1. Users(c)' = Users(c)
      BY <1>3 DEF Users
    <2> QED
      BY <1>1, <1>3, <2>1
  <1> QED
    BY <1>2, <1>3

\* An interval under way has been counted, so its code has a slot.
LEMMA UserIsCounted ==
  ASSUME CountsExact, NEW i \in Intervals, UnderWay(i)
  PROVE  codeToSlot[CodeOf[i]].count \in Nat /\ codeToSlot[CodeOf[i]].count > 0
  <1>1. CodeOf[i] \in Codes /\ i \in Users(CodeOf[i])
    BY AccessAssumption DEF Users
  <1>2. IsFiniteSet(Users(CodeOf[i]))
    BY <1>1 DEF CountsExact
  <1>3. /\ Cardinality(Users(CodeOf[i])) \in Nat
        /\ Cardinality(Users(CodeOf[i])) # 0
    BY <1>1, <1>2, FS_CardinalityType, FS_EmptySet
  <1> QED
    BY <1>1, <1>3 DEF CountsExact

\* The two tasks of an interval, as steps of the manager.
LEMMA StartCounts ==
  ASSUME IInv, Linked, ~retired, NEW i \in Intervals, NEW m, m = Started(Manager, i)
  PROVE  /\ ManagerOK(m) /\ LinkedM(m)
         /\ mishaps \subseteq m.mishaps
         /\ \A c \in Codes \ {CodeOf[i]} : m.slots[c] = codeToSlot[c]
         /\ \/ m.slots[CodeOf[i]].count = codeToSlot[CodeOf[i]].count + 1
            \/ "refused" \in m.mishaps
  <1>1. ManagerOK(Manager) /\ LinkedM(Manager)
    BY ManagerIsOK DEF Linked
  <1>2. /\ m = AllocateCodeSlot(Manager, <<"start", i>>, CodeOf[i])
        /\ <<"start", i>> \in Jobs /\ CodeOf[i] \in Codes
    BY <1>1, TaskCounts
  <1>3. Manager.slots = codeToSlot /\ Manager.mishaps = mishaps
    BY DEF Manager
  <1> QED
    BY <1>1, <1>2, <1>3, AllocateCounts

LEMMA StopCounts ==
  ASSUME ~retired, NEW m, ManagerOK(m), LinkedM(m), NEW i \in Intervals,
         NEW n, n = Stopped(m, i)
  PROVE  /\ ManagerOK(n) /\ LinkedM(n)
         /\ m.mishaps \subseteq n.mishaps
         /\ \A c \in Codes \ {CodeOf[i]} : n.slots[c] = m.slots[c]
         /\ m.slots[CodeOf[i]].count > 0 =>
              n.slots[CodeOf[i]].count = m.slots[CodeOf[i]].count - 1
  <1>1. /\ n = FreeCodeSlot(m, <<"stop", i>>, CodeOf[i])
        /\ <<"stop", i>> \in Jobs /\ CodeOf[i] \in Codes
    BY TaskCounts
  <1> QED
    BY <1>1, FreeCounts

LEMMA CountsOfManager ==
  ASSUME IInv
  PROVE  /\ \A c \in Codes : codeToSlot[c].count \in Nat
         /\ Manager.slots = codeToSlot /\ Manager.mishaps = mishaps
  BY DEF IInv, TypeOK, Manager

LEMMA RefAdd ==
  ASSUME IInv, Linked, RefInv, NEW i \in Intervals, AddAccessInterval(i)
  PROVE  RefInv'
  <1> DEFINE m == IF Low[i] <= now THEN Started(Manager, i) ELSE Manager
             n == IF High[i] <= now THEN Stopped(m, i) ELSE m
  <1>1. /\ ~retired /\ ~retired' /\ toReapply' = toReapply /\ Becomes(n)
        /\ startEvent[i] = "unset"
        /\ startEvent' = [startEvent EXCEPT ![i] = NewTask(Low[i])]
        /\ stopEvent' = [stopEvent EXCEPT ![i] = NewTask(High[i])]
    BY DEF AddAccessInterval
  <1>2. /\ startEvent \in [Intervals -> EventState] /\ stopEvent \in [Intervals -> EventState]
        /\ now \in Nat /\ Low[i] \in Nat /\ High[i] \in Nat /\ Low[i] < High[i]
        /\ CodeOf[i] \in Codes
    BY AccessAssumption DEF IInv, TypeOK
  <1>3. ~UnderWay(i) /\ \A k \in Intervals \ {i} : UnderWay(k)' <=> UnderWay(k)
    BY <1>1, <1>2 DEF UnderWay
  <1>4. UnderWay(i)' <=> Low[i] <= now /\ ~(High[i] <= now)
    BY <1>1, <1>2 DEF UnderWay, NewTask
  <1>5. ManagerOK(Manager) /\ LinkedM(Manager)
    BY ManagerIsOK DEF Linked
  <1>6. mishaps' = n.mishaps /\ codeToSlot' = n.slots
    BY <1>1 DEF Becomes
  <1>7. CASE Low[i] <= now
    <2>1. m = Started(Manager, i)
      BY <1>7
    <2> HIDE DEF m
    <2>2. /\ ManagerOK(m) /\ LinkedM(m) /\ mishaps \subseteq m.mishaps
          /\ \A c \in Codes \ {CodeOf[i]} : m.slots[c] = codeToSlot[c]
          /\ \/ m.slots[CodeOf[i]].count = codeToSlot[CodeOf[i]].count + 1
             \/ "refused" \in m.mishaps
      BY <1>1, <2>1, StartCounts
    <2>3. CASE High[i] <= now
      <3>1. n = Stopped(m, i)
        BY <2>3
      <3> HIDE DEF n
      <3>2. /\ m.mishaps \subseteq n.mishaps
            /\ \A c \in Codes \ {CodeOf[i]} : n.slots[c] = m.slots[c]
            /\ m.slots[CodeOf[i]].count > 0 =>
                 n.slots[CodeOf[i]].count = m.slots[CodeOf[i]].count - 1
        BY <1>1, <2>2, <3>1, StopCounts
      <3>3. "refused" \notin mishaps' => \A c \in Codes : codeToSlot'[c].count = codeToSlot[c].count
        BY <1>2, <1>6, <2>2, <3>2, CountsOfManager
      <3>4. \A k \in Intervals : UnderWay(k)' <=> UnderWay(k)
        BY <1>3, <1>4, <2>3
      <3>5. mishaps \subseteq mishaps'
        BY <1>6, <2>2, <3>2
      <3> QED
        BY <1>1, <3>3, <3>4, <3>5, CountsSame DEF RefInv
    <2>4. CASE ~(High[i] <= now)
      <3>1. n = m
        BY <2>4
      <3> HIDE DEF n
      <3>2. UnderWay(i)' /\ mishaps \subseteq mishaps'
        BY <1>4, <1>6, <1>7, <2>2, <2>4, <3>1
      <3>3. /\ \A c \in Codes \ {CodeOf[i]} : codeToSlot'[c] = codeToSlot[c]
            /\ \/ codeToSlot'[CodeOf[i]].count = codeToSlot[CodeOf[i]].count + 1
               \/ "refused" \in mishaps'
        BY <1>6, <2>2, <3>1
      <3> QED
        BY <1>1, <1>3, <3>2, <3>3, CountsUp DEF RefInv
    <2> QED
      BY <2>3, <2>4
  <1>8. CASE ~(Low[i] <= now)
    <2>1. n = Manager
      BY <1>2, <1>8
    <2> HIDE DEF n
    <2>2. codeToSlot' = codeToSlot /\ mishaps' = mishaps
      BY <1>6, <2>1, CountsOfManager
    <2>3. \A k \in Intervals : UnderWay(k)' <=> UnderWay(k)
      BY <1>3, <1>4, <1>8
    <2> QED
      BY <1>1, <2>2, <2>3, CountsSame DEF RefInv
  <1> QED
    BY <1>7, <1>8

\* A step that ends an interval under way through its stop task.
LEMMA RefStop ==
  ASSUME IInv, Linked, RefInv, NEW i \in Intervals, UnderWay(i), ~UnderWay(i)',
         \A k \in Intervals \ {i} : UnderWay(k)' <=> UnderWay(k),
         Becomes(Stopped(Manager, i)), UNCHANGED <<retired, toReapply>>
  PROVE  RefInv'
  <1> SUFFICES ASSUME ~retired, "refused" \notin mishaps'
               PROVE  toReapply' = {} /\ CountsExact'
    BY DEF RefInv
  <1> DEFINE n == Stopped(Manager, i)
  <1>1. Becomes(n) /\ ManagerOK(Manager) /\ LinkedM(Manager)
    BY ManagerIsOK DEF Linked
  <1>2. /\ Manager.mishaps \subseteq n.mishaps
        /\ \A c \in Codes \ {CodeOf[i]} : n.slots[c] = Manager.slots[c]
        /\ Manager.slots[CodeOf[i]].count > 0 =>
             n.slots[CodeOf[i]].count = Manager.slots[CodeOf[i]].count - 1
    BY <1>1, StopCounts
  <1> HIDE DEF n
  <1>3. /\ mishaps \subseteq mishaps'
        /\ \A c \in Codes \ {CodeOf[i]} : codeToSlot'[c] = codeToSlot[c]
        /\ codeToSlot[CodeOf[i]].count > 0 =>
             codeToSlot'[CodeOf[i]].count = codeToSlot[CodeOf[i]].count - 1
    BY <1>1, <1>2, CountsOfManager DEF Becomes
  <1>4. CountsExact /\ toReapply = {}
    BY <1>3 DEF RefInv
  <1>5. codeToSlot[CodeOf[i]].count > 0
    BY <1>4, UserIsCounted
  <1> QED
    BY <1>3, <1>4, <1>5, CountsDown

LEMMA RefNext ==
  ASSUME IInv, TimersOK, Linked, RefInv, [Next]_vars
  PROVE  RefInv'
  <1>0. /\ startEvent \in [Intervals -> EventState] /\ stopEvent \in [Intervals -> EventState]
        /\ now \in Nat /\ Low \in [Intervals -> Nat] /\ High \in [Intervals -> Nat]
        /\ \A i \in Intervals : Low[i] < High[i]
    BY AccessAssumption DEF IInv, TypeOK
  <1>1. ASSUME NEW i \in Intervals, AddAccessInterval(i)
        PROVE  RefInv'
    BY <1>1, RefAdd
  <1>2. ASSUME NEW i \in Intervals, RemoveAccessInterval(i)
        PROVE  RefInv'
    <2>1. CASE UnderWay(i)
      <3>1. /\ stopEvent' = [stopEvent EXCEPT ![i] = "finishedEarly"] /\ startEvent' = startEvent
            /\ Becomes(Stopped(Manager, i)) /\ UNCHANGED <<retired, toReapply>>
        BY <1>2, <2>1 DEF RemoveAccessInterval
      <3>2. ~UnderWay(i)' /\ \A k \in Intervals \ {i} : UnderWay(k)' <=> UnderWay(k)
        BY <1>0, <3>1 DEF UnderWay
      <3> QED
        BY <2>1, <3>1, <3>2, RefStop
    <2>2. CASE ~UnderWay(i)
      <3>1. /\ startEvent' = [startEvent EXCEPT ![i] = IF @ = "armed" THEN "cancelled" ELSE @]
            /\ stopEvent' = [stopEvent EXCEPT ![i] = IF @ = "armed" THEN "cancelled" ELSE @]
            /\ UNCHANGED <<codeToSlot, mishaps, retired, toReapply>>
        BY <1>2, <2>2 DEF RemoveAccessInterval
      <3>2. \A k \in Intervals : UnderWay(k)' <=> UnderWay(k)
        BY <1>0, <2>2, <3>1 DEF UnderWay
      <3> QED
        BY <3>1, <3>2, CountsSame DEF RefInv
    <2> QED
      BY <2>1, <2>2
  <1>3. ASSUME NEW i \in Intervals, StartTimer(i)
        PROVE  RefInv'
    <2> SUFFICES ASSUME ~retired', "refused" \notin mishaps'
                 PROVE  toReapply' = {} /\ CountsExact'
      BY DEF RefInv
    <2> DEFINE m == Started(Manager, i)
    <2>1. /\ startEvent[i] = "armed" /\ startEvent' = [startEvent EXCEPT ![i] = "occurred"]
          /\ Becomes(m) /\ UNCHANGED <<stopEvent, retired, toReapply>>
      BY <1>3 DEF StartTimer
    <2>2. /\ mishaps \subseteq m.mishaps
          /\ \A c \in Codes \ {CodeOf[i]} : m.slots[c] = codeToSlot[c]
          /\ \/ m.slots[CodeOf[i]].count = codeToSlot[CodeOf[i]].count + 1
             \/ "refused" \in m.mishaps
      BY <2>1, StartCounts
    <2> HIDE DEF m
    <2>3. /\ mishaps \subseteq mishaps'
          /\ \A c \in Codes \ {CodeOf[i]} : codeToSlot'[c] = codeToSlot[c]
          /\ codeToSlot'[CodeOf[i]].count = codeToSlot[CodeOf[i]].count + 1
      BY <2>1, <2>2 DEF Becomes
    <2>4. /\ ~UnderWay(i) /\ UnderWay(i)'
          /\ \A k \in Intervals \ {i} : UnderWay(k)' <=> UnderWay(k)
      BY <1>0, <2>1 DEF UnderWay, TimersOK
    <2>5. CountsExact /\ toReapply' = {}
      BY <2>1, <2>3 DEF RefInv
    <2> QED
      BY <2>3, <2>4, <2>5, CountsUp
  <1>4. ASSUME NEW i \in Intervals, StopTimer(i)
        PROVE  RefInv'
    <2>1. /\ stopEvent[i] = "armed" /\ High[i] <= now
          /\ stopEvent' = [stopEvent EXCEPT ![i] = "occurred"]
          /\ Becomes(Stopped(Manager, i)) /\ UNCHANGED <<startEvent, retired, toReapply>>
      BY <1>4 DEF StopTimer
    <2>2. UnderWay(i)
      BY <1>0, <2>1 DEF UnderWay, TimersOK
    <2>3. ~UnderWay(i)' /\ \A k \in Intervals \ {i} : UnderWay(k)' <=> UnderWay(k)
      BY <1>0, <2>1 DEF UnderWay
    <2> QED
      BY <2>1, <2>2, <2>3, RefStop
  <1>5. ASSUME UNCHANGED <<startEvent, stopEvent, codeToSlot, retired>>,
               mishaps \subseteq mishaps', toReapply' = toReapply \/ toReapply' = {}
        PROVE  RefInv'
    <2>1. \A k \in Intervals : UnderWay(k)' <=> UnderWay(k)
      BY <1>5 DEF UnderWay
    <2> QED
      BY <1>5, <2>1, CountsSame DEF RefInv
  <1>6. ASSUME Tick \/ HealBegins \/ InterviewEnds \/ HealEnds \/ UNCHANGED vars
        PROVE  RefInv'
    BY <1>5, <1>6 DEF Tick, HealBegins, InterviewEnds, HealEnds, vars
  <1>7. ASSUME Radio
        PROVE  RefInv'
    BY <1>5, <1>7, RadioKeeps
  <1>8. ASSUME Retire
        PROVE  RefInv'
    BY <1>8 DEF Retire, RefInv
  <1>9. ASSUME ProbeReturns
        PROVE  RefInv'
    <2>1. /\ UNCHANGED <<startEvent, stopEvent, codeToSlot, retired, mishaps>>
          /\ toReapply' = Refused \/ toReapply' = toReapply
      BY <1>9 DEF ProbeReturns
    <2>2. ASSUME CountsExact
          PROVE  Refused = {}
      <3>1. ASSUME NEW i \in Refused
            PROVE  FALSE
        <4>1. i \in Intervals /\ UnderWay(i) /\ ~Holds(Manager, CodeOf[i])
          BY <3>1 DEF Refused, IInv, TypeOK
        <4>2. codeToSlot[CodeOf[i]].count > 0 /\ CodeOf[i] \in Codes
          BY <2>2, <4>1, UserIsCounted, AccessAssumption
        <4> QED
          BY <4>1, <4>2 DEF Linked, LinkedM, Manager
      <3> QED
        BY <3>1
    <2>3. CASE ~retired /\ "refused" \notin mishaps
      <3>1. toReapply = {} /\ CountsExact
        BY <2>3 DEF RefInv
      <3> QED
        BY <1>5, <2>1, <2>2, <3>1
    <2>4. CASE ~(~retired /\ "refused" \notin mishaps)
      BY <2>1, <2>4 DEF RefInv
    <2> QED
      BY <2>3, <2>4
  <1>10. ASSUME ReapplyNext
         PROVE  RefInv'
    <2>1. PICK i \in toReapply : Becomes(AllocateCodeSlot(Manager, <<"reapply">>, CodeOf[i]))
      BY <1>10 DEF ReapplyNext
    <2> DEFINE m == AllocateCodeSlot(Manager, <<"reapply">>, CodeOf[i])
    <2>2. <<"reapply">> \in Jobs /\ CodeOf[i] \in Codes
      BY AccessAssumption DEF Jobs, IInv, TypeOK
    <2>3. Manager.mishaps \subseteq m.mishaps
      BY <2>2, ManagerIsOK, AllocateCounts DEF Linked
    <2> HIDE DEF m
    <2>4. mishaps \subseteq mishaps'
      BY <2>1, <2>3 DEF Becomes, m, Manager
    <2>5. retired' = retired
      BY <1>10 DEF ReapplyNext
    <2> QED
      BY <2>1, <2>4, <2>5 DEF RefInv
  <1> QED
    BY <1>1, <1>2, <1>3, <1>4, <1>6, <1>7, <1>8, <1>9, <1>10 DEF Next, Timers, Healing

LEMMA RefInvariance == Spec => [](TimersOK /\ Linked /\ RefInv)
  <1>1. Init => TimersOK /\ Linked /\ RefInv
    <2> SUFFICES ASSUME Init
                 PROVE  TimersOK /\ Linked /\ RefInv
      OBVIOUS
    <2>1. TimersOK
      BY DEF Init, TimersOK
    <2>2. Linked
      BY DEF Init, Linked, LinkedM, Manager, Holds, Absent
    <2>3. \A c \in Codes : Users(c) = {}
      BY DEF Init, Users, UnderWay
    <2>4. \A c \in Codes : IsFiniteSet(Users(c)) /\ Cardinality(Users(c)) = 0
      BY <2>3, FS_EmptySet
    <2>5. CountsExact
      BY <2>4 DEF CountsExact, Init, Absent
    <2> QED
      BY <2>1, <2>2, <2>5 DEF RefInv, Init
  <1>2. IInv /\ TimersOK /\ Linked /\ RefInv /\ [Next]_vars
          => TimersOK' /\ Linked' /\ RefInv'
    BY TimersInvariance, LinkedInvariance, RefNext
  <1> QED
    BY <1>1, <1>2, Invariance, PTL DEF Spec

\* For any bookings of any codes, in any order of timers, removals, radio
\* answers and re-interviews: as long as no start was refused a slot, the count
\* codeToSlot keeps for a code is the number of its intervals under way, so the
\* code leaves its slot exactly when the last of them ends (allocateCodeSlot,
\* freeCodeSlot).
THEOREM CountsAreExact == Spec => []RefCountExact
  <1>1. RefInv => RefCountExact
    BY DEF RefInv, CountsExact, RefCountExact, Users
  <1> QED
    BY <1>1, RefInvariance, PTL

-----------------------------------------------------------------------------
(* Heal gives every interval under way its slot back.                      *)

HealInv ==
  /\ heal \in {"probing", "reapplying"} => slotsKnown
  /\ heal = "reapplying" /\ Cardinality(ManagedSlots) >= Cardinality(Codes) =>
       \A i \in Intervals :
         UnderWay(i) /\ OnlyUserOf(i) /\ ~Holds(Manager, CodeOf[i]) => i \in toReapply

\* With a slot for every code, a code without a slot finds a free one.
LEMMA FreeExists ==
  ASSUME NEW m, ManagerOK(m), slotsKnown, NEW c \in Codes, ~Holds(m, c),
         Cardinality(ManagedSlots) >= Cardinality(Codes)
  PROVE  Free(m) # {}
  <1> SUFFICES ASSUME Free(m) = {}
               PROVE  FALSE
    OBVIOUS
  <1> DEFINE others == Codes \ {c}
             f == [d \in others |-> m.slots[d].slotNo]
             taken == {f[d] : d \in others}
  <1>1. /\ IsFiniteSet(others) /\ Cardinality(others) = Cardinality(Codes) - 1
        /\ Cardinality(Codes) \in Nat
    BY AccessAssumption, FS_RemoveElement, FS_CardinalityType
  <1>2. f \in Surjection(others, taken)
    BY DEF Surjection
  <1>3. IsFiniteSet(taken) /\ Cardinality(taken) <= Cardinality(others)
    BY <1>1, <1>2, FS_Surjection
  <1>4. ManagedSlots \subseteq taken
    <2> SUFFICES ASSUME NEW s \in ManagedSlots
                 PROVE  s \in taken
      OBVIOUS
    <2>1. PICK d \in Codes : s = m.slots[d].slotNo
      BY DEF Free
    <2>2. s # NoSlot
      BY ManagedSlotsNat
    <2>3. d \in others
      BY <2>1, <2>2 DEF Holds
    <2> QED
      BY <2>1, <2>3
  <1>5. IsFiniteSet(ManagedSlots) /\ Cardinality(ManagedSlots) <= Cardinality(taken)
    BY <1>3, <1>4, FS_Subset
  <1>6. Cardinality(ManagedSlots) \in Nat /\ Cardinality(taken) \in Nat
    BY <1>3, <1>5, FS_CardinalityType
  <1> HIDE DEF others, taken
  <1> QED
    BY <1>1, <1>3, <1>5, <1>6

\* A step after which every code in use by one interval alone has kept the slot
\* it had, and heal has not dropped its list, keeps HealInv.
LEMMA HealKeeps ==
  ASSUME HealInv,
         heal' = "reapplying" => heal = "reapplying",
         heal' = heal \/ heal' = "idle", slotsKnown' = slotsKnown,
         \A i \in Intervals :
           OnlyUserOf(i) /\ UnderWay(i)' /\ i \notin toReapply' /\ slotsKnown
             /\ Cardinality(ManagedSlots) >= Cardinality(Codes)
             => \/ Holds(Manager, CodeOf[i])'
                \/ UnderWay(i) /\ i \notin toReapply /\ ~Holds(Manager, CodeOf[i])
  PROVE  HealInv'
  BY DEF HealInv, OnlyUserOf

\* The calls of one interval's tasks leave the other codes alone.
LEMMA StopLeavesOthers ==
  ASSUME IInv, Linked, NEW m, ManagerOK(m), LinkedM(m), NEW i \in Intervals,
         NEW k \in Intervals, k # i, OnlyUserOf(k)
  PROVE  Holds(m, CodeOf[k]) => Holds(Stopped(m, i), CodeOf[k])
  <1>1. CodeOf[k] \in Codes \ {CodeOf[i]}
    BY AccessAssumption DEF OnlyUserOf
  <1>2. CASE retired
    BY <1>2 DEF Stopped
  <1>3. CASE ~retired
    <2> DEFINE n == Stopped(m, i)
    <2>1. \A c \in Codes \ {CodeOf[i]} : n.slots[c] = m.slots[c]
      BY <1>3, StopCounts
    <2> QED
      BY <1>1, <2>1 DEF Holds
  <1> QED
    BY <1>2, <1>3

LEMMA AllocateKeepsHolders ==
  ASSUME NEW m, ManagerOK(m), LinkedM(m), NEW j \in Jobs, NEW c \in Codes, NEW d \in Codes,
         Holds(m, d)
  PROVE  Holds(AllocateCodeSlot(m, j, c), d)
  <1> DEFINE n == AllocateCodeSlot(m, j, c)
  <1>1. /\ \A e \in Codes \ {c} : n.slots[e] = m.slots[e]
        /\ Holds(m, c) \/ Free(m) # {} => Holds(n, c)
    BY AllocateCounts
  <1> HIDE DEF n
  <1>2. CASE c = d
    BY <1>1, <1>2 DEF n
  <1>3. CASE c # d
    BY <1>1, <1>3 DEF Holds, n
  <1> QED
    BY <1>2, <1>3

\* An interval that begins is given a slot, if the lock has one for every code.
LEMMA StartHolds ==
  ASSUME IInv, Linked, ~retired, slotsKnown, NEW i \in Intervals,
         Cardinality(ManagedSlots) >= Cardinality(Codes)
  PROVE  Holds(Started(Manager, i), CodeOf[i])
  <1>1. ManagerOK(Manager) /\ LinkedM(Manager)
    BY ManagerIsOK DEF Linked
  <1>2. /\ Started(Manager, i) = AllocateCodeSlot(Manager, <<"start", i>>, CodeOf[i])
        /\ <<"start", i>> \in Jobs /\ CodeOf[i] \in Codes
    BY <1>1, TaskCounts
  <1>3. Holds(Manager, CodeOf[i]) \/ Free(Manager) # {}
    BY <1>1, <1>2, FreeExists
  <1> QED
    BY <1>1, <1>2, <1>3, AllocateCounts

LEMMA StartKeepsHolders ==
  ASSUME IInv, Linked, NEW i \in Intervals, NEW c \in Codes, Holds(Manager, c)
  PROVE  Holds(Started(Manager, i), c)
  <1>1. ManagerOK(Manager) /\ LinkedM(Manager)
    BY ManagerIsOK DEF Linked
  <1>2. CASE retired
    BY <1>2 DEF Started
  <1>3. CASE ~retired
    <2>1. /\ Started(Manager, i) = AllocateCodeSlot(Manager, <<"start", i>>, CodeOf[i])
          /\ <<"start", i>> \in Jobs /\ CodeOf[i] \in Codes
      BY <1>1, <1>3, TaskCounts
    <2> QED
      BY <1>1, <2>1, AllocateKeepsHolders
  <1> QED
    BY <1>2, <1>3

LEMMA BecomesHolds ==
  ASSUME NEW m, Becomes(m), NEW c
  PROVE  Holds(Manager, c)' <=> Holds(m, c)
  BY DEF Becomes, Holds, Manager

LEMMA HealAdd ==
  ASSUME IInv, TimersOK, Linked, HealInv, NEW i \in Intervals, AddAccessInterval(i)
  PROVE  HealInv'
  <1> DEFINE m == IF Low[i] <= now THEN Started(Manager, i) ELSE Manager
             n == IF High[i] <= now THEN Stopped(m, i) ELSE m
  <1>1. /\ ~retired /\ Becomes(n) /\ UNCHANGED <<heal, toReapply, slotsKnown>>
        /\ startEvent' = [startEvent EXCEPT ![i] = NewTask(Low[i])]
        /\ stopEvent' = [stopEvent EXCEPT ![i] = NewTask(High[i])]
    BY DEF AddAccessInterval
  <1>2. /\ startEvent \in [Intervals -> EventState] /\ stopEvent \in [Intervals -> EventState]
        /\ \A k \in Intervals : CodeOf[k] \in Codes
    BY AccessAssumption DEF IInv, TypeOK
  <1>3. \A k \in Intervals \ {i} : UnderWay(k)' <=> UnderWay(k)
    BY <1>1, <1>2 DEF UnderWay
  <1>4. UnderWay(i)' => Low[i] <= now /\ ~(High[i] <= now)
    BY <1>1, <1>2 DEF UnderWay, NewTask
  <1>5. ManagerOK(m) /\ LinkedM(m)
    <2>1. ManagerOK(Manager) /\ LinkedM(Manager)
      BY ManagerIsOK DEF Linked
    <2>2. ManagerOK(Started(Manager, i)) /\ LinkedM(Started(Manager, i))
      BY <1>1, StartCounts
    <2> QED
      BY <2>1, <2>2
  <1>6. ASSUME NEW k \in Intervals, k # i, OnlyUserOf(k), Holds(Manager, CodeOf[k])
        PROVE  Holds(n, CodeOf[k])
    <2>1. Holds(m, CodeOf[k])
      BY <1>2, <1>6, StartKeepsHolders
    <2> HIDE DEF m
    <2>2. Holds(Stopped(m, i), CodeOf[k])
      BY <1>5, <1>6, <2>1, StopLeavesOthers
    <2> QED
      BY <2>1, <2>2
  <1>7. ASSUME UnderWay(i)', slotsKnown, Cardinality(ManagedSlots) >= Cardinality(Codes)
        PROVE  Holds(n, CodeOf[i])
    <2>1. n = Started(Manager, i)
      BY <1>4, <1>7
    <2>2. Holds(Started(Manager, i), CodeOf[i])
      BY <1>1, <1>7, StartHolds
    <2> QED
      BY <2>1, <2>2
  <1> HIDE DEF n
  <1>8. \A c : Holds(Manager, c)' <=> Holds(n, c)
    BY <1>1, BecomesHolds
  <1> QED
    BY <1>1, <1>3, <1>6, <1>7, <1>8, HealKeeps

LEMMA HealStop ==
  ASSUME IInv, Linked, HealInv, NEW i \in Intervals, ~UnderWay(i)',
         \A k \in Intervals \ {i} : UnderWay(k)' <=> UnderWay(k),
         Becomes(Stopped(Manager, i)), UNCHANGED <<heal, toReapply, slotsKnown>>
  PROVE  HealInv'
  <1>1. ManagerOK(Manager) /\ LinkedM(Manager)
    BY ManagerIsOK DEF Linked
  <1>2. ASSUME NEW k \in Intervals, k # i, OnlyUserOf(k), Holds(Manager, CodeOf[k])
        PROVE  Holds(Manager, CodeOf[k])'
    BY <1>1, <1>2, StopLeavesOthers, BecomesHolds
  <1> QED
    BY <1>2, HealKeeps

LEMMA HealNext ==
  ASSUME IInv, TimersOK, Linked, HealInv, [Next]_vars
  PROVE  HealInv'
  <1>0. /\ startEvent \in [Intervals -> EventState] /\ stopEvent \in [Intervals -> EventState]
        /\ \A k \in Intervals : CodeOf[k] \in Codes
        /\ ManagerOK(Manager) /\ LinkedM(Manager)
    BY AccessAssumption, ManagerIsOK DEF IInv, TypeOK, Linked
  <1>1. ASSUME NEW i \in Intervals, AddAccessInterval(i)
        PROVE  HealInv'
    BY <1>1, HealAdd
  <1>2. ASSUME NEW i \in Intervals, RemoveAccessInterval(i)
        PROVE  HealInv'
    <2>1. UNCHANGED <<heal, toReapply, slotsKnown>>
      BY <1>2 DEF RemoveAccessInterval
    <2>2. CASE UnderWay(i)
      <3>1. /\ stopEvent' = [stopEvent EXCEPT ![i] = "finishedEarly"] /\ startEvent' = startEvent
            /\ Becomes(Stopped(Manager, i))
        BY <1>2, <2>2 DEF RemoveAccessInterval
      <3>2. ~UnderWay(i)' /\ \A k \in Intervals \ {i} : UnderWay(k)' <=> UnderWay(k)
        BY <1>0, <3>1 DEF UnderWay
      <3> QED
        BY <2>1, <3>1, <3>2, HealStop
    <2>3. CASE ~UnderWay(i)
      <3>1. /\ startEvent' = [startEvent EXCEPT ![i] = IF @ = "armed" THEN "cancelled" ELSE @]
            /\ stopEvent' = [stopEvent EXCEPT ![i] = IF @ = "armed" THEN "cancelled" ELSE @]
            /\ UNCHANGED codeToSlot
        BY <1>2, <2>3 DEF RemoveAccessInterval
      <3>2. \A k \in Intervals : UnderWay(k)' => UnderWay(k)
        BY <1>0, <2>3, <3>1 DEF UnderWay
      <3>3. \A c : Holds(Manager, c)' <=> Holds(Manager, c)
        BY <3>1 DEF Holds, Manager
      <3> QED
        BY <2>1, <3>2, <3>3, HealKeeps
    <2> QED
      BY <2>2, <2>3
  <1>3. ASSUME NEW i \in Intervals, StartTimer(i)
        PROVE  HealInv'
    <2>1. /\ startEvent[i] = "armed" /\ startEvent' = [startEvent EXCEPT ![i] = "occurred"]
          /\ Becomes(Started(Manager, i))
          /\ UNCHANGED <<stopEvent, retired, heal, toReapply, slotsKnown>>
      BY <1>3 DEF StartTimer
    <2>2. ~retired
      BY <2>1 DEF TimersOK
    <2>3. \A k \in Intervals \ {i} : UnderWay(k)' <=> UnderWay(k)
      BY <1>0, <2>1 DEF UnderWay
    <2>4. ASSUME NEW c \in Codes, Holds(Manager, c)
          PROVE  Holds(Manager, c)'
      BY <2>1, <2>4, StartKeepsHolders, BecomesHolds
    <2>5. ASSUME slotsKnown, Cardinality(ManagedSlots) >= Cardinality(Codes)
          PROVE  Holds(Manager, CodeOf[i])'
      BY <2>1, <2>2, <2>5, StartHolds, BecomesHolds
    <2> QED
      BY <1>0, <2>1, <2>3, <2>4, <2>5, HealKeeps
  <1>4. ASSUME NEW i \in Intervals, StopTimer(i)
        PROVE  HealInv'
    <2>1. /\ stopEvent' = [stopEvent EXCEPT ![i] = "occurred"]
          /\ Becomes(Stopped(Manager, i))
          /\ UNCHANGED <<startEvent, heal, toReapply, slotsKnown>>
      BY <1>4 DEF StopTimer
    <2>2. ~UnderWay(i)' /\ \A k \in Intervals \ {i} : UnderWay(k)' <=> UnderWay(k)
      BY <1>0, <2>1 DEF UnderWay
    <2> QED
      BY <2>1, <2>2, HealStop
  <1>5. ASSUME UNCHANGED codeToSlot, slotsKnown' = slotsKnown,
               \A k \in Intervals : UnderWay(k)' => UnderWay(k),
               UNCHANGED <<heal, toReapply>> \/ heal' = "idle"
        PROVE  HealInv'
    <2>1. \A c : Holds(Manager, c)' <=> Holds(Manager, c)
      BY <1>5 DEF Holds, Manager
    <2>2. CASE heal' = "idle"
      BY <2>2 DEF HealInv
    <2>3. CASE UNCHANGED <<heal, toReapply>>
      BY <1>5, <2>1, <2>3, HealKeeps
    <2> QED
      BY <1>5, <2>2, <2>3
  <1>6. ASSUME Tick \/ HealEnds \/ UNCHANGED vars
        PROVE  HealInv'
    BY <1>5, <1>6 DEF Tick, HealEnds, vars, UnderWay
  <1>7. ASSUME Radio
        PROVE  HealInv'
    <2>1. /\ UNCHANGED <<startEvent, stopEvent, codeToSlot, slotsKnown>>
          /\ UNCHANGED <<heal, toReapply>> \/ heal' = "idle"
      BY <1>7, RadioKeeps
    <2> QED
      BY <1>5, <2>1 DEF UnderWay
  <1>8. ASSUME Retire
        PROVE  HealInv'
    <2>1. /\ startEvent' = [k \in Intervals |-> IF k \in tree /\ startEvent[k] = "armed"
                                                THEN "cancelled" ELSE startEvent[k]]
          /\ stopEvent' = [k \in Intervals |-> IF k \in tree /\ stopEvent[k] = "armed"
                                               THEN "cancelled" ELSE stopEvent[k]]
          /\ UNCHANGED <<codeToSlot, slotsKnown, heal, toReapply>>
      BY <1>8 DEF Retire
    <2>2. \A k \in Intervals : UnderWay(k)' => UnderWay(k)
      BY <1>0, <2>1 DEF UnderWay
    <2> QED
      BY <1>5, <2>1, <2>2
  <1>9. ASSUME HealBegins \/ InterviewEnds
        PROVE  HealInv'
    BY <1>9 DEF HealBegins, InterviewEnds, HealInv
  <1>10. ASSUME ProbeReturns
         PROVE  HealInv'
    <2>1. /\ UNCHANGED <<startEvent, stopEvent, codeToSlot, slotsKnown>>
          /\ heal = "probing"
          /\ (heal' = "reapplying" /\ toReapply' = Refused) \/ heal' = "idle"
      BY <1>10 DEF ProbeReturns
    <2>2. \A i \in Intervals : UnderWay(i)' <=> UnderWay(i)
      BY <2>1 DEF UnderWay
    <2>3. \A c : Holds(Manager, c)' <=> Holds(Manager, c)
      BY <2>1 DEF Holds, Manager
    <2>4. \A i \in Intervals : UnderWay(i) /\ ~Holds(Manager, CodeOf[i]) => i \in Refused
      BY DEF Refused, TimersOK, UnderWay
    <2> QED
      BY <2>1, <2>2, <2>3, <2>4 DEF HealInv
  <1>11. ASSUME ReapplyNext
         PROVE  HealInv'
    <2>1. PICK i \in toReapply : /\ toReapply' = toReapply \ {i}
                                 /\ Becomes(AllocateCodeSlot(Manager, <<"reapply">>, CodeOf[i]))
      BY <1>11 DEF ReapplyNext
    <2> DEFINE m == AllocateCodeSlot(Manager, <<"reapply">>, CodeOf[i])
    <2>2. <<"reapply">> \in Jobs /\ i \in Intervals
      BY <2>1 DEF Jobs, IInv, TypeOK
    <2>3. UNCHANGED <<startEvent, stopEvent, slotsKnown, heal>>
      BY <1>11 DEF ReapplyNext
    <2>4. \A k \in Intervals : UnderWay(k)' <=> UnderWay(k)
      BY <2>3 DEF UnderWay
    <2>5. ASSUME NEW c \in Codes, Holds(Manager, c)
          PROVE  Holds(m, c)
      BY <1>0, <2>2, <2>5, AllocateKeepsHolders
    <2>6. ASSUME slotsKnown, Cardinality(ManagedSlots) >= Cardinality(Codes)
          PROVE  Holds(m, CodeOf[i])
      <3>1. Holds(Manager, CodeOf[i]) \/ Free(Manager) # {}
        BY <1>0, <2>2, <2>6, FreeExists
      <3> QED
        BY <1>0, <2>2, <3>1, AllocateCounts
    <2> HIDE DEF m
    <2>7. \A c : Holds(Manager, c)' <=> Holds(m, c)
      BY <2>1, BecomesHolds DEF m
    <2> QED
      BY <1>0, <2>1, <2>2, <2>3, <2>4, <2>5, <2>6, <2>7, HealKeeps
  <1> QED
    BY <1>1, <1>2, <1>3, <1>4, <1>6, <1>7, <1>8, <1>9, <1>10, <1>11
       DEF Next, Timers, Healing

LEMMA HealInvariance == Spec => []HealInv
  <1>1. Init => HealInv
    BY DEF Init, HealInv
  <1>2. IInv /\ TimersOK /\ Linked /\ HealInv /\ [Next]_vars => HealInv'
    BY HealNext
  <1> QED
    BY <1>1, <1>2, Invariance, RefInvariance, PTL DEF Spec

\* When heal is done, an interval under way whose code no other booking uses has
\* its code in a slot, whether it was refused before the interview or began
\* while heal ran, for any number of bookings and a lock with a slot for every
\* code (heal, reapplyAccess).
THEOREM HealGivesAccessBack == Spec => HealRestoresAccess
  <1>1. HealInv =>
          [HealEnds /\ Cardinality(ManagedSlots) >= Cardinality(Codes) =>
             \A i \in Intervals :
               UnderWay(i) /\ OnlyUserOf(i) => codeToSlot[CodeOf[i]].slotNo # NoSlot]_vars
    BY DEF HealInv, HealEnds, Holds, Manager
  <1> QED
    BY <1>1, HealInvariance, PTL DEF HealRestoresAccess

-----------------------------------------------------------------------------
(* The send queue: the driver answers the commands of the lock in the      *)
(* order they were issued, and each call has at most one under way.        *)

InQueue(q, x) == \E a \in 1..Len(q) : q[a] = x
Once(q) == \A a, b \in 1..Len(q) : q[a] = q[b] => a = b
Before(q, x, y) == \E a, b \in 1..Len(q) : a < b /\ q[a] = x /\ q[b] = y

LEMMA AppendQueue ==
  ASSUME NEW q \in Seq(Jobs), NEW j \in Jobs, NEW r, r = Append(q, j)
  PROVE  /\ r \in Seq(Jobs)
         /\ \A x : InQueue(r, x) <=> InQueue(q, x) \/ x = j
         /\ \A x, y : Before(q, x, y) => Before(r, x, y)
         /\ \A x : InQueue(q, x) => Before(r, x, j)
         /\ Once(q) /\ ~InQueue(q, j) => Once(r)
  <1>1. /\ r \in Seq(Jobs) /\ Len(q) \in Nat /\ Len(r) = Len(q) + 1
        /\ \A i \in 1..Len(q) : r[i] = q[i]
        /\ r[Len(q) + 1] = j
    BY AppendProperties, LenProperties
  <1>2. ASSUME NEW x
        PROVE  InQueue(r, x) <=> InQueue(q, x) \/ x = j
    <2>1. \A a \in 1..Len(r) : a \in 1..Len(q) \/ a = Len(q) + 1
      BY <1>1
    <2>2. \A a \in 1..Len(q) : a \in 1..Len(r)
      BY <1>1
    <2>3. Len(q) + 1 \in 1..Len(r)
      BY <1>1
    <2> QED
      BY <1>1, <2>1, <2>2, <2>3 DEF InQueue
  <1>3. ASSUME NEW x, NEW y, Before(q, x, y)
        PROVE  Before(r, x, y)
    <2>1. PICK a \in 1..Len(q), b \in 1..Len(q) : a < b /\ q[a] = x /\ q[b] = y
      BY <1>3 DEF Before
    <2>2. a \in 1..Len(r) /\ b \in 1..Len(r) /\ r[a] = x /\ r[b] = y
      BY <1>1, <2>1
    <2> QED
      BY <2>1, <2>2 DEF Before
  <1>4. ASSUME NEW x, InQueue(q, x)
        PROVE  Before(r, x, j)
    <2>1. PICK a \in 1..Len(q) : q[a] = x
      BY <1>4 DEF InQueue
    <2>2. a \in 1..Len(r) /\ Len(q) + 1 \in 1..Len(r) /\ a < Len(q) + 1 /\ r[a] = x
      BY <1>1, <2>1
    <2> QED
      BY <1>1, <2>2 DEF Before
  <1>5. ASSUME Once(q), ~InQueue(q, j)
        PROVE  Once(r)
    <2> SUFFICES ASSUME NEW a \in 1..Len(r), NEW b \in 1..Len(r), r[a] = r[b]
                 PROVE  a = b
      BY DEF Once
    <2>1. /\ a \in 1..Len(q) \/ a = Len(q) + 1
          /\ b \in 1..Len(q) \/ b = Len(q) + 1
      BY <1>1
    <2> QED
      BY <1>1, <1>5, <2>1 DEF Once, InQueue
  <1> QED
    BY <1>1, <1>2, <1>3, <1>4, <1>5

LEMMA TailQueue ==
  ASSUME NEW q \in Seq(Jobs), q # <<>>, Once(q), NEW r, r = Tail(q)
  PROVE  /\ r \in Seq(Jobs) /\ Once(r)
         /\ \A x : InQueue(r, x) <=> InQueue(q, x) /\ x # Head(q)
         /\ \A x, y : Before(q, x, y) /\ x # Head(q) => Before(r, x, y)
         /\ \A x : ~Before(q, x, Head(q))
         /\ InQueue(q, Head(q))
  <1>1. /\ r \in Seq(Jobs) /\ Len(q) \in Nat \ {0} /\ Len(r) = Len(q) - 1
        /\ \A i \in 1..Len(r) : r[i] = q[i + 1]
        /\ Head(q) = q[1]
    BY HeadTailProperties, EmptySeq
  <1>2. Once(r)
    BY <1>1 DEF Once
  <1>3. ASSUME NEW x
        PROVE  InQueue(r, x) <=> InQueue(q, x) /\ x # Head(q)
    <2>1. ASSUME NEW a \in 1..Len(r), r[a] = x
          PROVE  InQueue(q, x) /\ x # Head(q)
      <3>1. a + 1 \in 1..Len(q) /\ a + 1 # 1 /\ 1 \in 1..Len(q) /\ q[a + 1] = x
        BY <1>1, <2>1
      <3> QED
        BY <1>1, <3>1 DEF InQueue, Once
    <2>2. ASSUME NEW a \in 1..Len(q), q[a] = x, x # Head(q)
          PROVE  InQueue(r, x)
      <3>1. a # 1
        BY <1>1, <2>2
      <3>2. a - 1 \in 1..Len(r) /\ r[a - 1] = x
        BY <1>1, <2>2, <3>1
      <3> QED
        BY <3>2 DEF InQueue
    <2> QED
      BY <2>1, <2>2 DEF InQueue
  <1>4. ASSUME NEW x, NEW y, Before(q, x, y), x # Head(q)
        PROVE  Before(r, x, y)
    <2>1. PICK a \in 1..Len(q), b \in 1..Len(q) : a < b /\ q[a] = x /\ q[b] = y
      BY <1>4 DEF Before
    <2>2. a # 1
      BY <1>1, <1>4, <2>1
    <2>3. /\ a - 1 \in 1..Len(r) /\ b - 1 \in 1..Len(r) /\ a - 1 < b - 1
          /\ r[a - 1] = x /\ r[b - 1] = y
      BY <1>1, <2>1, <2>2
    <2> QED
      BY <2>3 DEF Before
  <1>5. ASSUME NEW x, Before(q, x, Head(q))
        PROVE  FALSE
    <2>1. PICK a \in 1..Len(q), b \in 1..Len(q) : a < b /\ q[b] = Head(q)
      BY <1>5 DEF Before
    <2>2. b = 1
      BY <1>1, <2>1 DEF Once
    <2> QED
      BY <2>1, <2>2
  <1>6. InQueue(q, Head(q))
    BY <1>1 DEF InQueue
  <1> QED
    BY <1>1, <1>2, <1>3, <1>4, <1>5, <1>6

\* Every call that is suspended, and no other, has a command in the queue.
Queued(jb, q) == Once(q) /\ \A j \in Jobs : InQueue(q, j) <=> jb[j] # Idle

LEMMA QueuedIssue ==
  ASSUME NEW jb \in [Jobs -> JobState], NEW q \in Seq(Jobs), Queued(jb, q),
         NEW j \in Jobs, jb[j] = Idle, NEW state, state # Idle
  PROVE  Queued([jb EXCEPT ![j] = state], Append(q, j))
  <1> DEFINE r == Append(q, j)
  <1>1. /\ \A x : InQueue(r, x) <=> InQueue(q, x) \/ x = j
        /\ Once(q) /\ ~InQueue(q, j) => Once(r)
    BY AppendQueue
  <1> HIDE DEF r
  <1>2. Queued([jb EXCEPT ![j] = state], r)
    BY <1>1 DEF Queued
  <1> QED
    BY <1>2 DEF r

LEMMA QueuedReturn ==
  ASSUME NEW jb \in [Jobs -> JobState], NEW q \in Seq(Jobs), Queued(jb, q), q # <<>>,
         NEW j \in Jobs, j = Head(q)
  PROVE  /\ Queued([jb EXCEPT ![j] = Idle], Tail(q))
         /\ \A state : state # Idle =>
              Queued([jb EXCEPT ![j] = state], Append(Tail(q), j))
  <1> DEFINE t == Tail(q)
             r == Append(t, j)
  <1>1. /\ t \in Seq(Jobs) /\ Once(t)
        /\ \A x : InQueue(t, x) <=> InQueue(q, x) /\ x # j
        /\ InQueue(q, j)
    BY TailQueue DEF Queued
  <1> HIDE DEF t
  <1>2. /\ \A x : InQueue(r, x) <=> InQueue(t, x) \/ x = j
        /\ Once(t) /\ ~InQueue(t, j) => Once(r)
    BY <1>1, AppendQueue
  <1> HIDE DEF r
  <1>3. Queued([jb EXCEPT ![j] = Idle], t)
    BY <1>1 DEF Queued
  <1>4. ASSUME NEW state, state # Idle
        PROVE  Queued([jb EXCEPT ![j] = state], r)
    BY <1>1, <1>2, <1>4 DEF Queued
  <1> QED
    BY <1>3, <1>4 DEF r, t

-----------------------------------------------------------------------------
(* What the commands in the queue will make of the lock.                   *)

Writing(jb, j, s)      == jb[j].at = "writing" /\ jb[j].slotNo = s
ReadingBack(jb, j, s)  == jb[j].at = "readingBack" /\ jb[j].slotNo = s
Clearing(jb, j, s)     == jb[j].at = "clearing" /\ jb[j].slotNo = s
ReadingClear(jb, j, s) == jb[j].at = "readingClear" /\ jb[j].slotNo = s
Writer(jb, j)          == jb[j].at \in {"writing", "readingBack"}

\* A write is of the code that has the slot.
OwnSlot(slots, jb) ==
  \A j \in Jobs : Writer(jb, j) => slots[jb[j].code].slotNo = jb[j].slotNo

\* A slot is cleared for the code that left it before it is written for the
\* next.
ClearFirst(jb, q) ==
  \A j, k \in Jobs : \A s \in ManagedSlots :
    Clearing(jb, j, s) /\ Writing(jb, k, s) => Before(q, j, k)

\* A slot no command will change holds what the map says.
StillMatches(slots, jb, h) ==
  \A s \in ManagedSlots :
    (\A j \in Jobs : ~Writing(jb, j, s) /\ ~Clearing(jb, j, s))
      => \A c \in Codes : h[s] = c <=> slots[c].slotNo = s

\* A slot that will only be cleared belongs to nobody.
ClearedUnused(slots, jb) ==
  \A j \in Jobs : \A s \in ManagedSlots :
    Clearing(jb, j, s) /\ (\A k \in Jobs : ~Writing(jb, k, s))
      => \A c \in Codes : slots[c].slotNo # s

\* A code whose write has been accepted is in the lock, and stays.
Landed(jb, h) ==
  \A j \in Jobs : \A s \in ManagedSlots :
    ReadingBack(jb, j, s) => h[s] = jb[j].code /\ \A k \in Jobs : ~Clearing(jb, k, s)

\* A clear that will find a code in its slot is read back before that code is.
AlarmEnds(jb, q, h) ==
  \A j \in Jobs : \A s \in ManagedSlots :
    ReadingClear(jb, j, s) /\ h[s] # NoCode
      => \E k \in Jobs : ReadingBack(jb, k, s) /\ Before(q, j, k)

Orderly(slots, jb, q, h) ==
  /\ OwnSlot(slots, jb) /\ ClearFirst(jb, q) /\ StillMatches(slots, jb, h)
  /\ ClearedUnused(slots, jb) /\ Landed(jb, h) /\ AlarmEnds(jb, q, h)

SlotsType == [Codes -> [slotNo : ManagedSlots \cup {NoSlot}, count : Nat]]

Distinct(slots) ==
  \A c, d \in Codes : c # d /\ slots[c].slotNo # NoSlot => slots[c].slotNo # slots[d].slotNo

LEMMA JobFields ==
  ASSUME NEW st \in JobState
  PROVE  /\ st.at \in {"idle", "writing", "readingBack", "clearing", "readingClear"}
         /\ st.at # "idle" => st.code \in Codes /\ st.slotNo \in ManagedSlots
         /\ st.at = "idle" <=> st = Idle
  BY DEF JobState, Idle

\* A write is issued for a code in its slot s, the one it has or a free one.
LEMMA OrderlyTake ==
  ASSUME NEW slots \in SlotsType, Distinct(slots), NEW jb \in [Jobs -> JobState],
         NEW q \in Seq(Jobs), NEW h, Queued(jb, q), Orderly(slots, jb, q, h),
         NEW j \in Jobs, jb[j] = Idle, NEW c \in Codes, NEW s \in ManagedSlots, NEW n,
         slots[c].slotNo = s
           \/ (slots[c].slotNo = NoSlot /\ \A d \in Codes : slots[d].slotNo # s),
         NEW st, st = [at |-> "writing", code |-> c, slotNo |-> s, attempt |-> 1],
         NEW slots2, slots2 = [slots EXCEPT ![c] = n], n.slotNo = s,
         NEW jb2, jb2 = [jb EXCEPT ![j] = st],
         NEW q2, q2 = Append(q, j)
  PROVE  Orderly(slots2, jb2, q2, h)
  <1> USE DEF Orderly
  <1>0. st.at = "writing" /\ st.code = c /\ st.slotNo = s
    OBVIOUS
  <1>1. /\ jb2[j] = st /\ \A k \in Jobs \ {j} : jb2[k] = jb[k]
        /\ slots2[c].slotNo = s /\ \A d \in Codes \ {c} : slots2[d] = slots[d]
    BY DEF SlotsType
  <1>2. jb[j].at = "idle"
    BY DEF Idle
  <1>3. /\ \A x, y : Before(q, x, y) => Before(q2, x, y)
        /\ \A x : InQueue(q, x) => Before(q2, x, j)
    BY AppendQueue
  <1>4. \A k \in Jobs : jb[k].at # "idle" =>
          jb[k].code \in Codes /\ jb[k].slotNo \in ManagedSlots /\ InQueue(q, k)
    BY JobFields DEF Queued
  <1>5. s # NoSlot
    BY ManagedSlotsNat
  <1>6. OwnSlot(slots2, jb2)
    <2> SUFFICES ASSUME NEW k \in Jobs, Writer(jb2, k)
                 PROVE  slots2[jb2[k].code].slotNo = jb2[k].slotNo
      BY DEF OwnSlot
    <2>1. CASE k = j
      BY <1>0, <1>1, <2>1
    <2>2. CASE k # j
      <3>1. /\ slots[jb[k].code].slotNo = jb[k].slotNo /\ jb2[k] = jb[k]
            /\ jb[k].code \in Codes /\ jb[k].slotNo \in ManagedSlots
        BY <1>1, <1>4, <2>2 DEF OwnSlot, Writer
      <3>2. jb[k].slotNo # NoSlot
        BY <3>1, ManagedSlotsNat
      <3> QED
        BY <1>1, <3>1, <3>2
    <2> QED
      BY <2>1, <2>2
  <1>7. ClearFirst(jb2, q2)
    <2> SUFFICES ASSUME NEW k \in Jobs, NEW l \in Jobs, NEW t \in ManagedSlots,
                        Clearing(jb2, k, t), Writing(jb2, l, t)
                 PROVE  Before(q2, k, l)
      BY DEF ClearFirst
    <2>1. k # j /\ jb2[k] = jb[k]
      BY <1>0, <1>1 DEF Clearing
    <2>2. CASE l = j
      BY <1>3, <1>4, <2>1, <2>2 DEF Clearing
    <2>3. CASE l # j
      BY <1>1, <1>3, <2>1, <2>3 DEF ClearFirst, Clearing, Writing
    <2> QED
      BY <2>2, <2>3
  <1>8. StillMatches(slots2, jb2, h)
    <2> SUFFICES ASSUME NEW t \in ManagedSlots,
                        \A k \in Jobs : ~Writing(jb2, k, t) /\ ~Clearing(jb2, k, t),
                        NEW d \in Codes
                 PROVE  h[t] = d <=> slots2[d].slotNo = t
      BY DEF StillMatches
    <2>1. t # s
      BY <1>0, <1>1 DEF Writing
    <2>2. \A k \in Jobs : ~Writing(jb, k, t) /\ ~Clearing(jb, k, t)
      BY <1>1, <1>2 DEF Writing, Clearing
    <2>3. h[t] = d <=> slots[d].slotNo = t
      BY <2>2 DEF StillMatches
    <2>4. t # NoSlot
      BY ManagedSlotsNat
    <2> QED
      BY <1>1, <2>1, <2>3, <2>4
  <1>9. ClearedUnused(slots2, jb2)
    <2> SUFFICES ASSUME NEW k \in Jobs, NEW t \in ManagedSlots, Clearing(jb2, k, t),
                        \A l \in Jobs : ~Writing(jb2, l, t), NEW d \in Codes
                 PROVE  slots2[d].slotNo # t
      BY DEF ClearedUnused
    <2>1. t # s
      BY <1>0, <1>1 DEF Writing
    <2>2. Clearing(jb, k, t) /\ \A l \in Jobs : ~Writing(jb, l, t)
      BY <1>0, <1>1, <1>2 DEF Writing, Clearing
    <2>3. slots[d].slotNo # t
      BY <2>2 DEF ClearedUnused
    <2> QED
      BY <1>1, <2>1, <2>3
  <1>10. Landed(jb2, h)
    <2> SUFFICES ASSUME NEW k \in Jobs, NEW t \in ManagedSlots, ReadingBack(jb2, k, t)
                 PROVE  h[t] = jb2[k].code /\ \A l \in Jobs : ~Clearing(jb2, l, t)
      BY DEF Landed
    <2>1. k # j /\ jb2[k] = jb[k] /\ ReadingBack(jb, k, t)
      BY <1>0, <1>1 DEF ReadingBack
    <2>2. h[t] = jb[k].code /\ \A l \in Jobs : ~Clearing(jb, l, t)
      BY <2>1 DEF Landed
    <2>3. \A l \in Jobs : ~Clearing(jb2, l, t)
      BY <1>0, <1>1, <2>2 DEF Clearing
    <2> QED
      BY <2>1, <2>2, <2>3
  <1>11. AlarmEnds(jb2, q2, h)
    <2> SUFFICES ASSUME NEW k \in Jobs, NEW t \in ManagedSlots, ReadingClear(jb2, k, t),
                        h[t] # NoCode
                 PROVE  \E l \in Jobs : ReadingBack(jb2, l, t) /\ Before(q2, k, l)
      BY DEF AlarmEnds
    <2>1. ReadingClear(jb, k, t)
      BY <1>0, <1>1 DEF ReadingClear
    <2>2. PICK l \in Jobs : ReadingBack(jb, l, t) /\ Before(q, k, l)
      BY <2>1 DEF AlarmEnds
    <2>3. ReadingBack(jb2, l, t)
      BY <1>1, <1>2, <2>2 DEF ReadingBack
    <2> QED
      BY <1>3, <2>2, <2>3
  <1> QED
    BY <1>6, <1>7, <1>8, <1>9, <1>10, <1>11

\* A change of the map that gives no code another slot.
LEMMA OrderlyCount ==
  ASSUME NEW slots \in SlotsType, NEW jb \in [Jobs -> JobState], NEW q, NEW h,
         Orderly(slots, jb, q, h), NEW slots2,
         \A c \in Codes : slots2[c].slotNo = slots[c].slotNo
  PROVE  Orderly(slots2, jb, q, h)
  <1>1. \A j \in Jobs : Writer(jb, j) => jb[j].code \in Codes
    BY JobFields DEF Writer
  <1> QED
    BY <1>1 DEF Orderly, OwnSlot, StillMatches, ClearedUnused

\* A clear is issued for a code whose writes are all over.
LEMMA OrderlyClear ==
  ASSUME NEW slots \in SlotsType, Distinct(slots), NEW jb \in [Jobs -> JobState],
         NEW q \in Seq(Jobs), NEW h, Orderly(slots, jb, q, h),
         NEW j \in Jobs, jb[j] = Idle, NEW c \in Codes, NEW s \in ManagedSlots,
         slots[c].slotNo = s,
         ~\E k \in Jobs : Writer(jb, k) /\ jb[k].code = c,
         NEW st, st = [at |-> "clearing", code |-> c, slotNo |-> s],
         NEW slots2, slots2 = [slots EXCEPT ![c] = Absent],
         NEW jb2, jb2 = [jb EXCEPT ![j] = st],
         NEW q2, q2 = Append(q, j)
  PROVE  Orderly(slots2, jb2, q2, h)
  <1> USE DEF Orderly
  <1>0. st.at = "clearing" /\ st.code = c /\ st.slotNo = s
    OBVIOUS
  <1>1. /\ jb2[j] = st /\ \A k \in Jobs \ {j} : jb2[k] = jb[k]
        /\ slots2[c].slotNo = NoSlot /\ \A d \in Codes \ {c} : slots2[d] = slots[d]
    BY DEF SlotsType, Absent
  <1>2. jb[j].at = "idle"
    BY DEF Idle
  <1>3. \A x, y : Before(q, x, y) => Before(q2, x, y)
    BY AppendQueue
  <1>4. \A t \in ManagedSlots : t # NoSlot
    BY ManagedSlotsNat
  <1>5. \A k \in Jobs : Writer(jb, k) =>
          jb[k].code \in Codes \ {c} /\ slots[jb[k].code].slotNo = jb[k].slotNo
    BY JobFields DEF OwnSlot, Writer
  <1>6. \A k \in Jobs : Writer(jb, k) => jb[k].slotNo # s
    BY <1>4, <1>5 DEF Distinct
  <1>7. OwnSlot(slots2, jb2)
    BY <1>0, <1>1, <1>5 DEF OwnSlot, Writer
  <1>8. ClearFirst(jb2, q2)
    <2> SUFFICES ASSUME NEW k \in Jobs, NEW l \in Jobs, NEW t \in ManagedSlots,
                        Clearing(jb2, k, t), Writing(jb2, l, t)
                 PROVE  Before(q2, k, l)
      BY DEF ClearFirst
    <2>1. l # j /\ Writing(jb, l, t)
      BY <1>0, <1>1 DEF Writing
    <2>2. t # s
      BY <1>6, <2>1 DEF Writing, Writer
    <2>3. Clearing(jb, k, t)
      BY <1>0, <1>1, <2>2 DEF Clearing
    <2> QED
      BY <1>3, <2>1, <2>3 DEF ClearFirst
  <1>9. StillMatches(slots2, jb2, h)
    <2> SUFFICES ASSUME NEW t \in ManagedSlots,
                        \A k \in Jobs : ~Writing(jb2, k, t) /\ ~Clearing(jb2, k, t),
                        NEW d \in Codes
                 PROVE  h[t] = d <=> slots2[d].slotNo = t
      BY DEF StillMatches
    <2>1. t # s
      BY <1>0, <1>1 DEF Clearing
    <2>2. \A k \in Jobs : ~Writing(jb, k, t) /\ ~Clearing(jb, k, t)
      BY <1>1, <1>2 DEF Writing, Clearing
    <2>3. h[t] = d <=> slots[d].slotNo = t
      BY <2>2 DEF StillMatches
    <2> QED
      BY <1>1, <1>4, <2>1, <2>3
  <1>10. ClearedUnused(slots2, jb2)
    <2> SUFFICES ASSUME NEW k \in Jobs, NEW t \in ManagedSlots, Clearing(jb2, k, t),
                        \A l \in Jobs : ~Writing(jb2, l, t), NEW d \in Codes
                 PROVE  slots2[d].slotNo # t
      BY DEF ClearedUnused
    <2>1. CASE t = s
      BY <1>1, <1>4, <2>1 DEF Distinct
    <2>2. CASE t # s
      <3>1. Clearing(jb, k, t) /\ \A l \in Jobs : ~Writing(jb, l, t)
        BY <1>0, <1>1, <1>2, <2>2 DEF Writing, Clearing
      <3>2. slots[d].slotNo # t
        BY <3>1 DEF ClearedUnused
      <3> QED
        BY <1>1, <1>4, <3>2
    <2> QED
      BY <2>1, <2>2
  <1>11. Landed(jb2, h)
    <2> SUFFICES ASSUME NEW k \in Jobs, NEW t \in ManagedSlots, ReadingBack(jb2, k, t)
                 PROVE  h[t] = jb2[k].code /\ \A l \in Jobs : ~Clearing(jb2, l, t)
      BY DEF Landed
    <2>1. k # j /\ jb2[k] = jb[k] /\ ReadingBack(jb, k, t)
      BY <1>0, <1>1 DEF ReadingBack
    <2>2. h[t] = jb[k].code /\ \A l \in Jobs : ~Clearing(jb, l, t)
      BY <2>1 DEF Landed
    <2>3. t # s
      BY <1>6, <2>1 DEF ReadingBack, Writer
    <2>4. \A l \in Jobs : ~Clearing(jb2, l, t)
      BY <1>0, <1>1, <2>2, <2>3 DEF Clearing
    <2> QED
      BY <2>1, <2>2, <2>4
  <1>12. AlarmEnds(jb2, q2, h)
    <2> SUFFICES ASSUME NEW k \in Jobs, NEW t \in ManagedSlots, ReadingClear(jb2, k, t),
                        h[t] # NoCode
                 PROVE  \E l \in Jobs : ReadingBack(jb2, l, t) /\ Before(q2, k, l)
      BY DEF AlarmEnds
    <2>1. ReadingClear(jb, k, t)
      BY <1>0, <1>1 DEF ReadingClear
    <2>2. PICK l \in Jobs : ReadingBack(jb, l, t) /\ Before(q, k, l)
      BY <2>1 DEF AlarmEnds
    <2>3. ReadingBack(jb2, l, t)
      BY <1>1, <1>2, <2>2 DEF ReadingBack
    <2> QED
      BY <1>3, <2>2, <2>3
  <1> QED
    BY <1>7, <1>8, <1>9, <1>10, <1>11, <1>12

\* The command at the head of the queue was answered, and its call issued the
\* next one or ended.
LEMMA HeadGoes ==
  ASSUME NEW q \in Seq(Jobs), Once(q), q # <<>>, NEW j \in Jobs, j = Head(q),
         NEW r, r = Tail(q) \/ r = Append(Tail(q), j)
  PROVE  /\ \A x, y : Before(q, x, y) /\ x # j => Before(r, x, y)
         /\ \A x : ~Before(q, x, j)
         /\ r = Append(Tail(q), j) => \A x : InQueue(q, x) /\ x # j => Before(r, x, j)
  <1> DEFINE t == Tail(q)
  <1>1. /\ t \in Seq(Jobs) /\ Once(t)
        /\ \A x : InQueue(t, x) <=> InQueue(q, x) /\ x # j
        /\ \A x, y : Before(q, x, y) /\ x # j => Before(t, x, y)
        /\ \A x : ~Before(q, x, j)
    BY TailQueue
  <1>2. r = t \/ r = Append(t, j)
    OBVIOUS
  <1> HIDE DEF t
  <1>3. CASE r = t /\ r # Append(t, j)
    BY <1>1, <1>3 DEF t
  <1>4. CASE r = Append(t, j)
    <2>1. /\ \A x, y : Before(t, x, y) => Before(r, x, y)
          /\ \A x : InQueue(t, x) => Before(r, x, j)
      BY <1>1, <1>4, AppendQueue
    <2> QED
      BY <1>1, <2>1
  <1> QED
    BY <1>2, <1>3, <1>4

\* A write has landed: the code in its slot s is being read back.
LEMMA OrderlyWritten ==
  ASSUME NEW slots \in SlotsType, Distinct(slots), NEW jb \in [Jobs -> JobState],
         NEW q \in Seq(Jobs), NEW h \in [ManagedSlots -> Codes \cup {NoCode}],
         Queued(jb, q), Orderly(slots, jb, q, h), q # <<>>,
         NEW j \in Jobs, j = Head(q), NEW s, Writing(jb, j, s),
         NEW st, st.at = "readingBack", st.code = jb[j].code, st.slotNo = s,
         NEW h2, h2 = [h EXCEPT ![s] = st.code],
         NEW jb2, jb2 = [jb EXCEPT ![j] = st],
         NEW q2, q2 = Append(Tail(q), j)
  PROVE  Orderly(slots, jb2, q2, h2)
  <1> USE DEF Orderly
  <1> DEFINE c == st.code
  <1>1. jb2[j] = st /\ \A k \in Jobs \ {j} : jb2[k] = jb[k]
    OBVIOUS
  <1>2. c \in Codes /\ s \in ManagedSlots /\ s # NoSlot
    BY JobFields, ManagedSlotsNat DEF Writing
  <1>3. /\ \A x, y : Before(q, x, y) /\ x # j => Before(q2, x, y)
        /\ \A x : ~Before(q, x, j)
        /\ \A x : InQueue(q, x) /\ x # j => Before(q2, x, j)
    BY HeadGoes DEF Queued
  <1>4. h2[s] = c /\ \A t \in ManagedSlots \ {s} : h2[t] = h[t]
    BY <1>2
  <1>5. slots[c].slotNo = s /\ \A d \in Codes : slots[d].slotNo = s <=> c = d
    BY <1>2 DEF OwnSlot, Writer, Writing, Distinct
  <1> HIDE DEF c
  <1>6. \A k \in Jobs : ~Clearing(jb, k, s)
    BY <1>2, <1>3 DEF ClearFirst
  <1>7. \A k \in Jobs : jb[k].at # "idle" => InQueue(q, k) /\ jb[k].code \in Codes
    BY JobFields DEF Queued
  <1>8. OwnSlot(slots, jb2)
    BY <1>1, <1>5 DEF OwnSlot, Writer, c
  <1>9. ClearFirst(jb2, q2)
    <2> SUFFICES ASSUME NEW k \in Jobs, NEW l \in Jobs, NEW t \in ManagedSlots,
                        Clearing(jb2, k, t), Writing(jb2, l, t)
                 PROVE  Before(q2, k, l)
      BY DEF ClearFirst
    <2>1. k # j /\ Clearing(jb, k, t) /\ Writing(jb, l, t)
      BY <1>1 DEF Clearing, Writing
    <2> QED
      BY <1>3, <2>1 DEF ClearFirst
  <1>10. StillMatches(slots, jb2, h2)
    <2> SUFFICES ASSUME NEW t \in ManagedSlots,
                        \A k \in Jobs : ~Writing(jb2, k, t) /\ ~Clearing(jb2, k, t),
                        NEW d \in Codes
                 PROVE  h2[t] = d <=> slots[d].slotNo = t
      BY DEF StillMatches
    <2>1. CASE t = s
      BY <1>4, <1>5, <2>1
    <2>2. CASE t # s
      <3>1. \A k \in Jobs : ~Writing(jb, k, t) /\ ~Clearing(jb, k, t)
        BY <1>1, <2>2 DEF Writing, Clearing
      <3> QED
        BY <1>4, <2>2, <3>1 DEF StillMatches
    <2> QED
      BY <2>1, <2>2
  <1>11. ClearedUnused(slots, jb2)
    <2> SUFFICES ASSUME NEW k \in Jobs, NEW t \in ManagedSlots, Clearing(jb2, k, t),
                        \A l \in Jobs : ~Writing(jb2, l, t), NEW d \in Codes
                 PROVE  slots[d].slotNo # t
      BY DEF ClearedUnused
    <2>1. Clearing(jb, k, t)
      BY <1>1 DEF Clearing
    <2>2. t # s
      BY <1>6, <2>1
    <2>3. \A l \in Jobs : ~Writing(jb, l, t)
      BY <1>1, <2>2 DEF Writing
    <2> QED
      BY <2>1, <2>3 DEF ClearedUnused
  <1>12. Landed(jb2, h2)
    <2> SUFFICES ASSUME NEW k \in Jobs, NEW t \in ManagedSlots, ReadingBack(jb2, k, t)
                 PROVE  h2[t] = jb2[k].code /\ \A l \in Jobs : ~Clearing(jb2, l, t)
      BY DEF Landed
    <2>1. \A l \in Jobs : Clearing(jb2, l, t) => Clearing(jb, l, t)
      BY <1>1 DEF Clearing
    <2>2. CASE k = j
      BY <1>1, <1>4, <1>6, <2>1, <2>2 DEF ReadingBack, c
    <2>3. CASE k # j
      <3>1. ReadingBack(jb, k, t) /\ jb2[k] = jb[k]
        BY <1>1, <2>3 DEF ReadingBack
      <3>2. h[t] = jb[k].code /\ \A l \in Jobs : ~Clearing(jb, l, t)
        BY <3>1 DEF Landed
      <3>3. slots[jb[k].code].slotNo = t /\ jb[k].code \in Codes
        BY <1>7, <3>1 DEF OwnSlot, Writer, ReadingBack
      <3>4. h2[t] = jb[k].code
        BY <1>4, <1>5, <3>2, <3>3
      <3> QED
        BY <2>1, <3>1, <3>2, <3>4
    <2> QED
      BY <2>2, <2>3
  <1>13. AlarmEnds(jb2, q2, h2)
    <2> SUFFICES ASSUME NEW k \in Jobs, NEW t \in ManagedSlots, ReadingClear(jb2, k, t),
                        h2[t] # NoCode
                 PROVE  \E l \in Jobs : ReadingBack(jb2, l, t) /\ Before(q2, k, l)
      BY DEF AlarmEnds
    <2>1. k # j /\ ReadingClear(jb, k, t) /\ InQueue(q, k)
      BY <1>1, <1>7 DEF ReadingClear
    <2>2. CASE t = s
      <3>1. ReadingBack(jb2, j, t) /\ Before(q2, k, j)
        BY <1>1, <1>3, <2>1, <2>2 DEF ReadingBack
      <3> QED
        BY <3>1
    <2>3. CASE t # s
      <3>1. h[t] # NoCode
        BY <1>4, <2>3
      <3>2. PICK l \in Jobs : ReadingBack(jb, l, t) /\ Before(q, k, l)
        BY <2>1, <3>1 DEF AlarmEnds
      <3>3. ReadingBack(jb2, l, t) /\ Before(q2, k, l)
        BY <1>1, <1>3, <2>1, <3>2 DEF ReadingBack, Writing
      <3> QED
        BY <3>3
    <2> QED
      BY <2>2, <2>3
  <1> QED
    BY <1>8, <1>9, <1>10, <1>11, <1>12, <1>13

\* A clear has landed: slot s is empty and is being read back.
LEMMA OrderlyEmptied ==
  ASSUME NEW slots \in SlotsType, NEW jb \in [Jobs -> JobState],
         NEW q \in Seq(Jobs), NEW h \in [ManagedSlots -> Codes \cup {NoCode}],
         Queued(jb, q), Orderly(slots, jb, q, h), q # <<>>,
         NEW j \in Jobs, j = Head(q), NEW s, Clearing(jb, j, s),
         NEW st, st.at = "readingClear", st.slotNo = s,
         NEW h2, h2 = [h EXCEPT ![s] = NoCode],
         NEW jb2, jb2 = [jb EXCEPT ![j] = st],
         NEW q2, q2 = Append(Tail(q), j)
  PROVE  Orderly(slots, jb2, q2, h2)
  <1> USE DEF Orderly
  <1>1. jb2[j] = st /\ \A k \in Jobs \ {j} : jb2[k] = jb[k]
    OBVIOUS
  <1>2. s \in ManagedSlots
    BY JobFields DEF Clearing
  <1>3. \A x, y : Before(q, x, y) /\ x # j => Before(q2, x, y)
    BY HeadGoes DEF Queued
  <1>4. h2[s] = NoCode /\ \A t \in ManagedSlots \ {s} : h2[t] = h[t]
    BY <1>2
  <1>5. /\ \A k \in Jobs : \A t : Writing(jb2, k, t) <=> Writing(jb, k, t)
        /\ \A k \in Jobs : \A t : Clearing(jb2, k, t) => k # j /\ Clearing(jb, k, t)
        /\ \A k \in Jobs : \A t : Clearing(jb, k, t) => t = s \/ Clearing(jb2, k, t)
        /\ \A k \in Jobs : \A t : ReadingBack(jb2, k, t) <=> ReadingBack(jb, k, t)
        /\ \A k \in Jobs : Writer(jb2, k) => Writer(jb, k) /\ jb2[k] = jb[k]
        /\ \A k \in Jobs : \A t : ReadingClear(jb2, k, t)
             => (k = j /\ t = s) \/ (k # j /\ ReadingClear(jb, k, t))
    BY <1>1 DEF Writing, Clearing, ReadingBack, ReadingClear, Writer
  <1>6. OwnSlot(slots, jb2) /\ ClearFirst(jb2, q2)
    BY <1>3, <1>5 DEF OwnSlot, ClearFirst
  <1>7. StillMatches(slots, jb2, h2)
    <2> SUFFICES ASSUME NEW t \in ManagedSlots,
                        \A k \in Jobs : ~Writing(jb2, k, t) /\ ~Clearing(jb2, k, t),
                        NEW d \in Codes
                 PROVE  h2[t] = d <=> slots[d].slotNo = t
      BY DEF StillMatches
    <2>1. \A k \in Jobs : ~Writing(jb, k, t)
      BY <1>5
    <2>2. CASE t = s
      <3>1. slots[d].slotNo # t
        BY <2>1, <2>2 DEF ClearedUnused
      <3> QED
        BY <1>4, <2>2, <3>1, CodesAssumption
    <2>3. CASE t # s
      <3>1. \A k \in Jobs : ~Clearing(jb, k, t)
        BY <1>5, <2>3
      <3> QED
        BY <1>4, <2>1, <2>3, <3>1 DEF StillMatches
    <2> QED
      BY <2>2, <2>3
  <1>8. ClearedUnused(slots, jb2)
    BY <1>5 DEF ClearedUnused
  <1>9. Landed(jb2, h2)
    <2> SUFFICES ASSUME NEW k \in Jobs, NEW t \in ManagedSlots, ReadingBack(jb2, k, t)
                 PROVE  h2[t] = jb2[k].code /\ \A l \in Jobs : ~Clearing(jb2, l, t)
      BY DEF Landed
    <2>1. ReadingBack(jb, k, t) /\ jb2[k] = jb[k]
      BY <1>5 DEF ReadingBack, Writer
    <2>2. h[t] = jb[k].code /\ \A l \in Jobs : ~Clearing(jb, l, t)
      BY <2>1 DEF Landed
    <2>3. t # s
      BY <2>2
    <2> QED
      BY <1>4, <1>5, <2>1, <2>2, <2>3
  <1>10. AlarmEnds(jb2, q2, h2)
    <2> SUFFICES ASSUME NEW k \in Jobs, NEW t \in ManagedSlots, ReadingClear(jb2, k, t),
                        h2[t] # NoCode
                 PROVE  \E l \in Jobs : ReadingBack(jb2, l, t) /\ Before(q2, k, l)
      BY DEF AlarmEnds
    <2>1. t # s /\ h[t] # NoCode
      BY <1>4
    <2>2. k # j /\ ReadingClear(jb, k, t)
      BY <1>5, <2>1
    <2>3. PICK l \in Jobs : ReadingBack(jb, l, t) /\ Before(q, k, l)
      BY <2>1, <2>2 DEF AlarmEnds
    <2> QED
      BY <1>3, <1>5, <2>2, <2>3
  <1> QED
    BY <1>6, <1>7, <1>8, <1>9, <1>10

\* A slot was read back and the call ended.
LEMMA OrderlyRead ==
  ASSUME NEW slots \in SlotsType, NEW jb \in [Jobs -> JobState],
         NEW q \in Seq(Jobs), NEW h, Queued(jb, q), Orderly(slots, jb, q, h), q # <<>>,
         NEW j \in Jobs, j = Head(q), jb[j].at \in {"readingBack", "readingClear"},
         NEW jb2, jb2 = [jb EXCEPT ![j] = Idle],
         NEW q2, q2 = Tail(q)
  PROVE  Orderly(slots, jb2, q2, h)
  <1> USE DEF Orderly
  <1>1. jb2[j].at = "idle" /\ \A k \in Jobs \ {j} : jb2[k] = jb[k]
    BY DEF Idle
  <1>2. /\ \A x, y : Before(q, x, y) /\ x # j => Before(q2, x, y)
        /\ \A x : ~Before(q, x, j)
    BY HeadGoes DEF Queued
  <1>3. /\ \A k \in Jobs : \A t : Writing(jb2, k, t) <=> Writing(jb, k, t)
        /\ \A k \in Jobs : \A t : Clearing(jb2, k, t) <=> k # j /\ Clearing(jb, k, t)
        /\ \A k \in Jobs : \A t : Clearing(jb, k, t) => Clearing(jb2, k, t)
        /\ \A k \in Jobs : \A t : ReadingBack(jb2, k, t) <=> k # j /\ ReadingBack(jb, k, t)
        /\ \A k \in Jobs : Writer(jb2, k) => Writer(jb, k) /\ jb2[k] = jb[k]
        /\ \A k \in Jobs : \A t : ReadingClear(jb2, k, t) => k # j /\ ReadingClear(jb, k, t)
    BY <1>1 DEF Writing, Clearing, ReadingBack, ReadingClear, Writer
  <1>4. OwnSlot(slots, jb2) /\ ClearFirst(jb2, q2)
    BY <1>2, <1>3 DEF OwnSlot, ClearFirst
  <1>5. StillMatches(slots, jb2, h) /\ ClearedUnused(slots, jb2)
    BY <1>3 DEF StillMatches, ClearedUnused
  <1>6. Landed(jb2, h)
    BY <1>1, <1>3 DEF Landed
  <1>7. ASSUME NEW k \in Jobs, NEW t \in ManagedSlots, ReadingClear(jb, k, t), h[t] # NoCode
        PROVE  \E l \in Jobs : ReadingBack(jb2, l, t) /\ (k # j => Before(q2, k, l))
    <2>1. PICK l \in Jobs : ReadingBack(jb, l, t) /\ Before(q, k, l)
      BY <1>7 DEF AlarmEnds
    <2> QED
      BY <1>2, <1>3, <2>1
  <1>8. AlarmEnds(jb2, q2, h)
    BY <1>3, <1>7 DEF AlarmEnds
  <1> QED
    BY <1>4, <1>5, <1>6, <1>8

\* A clear that finds a code in its slot still has that code's own read-back
\* after it.
LEMMA AlarmHasReader ==
  ASSUME NEW jb \in [Jobs -> JobState], NEW q \in Seq(Jobs), NEW h,
         Queued(jb, q), AlarmEnds(jb, q, h), q # <<>>,
         NEW j \in Jobs, j = Head(q), NEW s, ReadingClear(jb, j, s), h[s] # NoCode
  PROVE  \E k \in Jobs \ {j} : Writer(jb, k)
  <1>1. s \in ManagedSlots
    BY JobFields DEF ReadingClear
  <1>2. PICK k \in Jobs : ReadingBack(jb, k, s)
    BY <1>1 DEF AlarmEnds
  <1>3. k # j /\ Writer(jb, k)
    BY <1>2 DEF ReadingBack, ReadingClear, Writer
  <1> QED
    BY <1>3

-----------------------------------------------------------------------------
(* The commands under way, the map and the lock, through every step.       *)

\* Until something goes wrong the commands under way bring the lock to what the
\* map says, and an open incident has a read-back coming that closes it.
Flow(slots, jb, q, wrong, h, alarm) ==
  /\ Queued(jb, q)
  /\ wrong = {} => /\ Orderly(slots, jb, q, h)
                   /\ alarm => \E k \in Jobs : Writer(jb, k)

FlowM(m, h, alarm) == Flow(m.slots, m.job, m.queue, m.mishaps, h, alarm)

\* The start and the stop task of an interval each run their call once.
JobsOnce ==
  \A i \in Intervals :
    /\ job[<<"start", i>>] # Idle => startEvent[i] \notin {"unset", "armed"}
    /\ job[<<"stop", i>>] # Idle => stopEvent[i] \notin {"unset", "armed"}
    /\ startEvent[i] = "unset" => stopEvent[i] = "unset"

FlowInv == JobsOnce /\ Flow(codeToSlot, job, sendQueue, mishaps, lockHolds, incident)

LEMMA FlowAllocate ==
  ASSUME NEW m, ManagerOK(m), NEW h, NEW alarm, FlowM(m, h, alarm), NEW j \in Jobs,
         m.job[j] = Idle, NEW c \in Codes, NEW n, n = AllocateCodeSlot(m, j, c)
  PROVE  /\ ManagerOK(n) /\ FlowM(n, h, alarm)
         /\ \A k \in Jobs \ {j} : n.job[k] = m.job[k]
  <1>1. ManagerOK(n)
    BY AllocateOK
  <1>2. RefusedOne(m, n, c) \/ \E entry : Taken(m, n, j, c, entry)
    BY AllocateEffect
  <1>3. /\ m.slots \in SlotsType /\ Distinct(m.slots) /\ m.job \in [Jobs -> JobState]
        /\ m.queue \in Seq(Jobs)
    BY DEF ManagerOK, ManagerType, SlotsType, Distinct
  <1>4. CASE RefusedOne(m, n, c)
    BY <1>1, <1>4 DEF RefusedOne, FlowM, Flow
  <1>5. ASSUME NEW entry, Taken(m, n, j, c, entry)
        PROVE  FlowM(n, h, alarm) /\ \A k \in Jobs \ {j} : n.job[k] = m.job[k]
    <2> DEFINE s == entry.slotNo
               st == [at |-> "writing", code |-> c, slotNo |-> s, attempt |-> 1]
    <2>1. /\ s \in ManagedSlots
          /\ n.slots = [m.slots EXCEPT ![c] = entry]
          /\ n.job = [m.job EXCEPT ![j] = st] /\ n.queue = Append(m.queue, j)
          /\ n.mishaps = m.mishaps
      BY <1>5 DEF Taken
    <2>2. \/ m.slots[c].slotNo = s
          \/ m.slots[c].slotNo = NoSlot /\ \A d \in Codes : m.slots[d].slotNo # s
      BY <1>5 DEF Taken, Holds, Free
    <2>3. st # Idle /\ st.at = "writing"
      BY DEF Idle
    <2> HIDE DEF s, st
    <2>4. Queued(n.job, n.queue)
      <3>1. Queued(m.job, m.queue)
        BY DEF FlowM, Flow
      <3>2. Queued([m.job EXCEPT ![j] = st], Append(m.queue, j))
        BY <1>3, <2>3, <3>1, QueuedIssue
      <3> QED
        BY <2>1, <3>2
    <2>5. n.job[j].at = "writing" /\ \A k \in Jobs \ {j} : n.job[k] = m.job[k]
      BY <1>3, <2>1, <2>3
    <2>6. ASSUME m.mishaps = {}
          PROVE  Orderly(n.slots, n.job, n.queue, h)
      <3>1. Orderly(m.slots, m.job, m.queue, h) /\ Queued(m.job, m.queue)
        BY <2>6 DEF FlowM, Flow
      <3>2. entry.slotNo = s /\ st = [at |-> "writing", code |-> c, slotNo |-> s, attempt |-> 1]
        BY DEF s, st
      <3> DEFINE slots == m.slots
                 jb == m.job
                 q == m.queue
                 slots2 == n.slots
                 jb2 == n.job
                 q2 == n.queue
      <3>3. /\ slots2 = [slots EXCEPT ![c] = entry] /\ jb2 = [jb EXCEPT ![j] = st]
            /\ q2 = Append(q, j)
        BY <2>1
      <3>4. /\ slots \in SlotsType /\ Distinct(slots) /\ jb \in [Jobs -> JobState]
            /\ q \in Seq(Jobs) /\ Queued(jb, q) /\ Orderly(slots, jb, q, h) /\ jb[j] = Idle
        BY <1>3, <3>1
      <3>5. \/ slots[c].slotNo = s
            \/ (slots[c].slotNo = NoSlot /\ \A d \in Codes : slots[d].slotNo # s)
        BY <2>2
      <3> HIDE DEF slots, jb, q, slots2, jb2, q2
      <3>6. Orderly(slots2, jb2, q2, h)
        BY <2>1, <3>2, <3>3, <3>4, <3>5, OrderlyTake, Zenon
      <3> QED
        BY <3>6 DEF slots2, jb2, q2
    <2>7. \E k \in Jobs : Writer(n.job, k)
      BY <2>5 DEF Writer
    <2> QED
      BY <2>1, <2>4, <2>5, <2>6, <2>7 DEF FlowM, Flow
  <1> QED
    BY <1>1, <1>2, <1>4, <1>5 DEF RefusedOne

LEMMA FlowFree ==
  ASSUME NEW m, ManagerOK(m), NEW h, NEW alarm, FlowM(m, h, alarm), NEW j \in Jobs,
         m.job[j] = Idle, NEW c \in Codes, NEW n, n = FreeCodeSlot(m, j, c)
  PROVE  FlowM(n, h, alarm) /\ \A k \in Jobs \ {j} : n.job[k] = m.job[k]
  <1>1. Nothing(m, n) \/ Counted(m, n, c) \/ Cleared(m, n, j, c)
    BY FreeEffect
  <1>2. /\ m.slots \in SlotsType /\ Distinct(m.slots) /\ m.job \in [Jobs -> JobState]
        /\ m.queue \in Seq(Jobs)
    BY DEF ManagerOK, ManagerType, SlotsType, Distinct
  <1>3. CASE Nothing(m, n)
    BY <1>3 DEF Nothing, FlowM, Flow
  <1>4. CASE Counted(m, n, c)
    <2>1. /\ n.job = m.job /\ n.queue = m.queue /\ n.mishaps = m.mishaps
          /\ \A d \in Codes : n.slots[d].slotNo = m.slots[d].slotNo
      BY <1>2, <1>4 DEF Counted, SlotsType
    <2>2. Orderly(m.slots, m.job, m.queue, h) => Orderly(n.slots, m.job, m.queue, h)
      BY <1>2, <2>1, OrderlyCount
    <2> QED
      BY <2>1, <2>2 DEF FlowM, Flow
  <1>5. CASE Cleared(m, n, j, c)
    <2> DEFINE s == m.slots[c].slotNo
               st == [at |-> "clearing", code |-> c, slotNo |-> s]
    <2>1. /\ s \in ManagedSlots
          /\ n.slots = [m.slots EXCEPT ![c] = Absent]
          /\ n.job = [m.job EXCEPT ![j] = st] /\ n.queue = Append(m.queue, j)
          /\ n.mishaps = IF WritingCode(m, c) THEN m.mishaps \cup {"overtaken"}
                         ELSE m.mishaps
      BY <1>2, <1>5 DEF Cleared, Holds, SlotsType
    <2>2. st # Idle
      BY DEF Idle
    <2> HIDE DEF s, st
    <2>3. Queued(n.job, n.queue)
      <3>1. Queued(m.job, m.queue)
        BY DEF FlowM, Flow
      <3>2. Queued([m.job EXCEPT ![j] = st], Append(m.queue, j))
        BY <1>2, <2>2, <3>1, QueuedIssue
      <3> QED
        BY <2>1, <3>2
    <2>4. \A k \in Jobs \ {j} : n.job[k] = m.job[k]
      BY <1>2, <2>1
    <2>5. ASSUME n.mishaps = {}
          PROVE  Orderly(n.slots, n.job, n.queue, h) /\ (alarm => \E k \in Jobs : Writer(n.job, k))
      <3>1. m.mishaps = {} /\ ~WritingCode(m, c)
        BY <2>1, <2>5
      <3>2. ~\E k \in Jobs : Writer(m.job, k) /\ m.job[k].code = c
        BY <3>1 DEF WritingCode, Writer
      <3>3. /\ Orderly(m.slots, m.job, m.queue, h)
            /\ alarm => \E k \in Jobs : Writer(m.job, k)
        BY <3>1 DEF FlowM, Flow
      <3> DEFINE slots2 == n.slots
                 jb2 == n.job
                 q2 == n.queue
      <3>4. Orderly(n.slots, n.job, n.queue, h)
        <4>1. m.slots[c].slotNo = s /\ st = [at |-> "clearing", code |-> c, slotNo |-> s]
          BY DEF s, st
        <4>2. /\ slots2 = [m.slots EXCEPT ![c] = Absent] /\ jb2 = [m.job EXCEPT ![j] = st]
              /\ q2 = Append(m.queue, j)
          BY <2>1
        <4> HIDE DEF slots2, jb2, q2
        <4>3. Orderly(slots2, jb2, q2, h)
          BY <1>2, <2>1, <3>2, <3>3, <4>1, <4>2, OrderlyClear
        <4> QED
          BY <4>3 DEF slots2, jb2, q2
      <3>5. ~Writer(m.job, j)
        BY DEF Writer, Idle
      <3> QED
        BY <2>4, <3>3, <3>4, <3>5 DEF Writer
    <2> QED
      BY <2>3, <2>4, <2>5 DEF FlowM, Flow
  <1> QED
    BY <1>1, <1>3, <1>4, <1>5 DEF Nothing, Counted

\* The same of what the start and the stop task run.
LEMMA FlowTask ==
  ASSUME NEW m, ManagerOK(m), NEW h, NEW alarm, FlowM(m, h, alarm), NEW i \in Intervals
  PROVE  /\ m.job[<<"start", i>>] = Idle =>
              /\ ManagerOK(Started(m, i)) /\ FlowM(Started(m, i), h, alarm)
              /\ \A k \in Jobs \ {<<"start", i>>} : Started(m, i).job[k] = m.job[k]
         /\ m.job[<<"stop", i>>] = Idle =>
              /\ FlowM(Stopped(m, i), h, alarm)
              /\ \A k \in Jobs \ {<<"stop", i>>} : Stopped(m, i).job[k] = m.job[k]
  <1>1. <<"start", i>> \in Jobs /\ <<"stop", i>> \in Jobs /\ CodeOf[i] \in Codes
    BY AccessAssumption DEF Jobs
  <1>2. CASE retired
    BY <1>2 DEF Started, Stopped
  <1>3. CASE ~retired
    <2> DEFINE n == Started(m, i)
               r == Stopped(m, i)
    <2>1. /\ n = AllocateCodeSlot(m, <<"start", i>>, CodeOf[i])
          /\ r = FreeCodeSlot(m, <<"stop", i>>, CodeOf[i])
      BY <1>3 DEF Started, Stopped
    <2> HIDE DEF n, r
    <2>2. m.job[<<"start", i>>] = Idle =>
            /\ ManagerOK(n) /\ FlowM(n, h, alarm)
            /\ \A k \in Jobs \ {<<"start", i>>} : n.job[k] = m.job[k]
      BY <1>1, <2>1, FlowAllocate
    <2>3. m.job[<<"stop", i>>] = Idle =>
            /\ FlowM(r, h, alarm)
            /\ \A k \in Jobs \ {<<"stop", i>>} : r.job[k] = m.job[k]
      BY <1>1, <2>1, FlowFree
    <2> QED
      BY <2>2, <2>3 DEF n, r
  <1> QED
    BY <1>2, <1>3

LEMMA FlowBecomes ==
  ASSUME NEW m, FlowM(m, lockHolds, incident), Becomes(m), UNCHANGED <<lockHolds, incident>>
  PROVE  /\ Flow(codeToSlot, job, sendQueue, mishaps, lockHolds, incident)'
         /\ job' = m.job
  BY DEF FlowM, Flow, Becomes, Queued, Orderly, OwnSlot, ClearFirst, StillMatches,
         ClearedUnused, Landed, AlarmEnds, Writing, Clearing, ReadingBack, ReadingClear, Writer

LEMMA FlowManager ==
  ASSUME FlowInv
  PROVE  FlowM(Manager, lockHolds, incident) /\ Manager.job = job
  BY DEF FlowInv, FlowM, Manager

\* A step that leaves the calls of the manager and the lock alone.
LEMMA FlowSame ==
  ASSUME FlowInv, UNCHANGED <<codeToSlot, job, sendQueue, mishaps, lockHolds, incident>>,
         JobsOnce'
  PROVE  FlowInv'
  BY DEF FlowInv, Flow, Queued, Orderly, OwnSlot, ClearFirst, StillMatches,
         ClearedUnused, Landed, AlarmEnds, Writing, Clearing, ReadingBack, ReadingClear, Writer

LEMMA FlowNextState ==
  ASSUME JobsOnce', Flow(codeToSlot', job', sendQueue', mishaps', lockHolds', incident')
  PROVE  FlowInv'
  BY DEF FlowInv, Flow, Queued, Orderly, OwnSlot, ClearFirst, StillMatches,
         ClearedUnused, Landed, AlarmEnds, Writing, Clearing, ReadingBack, ReadingClear, Writer

LEMMA FlowRadio ==
  ASSUME IInv, FlowInv, NEW j \in Jobs,
         WriteReturns(j) \/ ReadBackReturns(j) \/ ClearReturns(j) \/ ReadClearReturns(j)
  PROVE  FlowInv'
  <1> DEFINE s == job[j].slotNo
             back == [job[j] EXCEPT !.at = "readingBack"]
             again == [job[j] EXCEPT !.at = "writing", !.attempt = 2]
             empty == [job[j] EXCEPT !.at = "readingClear"]
  <1>1. /\ codeToSlot \in SlotsType /\ Distinct(codeToSlot) /\ job \in [Jobs -> JobState]
        /\ sendQueue \in Seq(Jobs) /\ lockHolds \in [ManagedSlots -> Codes \cup {NoCode}]
    BY DEF IInv, TypeOK, SlotsDistinct, SlotsType, Distinct
  <1>2. /\ JobsOnce /\ Queued(job, sendQueue)
        /\ mishaps = {} => /\ Orderly(codeToSlot, job, sendQueue, lockHolds)
                           /\ incident => \E k \in Jobs : Writer(job, k)
    BY DEF FlowInv, Flow
  <1>3. /\ sendQueue # <<>> /\ j = Head(sendQueue)
        /\ UNCHANGED <<startEvent, stopEvent, codeToSlot>>
    <2>1. UNCHANGED <<startEvent, stopEvent, codeToSlot>>
      BY RadioKeeps DEF Radio
    <2>2. Returning(j, "writing") \/ Returning(j, "readingBack")
            \/ Returning(j, "clearing") \/ Returning(j, "readingClear")
      BY WriteReturnsEffect, ReadBackReturnsEffect, ClearReturnsEffect, ReadClearReturnsEffect
    <2> QED
      BY <2>1, <2>2 DEF Returning
  <1>4. job[j] # Idle
    BY <1>1, <1>2, <1>3, TailQueue DEF Queued
  <1>5. \A k \in Jobs : job[k] = Idle => k # j
    BY <1>4
  <1>6. ASSUME Finished(j) \/ \E state : Advanced(j, state) /\ state # Idle
        PROVE  JobsOnce' /\ Queued(job', sendQueue')
    <2>1. \A k \in Jobs : job[k] = Idle => job'[k] = Idle
      BY <1>1, <1>5, <1>6 DEF Finished, Advanced
    <2>2. JobsOnce'
      <3>1. \A i \in Intervals : <<"start", i>> \in Jobs /\ <<"stop", i>> \in Jobs
        BY DEF Jobs
      <3> QED
        BY <1>2, <1>3, <2>1, <3>1 DEF JobsOnce
    <2>3. CASE Finished(j)
      BY <1>1, <1>2, <1>3, <2>2, <2>3, QueuedReturn DEF Finished
    <2>4. ASSUME NEW state, Advanced(j, state), state # Idle
          PROVE  Queued(job', sendQueue')
      BY <1>1, <1>2, <1>3, <2>4, QueuedReturn DEF Advanced
    <2> QED
      BY <1>6, <2>2, <2>3, <2>4
  <1>7. ASSUME Finished(j) \/ (\E state : Advanced(j, state) /\ state # Idle),
               "lost" \in mishaps'
        PROVE  FlowInv'
    BY <1>6, <1>7, FlowNextState DEF Flow
  <1>8. mishaps \subseteq mishaps'
    BY RadioKeeps DEF Radio
  <1>9. job[j] \in JobState
    BY <1>1
  <1>10. CASE WriteReturns(j)
    <2>1. /\ Returning(j, "writing")
          /\ Finished(j) \/ Advanced(j, back)
          /\ \/ "lost" \in mishaps'
             \/ Advanced(j, back) /\ lockHolds' = [lockHolds EXCEPT ![s] = job[j].code]
      BY <1>10, WriteReturnsEffect
    <2>2. back.at = "readingBack" /\ back.code = job[j].code /\ back.slotNo = s /\ back # Idle
      BY <1>9, <2>1 DEF JobState, Idle, Returning
    <2>3. incident' = incident
      BY <1>10 DEF WriteReturns
    <2> HIDE DEF back, s
    <2>4. CASE "lost" \in mishaps'
      BY <1>7, <2>1, <2>2, <2>4
    <2>5. CASE Advanced(j, back) /\ lockHolds' = [lockHolds EXCEPT ![s] = job[j].code]
      <3>1. job' = [job EXCEPT ![j] = back] /\ sendQueue' = Append(Tail(sendQueue), j)
        BY <2>5 DEF Advanced
      <3>2. JobsOnce' /\ Queued(job', sendQueue')
        BY <1>6, <2>2, <2>5
      <3>3. Writer(job', j)
        BY <1>1, <2>2, <3>1 DEF Writer
      <3>4. ASSUME mishaps' = {}
            PROVE  Orderly(codeToSlot', job', sendQueue', lockHolds')
        <4>1. Orderly(codeToSlot, job, sendQueue, lockHolds)
          BY <1>2, <1>8, <3>4
        <4>2. Writing(job, j, s)
          BY <2>1 DEF Writing, Returning, s
        <4>3. lockHolds' = [lockHolds EXCEPT ![s] = back.code]
          BY <2>2, <2>5
        <4>4. Orderly(codeToSlot, job', sendQueue', lockHolds')
          BY <1>1, <1>2, <1>3, <2>2, <3>1, <4>1, <4>2, <4>3, OrderlyWritten
        <4> QED
          BY <1>3, <4>4
      <3> QED
        BY <3>2, <3>3, <3>4, FlowNextState DEF Flow
    <2> QED
      BY <2>1, <2>4, <2>5
  <1>11. CASE ReadBackReturns(j)
    <2> DEFINE confirmed == ConfirmsCode(job[j].slotNo, job[j].code)
    <2>1. /\ Returning(j, "readingBack")
          /\ Finished(j) \/ Advanced(j, again)
          /\ \/ "lost" \in mishaps'
             \/ IF Retry(j, confirmed) THEN Advanced(j, again) /\ UNCHANGED incident
                ELSE Finished(j) /\ Record(confirmed)
      BY <1>11, ReadBackReturnsEffect
    <2>2. again # Idle /\ lockHolds' = lockHolds
      BY <1>9, <1>11, <2>1 DEF JobState, Idle, Returning, ReadBackReturns
    <2> HIDE DEF again, confirmed
    <2>3. CASE "lost" \in mishaps'
      BY <1>7, <2>1, <2>2, <2>3
    <2>4. CASE "lost" \notin mishaps'
      <3>1. mishaps' = {} => confirmed
        <4> SUFFICES ASSUME mishaps' = {}
                     PROVE  confirmed
          OBVIOUS
        <4>1. Landed(job, lockHolds)
          BY <1>2, <1>8 DEF Orderly
        <4>2. ReadingBack(job, j, s) /\ s \in ManagedSlots /\ job[j].code \in Codes
          BY <1>9, <2>1, JobFields DEF ReadingBack, Returning
        <4>3. lockHolds[s] = job[j].code
          BY <4>1, <4>2 DEF Landed
        <4> QED
          BY <4>2, <4>3, CodesAssumption DEF ConfirmsCode, confirmed
      <3>2. JobsOnce' /\ Queued(job', sendQueue')
        BY <1>6, <2>1, <2>2
      <3>3. ASSUME mishaps' = {}
            PROVE  Orderly(codeToSlot', job', sendQueue', lockHolds') /\ ~incident'
        <4>1. Finished(j) /\ Record(confirmed)
          BY <2>1, <2>4, <3>1, <3>3 DEF Retry
        <4>2. ~incident'
          BY <3>1, <3>3, <4>1 DEF Record
        <4>3. Orderly(codeToSlot, job, sendQueue, lockHolds)
          BY <1>2, <1>8, <3>3
        <4>4. job' = [job EXCEPT ![j] = Idle] /\ sendQueue' = Tail(sendQueue)
          BY <4>1 DEF Finished
        <4>5. Orderly(codeToSlot, job', sendQueue', lockHolds)
          BY <1>1, <1>2, <1>3, <2>1, <4>3, <4>4, OrderlyRead DEF Returning
        <4> QED
          BY <1>3, <2>2, <4>2, <4>5
      <3> QED
        BY <3>2, <3>3, FlowNextState DEF Flow
    <2> QED
      BY <2>3, <2>4
  <1>12. CASE ClearReturns(j)
    <2>1. /\ Returning(j, "clearing")
          /\ Finished(j) \/ Advanced(j, empty)
          /\ \/ "lost" \in mishaps'
             \/ Advanced(j, empty) /\ lockHolds' = [lockHolds EXCEPT ![s] = NoCode]
      BY <1>12, ClearReturnsEffect
    <2>2. empty.at = "readingClear" /\ empty.slotNo = s /\ empty # Idle
      BY <1>9, <2>1 DEF JobState, Idle, Returning
    <2>3. incident' = incident
      BY <1>12 DEF ClearReturns
    <2> HIDE DEF empty, s
    <2>4. CASE "lost" \in mishaps'
      BY <1>7, <2>1, <2>2, <2>4
    <2>5. CASE Advanced(j, empty) /\ lockHolds' = [lockHolds EXCEPT ![s] = NoCode]
      <3>1. job' = [job EXCEPT ![j] = empty] /\ sendQueue' = Append(Tail(sendQueue), j)
        BY <2>5 DEF Advanced
      <3>2. JobsOnce' /\ Queued(job', sendQueue')
        BY <1>6, <2>2, <2>5
      <3>3. ASSUME mishaps' = {}
            PROVE  /\ Orderly(codeToSlot', job', sendQueue', lockHolds')
                   /\ incident' => \E k \in Jobs : Writer(job', k)
        <4>1. /\ Orderly(codeToSlot, job, sendQueue, lockHolds)
              /\ incident => \E k \in Jobs : Writer(job, k)
          BY <1>2, <1>8, <3>3
        <4>2. Clearing(job, j, s) /\ ~Writer(job, j)
          BY <2>1 DEF Clearing, Writer, Returning, s
        <4>3. Orderly(codeToSlot, job', sendQueue', lockHolds')
          BY <1>1, <1>2, <1>3, <2>2, <2>5, <3>1, <4>1, <4>2, OrderlyEmptied
        <4>4. \A k \in Jobs : Writer(job, k) => Writer(job', k)
          BY <3>1, <4>2, <1>1 DEF Writer
        <4> QED
          BY <1>3, <2>3, <4>1, <4>3, <4>4
      <3> QED
        BY <3>2, <3>3, FlowNextState DEF Flow
    <2> QED
      BY <2>1, <2>4, <2>5
  <1>13. CASE ReadClearReturns(j)
    <2>1. /\ Returning(j, "readingClear") /\ Finished(j)
          /\ "lost" \in mishaps' \/ incident' = (lockHolds[s] # NoCode)
      BY <1>13, ReadClearReturnsEffect
    <2>2. lockHolds' = lockHolds
      BY <1>13 DEF ReadClearReturns
    <2>3. CASE "lost" \in mishaps'
      BY <1>7, <2>1, <2>3
    <2>4. CASE incident' = (lockHolds[s] # NoCode)
      <3>1. JobsOnce' /\ Queued(job', sendQueue')
        BY <1>6, <2>1
      <3>2. ASSUME mishaps' = {}
            PROVE  /\ Orderly(codeToSlot', job', sendQueue', lockHolds')
                   /\ incident' => \E k \in Jobs : Writer(job', k)
        <4>1. Orderly(codeToSlot, job, sendQueue, lockHolds)
          BY <1>2, <1>8, <3>2
        <4>2. job' = [job EXCEPT ![j] = Idle] /\ sendQueue' = Tail(sendQueue)
          BY <2>1 DEF Finished
        <4>3. /\ Orderly(codeToSlot, job', sendQueue', lockHolds)
              /\ lockHolds[s] # NoCode => \E k \in Jobs : Writer(job', k)
          <5>1. ReadingClear(job, j, s) /\ job[j].at \in {"readingBack", "readingClear"}
            BY <2>1 DEF Returning, ReadingClear
          <5>2. Orderly(codeToSlot, job', sendQueue', lockHolds)
            BY <1>1, <1>2, <1>3, <4>1, <4>2, <5>1, OrderlyRead
          <5>3. ASSUME lockHolds[s] # NoCode
                PROVE  \E k \in Jobs : Writer(job', k)
            <6>1. PICK k \in Jobs \ {j} : Writer(job, k)
              BY <1>1, <1>2, <1>3, <4>1, <5>1, <5>3, AlarmHasReader DEF Orderly
            <6>2. Writer(job', k)
              BY <4>2, <6>1 DEF Writer
            <6> QED
              BY <6>2
          <5> QED
            BY <5>2, <5>3
        <4> QED
          BY <1>3, <2>2, <2>4, <4>3
      <3> QED
        BY <3>1, <3>2, FlowNextState DEF Flow
    <2> QED
      BY <2>1, <2>3, <2>4
  <1> QED
    BY <1>10, <1>11, <1>12, <1>13

LEMMA FlowNext ==
  ASSUME IInv, TimersOK, FlowInv, [Next]_vars
  PROVE  FlowInv'
  <1>0. /\ startEvent \in [Intervals -> EventState] /\ stopEvent \in [Intervals -> EventState]
        /\ now \in Nat /\ Low \in [Intervals -> Nat] /\ High \in [Intervals -> Nat]
        /\ \A i \in Intervals : Low[i] < High[i]
    BY AccessAssumption DEF IInv, TypeOK
  <1>1. ManagerOK(Manager) /\ FlowM(Manager, lockHolds, incident) /\ Manager.job = job
    BY ManagerIsOK, FlowManager
  <1>2. \A i, k \in Intervals :
          /\ <<"start", i>> \in Jobs /\ <<"stop", i>> \in Jobs
          /\ <<"start", i>> # <<"stop", k>>
          /\ k # i => <<"start", i>> # <<"start", k>> /\ <<"stop", i>> # <<"stop", k>>
    BY DEF Jobs
  <1>3. JobsOnce
    BY DEF FlowInv
  <1>4. ASSUME NEW n, FlowM(n, lockHolds, incident), Becomes(n),
               UNCHANGED <<lockHolds, incident>>, job' = n.job => JobsOnce'
        PROVE  FlowInv'
    BY <1>4, FlowBecomes DEF FlowInv
  <1>5. ASSUME NEW i \in Intervals, AddAccessInterval(i)
        PROVE  FlowInv'
    <2> DEFINE m == IF Low[i] <= now THEN Started(Manager, i) ELSE Manager
               n == IF High[i] <= now THEN Stopped(m, i) ELSE m
    <2>1. /\ startEvent[i] = "unset" /\ Becomes(n)
          /\ startEvent' = [startEvent EXCEPT ![i] = NewTask(Low[i])]
          /\ stopEvent' = [stopEvent EXCEPT ![i] = NewTask(High[i])]
          /\ UNCHANGED <<lockHolds, incident>>
      BY <1>5 DEF AddAccessInterval
    <2>2. job[<<"start", i>>] = Idle /\ job[<<"stop", i>>] = Idle
      BY <1>3, <2>1 DEF JobsOnce
    <2>3. /\ ManagerOK(m) /\ FlowM(m, lockHolds, incident)
          /\ \A k \in Jobs \ {<<"start", i>>} : m.job[k] = job[k]
          /\ ~(Low[i] <= now) => m.job = job
      <3>1. CASE Low[i] <= now
        BY <1>1, <2>2, <3>1, FlowTask
      <3>2. CASE ~(Low[i] <= now)
        BY <1>1, <3>2
      <3> QED
        BY <3>1, <3>2
    <2>4. m.job[<<"stop", i>>] = Idle
      BY <1>2, <2>2, <2>3
    <2> HIDE DEF m
    <2>5. /\ FlowM(n, lockHolds, incident)
          /\ \A k \in Jobs \ {<<"stop", i>>} : n.job[k] = m.job[k]
          /\ ~(High[i] <= now) => n = m
      <3>1. CASE High[i] <= now
        BY <2>3, <2>4, <3>1, FlowTask
      <3>2. CASE ~(High[i] <= now)
        BY <2>3, <3>2
      <3> QED
        BY <3>1, <3>2
    <2> HIDE DEF n
    <2>6. ASSUME job' = n.job
          PROVE  JobsOnce'
      <3> SUFFICES ASSUME NEW k \in Intervals
                   PROVE  /\ job'[<<"start", k>>] # Idle => startEvent'[k] \notin {"unset", "armed"}
                          /\ job'[<<"stop", k>>] # Idle => stopEvent'[k] \notin {"unset", "armed"}
                          /\ startEvent'[k] = "unset" => stopEvent'[k] = "unset"
        BY DEF JobsOnce
      <3>1. CASE k # i
        <4>1. /\ job'[<<"start", k>>] = job[<<"start", k>>]
              /\ job'[<<"stop", k>>] = job[<<"stop", k>>]
          BY <1>2, <2>3, <2>5, <2>6, <3>1
        <4>2. startEvent'[k] = startEvent[k] /\ stopEvent'[k] = stopEvent[k]
          BY <1>0, <2>1, <3>1
        <4> QED
          BY <1>3, <4>1, <4>2 DEF JobsOnce
      <3>2. CASE k = i
        <4>1. startEvent'[i] = NewTask(Low[i]) /\ stopEvent'[i] = NewTask(High[i])
          BY <1>0, <2>1
        <4>2. job'[<<"start", i>>] = m.job[<<"start", i>>]
          BY <1>2, <2>5, <2>6
        <4>3. job'[<<"start", i>>] # Idle => Low[i] <= now
          BY <2>2, <2>3, <4>2
        <4>4. job'[<<"stop", i>>] # Idle => High[i] <= now
          BY <2>4, <2>5, <2>6
        <4> QED
          BY <3>2, <4>1, <4>3, <4>4 DEF NewTask
      <3> QED
        BY <3>1, <3>2
    <2> QED
      BY <1>4, <2>1, <2>5, <2>6
  \* The stop task of an interval runs its call.
  <1>6. ASSUME NEW i \in Intervals, stopEvent[i] = "armed", startEvent' = startEvent,
               NEW e \in {"finishedEarly", "occurred"},
               stopEvent' = [stopEvent EXCEPT ![i] = e], startEvent[i] # "unset",
               Becomes(Stopped(Manager, i)), UNCHANGED <<lockHolds, incident>>
        PROVE  FlowInv'
    <2> DEFINE n == Stopped(Manager, i)
    <2>1. job[<<"stop", i>>] = Idle
      BY <1>3, <1>6 DEF JobsOnce
    <2>2. /\ FlowM(n, lockHolds, incident)
          /\ \A k \in Jobs \ {<<"stop", i>>} : n.job[k] = job[k]
      BY <1>1, <2>1, FlowTask
    <2>3. Becomes(n)
      BY <1>6
    <2> HIDE DEF n
    <2>4. ASSUME job' = n.job
          PROVE  JobsOnce'
      <3>1. /\ \A k \in Intervals : job'[<<"start", k>>] = job[<<"start", k>>]
            /\ \A k \in Intervals \ {i} : job'[<<"stop", k>>] = job[<<"stop", k>>]
        BY <1>2, <2>2, <2>4
      <3>2. stopEvent'[i] = e /\ \A k \in Intervals \ {i} : stopEvent'[k] = stopEvent[k]
        BY <1>0, <1>6
      <3> QED
        BY <1>3, <1>6, <3>1, <3>2 DEF JobsOnce
    <2> QED
      BY <1>4, <1>6, <2>2, <2>3, <2>4
  <1>7. ASSUME NEW i \in Intervals, RemoveAccessInterval(i)
        PROVE  FlowInv'
    <2>1. CASE UnderWay(i)
      <3>1. /\ stopEvent' = [stopEvent EXCEPT ![i] = "finishedEarly"] /\ startEvent' = startEvent
            /\ Becomes(Stopped(Manager, i)) /\ UNCHANGED <<lockHolds, incident>>
        BY <1>7, <2>1 DEF RemoveAccessInterval
      <3> QED
        BY <1>6, <2>1, <3>1 DEF UnderWay
    <2>2. CASE ~UnderWay(i)
      <3>1. /\ startEvent' = [startEvent EXCEPT ![i] = IF @ = "armed" THEN "cancelled" ELSE @]
            /\ stopEvent' = [stopEvent EXCEPT ![i] = IF @ = "armed" THEN "cancelled" ELSE @]
            /\ UNCHANGED <<codeToSlot, job, sendQueue, mishaps, lockHolds, incident>>
        BY <1>7, <2>2 DEF RemoveAccessInterval
      <3>2. \A k \in Intervals :
              /\ startEvent'[k] \in {"unset", "armed"} => startEvent'[k] = startEvent[k]
              /\ stopEvent'[k] \in {"unset", "armed"} => stopEvent'[k] = stopEvent[k]
              /\ stopEvent[k] = "unset" => stopEvent'[k] = "unset"
        BY <1>0, <3>1
      <3>3. JobsOnce'
        BY <1>3, <3>1, <3>2 DEF JobsOnce
      <3> QED
        BY <3>1, <3>3, FlowSame
    <2> QED
      BY <2>1, <2>2
  <1>8. ASSUME NEW i \in Intervals, StartTimer(i)
        PROVE  FlowInv'
    <2> DEFINE n == Started(Manager, i)
    <2>1. /\ startEvent[i] = "armed" /\ startEvent' = [startEvent EXCEPT ![i] = "occurred"]
          /\ Becomes(n) /\ UNCHANGED <<stopEvent, lockHolds, incident>>
      BY <1>8 DEF StartTimer
    <2>2. job[<<"start", i>>] = Idle
      BY <1>3, <2>1 DEF JobsOnce
    <2>3. /\ FlowM(n, lockHolds, incident)
          /\ \A k \in Jobs \ {<<"start", i>>} : n.job[k] = job[k]
      BY <1>1, <2>2, FlowTask
    <2> HIDE DEF n
    <2>4. ASSUME job' = n.job
          PROVE  JobsOnce'
      <3>1. /\ \A k \in Intervals : job'[<<"stop", k>>] = job[<<"stop", k>>]
            /\ \A k \in Intervals \ {i} : job'[<<"start", k>>] = job[<<"start", k>>]
        BY <1>2, <2>3, <2>4
      <3>2. /\ startEvent'[i] = "occurred"
            /\ \A k \in Intervals \ {i} : startEvent'[k] = startEvent[k]
        BY <1>0, <2>1
      <3> QED
        BY <1>3, <2>1, <3>1, <3>2 DEF JobsOnce
    <2> QED
      BY <1>4, <2>1, <2>3, <2>4
  <1>9. ASSUME NEW i \in Intervals, StopTimer(i)
        PROVE  FlowInv'
    <2>1. /\ stopEvent[i] = "armed" /\ stopEvent' = [stopEvent EXCEPT ![i] = "occurred"]
          /\ Becomes(Stopped(Manager, i)) /\ UNCHANGED <<startEvent, lockHolds, incident>>
      BY <1>9 DEF StopTimer
    <2>2. startEvent[i] # "unset"
      BY <2>1 DEF TimersOK
    <2> QED
      BY <1>6, <2>1, <2>2
  <1>10. ASSUME Retire
         PROVE  FlowInv'
    <2>1. /\ startEvent' = [i \in Intervals |-> IF i \in tree /\ startEvent[i] = "armed"
                                                THEN "cancelled" ELSE startEvent[i]]
          /\ stopEvent' = [i \in Intervals |-> IF i \in tree /\ stopEvent[i] = "armed"
                                               THEN "cancelled" ELSE stopEvent[i]]
          /\ UNCHANGED <<codeToSlot, job, sendQueue, mishaps, lockHolds, incident>>
      BY <1>10 DEF Retire
    <2>2. JobsOnce'
      BY <1>3, <2>1 DEF JobsOnce
    <2> QED
      BY <2>1, <2>2, FlowSame
  <1>11. ASSUME \/ Tick \/ HealBegins \/ InterviewEnds \/ ProbeReturns \/ HealEnds
                \/ UNCHANGED vars
         PROVE  FlowInv'
    <2>1. UNCHANGED <<startEvent, stopEvent, codeToSlot, job, sendQueue, mishaps, lockHolds,
                      incident>>
      BY <1>11 DEF Tick, HealBegins, InterviewEnds, ProbeReturns, HealEnds, vars
    <2>2. JobsOnce'
      BY <1>3, <2>1 DEF JobsOnce
    <2> QED
      BY <2>1, <2>2, FlowSame
  <1>12. ASSUME Radio
         PROVE  FlowInv'
    BY <1>12, FlowRadio DEF Radio
  <1>13. ASSUME ReapplyNext
         PROVE  FlowInv'
    <2>1. PICK i \in toReapply : Becomes(AllocateCodeSlot(Manager, <<"reapply">>, CodeOf[i]))
      BY <1>13 DEF ReapplyNext
    <2> DEFINE n == AllocateCodeSlot(Manager, <<"reapply">>, CodeOf[i])
    <2>2. /\ <<"reapply">> \in Jobs /\ CodeOf[i] \in Codes /\ job[<<"reapply">>] = Idle
          /\ UNCHANGED <<startEvent, stopEvent, lockHolds, incident>>
      BY <1>13, AccessAssumption DEF Jobs, IInv, TypeOK, ReapplyNext
    <2>3. /\ FlowM(n, lockHolds, incident)
          /\ \A k \in Jobs \ {<<"reapply">>} : n.job[k] = job[k]
      BY <1>1, <2>2, FlowAllocate
    <2>4. Becomes(n)
      BY <2>1
    <2> HIDE DEF n
    <2>5. \A k \in Intervals : <<"start", k>> # <<"reapply">> /\ <<"stop", k>> # <<"reapply">>
      OBVIOUS
    <2>6. ASSUME job' = n.job
          PROVE  JobsOnce'
      BY <1>2, <1>3, <2>2, <2>3, <2>5, <2>6 DEF JobsOnce
    <2> QED
      BY <1>4, <2>2, <2>3, <2>4, <2>6
  <1> QED
    BY <1>5, <1>7, <1>8, <1>9, <1>10, <1>11, <1>12, <1>13 DEF Next, Timers, Healing

LEMMA FlowInvariance == Spec => []FlowInv
  <1>1. Init => FlowInv
    <2> SUFFICES ASSUME Init
                 PROVE  FlowInv
      OBVIOUS
    <2>1. /\ \A j \in Jobs : job[j] = Idle /\ job[j].at = "idle"
          /\ sendQueue = <<>> /\ ~incident
          /\ \A s \in ManagedSlots : lockHolds[s] = NoCode
          /\ \A c \in Codes : codeToSlot[c].slotNo = NoSlot
      BY DEF Init, Idle, Absent
    <2>2. JobsOnce
      <3>1. \A i \in Intervals : <<"start", i>> \in Jobs /\ <<"stop", i>> \in Jobs
        BY DEF Jobs
      <3> QED
        BY <2>1, <3>1 DEF Init, JobsOnce
    <2>3. Queued(job, sendQueue)
      <3>1. \A x : ~InQueue(sendQueue, x)
        BY <2>1 DEF InQueue
      <3>2. Once(sendQueue)
        BY <2>1 DEF Once
      <3> QED
        BY <2>1, <3>1, <3>2 DEF Queued
    <2>4. StillMatches(codeToSlot, job, lockHolds)
      BY <2>1, CodesAssumption, ManagedSlotsNat DEF StillMatches
    <2>5. /\ OwnSlot(codeToSlot, job) /\ ClearFirst(job, sendQueue)
          /\ ClearedUnused(codeToSlot, job) /\ Landed(job, lockHolds)
          /\ AlarmEnds(job, sendQueue, lockHolds)
      BY <2>1 DEF OwnSlot, ClearFirst, ClearedUnused, Landed, AlarmEnds, Writing, Clearing,
                  ReadingBack, ReadingClear, Writer
    <2> QED
      BY <2>1, <2>2, <2>3, <2>4, <2>5 DEF FlowInv, Flow, Orderly
  <1>2. IInv /\ TimersOK /\ FlowInv /\ [Next]_vars => FlowInv'
    BY FlowNext
  <1> QED
    BY <1>1, <1>2, Invariance, RefInvariance, PTL DEF Spec

\* An empty queue: no call is suspended.
LEMMA SettledIsIdle ==
  ASSUME FlowInv, Settled
  PROVE  \A j \in Jobs : job[j].at = "idle"
  <1>1. \A x : ~InQueue(sendQueue, x)
    BY DEF Settled, InQueue
  <1> QED
    BY <1>1 DEF FlowInv, Flow, Queued, Idle

\* However allocations, frees, retries and re-interviews of any number of
\* bookings interleave on the radio: when every command has been answered and
\* none was lost, refused or overtaken, a managed slot of the lock opens to a
\* code exactly when the manager's map gives the code that slot
\* (allocateCodeSlot, freeCodeSlot, handing a slot on while its clear is still
\* under way).
THEOREM LockFollowsMap == Spec => []LockMatchesMap
  <1>1. FlowInv => LockMatchesMap
    <2> SUFFICES ASSUME FlowInv, Settled, mishaps = {}
                 PROVE  \A s \in ManagedSlots : \A c \in Codes :
                          lockHolds[s] = c <=> codeToSlot[c].slotNo = s
      BY DEF LockMatchesMap
    <2>1. \A j \in Jobs : job[j].at = "idle"
      BY SettledIsIdle
    <2>2. StillMatches(codeToSlot, job, lockHolds)
      BY DEF FlowInv, Flow, Orderly
    <2> QED
      BY <2>1, <2>2 DEF StillMatches, Writing, Clearing
  <1> QED
    BY <1>1, FlowInvariance, PTL

\* A clear that reads back the next code of its slot opens an "unconfirmed"
\* incident; that code's own read-back comes after it and closes the incident,
\* so none is left open once the radio is quiet (recordUnconfirmed,
\* recordConfirmed in allocateCodeSlot and freeCodeSlot).
THEOREM FalseAlarmsEnd == Spec => []NoLastingFalseAlarm
  <1>1. FlowInv => NoLastingFalseAlarm
    <2> SUFFICES ASSUME FlowInv, Settled, mishaps = {}
                 PROVE  ~incident
      BY DEF NoLastingFalseAlarm
    <2>1. \A j \in Jobs : job[j].at = "idle"
      BY SettledIsIdle
    <2>2. incident => \E k \in Jobs : Writer(job, k)
      BY DEF FlowInv, Flow
    <2> QED
      BY <2>1, <2>2 DEF Writer
  <1> QED
    BY <1>1, FlowInvariance, PTL

-----------------------------------------------------------------------------
(* What the manager takes the tasks of an interval for: both are one-shot  *)
(* tasks, one for its beginning and one for its end.                       *)

\* A task not yet made is pending, as is one that is armed.
FateOf(event) == IF event \in {"unset", "armed"} THEN "pending"
                 ELSE IF event = "occurred" THEN "ran"
                 ELSE IF event = "finishedEarly" THEN "ranEarly"
                 ELSE "cancelled"

StartTask(i) == INSTANCE OneShot WITH wall <- now, t <- Low[i], fate <- FateOf(startEvent[i])
StopTask(i) == INSTANCE OneShot WITH wall <- now, t <- High[i], fate <- FateOf(stopEvent[i])

\* Both are made together, so that neither is made twice.
Paired == \A i \in Intervals : startEvent[i] = "unset" <=> stopEvent[i] = "unset"

EventMoves(old, new, at) ==
  \/ new = old
  \/ /\ UNCHANGED now
     /\ \/ old = "unset" /\ new = NewTask(at)
        \/ old = "armed" /\ new = "occurred" /\ at <= now
        \/ old = "armed" /\ new \in {"cancelled", "finishedEarly"}

TasksMove ==
  \A i \in Intervals : /\ EventMoves(startEvent[i], startEvent'[i], Low[i])
                       /\ EventMoves(stopEvent[i], stopEvent'[i], High[i])

LEMMA EachStepMoves ==
  ASSUME IInv, Paired, [Next]_vars
  PROVE  Paired' /\ TasksMove
  <1> USE DEF Paired, TasksMove, EventMoves
  <1>0. startEvent \in [Intervals -> EventState] /\ stopEvent \in [Intervals -> EventState]
    BY DEF IInv, TypeOK
  <1>1. ASSUME NEW i \in Intervals, AddAccessInterval(i)
        PROVE  Paired' /\ TasksMove
    <2>1. /\ startEvent' = [startEvent EXCEPT ![i] = NewTask(Low[i])]
          /\ stopEvent' = [stopEvent EXCEPT ![i] = NewTask(High[i])]
          /\ now' = now /\ startEvent[i] = "unset"
      BY <1>1 DEF AddAccessInterval
    <2>2. NewTask(Low[i]) # "unset" /\ NewTask(High[i]) # "unset"
      BY DEF NewTask
    <2> QED
      BY <1>0, <2>1, <2>2
  <1>2. ASSUME NEW i \in Intervals, RemoveAccessInterval(i)
        PROVE  Paired' /\ TasksMove
    <2>1. now' = now
      BY <1>2 DEF RemoveAccessInterval
    <2>2. CASE UnderWay(i)
      <3>1. stopEvent' = [stopEvent EXCEPT ![i] = "finishedEarly"] /\ startEvent' = startEvent
        BY <1>2, <2>2 DEF RemoveAccessInterval
      <3> QED
        BY <1>0, <2>1, <2>2, <3>1 DEF UnderWay
    <2>3. CASE ~UnderWay(i)
      <3>1. /\ startEvent' = [startEvent EXCEPT ![i] = IF @ = "armed" THEN "cancelled" ELSE @]
            /\ stopEvent' = [stopEvent EXCEPT ![i] = IF @ = "armed" THEN "cancelled" ELSE @]
        BY <1>2, <2>3 DEF RemoveAccessInterval
      <3> QED
        BY <1>0, <2>1, <3>1
    <2> QED
      BY <2>2, <2>3
  <1>3. ASSUME NEW i \in Intervals, StartTimer(i) \/ StopTimer(i)
        PROVE  Paired' /\ TasksMove
    <2>1. CASE StartTimer(i)
      BY <1>0, <2>1 DEF StartTimer
    <2>2. CASE StopTimer(i)
      BY <1>0, <2>2 DEF StopTimer
    <2> QED
      BY <1>3, <2>1, <2>2
  <1>4. ASSUME Retire
        PROVE  Paired' /\ TasksMove
    <2>1. /\ startEvent' = [i \in Intervals |-> IF i \in tree /\ startEvent[i] = "armed"
                                                THEN "cancelled" ELSE startEvent[i]]
          /\ stopEvent' = [i \in Intervals |-> IF i \in tree /\ stopEvent[i] = "armed"
                                               THEN "cancelled" ELSE stopEvent[i]]
          /\ now' = now
      BY <1>4 DEF Retire
    <2> QED
      BY <1>0, <2>1
  <1>5. ASSUME Tick \/ Radio \/ Healing \/ UNCHANGED vars
        PROVE  Paired' /\ TasksMove
    <2>1. UNCHANGED <<startEvent, stopEvent>>
      <3>1. CASE Radio
        BY <3>1, RadioKeeps
      <3> QED
        BY <1>5, <3>1
           DEF Tick, Healing, HealBegins, InterviewEnds, ProbeReturns, ReapplyNext, HealEnds, vars
    <2> QED
      BY <2>1
  <1> QED
    BY <1>1, <1>2, <1>3, <1>4, <1>5 DEF Next, Timers

\* The tasks of an interval do what a scheduled task promises and no more: each runs
\* once, not before its time unless it is finished early, or is cancelled
\* (addAccessInterval, removeAccessInterval, retire).
THEOREM TasksAreOneShot ==
  ASSUME NEW i \in Intervals
  PROVE  Spec => StartTask(i)!Spec /\ StopTask(i)!Spec
  <1>1. Init => Paired /\ StartTask(i)!Init /\ StopTask(i)!Init
    BY DEF Init, Paired, StartTask!Init, StopTask!Init, FateOf
  <1>2. IInv /\ Paired /\ [Next]_vars => Paired' /\ TasksMove
    BY EachStepMoves
  <1>3. TasksMove => /\ [StartTask(i)!Next]_<<now, Low[i], FateOf(startEvent[i])>>
                     /\ [StopTask(i)!Next]_<<now, High[i], FateOf(stopEvent[i])>>
    <2> SUFFICES ASSUME TasksMove
                 PROVE  /\ [StartTask(i)!Next]_<<now, Low[i], FateOf(startEvent[i])>>
                        /\ [StopTask(i)!Next]_<<now, High[i], FateOf(stopEvent[i])>>
      OBVIOUS
    <2>1. /\ EventMoves(startEvent[i], startEvent'[i], Low[i])
          /\ EventMoves(stopEvent[i], stopEvent'[i], High[i])
      BY DEF TasksMove
    <2>2. StartTask(i)!Next
      BY <2>1 DEF EventMoves, NewTask, FateOf, StartTask!Next, StartTask!Run, StartTask!RunEarly,
                  StartTask!Cancel, StartTask!Pass
    <2>3. StopTask(i)!Next
      BY <2>1 DEF EventMoves, NewTask, FateOf, StopTask!Next, StopTask!Run, StopTask!RunEarly,
                  StopTask!Cancel, StopTask!Pass
    <2> QED
      BY <2>2, <2>3
  <1> QED
    BY <1>1, <1>2, <1>3, Invariance, PTL DEF Spec, StartTask!Spec, StopTask!Spec

-----------------------------------------------------------------------------
(* Any one such task: the chain of timeouts of ScheduledTask is one-shot,  *)
(* for every MAX_DELAY, every horizon and any stepping of the clocks.      *)

TaskInv == TaskTypeOK /\ RanOnce /\ ArmedWhilePending

\* Each wait is at least a tick and at most MAX_DELAY, so it does not overflow.
LEMMA WaitInRange ==
  ASSUME TaskTypeOK, ~DelayOver
  PROVE  /\ SetTimeout(Delay(due - wall)) \in 1..(2 * Horizon + 1)
         /\ SetTimeout(Delay(due - wall)) # NoTimer
  BY TaskAssumption DEF TaskTypeOK, DelayOver, SetTimeout, Delay, Smaller, NoTimer

LEMMA TaskInitOK ==
  ASSUME TaskInit
  PROVE  TaskInv
  <1>1. mono \in 0..Horizon /\ wall \in 0..Horizon /\ due \in 0..Horizon /\ steps \in 0..MaxSteps
    BY TaskAssumption DEF TaskInit
  <1>2. CASE DelayOver
    BY <1>1, <1>2 DEF TaskInit, TaskInv, TaskTypeOK, RanOnce, ArmedWhilePending
  <1>3. CASE ~DelayOver
    <2>1. /\ SetTimeout(Delay(due - wall)) \in 1..(2 * Horizon + 1)
          /\ SetTimeout(Delay(due - wall)) # NoTimer
      BY <1>1, <1>3, TaskAssumption DEF DelayOver, SetTimeout, Delay, Smaller, NoTimer
    <2>2. timeout = SetTimeout(Delay(due - wall)) /\ finalState = "undefined" /\ runs = 0 /\ wakes = 0
      BY <1>3 DEF TaskInit
    <2> QED
      BY <1>1, <2>1, <2>2 DEF TaskInv, TaskTypeOK, RanOnce, ArmedWhilePending
  <1> QED
    BY <1>2, <1>3

LEMMA TaskNextOK ==
  ASSUME TaskInv, [TaskNext]_taskVars
  PROVE  TaskInv'
  <1> USE DEF TaskInv, RanOnce, ArmedWhilePending
  <1>1. CASE Wake
    <2>1. finalState = "undefined" /\ runs = 0
      BY <1>1 DEF Wake
    <2>2. /\ UNCHANGED <<mono, wall, due, steps>>
          /\ wakes' \in Nat
      BY <1>1 DEF Wake, TaskTypeOK
    <2>3. CASE DelayOver
      <3>1. timeout' = NoTimer /\ finalState' = "occurred" /\ runs' = 1
        BY <1>1, <2>1, <2>3 DEF Wake, Arm
      <3> QED
        BY <2>2, <3>1 DEF TaskTypeOK
    <2>4. CASE ~DelayOver
      <3>1. timeout' = SetTimeout(Delay(due - wall)) /\ finalState' = "undefined" /\ runs' = 0
        BY <1>1, <2>1, <2>4 DEF Wake, Arm
      <3> QED
        BY <2>2, <2>4, <3>1, WaitInRange DEF TaskTypeOK
    <2> QED
      BY <2>3, <2>4
  <1>2. CASE Cancel
    BY <1>2 DEF Cancel, TaskTypeOK
  <1>3. CASE FinishEarly
    BY <1>3 DEF FinishEarly, TaskTypeOK
  <1>4. CASE TaskTick
    <2>1. mono' \in 0..Horizon /\ wall' \in 0..Horizon
      BY <1>4, TaskAssumption DEF TaskTick, TaskTypeOK
    <2> QED
      BY <1>4, <2>1 DEF TaskTick, TaskTypeOK
  <1>5. CASE StepWall
    <2>1. steps' \in 0..MaxSteps
      BY <1>5, TaskAssumption DEF StepWall, TaskTypeOK
    <2> QED
      BY <1>5, <2>1 DEF StepWall, TaskTypeOK
  <1>6. CASE UNCHANGED taskVars
    BY <1>6 DEF taskVars, TaskTypeOK
  <1> QED
    BY <1>1, <1>2, <1>3, <1>4, <1>5, <1>6 DEF TaskNext

LEMMA TaskInvariance == TaskSpec => []TaskInv
  <1>1. TaskInit => TaskInv
    BY TaskInitOK
  <1>2. TaskInv /\ [TaskNext]_taskVars => TaskInv'
    BY TaskNextOK
  <1> QED
    BY <1>1, <1>2, PTL DEF TaskSpec

\* Every variable keeps its type; in particular no timeout is ever asked for a
\* delay that setTimeout cannot hold (Math.min in arm).
THEOREM TaskTypeCorrect == TaskSpec => []TaskTypeOK
  BY TaskInvariance, PTL DEF TaskInv

\* The function of a task runs exactly once unless it is cancelled, and then
\* never (finalState is looked at before every call of f).
THEOREM RunsOnce == TaskSpec => []RanOnce
  BY TaskInvariance, PTL DEF TaskInv

\* Nothing is armed once the task is over, and the chain never breaks off.
THEOREM TimeoutWhilePending == TaskSpec => []ArmedWhilePending
  BY TaskInvariance, PTL DEF TaskInv

\* The chained timeout implements the one-shot task: each of its steps is a run
\* at or after the task's time, a run or an end on request, or the passing of
\* time.
THEOREM Implements == TaskSpec => OneShotTask
  <1>1. TaskInit => Promise!Init
    BY DEF TaskInit, Promise!Init, Fate, DelayOver
  <1>2. TaskInv /\ [TaskNext]_taskVars => [Promise!Next]_<<wall, due, Fate>>
    <2> SUFFICES ASSUME TaskInv, [TaskNext]_taskVars
                 PROVE  [Promise!Next]_<<wall, due, Fate>>
      OBVIOUS
    <2>1. CASE Wake
      <3>1. finalState = "undefined" /\ UNCHANGED <<wall, due>>
        BY <2>1 DEF Wake, TaskInv, ArmedWhilePending
      <3>2. CASE DelayOver
        <4>1. finalState' = "occurred" /\ wall >= due
          BY <2>1, <3>1, <3>2 DEF Wake, Arm, DelayOver
        <4>2. Promise!Run
          BY <3>1, <4>1 DEF Promise!Run, Fate
        <4> QED
          BY <4>2 DEF Promise!Next
      <3>3. CASE ~DelayOver
        <4>1. UNCHANGED finalState
          BY <2>1, <3>3 DEF Wake, Arm
        <4> QED
          BY <3>1, <4>1 DEF Fate
      <3> QED
        BY <3>2, <3>3
    <2>2. CASE Cancel
      BY <2>2 DEF Cancel, Promise!Next, Promise!Cancel, Fate
    <2>3. CASE FinishEarly
      BY <2>3 DEF FinishEarly, Promise!Next, Promise!RunEarly, Fate
    <2>4. CASE TaskTick \/ StepWall
      BY <2>4 DEF TaskTick, StepWall, Promise!Next, Promise!Pass, Fate
    <2>5. CASE UNCHANGED taskVars
      BY <2>5 DEF taskVars, Fate
    <2> QED
      BY <2>1, <2>2, <2>3, <2>4, <2>5 DEF TaskNext
  <1> QED
    BY <1>1, <1>2, TaskInvariance, PTL DEF TaskSpec, OneShotTask, Promise!Spec

-----------------------------------------------------------------------------
(* Re-pairing: the pairing flow, the lock groups and their mapping file    *)

\* The flow.  WaitIsTimed needs that a failure is counted and that no node has
\* the id NoNode.
FlowOK ==
  /\ FlagFollowsMode /\ WaitIsTimed
  /\ failures \in Nat /\ nextNode \in Nat \ {0}

\* The books.  ManagedInNetwork needs that what is still to be adopted is there.
BooksOK ==
  /\ ManagedInNetwork
  /\ interviewing \subseteq network
  /\ groups = [s \in Servers |-> groups[s]]

-----------------------------------------------------------------------------
(* The initial states *)

LEMMA PairingInitOK == PairingInit => FlowOK /\ BooksOK
  <1> SUFFICES ASSUME PairingInit PROVE FlowOK /\ BooksOK
    OBVIOUS
  <1>1. FlowOK
    BY PairingAssumption DEF PairingInit, FlowOK, FlagFollowsMode, WaitIsTimed
  <1>2. BooksOK
    BY PairingAssumption DEF PairingInit, BooksOK, ManagedInNetwork, Configured
  <1> QED
    BY <1>1, <1>2

-----------------------------------------------------------------------------
(* What finish, retireLock and adoptLock do *)

\* finish leaves the flow idle and the flag down.
LEMMA FinishOK ==
  ASSUME Finish
  PROVE  mode' = "idle" /\ flag' = FALSE
  BY DEF Finish

\* A write that fails is counted, another leaves the count.
LEMMA SaveOK ==
  ASSUME FlowOK, NEW earlier, Save(earlier)
  PROVE  failures' \in Nat /\ (failures' = 0 => failures = 0)
  BY DEF Save, FlowOK

LEMMA RetireOK ==
  ASSUME FlowOK, BooksOK, NEW n, RetireLock(n)
  PROVE  /\ groups' = Without(n)
         /\ failures' \in Nat /\ (failures' = 0 => failures = 0)
  <1>1. CASE n \in Managed
    BY <1>1, SaveOK DEF RetireLock
  <1>2. CASE n \notin Managed
    <2>1. groups = Without(n)
      BY <1>2 DEF Managed, Without, BooksOK
    <2> QED
      BY <1>2, <2>1 DEF RetireLock, FlowOK
  <1> QED
    BY <1>1, <1>2

\* A lock is adopted into one group, and others only lose locks.
LEMMA AdoptOK ==
  ASSUME FlowOK, NEW server, NEW n, NEW replaces, Adopt(server, n, replaces)
  PROVE  /\ groups' = [s \in Servers |-> groups'[s]]
         /\ \A s \in Servers : groups'[s] \subseteq groups[s] \cup {n}
         /\ failures' \in Nat /\ (failures' = 0 => failures = 0)
  <1>1. groups' = [Without(replaces) EXCEPT ![server] = @ \cup {n}]
    BY DEF Adopt
  <1>2. failures' \in Nat /\ (failures' = 0 => failures = 0)
    BY SaveOK DEF Adopt
  <1> QED
    BY <1>1, <1>2 DEF Without

LEMMA ReadyOK ==
  ASSUME FlowOK, BooksOK, NEW n, NEW current, OnReady(n, current)
  PROVE  /\ groups' = [s \in Servers |-> groups'[s]]
         /\ \A s \in Servers : groups'[s] \subseteq groups[s] \cup {n}
         /\ failures' \in Nat /\ (failures' = 0 => failures = 0)
         /\ (mode' = "idle" /\ flag' = FALSE) \/ UNCHANGED <<mode, flag, timer>>
  <1>1. CASE current = n
    <2>1. Finish /\ Adopt(chosen.server, n, chosen.replaces)
      BY <1>1 DEF OnReady
    <2> QED
      BY <2>1, FinishOK, AdoptOK
  <1>2. CASE current # n
    BY <1>2 DEF OnReady, Unfinished, FlowOK, BooksOK
  <1> QED
    BY <1>1, <1>2

-----------------------------------------------------------------------------
(* The flow *)

LEMMA ControllerFlow ==
  ASSUME FlowOK, BooksOK, ControllerStep \/ LateInclusionStopped
  PROVE  FlowOK'
  <1> USE DEF FlowOK, FlagFollowsMode, WaitIsTimed
  <1>1. CASE ExclusionStops
    BY <1>1 DEF ExclusionStops, Finish, Unfinished, bounds
  <1>2. CASE InclusionStops
    BY <1>2 DEF InclusionStops, OnInclusionStopped, Finish, Unfinished, bounds
  <1>3. CASE Fails
    BY <1>3 DEF Fails, Finish, bounds
  <1>4. CASE NodeFound
    <2>1. CASE OnInclusionStopped
      BY <1>4, <2>1 DEF NodeFound, OnInclusionStopped, Finish, Unfinished, bounds
    <2>2. CASE UNCHANGED daemon
      BY <1>4, <2>2 DEF NodeFound, daemon, bounds
    <2> QED
      BY <1>4, <2>1, <2>2 DEF NodeFound
  <1>5. CASE NodeAdded
    <2>1. added' # NoNode /\ nextNode' \in Nat \ {0} /\ stopping' = stopping
      BY <1>5 DEF NodeAdded, NoNode
    <2>2. CASE Finish /\ UNCHANGED failures
      BY <2>1, <2>2, FinishOK
    <2>3. CASE OnReady(nextNode, nextNode)
      BY <2>1, <2>3, ReadyOK
    <2>4. CASE UNCHANGED <<mode, flag, failures>>
      BY <2>1, <2>4
    <2> QED
      BY <1>5, <2>2, <2>3, <2>4 DEF NodeAdded
  <1>6. CASE LateInclusionStopped
    BY <1>6 DEF LateInclusionStopped, OnInclusionStopped, Finish, Unfinished, bounds
  <1> QED
    BY <1>1, <1>2, <1>3, <1>4, <1>5, <1>6 DEF ControllerStep

LEMMA AdminFlow ==
  ASSUME FlowOK,
         \/ StartExclusion
         \/ \E s \in Servers, r \in Managed \cup {NoNode} : StartInclusion(s, r)
         \/ \E m \in Modes : Begun(m) \/ BeginFails(m) \/ StopReturns(m) \/ StopThrows(m)
         \/ Stop \/ TimerFires
  PROVE  FlowOK'
  <1> USE DEF FlowOK, FlagFollowsMode, WaitIsTimed
  <1>1. ASSUME NEW to, Start(to)
        PROVE  FlowOK'
    BY <1>1 DEF Start
  <1>2. ASSUME NEW m \in Modes, Begun(m)
        PROVE  FlowOK'
    BY <1>2 DEF Begun, Modes, zwave, bounds
  <1>3. ASSUME NEW m \in Modes, BeginFails(m)
        PROVE  FlowOK'
    BY <1>3 DEF BeginFails, bounds
  <1>4. ASSUME NEW m \in Modes, StopReturns(m)
        PROVE  FlowOK'
    BY <1>4 DEF StopReturns, Finish, bounds
  <1>5. ASSUME NEW m \in Modes, StopThrows(m)
        PROVE  FlowOK'
    BY <1>5 DEF StopThrows, zwave
  <1>6. CASE Stop
    BY <1>6 DEF Stop, zwave, bounds
  <1>7. CASE TimerFires
    BY <1>7 DEF TimerFires, zwave, bounds
  <1> QED
    BY <1>1, <1>2, <1>3, <1>4, <1>5, <1>6, <1>7 DEF StartExclusion, StartInclusion

LEMMA FlowInvariant ==
  ASSUME FlowOK, BooksOK, [PairingNext]_pairingVars
  PROVE  FlowOK'
  <1>1. ASSUME NEW n \in Nodes, NodeRemoved(n)
        PROVE  FlowOK'
    BY <1>1, RetireOK DEF NodeRemoved, daemon, FlowOK, FlagFollowsMode, WaitIsTimed
  <1>2. ASSUME NEW n \in Nodes, NodeReady(n)
        PROVE  FlowOK'
    <2>1. UNCHANGED <<added, stopping, nextNode>>
      BY <1>2 DEF NodeReady
    <2>2. OnReady(n, added)
      BY <1>2 DEF NodeReady
    <2> QED
      BY <2>1, <2>2, ReadyOK DEF FlowOK, FlagFollowsMode, WaitIsTimed
  <1>3. CASE PromptForPin \/ PinAnswered
    BY <1>3 DEF PromptForPin, PinAnswered, zwave, bounds, FlowOK, FlagFollowsMode, WaitIsTimed
  <1>4. CASE Restart
    BY <1>4 DEF Restart, FlowOK, FlagFollowsMode, WaitIsTimed
  <1>5. CASE UNCHANGED pairingVars
    BY <1>5 DEF pairingVars, daemon, zwave, bounds, FlowOK, FlagFollowsMode, WaitIsTimed
  <1> QED
    BY <1>1, <1>2, <1>3, <1>4, <1>5, ControllerFlow, AdminFlow DEF PairingNext

-----------------------------------------------------------------------------
(* The books *)

LEMMA BooksInvariant ==
  ASSUME FlowOK, BooksOK, [PairingNext]_pairingVars
  PROVE  BooksOK'
  <1>1. CASE UNCHANGED <<groups, network, interviewing>>
    BY <1>1 DEF BooksOK, ManagedInNetwork
  <1>2. ASSUME NEW n \in Nodes, NodeRemoved(n)
        PROVE  BooksOK'
    <2>1. groups' = Without(n) /\ network' = network \ {n} /\ interviewing' = interviewing \ {n}
      BY <1>2, RetireOK DEF NodeRemoved
    <2> QED
      BY <2>1 DEF Without, BooksOK, ManagedInNetwork
  <1>3. ASSUME NEW n \in Nodes, NodeReady(n)
        PROVE  BooksOK'
    <2>1. /\ OnReady(n, added) /\ n \in interviewing
          /\ network' = network /\ interviewing' = interviewing \ {n}
      BY <1>3 DEF NodeReady
    <2>2. /\ groups' = [s \in Servers |-> groups'[s]]
          /\ \A s \in Servers : groups'[s] \subseteq groups[s] \cup {n}
      BY <2>1, ReadyOK
    <2> QED
      BY <2>1, <2>2 DEF BooksOK, ManagedInNetwork
  <1>4. CASE NodeAdded
    <2>1. network' = network \cup {nextNode}
      BY <1>4 DEF NodeAdded
    <2>2. CASE UNCHANGED <<interviewing, groups>>
      BY <2>1, <2>2 DEF BooksOK, ManagedInNetwork
    <2>3. CASE OnReady(nextNode, nextNode) /\ UNCHANGED interviewing
      <3>1. /\ groups' = [s \in Servers |-> groups'[s]]
            /\ \A s \in Servers : groups'[s] \subseteq groups[s] \cup {nextNode}
        BY <2>3, ReadyOK
      <3> QED
        BY <2>1, <2>3, <3>1 DEF BooksOK, ManagedInNetwork
    <2>4. CASE interviewing' = interviewing \cup {nextNode} /\ UNCHANGED groups
      BY <2>1, <2>4 DEF BooksOK, ManagedInNetwork
    <2>5. \/ UNCHANGED <<interviewing, groups>>
          \/ OnReady(nextNode, nextNode) /\ UNCHANGED interviewing
          \/ interviewing' = interviewing \cup {nextNode} /\ UNCHANGED groups
      BY <1>4 DEF NodeAdded
    <2> QED
      BY <2>2, <2>3, <2>4, <2>5
  <1>5. CASE Restart
    BY <1>5 DEF Restart, Loaded, BooksOK, ManagedInNetwork
  <1>6. CASE ExclusionStops \/ InclusionStops \/ Fails \/ NodeFound \/ LateInclusionStopped
    BY <1>1, <1>6 DEF ExclusionStops, InclusionStops, Fails, NodeFound, LateInclusionStopped, books
  <1>7. CASE PromptForPin \/ PinAnswered \/ Stop \/ TimerFires
    BY <1>1, <1>7 DEF PromptForPin, PinAnswered, Stop, TimerFires, books, zwave
  <1>8. ASSUME NEW to, Start(to)
        PROVE  BooksOK'
    BY <1>1, <1>8 DEF Start, books
  <1>9. ASSUME NEW m, Begun(m) \/ BeginFails(m) \/ StopReturns(m) \/ StopThrows(m)
        PROVE  BooksOK'
    BY <1>1, <1>9 DEF Begun, BeginFails, StopReturns, StopThrows, books, zwave
  <1>10. CASE UNCHANGED pairingVars
    BY <1>1, <1>10 DEF pairingVars, books, zwave
  <1> QED
    BY <1>2, <1>3, <1>4, <1>5, <1>6, <1>7, <1>8, <1>9, <1>10
    DEF PairingNext, ControllerStep, StartExclusion, StartInclusion

LEMMA PairingInvariance == PairingSpec => [](FlowOK /\ BooksOK)
  <1>1. FlowOK /\ BooksOK /\ [PairingNext]_pairingVars => (FlowOK /\ BooksOK)'
    BY FlowInvariant, BooksInvariant
  <1> QED
    BY PairingInitOK, <1>1, PTL DEF PairingSpec

-----------------------------------------------------------------------------

\* The flag that silences the watchdog of every lock is up exactly while a flow
\* is under way: setPairingInProgress never disagrees with the mode.
THEOREM FlagNeverLost == PairingSpec => []FlagFollowsMode
  BY PairingInvariance, PTL DEF FlowOK

\* As long as nothing throws, a flow no lock has joined has a timeout armed or a
\* stop under way: armTimeout, clearTimer and stop leave no gap.
THEOREM NeverWaitsUntimed == PairingSpec => []WaitIsTimed
  BY PairingInvariance, PTL DEF FlowOK

\* Whatever is included, replaced, excluded or reset, and across restarts, no
\* server keeps a manager for a lock that has left (retireLock, adoptLock).
THEOREM NoManagerForTheGone == PairingSpec => []ManagedInNetwork
  BY PairingInvariance, PTL DEF BooksOK

-----------------------------------------------------------------------------
(* What a restart gives back, and what a request asked for.                *)
(*                                                                         *)
(* The groups are always those that a restart would load: either they were *)
(* saved since they last changed, or they are still those of config.json.  *)
(* A node that joins is in neither, for its id is a new one.  And the      *)
(* request under way is the one on which the next node joins, or the last  *)
(* one has joined, unless a refused start has overwritten it.              *)

Given == {n \in Nat : n < nextNode}

IdsOK ==
  /\ nextNode \in 1..(MaxNode + 1)
  /\ controller = "bootstrapping" => nextNode <= MaxNode
  /\ network \subseteq Given /\ \A s \in Servers : Config[s] \subseteq Given

FileOK ==
  failures = 0 =>
    /\ \A s \in DOMAIN file : file[s] \subseteq Given
    /\ \A s \in served : Loaded(file, s) = groups[s]

RequestOK ==
  /\ askedFor = [n \in Nodes |-> askedFor[n]]
  /\ added \in Nodes \cup {NoNode}
  /\ ~collided /\ controller \in {"including", "bootstrapping"} => chosen = asked
  /\ ~collided /\ added # NoNode => chosen = askedFor[added]

SavedOK == IdsOK /\ RequestOK /\ FileOK /\ served \subseteq Servers /\ restarts \in Nat

LEMMA InitSaved == PairingInit => SavedOK
  <1> SUFFICES ASSUME PairingInit PROVE SavedOK
    OBVIOUS
  <1>1. nextNode \in 1..(MaxNode + 1) /\ \A s \in Servers : Config[s] \subseteq Given
    BY PairingAssumption DEF PairingInit, Configured, Given, Nodes
  <1>2. IdsOK
    BY <1>1 DEF PairingInit, IdsOK, Configured
  <1>3. FileOK
    BY DEF PairingInit, FileOK, Loaded, Configured
  <1>4. RequestOK
    BY DEF PairingInit, RequestOK
  <1> QED
    BY <1>2, <1>3, <1>4 DEF PairingInit, SavedOK

\* Nothing that bears on the ids, the file or the request changes.
LEMMA Idly ==
  ASSUME SavedOK, UNCHANGED <<books, network, nextNode, restarts>>,
         failures' = 0 => failures = 0,
         controller' # "bootstrapping" \/ controller' = controller \/ nextNode <= MaxNode,
         RequestOK'
  PROVE  SavedOK'
  BY DEF SavedOK, IdsOK, FileOK, Given, Loaded, books

\* A save that does not fail leaves what a restart would load.
LEMMA SavedLoads ==
  ASSUME SavedOK, IdsOK', RequestOK', ManagedInNetwork', FlowOK, NEW earlier, Save(earlier),
         UNCHANGED <<served, restarts>>
  PROVE  SavedOK'
  <1>1. failures' = 0 => file' = Saved(groups')
    BY DEF Save, FlowOK
  <1>2. served \subseteq Servers
    BY DEF SavedOK
  <1>3. \A s \in served : groups'[s] \subseteq network' /\ groups'[s] \subseteq Given'
    BY <1>2 DEF ManagedInNetwork, IdsOK
  <1>4. ASSUME failures' = 0
        PROVE  /\ \A s \in DOMAIN file' : file'[s] \subseteq Given'
               /\ \A s \in served : Loaded(file, s)' = groups'[s]
    <2>1. DOMAIN file' = served /\ \A s \in served : file'[s] = groups'[s]
      BY <1>1, <1>4 DEF Saved
    <2> QED
      BY <1>3, <2>1 DEF Loaded
  <1>5. FileOK'
    BY <1>4 DEF FileOK
  <1> QED
    BY <1>5 DEF SavedOK

LEMMA RemovedSaved ==
  ASSUME SavedOK, FlowOK, BooksOK, BooksOK', NEW n \in Nodes, NodeRemoved(n)
  PROVE  SavedOK'
  <1>1. /\ network' = network \ {n} /\ RetireLock(n)
        /\ UNCHANGED <<chosen, added, served, controller, nextNode, asked, askedFor, collided, restarts>>
    BY DEF NodeRemoved, daemon, history
  <1>2. IdsOK' /\ RequestOK'
    BY <1>1 DEF SavedOK, IdsOK, RequestOK, Given
  <1>3. CASE n \in Managed
    <2>1. Save({})
      BY <1>1, <1>3 DEF RetireLock
    <2> QED
      BY <1>1, <1>2, <2>1, SavedLoads DEF BooksOK
  <1>4. CASE n \notin Managed
    <2>1. UNCHANGED <<groups, file, failures>>
      BY <1>1, <1>4 DEF RetireLock
    <2>2. \A s \in served : n \notin groups[s]
      BY <1>4 DEF Managed, SavedOK
    <2>3. FileOK'
      BY <1>1, <2>1, <2>2 DEF SavedOK, FileOK, Loaded, Given
    <2> QED
      BY <1>1, <1>2, <2>3 DEF SavedOK
  <1> QED
    BY <1>3, <1>4

\* The node that is added has an id that neither the file nor config.json knows.
LEMMA AddedSaved ==
  ASSUME SavedOK, FlowOK, BooksOK, BooksOK', NodeAdded
  PROVE  SavedOK'
  <1>1. /\ controller = "bootstrapping" /\ controller' = "idle"
        /\ nextNode' = nextNode + 1 /\ network' = network \cup {nextNode}
        /\ askedFor' = [askedFor EXCEPT ![nextNode] = asked] /\ added' = nextNode
        /\ UNCHANGED <<chosen, served, asked, collided, restarts>>
    BY DEF NodeAdded, OnReady, Finish
  <1>2. nextNode \in Nodes /\ nextNode \in Nat
    BY <1>1, PairingAssumption DEF SavedOK, IdsOK, Nodes
  <1>3. IdsOK'
    BY <1>1, <1>2, PairingAssumption DEF SavedOK, IdsOK, Given, Nodes
  <1>4. RequestOK'
    BY <1>1, <1>2 DEF SavedOK, RequestOK
  <1>5. CASE UNCHANGED <<groups, file, failures>>
    <2>1. \A s \in served : nextNode \notin Config[s]
      BY <1>2 DEF SavedOK, IdsOK, Given
    <2>2. failures = 0 => \A s \in DOMAIN file : nextNode \notin file[s]
      BY <1>2 DEF SavedOK, FileOK, Given
    <2>3. failures = 0 => \A s \in DOMAIN file : file[s] \subseteq Given'
      BY <1>1, <1>2 DEF SavedOK, FileOK, Given
    <2>4. FileOK'
      BY <1>1, <1>5, <2>1, <2>2, <2>3 DEF SavedOK, FileOK, Loaded
    <2> QED
      BY <1>1, <1>3, <1>4, <2>4 DEF SavedOK
  <1>6. CASE OnReady(nextNode, nextNode)
    <2>1. PICK earlier : Save(earlier)
      BY <1>6 DEF OnReady, Adopt
    <2> QED
      BY <1>1, <1>3, <1>4, <2>1, SavedLoads DEF BooksOK
  <1> QED
    BY <1>5, <1>6 DEF NodeAdded

LEMMA ReadySaved ==
  ASSUME SavedOK, FlowOK, BooksOK, BooksOK', NEW n \in Nodes, NodeReady(n)
  PROVE  SavedOK'
  <1>1. /\ OnReady(n, added)
        /\ UNCHANGED <<chosen, added, served, controller, network, nextNode, asked, askedFor, collided, restarts>>
    BY DEF NodeReady, OnReady, Finish, Unfinished, history
  <1>2. IdsOK' /\ RequestOK'
    BY <1>1 DEF SavedOK, IdsOK, RequestOK, Given
  <1>3. CASE added = n
    <2>1. PICK earlier : Save(earlier)
      BY <1>1, <1>3 DEF OnReady, Adopt
    <2> QED
      BY <1>1, <1>2, <2>1, SavedLoads DEF BooksOK
  <1>4. CASE added # n
    <2>1. UNCHANGED <<groups, file, failures>>
      BY <1>1, <1>4 DEF OnReady
    <2>2. FileOK'
      BY <1>1, <2>1 DEF SavedOK, FileOK, Loaded, Given
    <2> QED
      BY <1>1, <1>2, <2>2 DEF SavedOK
  <1> QED
    BY <1>3, <1>4

\* A start writes the request; one that is refused is one that collides.
LEMMA StartSaved ==
  ASSUME SavedOK, NEW to \in Modes, Start(to),
         \/ to = "excluding" /\ UNCHANGED <<chosen, asked>>
         \/ to = "including" /\ asked' = IF Ready THEN chosen' ELSE asked
  PROVE  SavedOK'
  <1>1. /\ added' = NoNode /\ UNCHANGED <<books, network, nextNode, askedFor, failures, restarts>>
        /\ \/ Ready /\ controller' = to /\ collided' = collided
           \/ ~Ready /\ collided' = TRUE /\ controller' = controller
    BY DEF Start
  <1>2. to # "bootstrapping"
    BY DEF Modes
  <1>3. RequestOK'
    BY <1>1, <1>2 DEF SavedOK, RequestOK, Ready
  <1> QED
    BY <1>1, <1>2, <1>3, Idly

LEMMA SavedInvariant ==
  ASSUME SavedOK, FlowOK, BooksOK, BooksOK', [PairingNext]_pairingVars
  PROVE  SavedOK'
  <1>1. ASSUME UNCHANGED <<chosen, added, asked, askedFor, collided>>,
               controller' \in {controller, "idle"}
        PROVE  RequestOK'
    BY <1>1 DEF SavedOK, RequestOK
  <1>2. ASSUME NEW n \in Nodes, NodeRemoved(n) \/ NodeReady(n)
        PROVE  SavedOK'
    BY <1>2, RemovedSaved, ReadySaved
  <1>3. CASE NodeAdded
    BY <1>3, AddedSaved
  <1>4. CASE ExclusionStops \/ InclusionStops \/ Fails \/ LateInclusionStopped
    <2>1. /\ UNCHANGED <<books, network, nextNode, bounds, chosen, added, history>>
          /\ controller' \in {controller, "idle"}
      BY <1>4 DEF ExclusionStops, InclusionStops, Fails, LateInclusionStopped,
                  OnInclusionStopped, Finish, Unfinished
    <2> QED
      BY <1>1, <2>1, Idly DEF history, bounds
  <1>5. CASE NodeFound
    <2>1. /\ UNCHANGED <<books, network, nextNode, bounds, chosen, added, history>>
          /\ controller = "including" /\ controller' = "bootstrapping" /\ nextNode <= MaxNode
      BY <1>5 DEF NodeFound, OnInclusionStopped, Finish, Unfinished, daemon, In
    <2>2. RequestOK'
      BY <2>1 DEF SavedOK, RequestOK, history
    <2> QED
      BY <2>1, <2>2, Idly DEF bounds
  <1>6. CASE PromptForPin \/ PinAnswered \/ Stop \/ TimerFires \/ UNCHANGED pairingVars
    <2>1. UNCHANGED <<books, zwave, bounds, chosen, added, history>>
      BY <1>6 DEF PromptForPin, PinAnswered, Stop, TimerFires, pairingVars, daemon
    <2> QED
      BY <1>1, <2>1, Idly DEF history, bounds, zwave
  <1>7. CASE StartExclusion
    BY <1>7, StartSaved DEF StartExclusion, Modes
  <1>8. CASE \E s \in Servers, r \in Managed \cup {NoNode} : StartInclusion(s, r)
    BY <1>8, StartSaved DEF StartInclusion, Modes
  <1>9. ASSUME NEW m \in Modes, Begun(m) \/ BeginFails(m) \/ StopReturns(m) \/ StopThrows(m)
        PROVE  SavedOK'
    <2>1. /\ UNCHANGED <<books, network, nextNode, restarts, chosen, added, history>>
          /\ controller' \in {controller, "idle"}
          /\ failures' = 0 => failures = 0
      <3>1. CASE Begun(m)
        BY <3>1 DEF Begun, zwave, bounds
      <3>2. CASE BeginFails(m)
        BY <3>2 DEF BeginFails, bounds
      <3>3. CASE StopReturns(m)
        BY <3>3 DEF StopReturns, Finish, bounds
      <3>4. CASE StopThrows(m)
        BY <3>4 DEF StopThrows, zwave, FlowOK
      <3> QED
        BY <1>9, <3>1, <3>2, <3>3, <3>4
    <2> QED
      BY <1>1, <2>1, Idly DEF history
  <1>10. CASE Restart
    <2>1. /\ UNCHANGED <<file, network, nextNode, asked, askedFor, collided, failures>>
          /\ added' = NoNode /\ controller' = "idle" /\ restarts' = restarts + 1
          /\ groups' = [s \in Servers |-> Loaded(file, s)]
          /\ served' = {s \in Servers : Loaded(file, s) # {}}
      BY <1>10 DEF Restart, history
    <2>2. IdsOK' /\ RequestOK'
      BY <2>1 DEF SavedOK, IdsOK, RequestOK, Given
    <2>3. \A s \in served' : Loaded(file, s)' = groups'[s]
      BY <2>1 DEF Loaded
    <2>4. failures' = 0 => \A s \in DOMAIN file' : file'[s] \subseteq Given'
      BY <2>1 DEF SavedOK, FileOK, Given
    <2>5. FileOK'
      BY <2>3, <2>4 DEF FileOK
    <2>6. served' \subseteq Servers /\ restarts' \in Nat
      BY <2>1 DEF SavedOK
    <2> QED
      BY <2>2, <2>5, <2>6 DEF SavedOK
  <1> QED
    BY <1>2, <1>3, <1>4, <1>5, <1>6, <1>7, <1>8, <1>9, <1>10 DEF PairingNext, ControllerStep

LEMMA SavedInvariance == PairingSpec => [](FlowOK /\ BooksOK /\ SavedOK)
  <1>1. FlowOK /\ BooksOK /\ SavedOK /\ [PairingNext]_pairingVars => (FlowOK /\ BooksOK /\ SavedOK)'
    BY FlowInvariant, BooksInvariant, SavedInvariant
  <1> QED
    BY PairingInitOK, InitSaved, <1>1, PTL DEF PairingSpec

\* Only Restart restarts, and only OnReady adopts.
LEMMA WhoAdopts ==
  ASSUME SavedOK, FlowOK, BooksOK, PairingNext
  PROVE  \/ /\ Restart /\ restarts' = restarts + 1
         \/ /\ restarts' = restarts
            /\ \/ \A s \in Servers : groups'[s] \subseteq groups[s]
               \/ \E n \in Nodes : /\ Adopt(chosen.server, n, chosen.replaces)
                                   /\ ~collided => chosen = askedFor'[n]
  <1>1. CASE UNCHANGED <<groups, restarts>>
    BY <1>1
  <1>2. ASSUME NEW n \in Nodes, NodeRemoved(n)
        PROVE  restarts' = restarts /\ \A s \in Servers : groups'[s] \subseteq groups[s]
    BY <1>2, RetireOK DEF NodeRemoved, Without
  <1>3. ASSUME NEW n \in Nodes, NodeReady(n)
        PROVE  \/ UNCHANGED <<groups, restarts>>
               \/ /\ restarts' = restarts
                  /\ Adopt(chosen.server, n, chosen.replaces)
                  /\ ~collided => chosen = askedFor'[n]
    <2>1. OnReady(n, added) /\ UNCHANGED <<restarts, askedFor>>
      BY <1>3 DEF NodeReady, history
    <2>2. CASE added = n
      <3>1. n # NoNode
        BY DEF Nodes, NoNode
      <3> QED
        BY <2>1, <2>2, <3>1 DEF OnReady, SavedOK, RequestOK
    <2> QED
      BY <2>1, <2>2 DEF OnReady
  <1>4. CASE NodeAdded
    <2>1. controller = "bootstrapping" /\ askedFor' = [askedFor EXCEPT ![nextNode] = asked] /\ restarts' = restarts
      BY <1>4 DEF NodeAdded
    <2>2. nextNode \in Nodes
      BY <2>1, PairingAssumption DEF SavedOK, IdsOK, Nodes
    <2>3. ~collided => chosen = askedFor'[nextNode]
      BY <2>1, <2>2 DEF SavedOK, RequestOK
    <2>4. UNCHANGED groups \/ Adopt(chosen.server, nextNode, chosen.replaces)
      BY <1>4 DEF NodeAdded, OnReady
    <2> QED
      BY <2>1, <2>2, <2>3, <2>4
  <1>5. CASE Restart
    BY <1>5 DEF Restart
  <1>6. CASE ExclusionStops \/ InclusionStops \/ Fails \/ NodeFound \/ LateInclusionStopped
             \/ PromptForPin \/ PinAnswered \/ Stop \/ TimerFires
    BY <1>1, <1>6 DEF ExclusionStops, InclusionStops, Fails, NodeFound, LateInclusionStopped,
                      PromptForPin, PinAnswered, Stop, TimerFires, books, bounds
  <1>7. ASSUME NEW to, Start(to)
        PROVE  UNCHANGED <<groups, restarts>>
    BY <1>7 DEF Start, books
  <1>8. ASSUME NEW m, Begun(m) \/ BeginFails(m) \/ StopReturns(m) \/ StopThrows(m)
        PROVE  UNCHANGED <<groups, restarts>>
    BY <1>8 DEF Begun, BeginFails, StopReturns, StopThrows, books, bounds
  <1> QED
    BY <1>1, <1>2, <1>3, <1>4, <1>5, <1>6, <1>7, <1>8
    DEF PairingNext, ControllerStep, StartExclusion, StartInclusion

-----------------------------------------------------------------------------

\* Whatever was paired, replaced and excluded since config.json was written, and
\* however often the daemon restarts, no lock is lost or regained by a restart, as
\* long as every save of the mapping file succeeded (saveOverrides,
\* applyLockNodeOverrides).
THEOREM LocksSurviveRestart == PairingSpec => RestartKeepsLocks
  <1>1. FlowOK /\ BooksOK /\ SavedOK /\ [PairingNext]_pairingVars
          => [restarts' # restarts /\ failures = 0 => \A s \in served : groups'[s] = groups[s]]_pairingVars
    <2> SUFFICES ASSUME FlowOK, BooksOK, SavedOK, PairingNext, restarts' # restarts, failures = 0
                 PROVE  \A s \in served : groups'[s] = groups[s]
      OBVIOUS
    <2>1. Restart
      BY WhoAdopts
    <2> QED
      BY <2>1 DEF Restart, SavedOK, FileOK
  <1> QED
    BY SavedInvariance, <1>1, PTL DEF PairingSpec, RestartKeepsLocks

\* A lock is adopted for the server, and in place of the lock, that the request
\* it joined on named, however flows overlap (adoptLock, onNodeAdded).
THEOREM AdoptionHonoursRequest == PairingSpec => AdoptedAsAsked
  <1>1. FlowOK /\ BooksOK /\ SavedOK /\ [PairingNext]_pairingVars
          => [restarts' = restarts /\ ~collided =>
                \A s \in Servers : \A n \in Adopted(s) :
                  /\ askedFor'[n].server = s
                  /\ \A r \in Managed \ Managed' : askedFor'[n].replaces = r]_pairingVars
    <2> SUFFICES ASSUME FlowOK, BooksOK, SavedOK, PairingNext, restarts' = restarts, ~collided,
                        NEW s \in Servers, NEW n \in Adopted(s)
                 PROVE  /\ askedFor'[n].server = s
                        /\ \A r \in Managed \ Managed' : askedFor'[n].replaces = r
      OBVIOUS
    <2>1. n \in groups'[s] /\ n \notin groups[s]
      BY DEF Adopted
    <2>2. restarts' # restarts + 1
      BY DEF SavedOK
    <2>3. PICK joined \in Nodes : Adopt(chosen.server, joined, chosen.replaces)
                                  /\ chosen = askedFor'[joined]
      BY <2>1, <2>2, WhoAdopts
    <2>4. groups' = [Without(chosen.replaces) EXCEPT ![chosen.server] = @ \cup {joined}]
      BY <2>3 DEF Adopt
    <2>5. n = joined /\ chosen.server = s
      BY <2>1, <2>4 DEF Without
    <2>6. \A r \in Managed \ Managed' : r = chosen.replaces
      BY <2>4 DEF Managed, Without
    <2> QED
      BY <2>3, <2>5, <2>6
  <1> QED
    BY SavedInvariance, <1>1, PTL DEF PairingSpec, AdoptedAsAsked

==============================================================================
