------------------------- MODULE LockLiveness_proofs -------------------------
(***************************************************************************)
(* For any number of calls of checkLiveness: type correctness, mutual      *)
(* exclusion of the checks (at most one interview of a lock at a time), no *)
(* page for a lock marked out of order, and incidents that match the       *)
(* daemon's memory.                                                        *)
(*                                                                         *)
(* Calls land in any order.  Agree says what the newest call about an      *)
(* incident, on its way or the last to land, has to do with the daemon's   *)
(* memory of it.                                                           *)
(***************************************************************************)
EXTENDS LockLiveness, SequenceTheorems, TLAPS

HealthType == [silent : BOOLEAN, unresponsive : BOOLEAN, unconfirmed : BOOLEAN]
CallType == {"trigger", "resolve"} \X Keys
NewestType == [Keys -> {"waiting", "landed", "unknown"}]
Standing == {"idle", "probing", "waiting", "reprobing", "interviewing", "healProbing"}

HOK(h) == h \in [health : HealthType, calls : Seq(CallType), newest : NewestType]

IInv == TypeOK /\ OneInterview

LEMMA RemoveAtOK ==
  ASSUME NEW c \in Seq(CallType), NEW i \in DOMAIN c
  PROVE  /\ RemoveAt(c, i) \in Seq(CallType)
         /\ Len(RemoveAt(c, i)) = Len(c) - 1
         /\ \A j \in 1..(Len(c) - 1) : RemoveAt(c, i)[j] = IF j < i THEN c[j] ELSE c[j + 1]
         /\ Len(c) \in Nat /\ DOMAIN c = 1..Len(c) /\ \A j \in DOMAIN c : c[j] \in CallType
  <1> DEFINE a == SubSeq(c, 1, i - 1)
             b == SubSeq(c, i + 1, Len(c))
  <1>1. Len(c) \in Nat /\ DOMAIN c = 1..Len(c) /\ i \in 1..Len(c) /\ \A j \in 1..Len(c) : c[j] \in CallType
    BY LenProperties, ElementOfSeq
  <1>2. /\ a \in Seq(CallType) /\ Len(a) = i - 1
        /\ \A j \in 1..(i - 1) : a[j] = c[j]
    BY <1>1, SubSeqProperties
  <1>3. /\ b \in Seq(CallType) /\ Len(b) = Len(c) - i
        /\ \A j \in 1..(Len(c) - i) : b[j] = c[i + j]
    <2>1. i + 1 \in 1..(Len(c) + 1)
      BY <1>1
    <2> QED
      BY <1>1, <2>1, SubSeqProperties
  <1> HIDE DEF a, b
  <1>4. /\ a \o b \in Seq(CallType) /\ Len(a \o b) = Len(a) + Len(b)
        /\ \A j \in 1..(Len(a) + Len(b)) : (a \o b)[j] = IF j <= Len(a) THEN a[j] ELSE b[j - Len(a)]
    BY <1>2, <1>3, ConcatProperties
  <1>5. Len(a) + Len(b) = Len(c) - 1
    BY <1>1, <1>2, <1>3
  <1>6. ASSUME NEW j \in 1..(Len(c) - 1)
        PROVE  (a \o b)[j] = IF j < i THEN c[j] ELSE c[j + 1]
    <2>1. CASE j < i
      BY <1>1, <1>2, <1>4, <1>5, <2>1
    <2>2. CASE ~(j < i)
      <3>1. j - Len(a) \in 1..(Len(c) - i) /\ i + (j - Len(a)) = j + 1
        BY <1>1, <1>2, <2>2
      <3>2. (a \o b)[j] = b[j - Len(a)]
        BY <1>1, <1>2, <1>4, <1>5, <2>2
      <3>3. b[j - Len(a)] = c[j + 1]
        BY <1>3, <3>1
      <3> QED
        BY <2>2, <3>2, <3>3
    <2> QED
      BY <2>1, <2>2
  <1> QED
    BY <1>1, <1>4, <1>5, <1>6 DEF RemoveAt, a, b

LEMMA CallOK ==
  ASSUME NEW h, HOK(h), NEW what \in {"trigger", "resolve"}, NEW key \in Keys
  PROVE  /\ HOK(Call(h, what, key))
         /\ Call(h, what, key).health = h.health
         /\ Call(h, what, key).calls = Append(h.calls, <<what, key>>)
         /\ Call(h, what, key).newest = [h.newest EXCEPT ![key] = "waiting"]
  <1>1. <<what, key>> \in CallType
    BY DEF CallType
  <1>2. Append(h.calls, <<what, key>>) \in Seq(CallType)
    BY <1>1, AppendProperties DEF HOK
  <1>3. [h.newest EXCEPT ![key] = "waiting"] \in NewestType
    BY DEF HOK, NewestType
  <1> QED
    BY <1>2, <1>3 DEF HOK, Call

LEMMA HeardOK ==
  ASSUME NEW h, HOK(h)
  PROVE  HOK(RecordHeard(h))
  <1> DEFINE g == [h EXCEPT !.health.silent = FALSE, !.health.unresponsive = FALSE]
  <1>1. HOK(g)
    BY DEF HOK, HealthType
  <1>2. HOK(Call(g, "resolve", "unresponsive"))
    BY <1>1, CallOK DEF Keys
  <1> QED
    BY <1>1, <1>2 DEF RecordHeard

LEMMA RecordsOK ==
  ASSUME NEW h, HOK(h)
  PROVE  /\ HOK(RecordConfirmed(h))
         /\ HOK(RecordUnconfirmed(h))
         /\ HOK(RecordUnresponsive(h))
         /\ HOK(ResolveIncidents(h))
  <1>1. HOK(RecordConfirmed(h))
    <2> DEFINE g == [RecordHeard(h) EXCEPT !.health.unconfirmed = FALSE]
    <2>1. HOK(RecordHeard(h))
      BY HeardOK
    <2>2. HOK(g)
      BY <2>1 DEF HOK, HealthType
    <2>3. HOK(Call(g, "resolve", "unconfirmed"))
      BY <2>2, CallOK DEF Keys
    <2> QED
      BY <2>1, <2>3 DEF RecordConfirmed
  <1>2. HOK(RecordUnconfirmed(h))
    <2> DEFINE g == [h EXCEPT !.health.unconfirmed = TRUE]
    <2>1. HOK(g)
      BY DEF HOK, HealthType
    <2>2. HOK(Call(g, "trigger", "unconfirmed"))
      BY <2>1, CallOK DEF Keys
    <2> QED
      BY <2>2 DEF RecordUnconfirmed
  <1>3. HOK(RecordUnresponsive(h))
    <2> DEFINE g == [h EXCEPT !.health.unresponsive = TRUE]
    <2>1. HOK(g)
      BY DEF HOK, HealthType
    <2>2. HOK(Call(g, "trigger", "unresponsive"))
      BY <2>1, CallOK DEF Keys
    <2> QED
      BY <2>2 DEF RecordUnresponsive
  <1>4. HOK(ResolveIncidents(h))
    <2> DEFINE g == [h EXCEPT !.health.unresponsive = FALSE, !.health.unconfirmed = FALSE]
    <2>1. HOK(g)
      BY DEF HOK, HealthType
    <2>2. HOK(Call(g, "resolve", "unresponsive"))
      BY <2>1, CallOK DEF Keys
    <2>3. HOK(Call(Call(g, "resolve", "unresponsive"), "resolve", "unconfirmed"))
      BY <2>2, CallOK DEF Keys
    <2> QED
      BY <2>3 DEF ResolveIncidents
  <1> QED
    BY <1>1, <1>2, <1>3, <1>4

LEMMA NowOK ==
  ASSUME TypeOK
  PROVE  HOK(Now)
  BY DEF TypeOK, HOK, HealthType, CallType, NewestType, Now

LEMMA BecomesOK ==
  ASSUME NEW h, HOK(h), Becomes(h)
  PROVE  health' \in HealthType /\ calls' \in Seq(CallType) /\ newest' \in NewestType
  BY DEF HOK, Becomes

\* checking.has(): a check begins only where none is under way.
LEMMA BeginOK ==
  ASSUME IInv, NEW force, NEW marked, Begin(force, marked)
  PROVE  check' \in [Checks -> Standing] /\ OneInterview'
  BY DEF IInv, TypeOK, OneInterview, Begin, Checking, Standing

\* A step of the check that is under way leaves it the only one.
LEMMA StepOK ==
  ASSUME IInv, NEW c \in Checks, NEW from \in Standing \ {"idle"}, NEW to \in Standing,
         Step(c, from, to)
  PROVE  check' \in [Checks -> Standing] /\ OneInterview'
  BY DEF IInv, TypeOK, OneInterview, Step, Standing

LEMMA CheckStepOK ==
  ASSUME IInv, NEW c \in Checks, CheckStep(c)
  PROVE  IInv'
  <1> USE DEF IInv
  <1>1. HOK(Now)
    BY NowOK
  <1>2. ASSUME NEW at \in {"probing", "reprobing", "healProbing"}, Answers(c, at)
        PROVE  IInv'
    <2>1. check' \in [Checks -> Standing] /\ OneInterview'
      BY <1>2, StepOK DEF Answers, Standing
    <2>2. health' \in HealthType /\ calls' \in Seq(CallType) /\ newest' \in NewestType
      BY <1>1, <1>2, HeardOK, BecomesOK DEF Answers
    <2> QED
      BY <1>2, <2>1, <2>2 DEF Answers, TypeOK, HealthType, CallType, NewestType, Standing
  <1>3. ASSUME ProbeMissed(c)
        PROVE  IInv'
    <2>1. check' \in [Checks -> Standing] /\ OneInterview'
      BY <1>3, StepOK DEF ProbeMissed, Standing
    <2> QED
      BY <1>3, <2>1 DEF ProbeMissed, TypeOK, Standing
  <1>4. ASSUME RetryDelayPasses(c)
        PROVE  IInv'
    <2>1. check' \in [Checks -> Standing] /\ OneInterview'
      BY <1>4, StepOK DEF RetryDelayPasses, Standing
    <2> QED
      BY <1>4, <2>1 DEF RetryDelayPasses, TypeOK, Standing
  <1>5. ASSUME ReprobeMissed(c)
        PROVE  IInv'
    <2>1. check' \in [Checks -> Standing] /\ OneInterview'
      BY <1>5, StepOK DEF ReprobeMissed, Standing
    <2>2. health' \in HealthType /\ calls' \in Seq(CallType) /\ newest' \in NewestType
      BY <1>1, <1>5, RecordsOK, BecomesOK DEF ReprobeMissed, TypeOK, HealthType, CallType, NewestType
    <2> QED
      BY <1>5, <2>1, <2>2 DEF ReprobeMissed, TypeOK, HealthType, CallType, NewestType, Standing
  <1>6. ASSUME InterviewReady(c)
        PROVE  IInv'
    <2>1. check' \in [Checks -> Standing] /\ OneInterview'
      BY <1>6, StepOK DEF InterviewReady, Standing
    <2> QED
      BY <1>6, <2>1 DEF InterviewReady, TypeOK, Standing
  <1>7. ASSUME InterviewFails(c)
        PROVE  IInv'
    <2>1. check' \in [Checks -> Standing] /\ OneInterview'
      BY <1>7, StepOK DEF InterviewFails, Standing
    <2>2. health' \in HealthType /\ calls' \in Seq(CallType) /\ newest' \in NewestType
      BY <1>1, <1>7, RecordsOK, BecomesOK DEF InterviewFails
    <2> QED
      BY <1>7, <2>1, <2>2 DEF InterviewFails, TypeOK, HealthType, CallType, NewestType, Standing
  <1>8. ASSUME HealProbeMissed(c)
        PROVE  IInv'
    <2>1. check' \in [Checks -> Standing] /\ OneInterview'
      BY <1>8, StepOK DEF HealProbeMissed, Standing
    <2>2. health' \in HealthType /\ calls' \in Seq(CallType) /\ newest' \in NewestType
      BY <1>1, <1>8, RecordsOK, BecomesOK DEF HealProbeMissed
    <2> QED
      BY <1>8, <2>1, <2>2 DEF HealProbeMissed, TypeOK, HealthType, CallType, NewestType, Standing
  <1> QED
    BY <1>2, <1>3, <1>4, <1>5, <1>6, <1>7, <1>8 DEF CheckStep

\* Counters stay within their bounds.
LEMMA BoundsOK ==
  ASSUME IInv
  PROVE  /\ Event => events' \in 0..MaxEvents
         /\ writes < MaxWrites /\ writes' = writes + 1 => writes' \in 0..MaxWrites
         /\ Fault => faults' \in 0..MaxFaults
  BY LivenessAssumption DEF IInv, TypeOK, Event, Fault

LEMMA InitOK ==
  ASSUME Init
  PROVE  IInv
  <1>1. TypeOK
    <2>1. 0 \in 0..MaxEvents /\ 0 \in 0..MaxWrites /\ 0 \in 0..MaxFaults
      BY LivenessAssumption
    <2>2. <<>> \in Seq({"trigger", "resolve"} \X Keys)
      OBVIOUS
    <2> QED
      BY <2>1, <2>2 DEF Init, TypeOK, Fresh
  <1>2. OneInterview
    BY DEF Init, OneInterview
  <1> QED
    BY <1>1, <1>2 DEF IInv

LEMMA NextOK ==
  ASSUME IInv, Next
  PROVE  IInv'
  <1> USE DEF IInv
  <1>1. HOK(Now)
    BY NowOK
  <1>2. HOK(RecordHeard(Now))
    BY <1>1, HeardOK
  <1>3. /\ \A force, marked : Begin(force, marked) => check' \in [Checks -> Standing]
        /\ \A force, marked : Begin(force, marked) => OneInterview'
    BY BeginOK
  <1>4. ASSUME NEW c \in Checks, CheckStep(c)
        PROVE  IInv'
    BY <1>4, CheckStepOK
  <1>5. ASSUME WatchdogTick
        PROVE  IInv'
    BY <1>3, <1>5 DEF WatchdogTick, TypeOK, Standing
  <1>6. ASSUME HealTimerFires
        PROVE  IInv'
    BY <1>3, <1>6 DEF HealTimerFires, TypeOK, Standing
  <1>7. ASSUME WriteConfirmed
        PROVE  IInv'
    <2>1. health' \in HealthType /\ calls' \in Seq(CallType) /\ newest' \in NewestType
      BY <1>1, <1>7, RecordsOK, BecomesOK DEF WriteConfirmed
    <2> QED
      BY <1>7, <2>1, BoundsOK DEF WriteConfirmed, TypeOK, HealthType, CallType, NewestType, OneInterview
  <1>8. ASSUME WriteUnanswered
        PROVE  IInv'
    <2>1. health' \in HealthType /\ calls' \in Seq(CallType) /\ newest' \in NewestType
      <3>1. CASE Becomes(RecordUnconfirmed(Now))
        BY <1>1, <3>1, RecordsOK, BecomesOK
      <3>2. CASE UNCHANGED <<health, calls, newest>>
        BY <3>2 DEF TypeOK, HealthType, CallType, NewestType, IInv, Keys
      <3> QED
        BY <1>8, <3>1, <3>2 DEF WriteUnanswered
    <2> QED
      BY <1>8, <2>1, BoundsOK DEF WriteUnanswered, TypeOK, HealthType, CallType, NewestType, OneInterview
  <1>9. ASSUME WriteAnsweredWrong
        PROVE  IInv'
    <2>1. health' \in HealthType /\ calls' \in Seq(CallType) /\ newest' \in NewestType
      BY <1>2, <1>9, RecordsOK, BecomesOK DEF WriteAnsweredWrong
    <2> QED
      BY <1>9, <2>1, BoundsOK DEF WriteAnsweredWrong, TypeOK, HealthType, CallType, NewestType, OneInterview
  <1>10. ASSUME LockPushes
         PROVE  IInv'
    <2>1. health' \in HealthType /\ calls' \in Seq(CallType) /\ newest' \in NewestType
      BY <1>2, <1>10, BecomesOK DEF LockPushes
    <2> QED
      BY <1>10, <2>1 DEF LockPushes, TypeOK, HealthType, CallType, NewestType, OneInterview
  <1>11. ASSUME SilenceLimitPasses \/ CooldownPasses \/ LateReady
         PROVE  IInv'
    BY <1>11 DEF SilenceLimitPasses, CooldownPasses, LateReady, TypeOK, OneInterview
  <1>12. ASSUME LockChanges \/ PairingChanges
         PROVE  IInv'
    <2>1. events' \in 0..MaxEvents
      BY <1>12, BoundsOK DEF LockChanges, PairingChanges
    <2>2. answering' \in BOOLEAN /\ pairing' \in BOOLEAN
      BY <1>12 DEF LockChanges, PairingChanges, TypeOK
    <2>3. UNCHANGED <<interview, health, canHeal, check, healTimer, startupProbe, outOfOrder,
                      retired, calls, newest, open, writes, faults>>
      BY <1>12 DEF LockChanges, PairingChanges
    <2> QED
      BY <2>1, <2>2, <2>3 DEF TypeOK, OneInterview
  <1>13. ASSUME MarkOutOfOrder
         PROVE  IInv'
    <2>1. health' \in HealthType /\ calls' \in Seq(CallType) /\ newest' \in NewestType
      BY <1>1, <1>13, RecordsOK, BecomesOK DEF MarkOutOfOrder
    <2> QED
      BY <1>13, <2>1, BoundsOK DEF MarkOutOfOrder, TypeOK, HealthType, CallType, NewestType, OneInterview
  <1>14. ASSUME BackInService \/ CheckLock
         PROVE  IInv'
    <2>1. events' \in 0..MaxEvents
      BY <1>14, BoundsOK DEF BackInService, CheckLock
    <2>2. check' \in [Checks -> Standing] /\ OneInterview'
      BY <1>3, <1>14 DEF BackInService, CheckLock
    <2>3. outOfOrder' \in BOOLEAN
      BY <1>14 DEF BackInService, CheckLock, TypeOK
    <2>4. UNCHANGED <<answering, interview, health, canHeal, healTimer, startupProbe, pairing,
                      retired, calls, newest, open, writes, faults>>
      BY <1>14 DEF BackInService, CheckLock
    <2> QED
      BY <2>1, <2>2, <2>3, <2>4 DEF TypeOK, Standing
  <1>15. ASSUME Retire
         PROVE  IInv'
    BY <1>15, BoundsOK DEF Retire, TypeOK, OneInterview
  <1>16. ASSUME NEW i \in DOMAIN calls, Deliver(i)
         PROVE  IInv'
    <2>1. RemoveAt(calls, i) \in Seq(CallType) /\ calls[i] \in CallType
      BY <1>16, RemoveAtOK DEF TypeOK, CallType
    <2>2. open' \subseteq Keys /\ newest' \in NewestType
      BY <1>16, <2>1 DEF Deliver, TypeOK, CallType, NewestType
    <2> QED
      BY <1>16, <2>1, <2>2 DEF Deliver, TypeOK, CallType, NewestType, OneInterview
  <1>17. ASSUME NEW i \in DOMAIN calls, DeliveryFails(i)
         PROVE  IInv'
    <2>1. RemoveAt(calls, i) \in Seq(CallType) /\ calls[i] \in CallType
      BY <1>17, RemoveAtOK DEF TypeOK, CallType
    <2>2. newest' \in NewestType /\ faults' \in 0..MaxFaults
      BY <1>17, <2>1, BoundsOK DEF DeliveryFails, TypeOK, CallType, NewestType
    <2> QED
      BY <1>17, <2>1, <2>2 DEF DeliveryFails, TypeOK, CallType, NewestType, OneInterview
  <1>18. ASSUME Restart
         PROVE  IInv'
    <2>1. health' \in HealthType /\ calls' = <<>> /\ newest' \in NewestType
      BY <1>18 DEF Restart, Fresh, HealthType, NewestType
    <2>2. faults' \in 0..MaxFaults
      BY <1>18, BoundsOK DEF Restart
    <2>3. check' \in [Checks -> Standing] /\ OneInterview'
      BY <1>18 DEF Restart, Standing, OneInterview
    <2>4. interview' \in {"complete", "running", "failed"}
      BY <1>18 DEF Restart
    <2>5. calls' \in Seq(CallType)
      BY <2>1
    <2>6. /\ canHeal' \in BOOLEAN /\ healTimer' \in BOOLEAN /\ startupProbe' \in BOOLEAN
          /\ pairing' \in BOOLEAN
          /\ UNCHANGED <<answering, outOfOrder, retired, open, events, writes>>
      BY <1>18 DEF Restart
    <2> QED
      BY <2>1, <2>2, <2>3, <2>4, <2>5, <2>6 DEF TypeOK, HealthType, CallType, NewestType, Standing
  <1> QED
    BY <1>4, <1>5, <1>6, <1>7, <1>8, <1>9, <1>10, <1>11, <1>12, <1>13, <1>14, <1>15, <1>16,
       <1>17, <1>18 DEF Next

LEMMA Invariance == Spec => []IInv
  <1>1. Init => IInv
    BY InitOK
  <1>2. IInv /\ [Next]_vars => IInv'
    <2>1. ASSUME IInv, UNCHANGED vars
          PROVE  IInv'
      BY <2>1 DEF IInv, vars, TypeOK, OneInterview
    <2> QED
      BY <2>1, NextOK
  <1> QED
    BY <1>1, <1>2, PTL DEF Spec

\* The health record, the calls to PagerDuty and the standing of every check
\* keep their types in every reachable state.
THEOREM TypeCorrect == Spec => []TypeOK
  BY Invariance, PTL DEF IInv

\* However many ticks, heal checks and admins ask for one, at most one liveness
\* check of a lock runs, and so at most one re-interview (checkLiveness).
THEOREM ChecksExclude == Spec => []OneInterview
  BY Invariance, PTL DEF IInv

-----------------------------------------------------------------------------
(* What a step does to the calls: it adds some through LockHealth, or one  *)
(* lands or is lost.                                                       *)

Records(h) ==
  \/ h = RecordHeard(Now) \/ h = RecordConfirmed(Now) \/ h = RecordUnconfirmed(Now)
  \/ h = RecordUnconfirmed(RecordHeard(Now)) \/ h = RecordUnresponsive(Now)
  \/ h = ResolveIncidents(Now)

SameIncidents == \A k \in Keys : health'[k] = health[k]

LEMMA CheckStepCalls ==
  ASSUME NEW c \in Checks, CheckStep(c)
  PROVE  /\ UNCHANGED open
         /\ \/ UNCHANGED <<health, calls, newest>>
            \/ \E h : Becomes(h) /\ Records(h)
  <1> USE DEF Records
  <1>1. ASSUME NEW at \in {"probing", "reprobing", "healProbing"}, Answers(c, at)
        PROVE  UNCHANGED open /\ Becomes(RecordHeard(Now))
    BY <1>1 DEF Answers
  <1>2. ASSUME ProbeMissed(c) \/ RetryDelayPasses(c) \/ InterviewReady(c)
        PROVE  UNCHANGED <<open, health, calls, newest>>
    BY <1>2 DEF ProbeMissed, RetryDelayPasses, InterviewReady
  <1>3. ASSUME ReprobeMissed(c)
        PROVE  /\ UNCHANGED open
               /\ UNCHANGED <<health, calls, newest>> \/ Becomes(RecordUnresponsive(Now))
    BY <1>3 DEF ReprobeMissed
  <1>4. ASSUME InterviewFails(c) \/ HealProbeMissed(c)
        PROVE  UNCHANGED open /\ Becomes(RecordUnresponsive(Now))
    BY <1>4 DEF InterviewFails, HealProbeMissed
  <1> QED
    BY <1>1, <1>2, <1>3, <1>4, Zenon DEF CheckStep

LEMMA NextCalls ==
  ASSUME TypeOK, [Next]_vars
  PROVE  \/ \E i \in DOMAIN calls : Deliver(i) \/ DeliveryFails(i)
         \/ Restart
         \/ /\ UNCHANGED open
            /\ \/ UNCHANGED <<calls, newest>> /\ SameIncidents
               \/ \E h : Becomes(h) /\ Records(h)
  <1>1. ASSUME UNCHANGED <<health, calls, newest>>
        PROVE  UNCHANGED <<calls, newest>> /\ SameIncidents
    BY <1>1 DEF SameIncidents
  <1>2. ASSUME NEW c \in Checks, CheckStep(c)
        PROVE  /\ UNCHANGED open
               /\ UNCHANGED <<health, calls, newest>> \/ \E h : Becomes(h) /\ Records(h)
    BY <1>2, CheckStepCalls
  <1>3. ASSUME \/ WatchdogTick \/ HealTimerFires \/ CooldownPasses \/ LateReady
               \/ LockChanges \/ PairingChanges \/ BackInService \/ CheckLock \/ Retire
        PROVE  UNCHANGED <<open, health, calls, newest>>
    BY <1>3 DEF WatchdogTick, HealTimerFires, CooldownPasses, LateReady, LockChanges,
                PairingChanges, BackInService, CheckLock, Retire
  <1>4. ASSUME \/ WriteConfirmed \/ WriteAnsweredWrong \/ LockPushes \/ MarkOutOfOrder
        PROVE  UNCHANGED open /\ \E h : Becomes(h) /\ Records(h)
    BY <1>4, Zenon DEF WriteConfirmed, WriteAnsweredWrong, LockPushes, MarkOutOfOrder, Records
  <1>5. ASSUME WriteUnanswered
        PROVE  /\ UNCHANGED open
               /\ UNCHANGED <<health, calls, newest>> \/ Becomes(RecordUnconfirmed(Now))
    BY <1>5 DEF WriteUnanswered
  <1>6. ASSUME SilenceLimitPasses
        PROVE  UNCHANGED <<open, calls, newest>> /\ SameIncidents
    BY <1>6 DEF SilenceLimitPasses, SameIncidents, TypeOK, Keys
  <1>7. ASSUME UNCHANGED vars
        PROVE  UNCHANGED <<open, health, calls, newest>>
    BY <1>7 DEF vars
  <1>8. Records(RecordUnconfirmed(Now))
    BY DEF Records
  <1> QED
    BY <1>1, <1>2, <1>3, <1>4, <1>5, <1>6, <1>7, <1>8, Zenon DEF Next

-----------------------------------------------------------------------------
(* A lock marked out of order is not paged about.                          *)

\* The calls c end with no page that was not waiting before.
NoNewPage(c) == Len(c) > Len(calls) => c[Len(c)][1] = "resolve"

LEMMA ResolveIsNoPage ==
  ASSUME NEW h, HOK(h), NEW key \in Keys
  PROVE  NoNewPage(Call(h, "resolve", key).calls)
  <1>1. <<"resolve", key>> \in CallType
    BY DEF CallType
  <1>2. Call(h, "resolve", key).calls = Append(h.calls, <<"resolve", key>>)
    BY CallOK
  <1>3. h.calls \in Seq(CallType)
    BY DEF HOK
  <1>4. /\ Len(Append(h.calls, <<"resolve", key>>)) = Len(h.calls) + 1
        /\ Append(h.calls, <<"resolve", key>>)[Len(h.calls) + 1] = <<"resolve", key>>
    BY <1>1, <1>3, AppendProperties
  <1> QED
    BY <1>2, <1>4 DEF NoNewPage

LEMMA HeardIsNoPage ==
  ASSUME NEW h, HOK(h), NoNewPage(h.calls)
  PROVE  NoNewPage(RecordHeard(h).calls)
  <1> DEFINE g == [h EXCEPT !.health.silent = FALSE, !.health.unresponsive = FALSE]
  <1>1. HOK(g) /\ g.calls = h.calls /\ g.newest = h.newest
    BY DEF HOK, HealthType
  <1>2. NoNewPage(Call(g, "resolve", "unresponsive").calls)
    BY <1>1, ResolveIsNoPage DEF Keys
  <1> HIDE DEF g
  <1> QED
    BY <1>1, <1>2 DEF RecordHeard, g

\* recordUnresponsive and recordUnconfirmed return early when the lock is marked.
LEMMA RecordsAreNoPage ==
  ASSUME TypeOK, outOfOrder, NEW h, Records(h)
  PROVE  NoNewPage(h.calls)
  <1>1. HOK(Now) /\ NoNewPage(Now.calls)
    BY NowOK, LenProperties DEF Now, NoNewPage, TypeOK
  <1>2. HOK(RecordHeard(Now)) /\ NoNewPage(RecordHeard(Now).calls)
    BY <1>1, HeardOK, HeardIsNoPage
  <1>3. RecordUnconfirmed(Now) = Now /\ RecordUnresponsive(Now) = Now
    BY DEF RecordUnconfirmed, RecordUnresponsive
  <1>4. RecordUnconfirmed(RecordHeard(Now)) = RecordHeard(Now)
    BY DEF RecordUnconfirmed
  <1>5. NoNewPage(RecordConfirmed(Now).calls)
    <2> DEFINE g == [RecordHeard(Now) EXCEPT !.health.unconfirmed = FALSE]
    <2>1. HOK(g)
      BY <1>2 DEF HOK, HealthType
    <2>2. NoNewPage(Call(g, "resolve", "unconfirmed").calls)
      BY <2>1, ResolveIsNoPage DEF Keys
    <2> QED
      BY <1>2, <2>2 DEF RecordConfirmed
  <1>6. NoNewPage(ResolveIncidents(Now).calls)
    <2> DEFINE g == [Now EXCEPT !.health.unresponsive = FALSE, !.health.unconfirmed = FALSE]
    <2>1. HOK(g)
      BY <1>1 DEF HOK, HealthType
    <2>2. HOK(Call(g, "resolve", "unresponsive"))
      BY <2>1, CallOK DEF Keys
    <2>3. NoNewPage(Call(Call(g, "resolve", "unresponsive"), "resolve", "unconfirmed").calls)
      BY <2>2, ResolveIsNoPage DEF Keys
    <2> QED
      BY <2>3 DEF ResolveIncidents
  <1> QED
    BY <1>1, <1>2, <1>3, <1>4, <1>5, <1>6, Zenon DEF Records

\* From the moment a lock is marked out of order until it is unmarked, no check
\* and no write raises an incident about it, wherever it was when the mark was
\* set (recordUnresponsive, recordUnconfirmed, setLockOutOfOrder).
THEOREM MarkedLockRaisesNoPage == Spec => NoPageOutOfOrder
  <1>1. TypeOK /\ [Next]_vars =>
          [outOfOrder /\ outOfOrder' /\ Len(calls') > Len(calls)
             => calls'[Len(calls')][1] = "resolve"]_vars
    <2> SUFFICES ASSUME TypeOK, [Next]_vars, outOfOrder
                 PROVE  NoNewPage(calls')
      BY Zenon DEF NoNewPage
    <2>1. calls \in Seq(CallType)
      BY DEF TypeOK, CallType
    <2>2. ASSUME NEW i \in DOMAIN calls, Deliver(i) \/ DeliveryFails(i)
          PROVE  NoNewPage(calls')
      <3>1. calls' = RemoveAt(calls, i)
        BY <2>2 DEF Deliver, DeliveryFails
      <3>2. Len(calls) \in Nat /\ Len(calls') = Len(calls) - 1
        BY <2>1, <3>1, RemoveAtOK
      <3> QED
        BY <3>2 DEF NoNewPage
    <2>3. ASSUME Restart
          PROVE  NoNewPage(calls')
      BY <2>1, <2>3, LenProperties, EmptySeq DEF Restart, NoNewPage
    <2>4. ASSUME UNCHANGED calls
          PROVE  NoNewPage(calls')
      BY <2>1, <2>4, LenProperties DEF NoNewPage
    <2>5. ASSUME NEW h, Becomes(h), Records(h)
          PROVE  NoNewPage(calls')
      BY <2>5, RecordsAreNoPage DEF Becomes
    <2> QED
      BY <2>2, <2>3, <2>4, <2>5, NextCalls
  <1> QED
    BY <1>1, TypeCorrect, PTL DEF Spec, NoPageOutOfOrder

-----------------------------------------------------------------------------
(* PagerDuty agrees with the daemon's memory of every incident whose       *)
(* newest call landed last.                                                *)

IsLast(c, i, k) == c[i][2] = k /\ \A j \in (i + 1)..Len(c) : c[j][2] # k

\* While the newest call about an incident waits, it says what the daemon remembers; once
\* it has landed last, PagerDuty has it so.
Agree(h, c, n, o) ==
  \A k \in Keys :
    /\ n[k] = "landed" => (h[k] <=> k \in o)
    /\ n[k] = "waiting" => \E i \in 1..Len(c) : IsLast(c, i, k) /\ (h[k] <=> c[i][1] = "trigger")

MemoryAgrees == Agree(health, calls, newest, open)

\* A call about an incident goes with the change of the daemon's memory of it.
LEMMA AgreeAppend ==
  ASSUME NEW h \in HealthType, NEW g \in HealthType, NEW c \in Seq(CallType), NEW o,
         NEW n \in NewestType,
         NEW what \in {"trigger", "resolve"}, NEW key \in Keys,
         \A k \in Keys \ {key} : g[k] = h[k],
         g[key] <=> what = "trigger",
         Agree(h, c, n, o)
  PROVE  Agree(g, Append(c, <<what, key>>), [n EXCEPT ![key] = "waiting"], o)
  <1> DEFINE d == Append(c, <<what, key>>)
             m == [n EXCEPT ![key] = "waiting"]
  <1>1. <<what, key>> \in CallType
    BY DEF CallType
  <1>2. /\ Len(c) \in Nat /\ Len(d) = Len(c) + 1
        /\ \A i \in 1..Len(c) : d[i] = c[i]
        /\ d[Len(c) + 1] = <<what, key>>
    BY <1>1, AppendProperties, LenProperties
  <1>3. m[key] = "waiting" /\ \A k \in Keys \ {key} : m[k] = n[k]
    BY DEF NewestType
  <1> HIDE DEF d, m
  <1> SUFFICES ASSUME NEW k \in Keys
               PROVE  /\ m[k] = "landed" => (g[k] <=> k \in o)
                      /\ m[k] = "waiting" =>
                           \E i \in 1..Len(d) : IsLast(d, i, k) /\ (g[k] <=> d[i][1] = "trigger")
    BY DEF Agree, d, m
  <1>4. CASE k = key
    <2>1. Len(d) \in 1..Len(d) /\ d[Len(d)] = <<what, key>>
      BY <1>2
    <2>2. IsLast(d, Len(d), k)
      BY <1>2, <1>4, <2>1 DEF IsLast
    <2> QED
      BY <1>3, <1>4, <2>1, <2>2
  <1>5. CASE k # key
    <2>1. g[k] = h[k] /\ m[k] = n[k]
      BY <1>3, <1>5
    <2>2. ASSUME n[k] = "waiting"
          PROVE  \E i \in 1..Len(d) : IsLast(d, i, k) /\ (g[k] <=> d[i][1] = "trigger")
      <3>1. PICK i \in 1..Len(c) : IsLast(c, i, k) /\ (h[k] <=> c[i][1] = "trigger")
        BY <2>2 DEF Agree
      <3>2. i \in 1..Len(d) /\ d[i] = c[i]
        BY <1>2, <3>1
      <3>3. ASSUME NEW j \in (i + 1)..Len(d)
            PROVE  d[j][2] # k
        <4>1. CASE j = Len(c) + 1
          BY <1>2, <1>5, <4>1
        <4>2. CASE j # Len(c) + 1
          <5>1. j \in (i + 1)..Len(c) /\ j \in 1..Len(c)
            BY <1>2, <3>1, <4>2
          <5> QED
            BY <1>2, <3>1, <5>1 DEF IsLast
        <4> QED
          BY <4>1, <4>2
      <3> QED
        BY <2>1, <3>1, <3>2, <3>3 DEF IsLast
    <2> QED
      BY <2>1, <2>2 DEF Agree
  <1> QED
    BY <1>4, <1>5

\* The same of LockHealth's record: a Call with the change of memory.
AgreeOf(h, o) == Agree(h.health, h.calls, h.newest, o)

LEMMA AgreeCall ==
  ASSUME NEW h, NEW g, HOK(h), HOK(g), NEW o,
         NEW what \in {"trigger", "resolve"}, NEW key \in Keys,
         g.calls = h.calls, g.newest = h.newest,
         \A k \in Keys \ {key} : g.health[k] = h.health[k],
         g.health[key] <=> what = "trigger",
         AgreeOf(h, o)
  PROVE  AgreeOf(Call(g, what, key), o)
  <1>1. /\ Call(g, what, key).health = g.health
        /\ Call(g, what, key).calls = Append(h.calls, <<what, key>>)
        /\ Call(g, what, key).newest = [h.newest EXCEPT ![key] = "waiting"]
    <2>1. /\ HOK(Call(g, what, key))
          /\ Call(g, what, key).health = g.health
          /\ Call(g, what, key).calls = Append(g.calls, <<what, key>>)
          /\ Call(g, what, key).newest = [g.newest EXCEPT ![key] = "waiting"]
      BY CallOK, Zenon
    <2> QED
      BY <2>1
  <1>2. h.health \in HealthType /\ g.health \in HealthType /\ h.calls \in Seq(CallType)
        /\ h.newest \in NewestType
    BY DEF HOK
  <1>3. Agree(g.health, Append(h.calls, <<what, key>>), [h.newest EXCEPT ![key] = "waiting"], o)
    BY <1>2, AgreeAppend DEF AgreeOf
  <1> QED
    BY <1>1, <1>3 DEF AgreeOf

\* The last call about k that waits is still the last when another one is gone.
LEMMA LastStays ==
  ASSUME NEW c \in Seq(CallType), NEW i \in DOMAIN c, NEW k,
         NEW e \in 1..Len(c), e # i, IsLast(c, e, k)
  PROVE  \E f \in 1..Len(RemoveAt(c, i)) :
            IsLast(RemoveAt(c, i), f, k) /\ RemoveAt(c, i)[f] = c[e]
  <1> DEFINE d == RemoveAt(c, i)
             f == IF e < i THEN e ELSE e - 1
  <1>1. /\ Len(c) \in Nat /\ i \in 1..Len(c) /\ Len(d) = Len(c) - 1
        /\ \A j \in 1..(Len(c) - 1) : d[j] = IF j < i THEN c[j] ELSE c[j + 1]
    BY RemoveAtOK
  <1> HIDE DEF d
  <1>2. f \in 1..Len(d) /\ d[f] = c[e]
    BY <1>1
  <1>3. ASSUME NEW j \in (f + 1)..Len(d)
        PROVE  d[j][2] # k
    <2>1. j \in 1..(Len(c) - 1)
      BY <1>1
    <2>2. CASE j < i
      <3>1. j \in (e + 1)..Len(c) /\ d[j] = c[j]
        BY <1>1, <2>1, <2>2
      <3> QED
        BY <3>1 DEF IsLast
    <2>3. CASE ~(j < i)
      <3>1. j + 1 \in (e + 1)..Len(c) /\ d[j] = c[j + 1]
        BY <1>1, <2>1, <2>3
      <3> QED
        BY <3>1 DEF IsLast
    <2> QED
      BY <2>2, <2>3
  <1>4. IsLast(d, f, k)
    <2>1. d[f][2] = k
      BY <1>2 DEF IsLast
    <2> HIDE DEF f
    <2> QED
      BY <1>3, <2>1 DEF IsLast
  <1> QED
    BY <1>2, <1>4 DEF d

\* Call i is gone: it landed, and decides for now, or it failed.
LEMMA AgreeRemove ==
  ASSUME NEW h \in HealthType, NEW c \in Seq(CallType), NEW n \in NewestType, NEW o,
         NEW i \in DOMAIN c, NEW m \in NewestType, NEW p, NEW last \in BOOLEAN,
         Agree(h, c, n, o),
         last <=> n[c[i][2]] = "waiting" /\ \A j \in DOMAIN c : j > i => c[j][2] # c[i][2],
         \A k \in Keys \ {c[i][2]} : m[k] = n[k] /\ (k \in p <=> k \in o),
         \/ /\ m[c[i][2]] = IF last THEN "landed"
                            ELSE IF n[c[i][2]] # "waiting" THEN "unknown" ELSE n[c[i][2]]
            /\ c[i][2] \in p <=> c[i][1] = "trigger"
         \/ /\ m[c[i][2]] = IF last THEN "unknown" ELSE n[c[i][2]]
            /\ c[i][2] \in p <=> c[i][2] \in o
  PROVE  Agree(h, RemoveAt(c, i), m, p)
  <1> DEFINE d == RemoveAt(c, i)
  <1>1. Len(c) \in Nat /\ DOMAIN c = 1..Len(c)
    BY RemoveAtOK
  <1> SUFFICES ASSUME NEW k \in Keys
               PROVE  /\ m[k] = "landed" => (h[k] <=> k \in p)
                      /\ m[k] = "waiting" =>
                           \E f \in 1..Len(d) : IsLast(d, f, k) /\ (h[k] <=> d[f][1] = "trigger")
    BY DEF Agree
  <1>2. ASSUME n[k] = "waiting", ~(k = c[i][2] /\ last)
        PROVE  \E f \in 1..Len(d) : IsLast(d, f, k) /\ (h[k] <=> d[f][1] = "trigger")
    <2>1. PICK e \in 1..Len(c) : IsLast(c, e, k) /\ (h[k] <=> c[e][1] = "trigger")
      BY <1>2 DEF Agree
    <2>2. e # i
      <3> SUFFICES ASSUME e = i
                   PROVE  FALSE
        OBVIOUS
      <3>1. \A j \in DOMAIN c : j > i => j \in (i + 1)..Len(c)
        BY <1>1, <2>1
      <3> QED
        BY <1>2, <2>1, <3>1 DEF IsLast
    <2>3. PICK f \in 1..Len(d) : IsLast(d, f, k) /\ d[f] = c[e]
      BY <2>1, <2>2, LastStays
    <2> QED
      BY <2>1, <2>3
  <1>3. ASSUME k = c[i][2], last
        PROVE  h[k] <=> c[i][1] = "trigger"
    <2>1. PICK e \in 1..Len(c) : IsLast(c, e, k) /\ (h[k] <=> c[e][1] = "trigger")
      BY <1>3 DEF Agree
    <2>2. e = i
      <3>1. e \in DOMAIN c /\ c[e][2] = k /\ ~(e > i)
        BY <1>1, <1>3, <2>1 DEF IsLast
      <3>2. i \in 1..Len(c) /\ (e < i => i \in (e + 1)..Len(c))
        BY <1>1, <2>1
      <3> QED
        BY <1>1, <1>3, <2>1, <3>1, <3>2 DEF IsLast
    <2> QED
      BY <2>1, <2>2
  <1>4. n[k] = "landed" => (h[k] <=> k \in o)
    BY DEF Agree
  <1>5. CASE k # c[i][2]
    BY <1>2, <1>4, <1>5
  <1>6. CASE k = c[i][2]
    <2> HIDE DEF d
    <2> QED
      BY <1>2, <1>3, <1>4, <1>6
  <1> QED
    BY <1>5, <1>6

LEMMA HeardAgrees ==
  ASSUME NEW h, HOK(h), NEW o, AgreeOf(h, o)
  PROVE  AgreeOf(RecordHeard(h), o)
  <1> DEFINE g == [h EXCEPT !.health.silent = FALSE, !.health.unresponsive = FALSE]
  <1>1. /\ HOK(g) /\ g.calls = h.calls /\ g.newest = h.newest
        /\ g.health.unresponsive = FALSE /\ g.health.unconfirmed = h.health.unconfirmed
    BY DEF HOK, HealthType
  <1> HIDE DEF g
  <1>2. CASE h.health.unresponsive
    <2>1. RecordHeard(h) = Call(g, "resolve", "unresponsive")
      BY <1>2 DEF RecordHeard, g
    <2>2. /\ \A k \in Keys \ {"unresponsive"} : g.health[k] = h.health[k]
          /\ g.health["unresponsive"] <=> "resolve" = "trigger"
          /\ "unresponsive" \in Keys
      BY <1>1 DEF Keys
    <2>3. AgreeOf(Call(g, "resolve", "unresponsive"), o)
      BY <1>1, <2>2, AgreeCall
    <2> QED
      BY <2>1, <2>3
  <1>3. CASE ~h.health.unresponsive
    <2>1. RecordHeard(h) = g
      BY <1>3 DEF RecordHeard, g
    <2>2. h.health.unresponsive \in BOOLEAN
      BY DEF HOK, HealthType
    <2>3. \A k \in Keys : g.health[k] = h.health[k]
      BY <1>1, <1>3, <2>2 DEF Keys
    <2> QED
      BY <1>1, <2>1, <2>3 DEF Agree, AgreeOf
  <1> QED
    BY <1>2, <1>3

LEMMA RecordUnconfirmedAgrees ==
  ASSUME NEW h, HOK(h), NEW o, AgreeOf(h, o)
  PROVE  AgreeOf(RecordUnconfirmed(h), o)
  <1> DEFINE g == [h EXCEPT !.health.unconfirmed = TRUE]
  <1>1. /\ HOK(g) /\ g.calls = h.calls /\ g.newest = h.newest
        /\ g.health.unconfirmed = TRUE /\ g.health.unresponsive = h.health.unresponsive
    BY DEF HOK, HealthType
  <1> HIDE DEF g
  <1>2. /\ \A k \in Keys \ {"unconfirmed"} : g.health[k] = h.health[k]
        /\ g.health["unconfirmed"] <=> "trigger" = "trigger"
        /\ "unconfirmed" \in Keys
    BY <1>1 DEF Keys
  <1>3. AgreeOf(Call(g, "trigger", "unconfirmed"), o)
    BY <1>1, <1>2, AgreeCall
  <1> QED
    BY <1>3 DEF RecordUnconfirmed, g

LEMMA RecordUnresponsiveAgrees ==
  ASSUME NEW h, HOK(h), NEW o, AgreeOf(h, o)
  PROVE  AgreeOf(RecordUnresponsive(h), o)
  <1> DEFINE g == [h EXCEPT !.health.unresponsive = TRUE]
  <1>1. /\ HOK(g) /\ g.calls = h.calls /\ g.newest = h.newest
        /\ g.health.unresponsive = TRUE /\ g.health.unconfirmed = h.health.unconfirmed
    BY DEF HOK, HealthType
  <1> HIDE DEF g
  <1>2. /\ \A k \in Keys \ {"unresponsive"} : g.health[k] = h.health[k]
        /\ g.health["unresponsive"] <=> "trigger" = "trigger"
        /\ "unresponsive" \in Keys
    BY <1>1 DEF Keys
  <1>3. AgreeOf(Call(g, "trigger", "unresponsive"), o)
    BY <1>1, <1>2, AgreeCall
  <1> QED
    BY <1>3 DEF RecordUnresponsive, g

LEMMA RecordConfirmedAgrees ==
  ASSUME NEW f, HOK(f), NEW o, AgreeOf(f, o)
  PROVE  AgreeOf(RecordConfirmed(f), o)
  <1> DEFINE h == RecordHeard(f)
  <1> DEFINE g == [h EXCEPT !.health.unconfirmed = FALSE]
  <1>1. HOK(h) /\ AgreeOf(h, o)
    BY HeardOK, HeardAgrees
  <1>2. /\ HOK(g) /\ g.calls = h.calls /\ g.newest = h.newest
        /\ g.health.unconfirmed = FALSE /\ g.health.unresponsive = h.health.unresponsive
    BY <1>1 DEF HOK, HealthType
  <1> HIDE DEF g
  <1>3. /\ \A k \in Keys \ {"unconfirmed"} : g.health[k] = h.health[k]
        /\ g.health["unconfirmed"] <=> "resolve" = "trigger"
        /\ "unconfirmed" \in Keys
    BY <1>2 DEF Keys
  <1>4. AgreeOf(Call(g, "resolve", "unconfirmed"), o)
    BY <1>1, <1>2, <1>3, AgreeCall
  <1> QED
    BY <1>1, <1>4 DEF RecordConfirmed, g

\* Marking a lock resolves both incidents, open or not.
LEMMA ResolveIncidentsAgrees ==
  ASSUME NEW h, HOK(h), NEW o, AgreeOf(h, o)
  PROVE  AgreeOf(ResolveIncidents(h), o)
  <1> DEFINE a == [h EXCEPT !.health.unresponsive = FALSE]
             b == Call(a, "resolve", "unresponsive")
             g == [b EXCEPT !.health.unconfirmed = FALSE]
  <1>1. /\ HOK(a) /\ a.calls = h.calls /\ a.newest = h.newest
        /\ a.health.unresponsive = FALSE /\ a.health.unconfirmed = h.health.unconfirmed
    BY DEF HOK, HealthType
  <1>2. "unresponsive" \in Keys /\ "unconfirmed" \in Keys
    BY DEF Keys
  <1>3. /\ HOK(b) /\ b.health = a.health
        /\ b.calls = Append(h.calls, <<"resolve", "unresponsive">>)
        /\ b.newest = [h.newest EXCEPT !["unresponsive"] = "waiting"]
    <2> HIDE DEF a
    <2>1. /\ HOK(b) /\ b.health = a.health
          /\ b.calls = Append(a.calls, <<"resolve", "unresponsive">>)
          /\ b.newest = [a.newest EXCEPT !["unresponsive"] = "waiting"]
      BY <1>1, <1>2, CallOK, Zenon
    <2> HIDE DEF b
    <2> QED
      BY <1>1, <2>1
  <1>4. ResolveIncidents(h) = Call(g, "resolve", "unconfirmed")
    <2> DEFINE z == [h EXCEPT !.health.unresponsive = FALSE, !.health.unconfirmed = FALSE]
    <2>1. HOK(z) /\ z.calls = h.calls /\ z.newest = h.newest
      BY DEF HOK, HealthType
    <2>2. HOK(Call(z, "resolve", "unresponsive"))
      BY <2>1, <1>2, CallOK
    <2>3. /\ Call(z, "resolve", "unresponsive").health = z.health
          /\ Call(z, "resolve", "unresponsive").calls = b.calls
          /\ Call(z, "resolve", "unresponsive").newest = b.newest
      <3> HIDE DEF z, b
      <3>1. /\ HOK(Call(z, "resolve", "unresponsive"))
            /\ Call(z, "resolve", "unresponsive").health = z.health
            /\ Call(z, "resolve", "unresponsive").calls
                 = Append(z.calls, <<"resolve", "unresponsive">>)
            /\ Call(z, "resolve", "unresponsive").newest
                 = [z.newest EXCEPT !["unresponsive"] = "waiting"]
        BY <1>2, <2>1, CallOK, Zenon
      <3> QED
        BY <1>3, <2>1, <3>1
    <2>4. HOK(g) /\ g.calls = b.calls /\ g.newest = b.newest /\ g.health = z.health
      <3>1. /\ z.health.silent = h.health.silent
            /\ z.health.unresponsive = FALSE /\ z.health.unconfirmed = FALSE
        BY DEF HOK, HealthType
      <3>2. /\ a.health.silent = h.health.silent /\ a.health.unresponsive = FALSE
        BY DEF HOK, HealthType
      <3>3. z.health \in HealthType
        BY <2>1 DEF HOK
      <3> HIDE DEF z, a, b
      <3>4. /\ HOK(g) /\ g.calls = b.calls /\ g.newest = b.newest /\ g.health \in HealthType
            /\ g.health.silent = b.health.silent
            /\ g.health.unresponsive = b.health.unresponsive /\ g.health.unconfirmed = FALSE
        BY <1>3 DEF HOK, HealthType
      <3> HIDE DEF g
      <3> QED
        BY <1>3, <3>1, <3>2, <3>3, <3>4 DEF HealthType
    <2>5. Call(z, "resolve", "unresponsive") = g
      BY <2>2, <2>3, <2>4 DEF HOK
    <2> QED
      BY <2>5 DEF ResolveIncidents
  <1> HIDE DEF a
  <1>5. AgreeOf(b, o)
    <2>1. /\ \A k \in Keys \ {"unresponsive"} : a.health[k] = h.health[k]
          /\ a.health["unresponsive"] <=> "resolve" = "trigger"
      BY <1>1 DEF Keys
    <2> QED
      BY <1>1, <1>2, <2>1, AgreeCall
  <1> HIDE DEF b
  <1>6. /\ HOK(g) /\ g.calls = b.calls /\ g.newest = b.newest
        /\ g.health.unconfirmed = FALSE /\ g.health.unresponsive = b.health.unresponsive
    BY <1>3 DEF HOK, HealthType
  <1> HIDE DEF g
  <1>7. /\ \A k \in Keys \ {"unconfirmed"} : g.health[k] = b.health[k]
        /\ g.health["unconfirmed"] <=> "resolve" = "trigger"
    BY <1>6 DEF Keys
  <1>8. HOK(b)
    BY <1>3
  <1>9. AgreeOf(Call(g, "resolve", "unconfirmed"), o)
    BY <1>2, <1>5, <1>6, <1>7, <1>8, AgreeCall
  <1> QED
    BY <1>4, <1>9

LEMMA RecordsAgree ==
  ASSUME TypeOK, NEW h, Records(h), NEW o, AgreeOf(Now, o)
  PROVE  AgreeOf(h, o)
  <1>1. HOK(Now)
    BY NowOK
  <1>2. HOK(RecordHeard(Now))
    BY <1>1, HeardOK
  <1>3. AgreeOf(RecordHeard(Now), o)
    BY <1>1, HeardAgrees
  <1> QED
    BY <1>1, <1>2, <1>3, RecordConfirmedAgrees, RecordUnconfirmedAgrees,
       RecordUnresponsiveAgrees, ResolveIncidentsAgrees, Zenon DEF Records

LEMMA MemoryInvariance == Spec => []MemoryAgrees
  <1>1. Init => MemoryAgrees
    <2> SUFFICES ASSUME Init
                 PROVE  MemoryAgrees
      OBVIOUS
    <2>1. \A k \in Keys : health[k] = FALSE /\ k \notin open /\ newest[k] = "landed"
      BY DEF Init, Fresh, Keys
    <2> QED
      BY <2>1 DEF MemoryAgrees, Agree
  <1>2. MemoryAgrees /\ TypeOK /\ TypeOK' /\ [Next]_vars => MemoryAgrees'
    <2> SUFFICES ASSUME MemoryAgrees, TypeOK, TypeOK', [Next]_vars
                 PROVE  Agree(health', calls', newest', open')
      BY DEF MemoryAgrees
    <2>1. /\ health \in HealthType /\ calls \in Seq(CallType)
          /\ newest \in NewestType /\ newest' \in NewestType
      BY DEF TypeOK, HealthType, CallType, NewestType
    <2>2. ASSUME NEW i \in DOMAIN calls, Deliver(i) \/ DeliveryFails(i)
          PROVE  Agree(health', calls', newest', open')
      <3> DEFINE key == calls[i][2]
                 last == Newest(i)
      <3>1. health' = health /\ calls' = RemoveAt(calls, i)
        BY <2>2 DEF Deliver, DeliveryFails
      <3>2. key \in Keys
        BY <2>1, RemoveAtOK DEF CallType
      <3>3. last \in BOOLEAN
        BY DEF Newest
      <3>4. last <=> newest[key] = "waiting" /\ \A j \in DOMAIN calls : j > i => calls[j][2] # key
        BY DEF Newest
      <3>5. CASE Deliver(i)
        <4>1. /\ newest' = [newest EXCEPT ![key] = IF last THEN "landed"
                                                 ELSE IF newest[key] # "waiting" THEN "unknown"
                                                 ELSE newest[key]]
              /\ open' = IF calls[i][1] = "trigger" THEN open \cup {key} ELSE open \ {key}
          BY <3>5 DEF Deliver, Late
        <4> HIDE DEF key, last
        <4>2. \A k \in Keys \ {key} : newest'[k] = newest[k] /\ (k \in open' <=> k \in open)
          BY <2>1, <4>1 DEF NewestType
        <4>3. /\ newest'[key] = IF last THEN "landed"
                               ELSE IF newest[key] # "waiting" THEN "unknown" ELSE newest[key]
              /\ key \in open' <=> calls[i][1] = "trigger"
          BY <2>1, <3>2, <4>1 DEF NewestType
        <4>4. Agree(health, RemoveAt(calls, i), newest', open')
          BY <2>1, <3>3, <3>4, <4>2, <4>3, AgreeRemove DEF MemoryAgrees, key
        <4> QED
          BY <3>1, <4>4
      <3>6. CASE DeliveryFails(i)
        <4>1. /\ newest' = [newest EXCEPT ![key] = IF last THEN "unknown" ELSE newest[key]]
              /\ open' = open
          BY <3>6 DEF DeliveryFails
        <4> HIDE DEF key, last
        <4>2. \A k \in Keys \ {key} : newest'[k] = newest[k] /\ (k \in open' <=> k \in open)
          BY <2>1, <4>1 DEF NewestType
        <4>3. /\ newest'[key] = IF last THEN "unknown" ELSE newest[key]
              /\ key \in open' <=> key \in open
          BY <2>1, <3>2, <4>1 DEF NewestType
        <4>4. Agree(health, RemoveAt(calls, i), newest', open')
          BY <2>1, <3>3, <3>4, <4>2, <4>3, AgreeRemove DEF MemoryAgrees, key
        <4> QED
          BY <3>1, <4>4
      <3> QED
        BY <2>2, <3>5, <3>6
    <2>3. ASSUME Restart
          PROVE  Agree(health', calls', newest', open')
      <3>1. \A k \in Keys : newest'[k] = "unknown"
        BY <2>3 DEF Restart
      <3> QED
        BY <3>1 DEF Agree
    <2>4. ASSUME UNCHANGED <<open, calls, newest>>, SameIncidents
          PROVE  Agree(health', calls', newest', open')
      BY <2>4 DEF MemoryAgrees, Agree, SameIncidents
    <2>5. ASSUME UNCHANGED open, NEW h, Becomes(h), Records(h)
          PROVE  Agree(health', calls', newest', open')
      <3>1. AgreeOf(Now, open)
        BY DEF MemoryAgrees, AgreeOf, Now
      <3>2. AgreeOf(h, open)
        BY <2>5, <3>1, RecordsAgree
      <3> QED
        BY <2>5, <3>2 DEF Becomes, AgreeOf
    <2> QED
      BY <2>2, <2>3, <2>4, <2>5, NextCalls
  <1> QED
    BY <1>1, <1>2, TypeCorrect, PTL DEF Spec

\* Whatever is recorded while calls wait, in whatever order PagerDuty takes them and
\* whichever of them fail: an incident whose newest call landed last is open exactly if
\* LockHealth believes it open.
THEOREM IncidentsMatchMemory == Spec => []PagerAgrees
  <1>1. MemoryAgrees => PagerAgrees
    BY DEF MemoryAgrees, Agree, PagerAgrees
  <1> QED
    BY <1>1, MemoryInvariance, PTL
=============================================================================
