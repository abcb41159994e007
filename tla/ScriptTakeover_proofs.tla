------------------------ MODULE ScriptTakeover_proofs ------------------------
(***************************************************************************)
(* For every set of plans and every number of plans and faults: the        *)
(* variables keep their types, at most one thermostat works the relay and  *)
(* at most one starts on boot, one script always runs, and should_be_on    *)
(* follows the plan that came last.                                        *)
(*                                                                         *)
(* The argument has three parts.  Two scripts may run and two takeovers    *)
(* may overlap, but only one is ever beyond the call that stops the other, *)
(* unless that call failed (OnePast).  Without an interruption only the active script takes over,  *)
(* and a rebuild that has asked which one that is finds it active until it *)
(* starts the next (Steady).  And an apply builds the promise the schedule *)
(* makes about should_be_on entry by entry (Promise).                      *)
(***************************************************************************)
EXTENDS ScriptTakeover, FiniteSetTheorems, TLAPS

Deploys == {"active", "list", "stop", "start", "verify"}
HistType == [dirty : BOOLEAN, interrupted : BOOLEAN, stopFailed : BOOLEAN]

\* an empty queue awaits nothing, and a startup deploy only deploys
Queue ==
  /\ chain = <<>> => job.awaits = "nothing"
  /\ chain # <<>> /\ Kind = "startup" => job.awaits \in Deploys

Past(s) == run[s] \in {"disableOther", "enableSelf", "on"}

OnePast ==
  /\ hist.stopFailed \/ ~(Past(1) /\ Past(2))
  /\ active = Missing => /\ enabled \subseteq {1}
                         /\ run[1] \in {"off", "store", "on"} /\ run[2] \in {"off", "store"}

Taking(s) == run[s] \in {"store", "stopOther", "disableOther", "enableSelf"}

Steady ==
  ~hist.interrupted =>
    /\ Running(ActiveSlot)
    /\ ~(Taking(1) /\ Taking(2))
    /\ \A s \in Slots : run[s] \in {"stopOther", "disableOther", "enableSelf"} => active = s
    /\ job.awaits \in {"list", "stop", "start"} => TakeoverOver /\ job.slot # ActiveSlot
    /\ ~(1 \in enabled /\ 2 \in enabled)
    /\ \A s \in Slots : run[s] = "enableSelf" => Other(s) \notin enabled

SwitchOn == [at |-> currentPlan.start, value |-> TRUE]
SwitchOff == [at |-> currentPlan.stop, value |-> FALSE]

\* the device has the plan, as far as it lies ahead
Applied ==
  /\ flag = InSlot(currentPlan, now)
  /\ schedule \subseteq {SwitchOn, SwitchOff}
  /\ currentPlan.start > now => SwitchOn \in schedule
  /\ currentPlan.stop > now => SwitchOff \in schedule

\* half of it: the entry that switches on is there if it is needed
HalfApplied ==
  IF currentPlan.start > job.at
  THEN schedule = {SwitchOn} /\ flag = (currentPlan.start <= now)
  ELSE schedule = {} /\ flag = (job.at < currentPlan.stop)

\* an entry still to be made will not come too late, as far as the clock tells
InTime(at) == at > job.at => at > now

Promise ==
  currentPlan # NoPlan /\ ~hist.dirty =>
    /\ job.awaits \in {"flagOff", "flag", "scheduleOn"} => schedule = {}
    /\ job.awaits \in {"scheduleOn", "scheduleOff"} => job.at <= now
    /\ job.awaits = "scheduleOn" /\ InTime(currentPlan.start) /\ InTime(currentPlan.stop) =>
         flag = InSlot(currentPlan, job.at)
    /\ job.awaits = "scheduleOff" /\ InTime(currentPlan.stop) => HalfApplied
    /\ job.awaits \in Deploys \cup {"probe", "nothing"} => Applied

IInv == TypeOK /\ Queue /\ OnePast /\ Steady /\ Promise

-----------------------------------------------------------------------------
(* Types, of the queue first. *)

JobRecords == [awaits : JobCalls, slot : Slots, at : 0..Horizon]
DaemonTyped ==
  /\ chain' \in Seq(JobTypes) /\ job' \in JobRecords
  /\ planApplyInProgress' \in BOOLEAN /\ currentPlan' \in Plans \cup {NoPlan}
HistTyped == hist' \in HistType

LEMMA ChainFacts ==
  ASSUME TypeOK, chain # <<>>
  PROVE  /\ chain[1] \in JobTypes /\ Tail(chain) \in Seq(JobTypes)
         /\ Len(chain) > 1 => chain[2] \in JobTypes /\ Tail(chain) # <<>> /\ Tail(chain)[1] = chain[2]
         /\ ~(Len(chain) > 1) => Tail(chain) = <<>>
<1>1. chain \in Seq(JobTypes)
  BY DEF TypeOK
<1>2. Len(chain) \in Nat /\ Len(chain) # 0
  BY <1>1
<1>3. Tail(chain) \in Seq(JobTypes) /\ Len(Tail(chain)) = Len(chain) - 1
  BY <1>1, <1>2
<1>4. chain[1] \in JobTypes /\ (Len(chain) > 1 => chain[2] \in JobTypes)
  BY <1>1, <1>2
<1>5. Len(chain) > 1 => Tail(chain)[1] = chain[2]
  BY <1>1, <1>2
<1>6. Len(chain) > 1 => Tail(chain) # <<>>
  BY <1>2, <1>3
<1>7. ~(Len(chain) > 1) => Tail(chain) = <<>>
  BY <1>2, <1>3
<1> QED
  BY <1>3, <1>4, <1>5, <1>6, <1>7

LEMMA BegunTyped ==
  ASSUME NEW j \in JobTypes
  PROVE  /\ Begun(j) \in JobRecords
         /\ Begun(j).awaits \in {"deleteAll", "probe", "active"}
         /\ j.kind = "startup" => Begun(j).awaits = "active"
         /\ j.kind = "plan" <=> Begun(j).awaits = "deleteAll"
<1>1. j.kind \in {"startup", "plan", "heal"}
  BY DEF JobTypes
<1>2. /\ FirstCall(j) \in {"deleteAll", "probe", "active"}
      /\ j.kind = "startup" => FirstCall(j) = "active"
      /\ j.kind = "plan" <=> FirstCall(j) = "deleteAll"
  BY <1>1 DEF FirstCall
<1>3. 0 \in 0..Horizon /\ 1 \in Slots
  BY TakeoverAssumption DEF Slots
<1> QED
  BY <1>2, <1>3 DEF Begun, Idle, JobRecords, JobCalls

LEMMA IdleTyped == Idle \in JobRecords /\ Idle.awaits = "nothing"
BY TakeoverAssumption DEF Idle, JobRecords, JobCalls, Slots

LEMMA PlanOfTyped ==
  ASSUME TypeOK, NEW j \in JobTypes
  PROVE  PlanOf(j) \in Plans \cup {NoPlan} /\ (j.kind # "plan" => PlanOf(j) = currentPlan)
BY DEF PlanOf, JobTypes, TypeOK

\* What the end of a rebuild leaves.
LEMMA EndJobFacts ==
  ASSUME TypeOK, chain # <<>>, NEW clean \in BOOLEAN, EndJob(clean)
  PROVE  /\ DaemonTyped /\ HistTyped
         /\ job'.awaits \in {"deleteAll", "probe", "active", "nothing"}
         /\ chain' = <<>> => job'.awaits = "nothing"
         /\ chain' # <<>> /\ Kind' = "startup" => job'.awaits = "active"
         /\ job'.awaits # "deleteAll" => currentPlan' = currentPlan
         /\ hist'.interrupted = hist.interrupted /\ hist'.stopFailed = hist.stopFailed
         /\ hist'.dirty = IF Kind = "startup" THEN hist.dirty ELSE ~clean
<1>1. chain' = Tail(chain) /\ chain' \in Seq(JobTypes)
  BY ChainFacts DEF EndJob
<1>2. planApplyInProgress' \in BOOLEAN
  BY DEF EndJob
<1>3. HistTyped /\ hist'.interrupted = hist.interrupted /\ hist'.stopFailed = hist.stopFailed
      /\ hist'.dirty = IF Kind = "startup" THEN hist.dirty ELSE ~clean
  BY DEF EndJob, HistTyped, HistType, TypeOK
<1>4. CASE Len(chain) > 1
  <2>1. chain[2] \in JobTypes /\ job' = Begun(chain[2]) /\ currentPlan' = PlanOf(chain[2])
        /\ chain' # <<>> /\ chain'[1] = chain[2]
    BY <1>1, <1>4, ChainFacts DEF EndJob
  <2>2. /\ job' \in JobRecords
        /\ job'.awaits \in {"deleteAll", "probe", "active"}
        /\ chain[2].kind = "startup" => job'.awaits = "active"
        /\ chain[2].kind = "plan" <=> job'.awaits = "deleteAll"
    BY <2>1, BegunTyped
  <2>3. currentPlan' \in Plans \cup {NoPlan} /\ (chain[2].kind # "plan" => currentPlan' = currentPlan)
    BY <2>1, PlanOfTyped
  <2> QED
    BY <1>1, <1>2, <1>3, <2>1, <2>2, <2>3 DEF DaemonTyped, Kind
<1>5. CASE ~(Len(chain) > 1)
  <2>1. job' = Idle /\ currentPlan' = currentPlan /\ chain' = <<>>
    BY <1>1, <1>5, ChainFacts DEF EndJob
  <2> QED
    BY <1>1, <1>2, <1>3, <2>1, IdleTyped DEF DaemonTyped, TypeOK
<1> QED
  BY <1>4, <1>5

\* What the arrival of a rebuild leaves.
LEMMA EnqueueFacts ==
  ASSUME TypeOK, NEW j \in JobTypes, Enqueue(j)
  PROVE  /\ chain' \in Seq(JobTypes) /\ job' \in JobRecords /\ currentPlan' \in Plans \cup {NoPlan}
         /\ chain' # <<>>
         /\ chain # <<>> => job' = job /\ currentPlan' = currentPlan /\ Kind' = Kind
         /\ chain = <<>> => /\ job'.awaits \in {"deleteAll", "probe", "active"}
                            /\ Kind' = j.kind /\ (j.kind = "startup" => job'.awaits = "active")
                            /\ job'.awaits # "deleteAll" => currentPlan' = currentPlan
<1>1. chain \in Seq(JobTypes) /\ chain' = Append(chain, j)
  BY DEF TypeOK, Enqueue
<1>2. chain' \in Seq(JobTypes) /\ chain' # <<>>
  BY <1>1
<1>3. CASE chain = <<>>
  <2>1. job' = Begun(j) /\ currentPlan' = PlanOf(j) /\ chain'[1] = j
    BY <1>1, <1>3 DEF Enqueue
  <2> QED
    BY <1>2, <1>3, <2>1, BegunTyped, PlanOfTyped DEF Kind
<1>4. CASE chain # <<>>
  <2>1. job' = job /\ currentPlan' = currentPlan
    BY <1>4 DEF Enqueue
  <2>2. chain'[1] = chain[1]
    <3>1. Len(chain) \in Nat /\ Len(chain) # 0
      BY <1>1, <1>4
    <3> QED
      BY <1>1, <3>1
  <2> QED
    BY <1>2, <1>4, <2>1, <2>2 DEF Kind, TypeOK, JobRecords
<1> QED
  BY <1>3, <1>4

\* What the next call of a rebuild leaves.
LEMMA NextCallFacts ==
  ASSUME TypeOK, NEW call \in JobCalls, NextCall(call)
  PROVE  DaemonTyped /\ job'.awaits = call /\ job'.slot = job.slot /\ job'.at = job.at
         /\ chain' = chain /\ currentPlan' = currentPlan
BY DEF NextCall, Then, TypeOK, DaemonTyped, JobRecords

LEMMA PingTyped ==
  ASSUME TypeOK, NEW result, Ping(result)
  PROVE  cached' \in Slots \cup {Missing}
<1>1. ActiveSlot \in Slots
  BY DEF ActiveSlot, TypeOK, Slots
<1>2. CacheAfterPing \in Slots \cup {Missing}
  BY <1>1 DEF CacheAfterPing, TypeOK
<1> QED
  BY <1>2 DEF Ping, TypeOK

LEMMA OtherSlot == \A s \in Slots : Other(s) \in Slots /\ Other(s) # s /\ Other(Other(s)) = s
BY DEF Other, Slots

LEMMA ActiveTyped == TypeOK => ActiveSlot \in Slots
BY DEF ActiveSlot, TypeOK, Slots

\* What is left of the types when the daemon's part and the history are known to be well.
Device == run' \in [Slots -> Stages] /\ enabled' \subseteq Slots /\ active' \in Slots \cup {Missing}
Flags == flag' \in BOOLEAN /\ schedule' \subseteq UNION {Entries(p) : p \in Plans \cup {NoPlan}}
Rest == /\ cached' \in Slots \cup {Missing} /\ now' \in 0..Horizon
        /\ sync' \in [Overrides -> [plan : Plans \cup {NoPlan}, at : -1..Horizon]]
        /\ beat' \in [missed : 0..ConfirmCycles, sample : {"none", "alive", "dead"}, mayHeal : BOOLEAN]

LEMMA TypeParts ==
  ASSUME DaemonTyped, HistTyped, Device, Flags, Rest
  PROVE  TypeOK'
BY DEF DaemonTyped, HistTyped, HistType, Device, Flags, Rest, TypeOK, JobRecords

LEMMA TypeSame ==
  ASSUME TypeOK
  PROVE  /\ UNCHANGED <<run, enabled, active>> => Device
         /\ UNCHANGED <<flag, schedule>> => Flags
         /\ UNCHANGED <<cached, now, beat, sync>> => Rest
         /\ UNCHANGED <<chain, job, planApplyInProgress, currentPlan>> => DaemonTyped
         /\ UNCHANGED hist => HistTyped
         /\ \A b \in BOOLEAN : hist' = [hist EXCEPT !.dirty = b] => HistTyped
         /\ hist' = [hist EXCEPT !.interrupted = TRUE] => HistTyped
         /\ \A b \in BOOLEAN : hist' = [hist EXCEPT !.interrupted = TRUE, !.stopFailed = b] => HistTyped
         /\ Stopped => HistTyped
BY DEF TypeOK, Device, Flags, Rest, DaemonTyped, HistTyped, HistType, JobRecords, Stopped

LEMMA TypeInit == Init => TypeOK
<1> SUFFICES ASSUME Init PROVE TypeOK
  OBVIOUS
<1>1. run \in [Slots -> Stages] /\ enabled \subseteq Slots /\ active \in Slots \cup {Missing}
  BY DEF Init, Slots, Stages, Missing
<1>2. FirstPlan \in Plans \cup {NoPlan}
  BY TakeoverAssumption
<1>3. flag \in BOOLEAN
  BY DEF Init, InSlot
<1>4. schedule \subseteq UNION {Entries(p) : p \in Plans \cup {NoPlan}}
  BY <1>2 DEF Init
<1>5. job \in JobRecords
  BY TakeoverAssumption DEF Init, Idle, JobRecords, JobCalls, Slots
<1>6. chain \in Seq(JobTypes)
  BY DEF Init, JobTypes
<1>7. beat \in [missed : 0..ConfirmCycles, sample : {"none", "alive", "dead"}, mayHeal : BOOLEAN]
  BY TakeoverAssumption DEF Init
<1>8. now \in 0..Horizon /\ hist \in HistType
  BY TakeoverAssumption DEF Init, Unmarred, HistType
<1>9. sync \in [Overrides -> [plan : Plans \cup {NoPlan}, at : -1..Horizon]]
  <2>1. NoWrite \in [plan : Plans \cup {NoPlan}, at : -1..Horizon]
    BY TakeoverAssumption DEF NoWrite
  <2> QED
    BY <2>1 DEF Init
<1> QED
  BY <1>1, <1>3, <1>4, <1>5, <1>6, <1>7, <1>8, <1>9 DEF Init, TypeOK, JobRecords, HistType

LEMMA AwaitsFacts ==
  ASSUME NEW call, Awaits(call)
  PROVE  chain # <<>> /\ job.awaits = call
BY DEF Awaits

HistMoves == UNCHANGED hist \/ Stopped \/ \E b \in BOOLEAN : hist' = [hist EXCEPT !.dirty = b]

\* Both ends of a call of a rebuild: the next one, or the end.
LEMMA Goes ==
  ASSUME TypeOK, chain # <<>>,
         \/ \E call \in JobCalls : NextCall(call) /\ HistMoves
         \/ \E clean \in BOOLEAN : EndJob(clean)
  PROVE  DaemonTyped /\ HistTyped
<1>1. CASE \E clean \in BOOLEAN : EndJob(clean)
  BY <1>1, EndJobFacts
<1>2. CASE \E call \in JobCalls : NextCall(call) /\ HistMoves
  BY <1>2, NextCallFacts, TypeSame DEF HistMoves
<1> QED
  BY <1>1, <1>2

LEMMA ClearTyped ==
  ASSUME TypeOK, DeleteAll \/ FlagOff
  PROVE  TypeOK'
<1>1. chain # <<>>
  BY AwaitsFacts DEF DeleteAll, FlagOff
<1>2. CASE DeleteAll
  <2>1. Flags
    BY <1>2 DEF DeleteAll, Flags, TypeOK
  <2>2. DaemonTyped /\ HistTyped
    <3>1. \/ \E call \in JobCalls : NextCall(call) /\ HistMoves
          \/ \E clean \in BOOLEAN : EndJob(clean)
      BY <1>2 DEF DeleteAll, JobCalls, Marred, HistMoves
    <3> QED
      BY <1>1, <3>1, Goes
  <2>3. Device /\ Rest
    BY <1>2, TypeSame DEF DeleteAll
  <2> QED
    BY <2>1, <2>2, <2>3, TypeParts
<1>3. CASE FlagOff
  <2>1. Flags
    BY <1>3 DEF FlagOff, Flags, TypeOK
  <2>2. "flag" \in JobCalls /\ NextCall("flag")
    BY <1>3 DEF FlagOff, JobCalls
  <2>3. DaemonTyped /\ HistTyped /\ Device /\ Rest
    BY <1>3, <2>2, NextCallFacts, TypeSame DEF FlagOff
  <2> QED
    BY <2>1, <2>3, TypeParts
<1> QED
  BY <1>2, <1>3

LEMMA ApplyTyped ==
  ASSUME TypeOK, SetFlag \/ ScheduleSetFlag
  PROVE  TypeOK'
<1>1. chain # <<>>
  BY AwaitsFacts DEF SetFlag, ScheduleSetFlag
<1>2. Device /\ Rest
  BY TypeSame DEF SetFlag, ScheduleSetFlag
<1>3. CASE SetFlag
  <2>1. Flags
    <3>1. InSlot(currentPlan, now) \in BOOLEAN
      BY DEF InSlot
    <3> QED
      BY <1>3, <3>1 DEF SetFlag, Flags, TypeOK
  <2>2. CASE EndJob(FALSE)
    BY <1>1, <1>2, <2>1, <2>2, EndJobFacts, TypeParts
  <2>3. CASE Then([job EXCEPT !.awaits = "scheduleOn", !.at = now]) /\ UNCHANGED hist
    <3>1. DaemonTyped
      BY <2>3 DEF Then, TypeOK, DaemonTyped, JobRecords, JobCalls
    <3> QED
      BY <1>2, <2>1, <2>3, <3>1, TypeParts, TypeSame
  <2> QED
    BY <1>3, <2>2, <2>3 DEF SetFlag
<1>4. CASE ScheduleSetFlag
  <2>1. PICK value \in BOOLEAN, next \in {"scheduleOff", "active"} : Schedule(value, next)
    BY <1>4 DEF ScheduleSetFlag
  <2>2. Flags
    <3> DEFINE entry == [at |-> IF value THEN currentPlan.start ELSE currentPlan.stop, value |-> value]
    <3>1. entry \in Entries(currentPlan)
      BY DEF Entries
    <3>2. currentPlan \in Plans \cup {NoPlan}
      BY DEF TypeOK
    <3>3. schedule' = schedule \/ schedule' = schedule \cup {entry}
      BY <2>1 DEF Schedule
    <3> HIDE DEF entry
    <3>4. schedule' \subseteq UNION {Entries(p) : p \in Plans \cup {NoPlan}}
      BY <3>1, <3>2, <3>3 DEF TypeOK
    <3>5. flag' = flag
      BY <1>4 DEF ScheduleSetFlag
    <3> QED
      BY <3>4, <3>5 DEF Flags, TypeOK
  <2>3. CASE EndJob(FALSE)
    BY <1>1, <1>2, <2>2, <2>3, EndJobFacts, TypeParts
  <2>4. CASE /\ Then(IF value THEN [job EXCEPT !.awaits = next] ELSE [Idle EXCEPT !.awaits = next])
             /\ Marred \/ UNCHANGED hist
    <3>1. /\ [job EXCEPT !.awaits = next] \in JobRecords
          /\ [Idle EXCEPT !.awaits = next] \in JobRecords
      BY IdleTyped DEF TypeOK, JobRecords, JobCalls
    <3>2. DaemonTyped
      BY <2>4, <3>1 DEF Then, TypeOK, DaemonTyped
    <3>3. HistTyped
      BY <2>4, TypeSame DEF Marred
    <3> QED
      BY <1>2, <2>2, <3>2, <3>3, TypeParts
  <2> QED
    BY <2>1, <2>3, <2>4 DEF Schedule
<1> QED
  BY <1>3, <1>4

LEMMA DeployTyped ==
  ASSUME TypeOK, ReadActive \/ ListScripts \/ StopIdle \/ StartScript \/ VerifyTakeover
  PROVE  TypeOK'
<1>1. chain # <<>>
  BY AwaitsFacts DEF ReadActive, ListScripts, StopIdle, StartScript, VerifyTakeover
<1>2. ActiveSlot \in Slots /\ Other(ActiveSlot) \in Slots
  BY ActiveTyped, OtherSlot
<1>3. Flags
  BY TypeSame DEF ReadActive, ListScripts, StopIdle, StartScript, VerifyTakeover, device
<1>4. Rest
  BY <1>2 DEF ReadActive, ListScripts, StopIdle, StartScript, VerifyTakeover, Rest, TypeOK
<1>5. Device
  <2>1. /\ [run EXCEPT ![job.slot] = "off"] \in [Slots -> Stages]
        /\ [run EXCEPT ![job.slot] = IF @ = "off" THEN "store" ELSE @] \in [Slots -> Stages]
    BY DEF TypeOK, Stages
  <2> QED
    BY <2>1 DEF ReadActive, ListScripts, StopIdle, StartScript, VerifyTakeover, device, Device, TypeOK
<1>6. DaemonTyped /\ HistTyped
  <2>1. CASE ReadActive
    <3>1. CASE DeployFails
      BY <1>1, <3>1, EndJobFacts DEF DeployFails
    <3>2. CASE Then([job EXCEPT !.awaits = "list", !.slot = Other(ActiveSlot)]) /\ UNCHANGED hist
      <4>1. DaemonTyped
        BY <1>2, <3>2 DEF Then, TypeOK, DaemonTyped, JobRecords, JobCalls
      <4> QED
        BY <3>2, <4>1, TypeSame
    <3> QED
      BY <2>1, <3>1, <3>2 DEF ReadActive
  <2>2. CASE ListScripts \/ StopIdle \/ StartScript \/ VerifyTakeover
    <3>1. (ActiveSlot = job.slot /\ ~hist.dirty) \in BOOLEAN
      OBVIOUS
    <3>2. \/ \E call \in JobCalls : NextCall(call) /\ HistMoves
          \/ \E clean \in BOOLEAN : EndJob(clean)
      BY <2>2, <3>1 DEF ListScripts, StopIdle, StartScript, VerifyTakeover, DeployFails, JobCalls, HistMoves
    <3> QED
      BY <1>1, <3>2, Goes
  <2> QED
    BY <2>1, <2>2
<1> QED
  BY <1>3, <1>4, <1>5, <1>6, TypeParts

LEMMA TakeoverTyped ==
  ASSUME TypeOK, NEW s \in Slots, Takeover(s)
  PROVE  TypeOK'
<1>1. Flags /\ Rest /\ DaemonTyped
  BY TypeSame DEF Takeover, StoreSlot, takeoverStopOld, takeoverDisableOld, takeoverEnableSelf, OnDevice, daemon
<1>2. HistTyped
  BY TypeSame DEF Takeover, StoreSlot, takeoverStopOld, takeoverDisableOld, takeoverEnableSelf,
                  DeviceCallLands, DeviceCallFails
<1>3. run' \in [Slots -> Stages]
  <2>1. \A a, b \in Stages : /\ [run EXCEPT ![s] = a] \in [Slots -> Stages]
                             /\ [run EXCEPT ![s] = a, ![Other(s)] = b] \in [Slots -> Stages]
    BY DEF TypeOK
  <2>2. \/ \E a \in Stages : run' = [run EXCEPT ![s] = a]
        \/ \E a, b \in Stages : run' = [run EXCEPT ![s] = a, ![Other(s)] = b]
    BY DEF Takeover, StoreSlot, takeoverStopOld, takeoverDisableOld, takeoverEnableSelf, MovesTo, Stages
  <2> QED
    BY <2>1, <2>2
<1>4. enabled' \subseteq Slots /\ active' \in Slots \cup {Missing}
  BY OtherSlot DEF Takeover, StoreSlot, takeoverStopOld, takeoverDisableOld, takeoverEnableSelf, TypeOK
<1>5. Device
  BY <1>3, <1>4 DEF Device
<1> QED
  BY <1>1, <1>2, <1>5, TypeParts

LEMMA MonitorTyped ==
  ASSUME TypeOK, Monitor \/ HealIntervalPasses \/ ProbeUnderLock
  PROVE  TypeOK'
<1>1. CASE PingAllHeartbeats
  <2>1. cached' \in Slots \cup {Missing}
    BY <1>1, PingTyped DEF PingAllHeartbeats
  <2>2. Rest
    BY <1>1, <2>1 DEF PingAllHeartbeats, Rest, TypeOK
  <2> QED
    BY <1>1, <2>2, TypeParts, TypeSame DEF PingAllHeartbeats, device
<1>2. CASE CheckHeartbeatHealth
  <2> DEFINE count == IF beat.missed < ConfirmCycles THEN beat.missed + 1 ELSE beat.missed
  <2>1. count \in 0..ConfirmCycles
    BY TakeoverAssumption DEF TypeOK
  <2>2. cached' \in Slots \cup {Missing}
    BY <1>2, PingTyped DEF CheckHeartbeatHealth, TypeOK
  <2>3. 0 \in 0..ConfirmCycles
    BY TakeoverAssumption
  <2>4. beat' \in [missed : 0..ConfirmCycles, sample : {"none", "alive", "dead"}, mayHeal : BOOLEAN]
    <3>1. \/ beat' = [beat EXCEPT !.sample = "none", !.missed = IF beat.sample = "alive" THEN 0 ELSE count]
          \/ \E alive \in BOOLEAN : beat' = [beat EXCEPT !.sample = "none", !.missed = IF alive THEN 0 ELSE count]
          \/ beat' = [missed |-> count, sample |-> "none", mayHeal |-> FALSE]
      BY <1>2 DEF CheckHeartbeatHealth
    <3> DEFINE Beats == [missed : 0..ConfirmCycles, sample : {"none", "alive", "dead"}, mayHeal : BOOLEAN]
    <3> HIDE DEF count
    <3>2. beat \in Beats
      BY DEF TypeOK
    <3>3. \A c \in BOOLEAN : [beat EXCEPT !.sample = "none", !.missed = IF c THEN 0 ELSE count] \in Beats
      <4>1. \A n \in 0..ConfirmCycles : [beat EXCEPT !.sample = "none", !.missed = n] \in Beats
        BY <3>2
      <4>2. \A c \in BOOLEAN : (IF c THEN 0 ELSE count) \in 0..ConfirmCycles
        BY <2>1, <2>3
      <4> QED
        BY <4>1, <4>2
    <3>4. (beat.sample = "alive") \in BOOLEAN
      OBVIOUS
    <3>5. [missed |-> count, sample |-> "none", mayHeal |-> FALSE] \in Beats
      BY <2>1
    <3> HIDE DEF Beats
    <3>6. beat' \in Beats
      BY <3>1, <3>3, <3>4, <3>5
    <3> QED
      BY <3>6 DEF Beats
  <2>5. Rest
    BY <1>2, <2>2, <2>4 DEF CheckHeartbeatHealth, Rest, TypeOK
  <2>6. DaemonTyped
    <3>1. [kind |-> "heal", plan |-> NoPlan] \in JobTypes
      BY DEF JobTypes
    <3>2. Enqueue([kind |-> "heal", plan |-> NoPlan]) \/ UNCHANGED <<chain, job, currentPlan>>
      BY <1>2 DEF CheckHeartbeatHealth
    <3>3. chain' \in Seq(JobTypes) /\ job' \in JobRecords /\ currentPlan' \in Plans \cup {NoPlan}
      BY <3>1, <3>2, EnqueueFacts DEF TypeOK, JobRecords
    <3> QED
      BY <1>2, <3>3 DEF CheckHeartbeatHealth, DaemonTyped, TypeOK
  <2> QED
    BY <1>2, <2>5, <2>6, TypeParts, TypeSame DEF CheckHeartbeatHealth, device
<1>3. CASE HealIntervalPasses
  <2>1. Rest
    BY <1>3 DEF HealIntervalPasses, daemon, Rest, TypeOK
  <2> QED
    BY <1>3, <2>1, TypeParts, TypeSame DEF HealIntervalPasses, device, daemon
<1>4. CASE ProbeUnderLock
  <2>1. chain # <<>>
    BY <1>4, AwaitsFacts DEF ProbeUnderLock
  <2>2. (~hist.dirty) \in BOOLEAN
    OBVIOUS
  <2>3. \/ \E call \in JobCalls : NextCall(call) /\ HistMoves
        \/ \E clean \in BOOLEAN : EndJob(clean)
    BY <1>4, <2>2 DEF ProbeUnderLock, JobCalls, HistMoves
  <2>4. Rest
    BY <1>4, PingTyped DEF ProbeUnderLock, Rest, TypeOK
  <2> QED
    BY <1>4, <2>1, <2>3, <2>4, Goes, TypeParts, TypeSame DEF ProbeUnderLock, device
<1> QED
  BY <1>1, <1>2, <1>3, <1>4 DEF Monitor

LEMMA OverrideTyped ==
  ASSUME TypeOK, NEW o \in Overrides, setSaunaOverride(o) \/ SyncFlag(o)
  PROVE  TypeOK'
<1> DEFINE Writes == [plan : Plans \cup {NoPlan}, at : -1..Horizon]
<1>1. NoWrite \in Writes /\ [plan |-> currentPlan, at |-> now] \in Writes
  BY TakeoverAssumption DEF NoWrite, TypeOK
<1>2. sync' \in [Overrides -> Writes]
  <2> HIDE DEF Writes
  <2>1. sync \in [Overrides -> Writes]
    BY DEF TypeOK, Writes
  <2> QED
    BY <1>1, <2>1 DEF setSaunaOverride, SyncFlag
<1>3. Rest
  BY <1>2 DEF setSaunaOverride, SyncFlag, daemon, Rest, TypeOK
<1>4. Device /\ DaemonTyped
  BY TypeSame DEF setSaunaOverride, SyncFlag, device, daemon
<1>5. Flags
  <2>1. InSlot(sync[o].plan, sync[o].at) \in BOOLEAN
    BY DEF InSlot
  <2> QED
    BY <2>1 DEF setSaunaOverride, SyncFlag, device, Flags, TypeOK
<1>6. HistTyped
  BY TypeSame DEF setSaunaOverride, SyncFlag, Marred
<1> QED
  BY <1>3, <1>4, <1>5, <1>6, TypeParts

LEMMA WorldTyped ==
  ASSUME TypeOK, applyOperationalPlan \/ Tick \/ Reboot \/ Restart
  PROVE  TypeOK'
<1>1. CASE applyOperationalPlan
  <2>1. PICK p \in Plans : Enqueue([kind |-> "plan", plan |-> p])
    BY <1>1 DEF applyOperationalPlan
  <2>2. [kind |-> "plan", plan |-> p] \in JobTypes
    BY DEF JobTypes
  <2>3. DaemonTyped
    BY <1>1, <2>1, <2>2, EnqueueFacts DEF applyOperationalPlan, DaemonTyped
  <2> QED
    BY <1>1, <2>3, TypeParts, TypeSame DEF applyOperationalPlan, device
<1>2. CASE Tick
  <2>1. Rest
    BY <1>2, TakeoverAssumption DEF Tick, daemon, Rest, TypeOK
  <2>2. Flags
    BY <1>2 DEF Tick, Flags, TypeOK
  <2> QED
    BY <1>2, <2>1, <2>2, TypeParts, TypeSame DEF Tick, daemon
<1>3. CASE Reboot
  <2>1. Device
    BY <1>3 DEF Reboot, Device, TypeOK, Stages
  <2> QED
    BY <1>3, <2>1, TypeParts, TypeSame DEF Reboot, daemon
<1>4. CASE Restart
  <2>1. [Idle EXCEPT !.awaits = "active"] \in JobRecords
    BY IdleTyped DEF JobRecords, JobCalls
  <2>2. <<[kind |-> "startup", plan |-> NoPlan]>> \in Seq(JobTypes)
    BY DEF JobTypes
  <2>3. DaemonTyped /\ HistTyped
    BY <1>4, <2>1, <2>2 DEF Restart, DaemonTyped, HistTyped, HistType, TypeOK
  <2>4. Rest
    <3>1. NoWrite \in [plan : Plans \cup {NoPlan}, at : -1..Horizon]
      BY TakeoverAssumption DEF NoWrite
    <3> QED
      BY <1>4, <3>1, TakeoverAssumption DEF Restart, Rest, TypeOK
  <2> QED
    BY <1>4, <2>3, <2>4, TypeParts, TypeSame DEF Restart, device
<1> QED
  BY <1>1, <1>2, <1>3, <1>4

LEMMA TypeStep == TypeOK /\ [Next]_vars => TypeOK'
<1> SUFFICES ASSUME TypeOK, [Next]_vars PROVE TypeOK'
  OBVIOUS
<1>1. CASE UNCHANGED vars
  BY <1>1, TypeParts, TypeSame DEF vars, device, daemon
<1>2. CASE Next
  BY <1>2, ClearTyped, ApplyTyped, DeployTyped, TakeoverTyped, MonitorTyped, OverrideTyped, WorldTyped DEF Next, JobStep
<1> QED
  BY <1>1, <1>2

-----------------------------------------------------------------------------
(* The queue. *)

LEMMA QueueInit == Init => Queue
BY DEF Init, Queue, Kind, Idle, Deploys

LEMMA QueueEnds ==
  ASSUME TypeOK, chain # <<>>, NEW clean \in BOOLEAN, EndJob(clean)
  PROVE  Queue'
<1>1. /\ chain' = <<>> => job'.awaits = "nothing"
      /\ chain' # <<>> /\ Kind' = "startup" => job'.awaits = "active"
  BY EndJobFacts
<1> QED
  BY <1>1 DEF Queue, Deploys

\* A deploy goes on with a deploy's calls, another rebuild with any.
LEMMA QueueGoesOn ==
  ASSUME Queue, chain' = chain, chain # <<>>, job.awaits \in Deploys => job'.awaits \in Deploys
  PROVE  Queue'
BY DEF Queue, Kind

LEMMA QueueStep ==
  ASSUME TypeOK, Queue, [Next]_vars
  PROVE  Queue'
<1>1. CASE \E clean \in BOOLEAN : chain # <<>> /\ EndJob(clean)
  BY <1>1, QueueEnds
<1>2. CASE UNCHANGED <<chain, job>>
  BY <1>2 DEF Queue, Kind
<1>3. CASE chain' = chain /\ chain # <<>> /\ (job.awaits \in Deploys => job'.awaits \in Deploys)
  BY <1>3, QueueGoesOn
<1>4. CASE \E j \in JobTypes : Enqueue(j)
  <2>1. PICK j \in JobTypes : Enqueue(j)
    BY <1>4
  <2>2. /\ chain' # <<>>
        /\ chain # <<>> => job' = job /\ Kind' = Kind
        /\ chain = <<>> => Kind' = j.kind /\ (j.kind = "startup" => job'.awaits = "active")
    BY <2>1, EnqueueFacts
  <2> QED
    BY <2>2 DEF Queue, Deploys
<1>5. CASE DeleteAll
  <2>1. chain # <<>> /\ job.awaits \notin Deploys
    BY <1>5, AwaitsFacts DEF DeleteAll, Deploys
  <2>2. (\E clean \in BOOLEAN : EndJob(clean)) \/ (\E call \in {"flagOff", "flag"} : NextCall(call))
    BY <1>5 DEF DeleteAll
  <2>3. (\E call \in {"flagOff", "flag"} : NextCall(call)) => chain' = chain
    BY DEF NextCall, Then
  <2> QED
    BY <1>1, <1>3, <2>1, <2>2, <2>3
<1>6. CASE FlagOff
  BY <1>3, <1>6, NextCallFacts, AwaitsFacts DEF FlagOff, JobCalls, Deploys
<1>7. CASE SetFlag
  BY <1>1, <1>3, <1>7, AwaitsFacts DEF SetFlag, Then, Deploys
<1>8. CASE ScheduleSetFlag
  <2>1. chain # <<>> /\ job.awaits \notin Deploys
    <3>1. Awaits("scheduleOn") \/ Awaits("scheduleOff")
      BY <1>8 DEF ScheduleSetFlag
    <3> QED
      BY <3>1 DEF Awaits, Deploys
  <2>2. (\E clean \in BOOLEAN : EndJob(clean)) \/ chain' = chain
    BY <1>8 DEF ScheduleSetFlag, Schedule, Then
  <2> QED
    BY <1>1, <1>3, <2>1, <2>2
<1>9. CASE ReadActive
  <2>1. chain # <<>>
    BY <1>9, AwaitsFacts DEF ReadActive
  <2>2. EndJob(FALSE) \/ (chain' = chain /\ job'.awaits = "list")
    BY <1>9 DEF ReadActive, DeployFails, Then, TypeOK
  <2> QED
    BY <1>1, <1>3, <2>1, <2>2 DEF Deploys
<1>10. CASE ListScripts \/ StopIdle \/ StartScript \/ VerifyTakeover
  <2>1. chain # <<>>
    BY <1>10, AwaitsFacts DEF ListScripts, StopIdle, StartScript, VerifyTakeover
  <2>2. (\E clean \in BOOLEAN : EndJob(clean)) \/ (\E call \in {"stop", "start", "verify"} : NextCall(call))
    BY <1>10 DEF ListScripts, StopIdle, StartScript, VerifyTakeover, DeployFails
  <2>3. (\E call \in {"stop", "start", "verify"} : NextCall(call)) => chain' = chain /\ job'.awaits \in Deploys
    BY NextCallFacts DEF JobCalls, Deploys
  <2> QED
    BY <1>1, <1>3, <2>1, <2>2, <2>3
<1>11. CASE ProbeUnderLock
  <2>1. chain # <<>> /\ job.awaits \notin Deploys
    BY <1>11, AwaitsFacts DEF ProbeUnderLock, Deploys
  <2>2. (\E clean \in BOOLEAN : EndJob(clean)) \/ NextCall("deleteAll")
    BY <1>11 DEF ProbeUnderLock
  <2>3. NextCall("deleteAll") => chain' = chain
    BY DEF NextCall, Then
  <2> QED
    BY <1>1, <1>3, <2>1, <2>2, <2>3
<1>12. CASE Monitor
  <2>1. [kind |-> "heal", plan |-> NoPlan] \in JobTypes
    BY DEF JobTypes
  <2> QED
    BY <1>2, <1>4, <1>12, <2>1 DEF Monitor, PingAllHeartbeats, CheckHeartbeatHealth
<1>13. CASE applyOperationalPlan
  <2>1. \A p \in Plans : [kind |-> "plan", plan |-> p] \in JobTypes
    BY DEF JobTypes
  <2> QED
    BY <1>4, <1>13, <2>1 DEF applyOperationalPlan
<1>14. CASE Restart
  BY <1>14 DEF Restart, Idle, Queue, Kind, Deploys
<1>15. CASE \/ HealIntervalPasses \/ Tick \/ Reboot \/ (\E s \in Slots : Takeover(s)) \/ UNCHANGED vars
            \/ \E o \in Overrides : setSaunaOverride(o) \/ SyncFlag(o)
  BY <1>2, <1>15 DEF HealIntervalPasses, Tick, Reboot, Takeover, StoreSlot, takeoverStopOld, takeoverDisableOld,
                     takeoverEnableSelf, setSaunaOverride, SyncFlag, OnDevice, daemon, vars
<1> QED
  BY <1>5, <1>6, <1>7, <1>8, <1>9, <1>10, <1>11, <1>12, <1>13, <1>14, <1>15 DEF Next, JobStep

-----------------------------------------------------------------------------
(* The relay. *)

LEMMA OnePastInit == Init => OnePast
BY DEF Init, OnePast, Past, Slots, Missing, Unmarred

\* What runs no script and stops none cannot disturb it.
LEMMA OnePastSame ==
  ASSUME OnePast, UNCHANGED <<run, enabled, active>>, hist'.stopFailed = hist.stopFailed
  PROVE  OnePast'
BY DEF OnePast, Past

\* Only the stops and a reboot have to do with stopFailed.
LEMMA StopFailedKept ==
  ASSUME TypeOK,
         \/ UNCHANGED hist
         \/ \E b \in BOOLEAN : hist' = [hist EXCEPT !.dirty = b]
         \/ \E clean \in BOOLEAN : EndJob(clean)
         \/ DeviceCallFails
         \/ Restart
  PROVE  hist'.stopFailed = hist.stopFailed
BY DEF TypeOK, EndJob, DeviceCallFails, Restart

LEMMA OnePastStep ==
  ASSUME TypeOK, OnePast, [Next]_vars
  PROVE  OnePast'
<1>1. run \in [Slots -> Stages] /\ hist \in HistType
  BY DEF TypeOK, HistType
<1>2. CASE UNCHANGED <<run, enabled, active>> /\ hist'.stopFailed = hist.stopFailed
  BY <1>2, OnePastSame
<1>3. CASE StopIdle \/ StartScript
  <2>1. UNCHANGED <<enabled, active>>
    BY <1>3 DEF StopIdle, StartScript
  <2>2. \A s \in Slots : run'[s] \in {run[s], "off"} \/ (run[s] = "off" /\ run'[s] = "store")
    BY <1>1, <1>3 DEF StopIdle, StartScript
  <2>3. CASE hist'.stopFailed = hist.stopFailed
    BY <2>1, <2>2, <2>3 DEF OnePast, Past, Slots
  <2>4. CASE StopIdle /\ run' = [run EXCEPT ![job.slot] = "off"]
    <3>1. job.slot \in Slots
      BY DEF TypeOK
    <3>2. ~(Past(1) /\ Past(2))'
      BY <1>1, <2>4, <3>1 DEF Past, Slots
    <3> QED
      BY <2>1, <2>2, <3>2 DEF OnePast, Past, Slots
  <2>5. \/ UNCHANGED hist \/ EndJob(FALSE)
        \/ StopIdle /\ run' = [run EXCEPT ![job.slot] = "off"]
    BY <1>3 DEF StopIdle, StartScript, DeployFails
  <2> QED
    BY <2>3, <2>4, <2>5, StopFailedKept
<1>4. ASSUME NEW s \in Slots, Takeover(s)
      PROVE  OnePast'
  <2>1. CASE StoreSlot(s)
    <3>1. hist'.stopFailed = hist.stopFailed
      BY <2>1, StopFailedKept DEF StoreSlot, DeviceCallLands
    <3> QED
      BY <1>1, <2>1, <3>1 DEF StoreSlot, On, MovesTo, OnePast, Past, Slots, Missing
  <2>2. CASE takeoverStopOld(s)
    <3>1. On(s, "stopOther") /\ UNCHANGED <<enabled, active>>
      BY <2>2 DEF takeoverStopOld
    <3>2. active # Missing
      BY <1>1, <3>1 DEF On, OnePast, Slots
    <3>3. CASE run' = [run EXCEPT ![s] = "disableOther", ![Other(s)] = "off"]
      BY <1>1, <3>1, <3>2, <3>3 DEF Other, OnePast, Past, Slots
    <3>4. CASE hist' = [hist EXCEPT !.interrupted = TRUE, !.stopFailed = TRUE]
      BY <1>1, <3>1, <3>2, <3>4 DEF HistType, OnePast
    <3> QED
      BY <2>2, <3>3, <3>4 DEF takeoverStopOld
  <2>3. CASE takeoverDisableOld(s)
    <3>1. hist'.stopFailed = hist.stopFailed
      BY <2>3, StopFailedKept DEF takeoverDisableOld, DeviceCallLands
    <3> QED
      BY <1>1, <2>3, <3>1 DEF takeoverDisableOld, On, MovesTo, OnePast, Past, Slots, Missing
  <2>4. CASE takeoverEnableSelf(s)
    <3>1. hist'.stopFailed = hist.stopFailed
      BY <2>4, StopFailedKept DEF takeoverEnableSelf, DeviceCallLands
    <3> QED
      BY <1>1, <2>4, <3>1 DEF takeoverEnableSelf, On, MovesTo, OnePast, Past, Slots, Missing
  <2> QED
    BY <1>4, <2>1, <2>2, <2>3, <2>4 DEF Takeover
<1>5. CASE Reboot
  BY <1>1, <1>5 DEF Reboot, OnePast, Past, Slots, Missing
<1>6. CASE DeleteAll \/ FlagOff \/ SetFlag \/ ScheduleSetFlag \/ ReadActive \/ ListScripts \/ VerifyTakeover \/ ProbeUnderLock
  <2>1. UNCHANGED <<run, enabled, active>>
    BY <1>6 DEF DeleteAll, FlagOff, SetFlag, ScheduleSetFlag, ReadActive, ListScripts, VerifyTakeover,
                ProbeUnderLock, device
  <2>2. \/ UNCHANGED hist
        \/ \E b \in BOOLEAN : hist' = [hist EXCEPT !.dirty = b]
        \/ \E clean \in BOOLEAN : EndJob(clean)
    <3>1. (ActiveSlot = job.slot /\ ~hist.dirty) \in BOOLEAN /\ (~hist.dirty) \in BOOLEAN
      OBVIOUS
    <3> QED
      BY <1>6, <3>1 DEF DeleteAll, FlagOff, SetFlag, ScheduleSetFlag, Schedule, ReadActive, ListScripts,
                        VerifyTakeover, ProbeUnderLock, DeployFails, Marred
  <2> QED
    BY <1>2, <2>1, <2>2, StopFailedKept
<1>7. CASE \/ Monitor \/ HealIntervalPasses \/ applyOperationalPlan \/ Tick \/ Restart \/ UNCHANGED vars
           \/ \E o \in Overrides : setSaunaOverride(o) \/ SyncFlag(o)
  <2>1. UNCHANGED <<run, enabled, active>>
    BY <1>7 DEF Monitor, PingAllHeartbeats, CheckHeartbeatHealth, HealIntervalPasses, applyOperationalPlan,
                Tick, Restart, setSaunaOverride, SyncFlag, vars, device
  <2>2. \/ UNCHANGED hist \/ Restart
        \/ \E b \in BOOLEAN : hist' = [hist EXCEPT !.dirty = b]
    BY <1>7 DEF Monitor, PingAllHeartbeats, CheckHeartbeatHealth, HealIntervalPasses, applyOperationalPlan,
                Tick, setSaunaOverride, SyncFlag, Marred, vars
  <2> QED
    BY <1>2, <2>1, <2>2, StopFailedKept
<1> QED
  BY <1>3, <1>4, <1>5, <1>6, <1>7 DEF Next, JobStep

-----------------------------------------------------------------------------
(* The watchdog. *)

LEMMA SteadyInit == Init => Steady
<1> SUFFICES ASSUME Init PROVE Steady
  OBVIOUS
<1>1. PICK s \in Slots : /\ run = [r \in Slots |-> IF r = s THEN "on" ELSE "off"]
                         /\ enabled = {s} /\ active \in IF s = 1 THEN {1, Missing} ELSE {2}
  BY DEF Init
<1>2. ActiveSlot = s
  BY <1>1 DEF ActiveSlot, Missing, Slots
<1>3. job.awaits = "active"
  BY DEF Init, Idle
<1> QED
  BY <1>1, <1>2, <1>3 DEF Steady, Running, Taking, Slots

\* What the queue does cannot disturb it, but for the calls of a deploy.
LEMMA SteadyElsewhere ==
  ASSUME Steady, UNCHANGED <<run, enabled, active>>, hist'.interrupted = hist.interrupted,
         job' = job \/ job'.awaits \notin {"list", "stop", "start"}
  PROVE  Steady'
BY DEF Steady, Running, Taking, TakeoverOver, ActiveSlot

\* An interruption ends what Steady has to say.
LEMMA SteadyInterrupted ==
  ASSUME hist'.interrupted = TRUE
  PROVE  Steady'
BY DEF Steady

\* A call that fails on the device, and a reboot, are one.
LEMMA Interrupts ==
  ASSUME TypeOK, hist' = [hist EXCEPT !.interrupted = TRUE]
  PROVE  hist'.interrupted = TRUE
BY DEF TypeOK

LEMMA SteadyDeploys ==
  ASSUME TypeOK, Steady, ReadActive \/ ListScripts \/ StopIdle \/ StartScript
  PROVE  Steady'
<1>1. chain # <<>>
  BY AwaitsFacts DEF ReadActive, ListScripts, StopIdle, StartScript
<1>2. run \in [Slots -> Stages] /\ job.slot \in Slots /\ ActiveSlot \in Slots
  BY ActiveTyped DEF TypeOK
<1>3. EndJob(FALSE) => hist'.interrupted = hist.interrupted /\ job'.awaits \notin {"list", "stop", "start"}
  BY <1>1, EndJobFacts
<1>4. CASE ReadActive
  <2>1. CASE DeployFails
    BY <1>3, <1>4, <2>1, SteadyElsewhere DEF ReadActive, DeployFails, device
  <2>2. CASE Then([job EXCEPT !.awaits = "list", !.slot = Other(ActiveSlot)]) /\ UNCHANGED hist
    <3>1. job'.slot = Other(ActiveSlot)
      BY <2>2 DEF Then, TypeOK
    <3>2. job'.slot # ActiveSlot
      BY <1>2, <3>1, OtherSlot
    <3>3. TakeoverOver /\ UNCHANGED <<run, enabled, active>>
      BY <1>4 DEF ReadActive, device
    <3> QED
      BY <2>2, <3>2, <3>3 DEF Steady, Running, Taking, TakeoverOver, ActiveSlot
  <2> QED
    BY <1>4, <2>1, <2>2 DEF ReadActive
<1>5. CASE ListScripts
  <2>1. UNCHANGED <<run, enabled, active>> /\ job.awaits = "list"
    BY <1>5, AwaitsFacts DEF ListScripts, device
  <2>2. CASE DeployFails
    BY <1>3, <2>1, <2>2, SteadyElsewhere DEF DeployFails
  <2>3. CASE (\E call \in {"stop", "start"} : NextCall(call)) /\ UNCHANGED hist
    <3>1. job'.slot = job.slot
      BY <2>3, NextCallFacts DEF JobCalls
    <3> QED
      BY <2>1, <2>3, <3>1 DEF Steady, Running, Taking, TakeoverOver, ActiveSlot
  <2> QED
    BY <1>5, <2>2, <2>3 DEF ListScripts
<1>6. CASE StopIdle \/ StartScript
  <2>1. UNCHANGED <<enabled, active>> /\ job.awaits \in {"stop", "start"}
    BY <1>6, AwaitsFacts DEF StopIdle, StartScript
  <2>2. /\ hist'.interrupted = hist.interrupted
        /\ \/ job'.awaits \notin {"list", "stop", "start"}
           \/ StopIdle /\ job'.awaits = "start" /\ job'.slot = job.slot
    <3>1. CASE DeployFails
      BY <1>3, <3>1 DEF DeployFails
    <3>2. CASE StopIdle /\ NextCall("start") /\ Stopped
      BY <3>2, NextCallFacts DEF JobCalls, Stopped, TypeOK
    <3>3. CASE NextCall("verify") /\ UNCHANGED hist
      BY <3>3, NextCallFacts DEF JobCalls
    <3> QED
      BY <1>6, <3>1, <3>2, <3>3 DEF StopIdle, StartScript
  <2>3. /\ \A s \in Slots : s # job.slot => run'[s] = run[s]
        /\ run'[job.slot] \in {run[job.slot], "off"} \/ (StartScript /\ run'[job.slot] = "store")
    BY <1>2, <1>6 DEF StopIdle, StartScript
  <2>4. SUFFICES ASSUME ~hist'.interrupted PROVE Steady'
    BY DEF Steady
  <2>5. TakeoverOver /\ job.slot # ActiveSlot /\ Running(ActiveSlot)
    BY <2>1, <2>2, <2>4 DEF Steady
  <2>6. ActiveSlot' = ActiveSlot
    BY <2>1 DEF ActiveSlot
  <2>7. Running(ActiveSlot)'
    BY <1>2, <2>3, <2>5, <2>6 DEF Running
  <2>8. /\ ~(Taking(1) /\ Taking(2))'
        /\ \A s \in Slots : run'[s] \notin {"stopOther", "disableOther", "enableSelf"}
    BY <1>2, <2>3, <2>5 DEF TakeoverOver, Taking, Slots
  <2>9. (job'.awaits \in {"list", "stop", "start"}) => TakeoverOver' /\ job'.slot # ActiveSlot'
    BY <1>2, <2>2, <2>3, <2>5, <2>6 DEF TakeoverOver, StopIdle, StartScript, Awaits
  <2>10. ~(1 \in enabled' /\ 2 \in enabled')
    BY <2>1, <2>2, <2>4 DEF Steady
  <2> QED
    BY <2>7, <2>8, <2>9, <2>10 DEF Steady
<1> QED
  BY <1>4, <1>5, <1>6

LEMMA SteadyTakesOver ==
  ASSUME TypeOK, OnePast, Steady, NEW s \in Slots, Takeover(s)
  PROVE  Steady'
<1>1. run \in [Slots -> Stages] /\ hist \in HistType
  BY DEF TypeOK, HistType
<1>2. SUFFICES ASSUME ~hist'.interrupted PROVE Steady'
  BY DEF Steady
<1>0. ~DeviceCallFails
  BY <1>2, Interrupts DEF DeviceCallFails
<1>3. hist'.interrupted = hist.interrupted /\ (takeoverStopOld(s) => Stopped)
  <2>1. takeoverStopOld(s) => Stopped
    BY <1>1, <1>2 DEF takeoverStopOld, HistType
  <2>2. DeviceCallLands \/ Stopped
    BY <1>0, <2>1 DEF Takeover, StoreSlot, takeoverDisableOld, takeoverEnableSelf
  <2> QED
    BY <1>1, <2>1, <2>2 DEF DeviceCallLands, Stopped, HistType
<1>4. job' = job /\ Taking(s)
  BY DEF Takeover, StoreSlot, takeoverStopOld, takeoverDisableOld, takeoverEnableSelf, OnDevice, daemon, On, Taking
<1>5. job.awaits \notin {"list", "stop", "start"}
  BY <1>2, <1>3, <1>4 DEF Steady, TakeoverOver, Taking
<1>6. Running(ActiveSlot) /\ ~Taking(Other(s)) /\ Other(s) \in Slots /\ Other(s) # s /\ Slots = {s, Other(s)}
  BY <1>2, <1>3, <1>4 DEF Steady, Slots, Other
<1>7. /\ \A r \in Slots : run[r] \in {"stopOther", "disableOther", "enableSelf"} => active = r
      /\ ~(1 \in enabled /\ 2 \in enabled)
      /\ \A r \in Slots : run[r] = "enableSelf" => Other(r) \notin enabled
  BY <1>2, <1>3 DEF Steady
<1>8. CASE StoreSlot(s)
  <2>1. active' = s /\ run' = [run EXCEPT ![s] = "stopOther"] /\ enabled' = enabled
    BY <1>0, <1>8 DEF StoreSlot, MovesTo
  <2>2. run'[s] = "stopOther" /\ run'[Other(s)] = run[Other(s)] /\ ActiveSlot' = s
    BY <1>1, <1>6, <2>1 DEF ActiveSlot, Slots, Missing
  <2> QED
    BY <1>4, <1>5, <1>6, <1>7, <2>1, <2>2 DEF Steady, Running, Taking, Slots
<1>9. CASE takeoverStopOld(s)
  <2>1. active = s /\ active' = s /\ enabled' = enabled
    BY <1>7, <1>9 DEF takeoverStopOld, On
  <2>2. run'[s] = "disableOther" /\ run'[Other(s)] = "off" /\ ActiveSlot' = s
    <3>1. run' = [run EXCEPT ![s] = "disableOther", ![Other(s)] = "off"]
      BY <1>1, <1>2, <1>9 DEF takeoverStopOld, HistType
    <3> QED
      BY <1>1, <1>6, <2>1, <3>1 DEF ActiveSlot, Slots, Missing
  <2> QED
    BY <1>4, <1>5, <1>6, <1>7, <2>1, <2>2 DEF Steady, Running, Taking, Slots
<1>10. CASE takeoverDisableOld(s)
  <2>1. active = s /\ active' = s /\ enabled' = enabled \ {Other(s)}
    BY <1>0, <1>7, <1>10 DEF takeoverDisableOld, On
  <2>2. run'[s] = "enableSelf" /\ run'[Other(s)] = run[Other(s)] /\ ActiveSlot' = s
    BY <1>1, <1>6, <1>10, <2>1 DEF takeoverDisableOld, MovesTo, ActiveSlot, Slots, Missing
  <2> QED
    BY <1>4, <1>5, <1>6, <1>7, <2>1, <2>2 DEF Steady, Running, Taking, Slots
<1>11. CASE takeoverEnableSelf(s)
  <2>1. active = s /\ active' = s /\ enabled' = enabled \cup {s} /\ Other(s) \notin enabled
    BY <1>0, <1>7, <1>11 DEF takeoverEnableSelf, On
  <2>2. run'[s] = "on" /\ run'[Other(s)] = run[Other(s)] /\ ActiveSlot' = s
    BY <1>1, <1>6, <1>11, <2>1 DEF takeoverEnableSelf, MovesTo, ActiveSlot, Slots, Missing
  <2> QED
    BY <1>4, <1>5, <1>6, <1>7, <2>1, <2>2 DEF Steady, Running, Taking, Slots
<1> QED
  BY <1>8, <1>9, <1>10, <1>11 DEF Takeover

LEMMA SteadyStep ==
  ASSUME TypeOK, OnePast, Steady, [Next]_vars
  PROVE  Steady'
<1>1. CASE ReadActive \/ ListScripts \/ StopIdle \/ StartScript
  BY <1>1, SteadyDeploys
<1>2. CASE \E s \in Slots : Takeover(s)
  BY <1>2, SteadyTakesOver
<1>3. CASE Reboot \/ Restart
  <2>1. Reboot => hist'.interrupted = TRUE
    BY DEF Reboot, TypeOK
  <2>2. Restart => hist'.interrupted = TRUE
    BY DEF Restart, TypeOK
  <2> QED
    BY <1>3, <2>1, <2>2, SteadyInterrupted
<1>4. CASE DeleteAll \/ FlagOff \/ SetFlag \/ ScheduleSetFlag \/ VerifyTakeover \/ ProbeUnderLock
  <2>1. chain # <<>> /\ UNCHANGED <<run, enabled, active>>
    BY <1>4, AwaitsFacts DEF DeleteAll, FlagOff, SetFlag, ScheduleSetFlag, VerifyTakeover, ProbeUnderLock, device
  <2>2. \/ \E clean \in BOOLEAN : EndJob(clean)
        \/ /\ job'.awaits \notin {"list", "stop", "start"}
           /\ UNCHANGED hist \/ \E b \in BOOLEAN : hist' = [hist EXCEPT !.dirty = b]
    <3>1. CASE DeleteAll \/ FlagOff \/ ProbeUnderLock
      <4>1. \/ \E clean \in BOOLEAN : EndJob(clean)
            \/ /\ \E call \in {"flagOff", "flag", "deleteAll"} : NextCall(call)
               /\ UNCHANGED hist \/ \E b \in BOOLEAN : hist' = [hist EXCEPT !.dirty = b]
        BY <3>1 DEF DeleteAll, FlagOff, ProbeUnderLock, Marred
      <4>2. (\E call \in {"flagOff", "flag", "deleteAll"} : NextCall(call)) => job'.awaits \notin {"list", "stop", "start"}
        BY NextCallFacts DEF JobCalls
      <4> QED
        BY <4>1, <4>2
    <3>2. CASE SetFlag
      BY <3>2 DEF SetFlag, Then, TypeOK
    <3>3. CASE ScheduleSetFlag
      BY <3>3 DEF ScheduleSetFlag, Schedule, Then, Marred, Idle, TypeOK
    <3>4. CASE VerifyTakeover
      BY <3>4 DEF VerifyTakeover, DeployFails
    <3> QED
      BY <1>4, <3>1, <3>2, <3>3, <3>4
  <2>3. hist'.interrupted = hist.interrupted /\ job'.awaits \notin {"list", "stop", "start"}
    BY <2>1, <2>2, EndJobFacts DEF TypeOK
  <2> QED
    BY <2>1, <2>3, SteadyElsewhere
<1>5. CASE CheckHeartbeatHealth \/ applyOperationalPlan
  <2>1. UNCHANGED <<run, enabled, active, hist>>
    BY <1>5 DEF CheckHeartbeatHealth, applyOperationalPlan, device
  <2>2. job' = job \/ \E j \in JobTypes : Enqueue(j)
    BY <1>5 DEF CheckHeartbeatHealth, applyOperationalPlan, JobTypes
  <2>3. job' = job \/ job'.awaits \notin {"list", "stop", "start"}
    BY <2>2, EnqueueFacts
  <2> QED
    BY <2>1, <2>3, SteadyElsewhere
<1>6. CASE \/ PingAllHeartbeats \/ HealIntervalPasses \/ Tick \/ UNCHANGED vars
           \/ \E o \in Overrides : setSaunaOverride(o) \/ SyncFlag(o)
  <2>1. UNCHANGED <<run, enabled, active, job>>
    BY <1>6 DEF PingAllHeartbeats, HealIntervalPasses, Tick, setSaunaOverride, SyncFlag, vars, device, daemon
  <2>2. UNCHANGED hist \/ hist' = [hist EXCEPT !.dirty = TRUE]
    BY <1>6 DEF PingAllHeartbeats, HealIntervalPasses, Tick, setSaunaOverride, SyncFlag, Marred, vars
  <2>3. hist'.interrupted = hist.interrupted
    BY <2>2 DEF TypeOK
  <2> QED
    BY <2>1, <2>3, SteadyElsewhere
<1> QED
  BY <1>1, <1>2, <1>3, <1>4, <1>5, <1>6 DEF Next, JobStep, Monitor

-----------------------------------------------------------------------------
(* The promise of the schedule. *)

LEMMA PlanFacts ==
  ASSUME TypeOK
  PROVE  /\ now \in Nat /\ job.at \in Nat
         /\ currentPlan # NoPlan => /\ currentPlan.start \in Nat /\ currentPlan.stop \in Nat
                                    /\ currentPlan.start < currentPlan.stop
BY TakeoverAssumption DEF TypeOK

\* A rebuild that has failed promises nothing.
LEMMA PromiseMarred ==
  ASSUME hist'.dirty = TRUE
  PROVE  Promise'
BY DEF Promise

\* Nor does one that is about to clear the device.
LEMMA PromiseCleared ==
  ASSUME job'.awaits = "deleteAll"
  PROVE  Promise'
BY DEF Promise, Deploys

Whole == job.awaits \in Deploys \cup {"probe", "nothing"}

\* What leaves the plan, the clock and should_be_on alone keeps the promise.
LEMMA PromiseSame ==
  ASSUME Promise, UNCHANGED <<flag, schedule, now, currentPlan>>, hist'.dirty = FALSE => hist.dirty = FALSE,
         hist.dirty \in BOOLEAN, hist'.dirty \in BOOLEAN, job' = job \/ (Whole /\ Whole')
  PROVE  Promise'
<1>1. SUFFICES ASSUME currentPlan # NoPlan, hist'.dirty = FALSE, hist.dirty = FALSE PROVE Promise'
  BY DEF Promise
<1>2. Applied' <=> Applied
  BY DEF Applied, SwitchOn, SwitchOff, InSlot
<1>3. CASE job' = job
  BY <1>1, <1>2, <1>3 DEF Promise, HalfApplied, InTime, SwitchOn, InSlot
<1>4. CASE Whole /\ Whole'
  BY <1>1, <1>2, <1>4 DEF Promise, Whole, Deploys
<1> QED
  BY <1>3, <1>4

\* A rebuild that ends well has kept it to the end, and one that fails spoils it, but for
\* a startup deploy, which has no hand in it.
LEMMA PromiseEnds ==
  ASSUME TypeOK, Promise, chain # <<>>, Whole, UNCHANGED <<flag, schedule, now>>,
         NEW clean \in BOOLEAN, EndJob(clean), clean => ~hist.dirty
  PROVE  Promise'
<1>1. /\ job'.awaits \in {"deleteAll", "probe", "active", "nothing"}
      /\ job'.awaits # "deleteAll" => currentPlan' = currentPlan
      /\ hist'.dirty = IF Kind = "startup" THEN hist.dirty ELSE ~clean
  BY EndJobFacts
<1>2. hist.dirty \in BOOLEAN
  BY DEF TypeOK
<1>3. CASE job'.awaits = "deleteAll"
  BY <1>3, PromiseCleared
<1>4. CASE job'.awaits # "deleteAll"
  <2>1. Whole' /\ currentPlan' = currentPlan
    BY <1>1, <1>4 DEF Whole, Deploys
  <2>2. hist'.dirty \in BOOLEAN /\ (hist'.dirty = FALSE => hist.dirty = FALSE)
    BY <1>1, <1>2
  <2> QED
    BY <1>2, <2>1, <2>2, PromiseSame
<1> QED
  BY <1>3, <1>4

\* No apply of a plan is a startup deploy.
LEMMA ApplyFails ==
  ASSUME TypeOK, Queue, chain # <<>>, job.awaits \notin Deploys, EndJob(FALSE)
  PROVE  Promise'
<1>1. Kind # "startup"
  BY DEF Queue
<1>2. hist'.dirty = TRUE
  BY <1>1, EndJobFacts
<1> QED
  BY <1>2, PromiseMarred

LEMMA PromiseClears ==
  ASSUME TypeOK, Queue, Promise, DeleteAll \/ FlagOff
  PROVE  Promise'
<1>1. hist \in HistType
  BY DEF TypeOK, HistType
<1>2. CASE DeleteAll
  <2>1. chain # <<>> /\ job.awaits \notin Deploys
    BY <1>2, AwaitsFacts DEF DeleteAll, Deploys
  <2>2. CASE EndJob(FALSE)
    BY <2>1, <2>2, ApplyFails
  <2>3. CASE Marred
    BY <1>1, <2>3, PromiseMarred DEF Marred
  <2>4. CASE schedule' = {} /\ \E call \in {"flagOff", "flag"} : NextCall(call)
    <3>1. job'.awaits \in {"flagOff", "flag"}
      BY <2>4, NextCallFacts DEF JobCalls
    <3> QED
      BY <2>4, <3>1 DEF Promise, Deploys
  <2> QED
    BY <1>2, <2>2, <2>3, <2>4 DEF DeleteAll
<1>3. CASE FlagOff
  <2>1. job.awaits = "flagOff" /\ job'.awaits = "flag" /\ UNCHANGED <<schedule, hist, currentPlan>>
    BY <1>3, AwaitsFacts, NextCallFacts DEF FlagOff, JobCalls
  <2> QED
    BY <2>1 DEF Promise, Deploys
<1> QED
  BY <1>2, <1>3

LEMMA PromiseSetsFlag ==
  ASSUME TypeOK, Queue, Promise, SetFlag
  PROVE  Promise'
<1>1. chain # <<>> /\ job.awaits = "flag"
  BY AwaitsFacts DEF SetFlag
<1>2. CASE EndJob(FALSE)
  BY <1>1, <1>2, ApplyFails DEF Deploys
<1>3. CASE /\ flag' = InSlot(currentPlan, now) /\ UNCHANGED hist
           /\ Then([job EXCEPT !.awaits = "scheduleOn", !.at = now])
  <2>1. job'.awaits = "scheduleOn" /\ job'.at = now /\ currentPlan' = currentPlan
    BY <1>3 DEF Then, TypeOK
  <2>2. now \in Nat /\ now' = now /\ schedule' = schedule
    BY PlanFacts DEF SetFlag
  <2> QED
    BY <1>1, <1>3, <2>1, <2>2 DEF Promise, Deploys, InSlot
<1> QED
  BY <1>2, <1>3 DEF SetFlag

\* scheduleSetFlag makes its entry or finds its instant past, if it does not fail or come
\* too late.
LEMMA ScheduleOutcomes ==
  ASSUME NEW value \in BOOLEAN, NEW next, Schedule(value, next), ~EndJob(FALSE), ~Marred,
         NEW at, at = (IF value THEN currentPlan.start ELSE currentPlan.stop)
  PROVE  \/ at <= job.at /\ schedule' = schedule
         \/ at > job.at /\ ~(at <= now) /\ schedule' = schedule \cup {[at |-> at, value |-> value]}
<1> DEFINE entry == [at |-> at, value |-> value]
           Ends == EndJob(FALSE)
<1>1. \/ at <= job.at /\ schedule' = schedule
      \/ at > job.at /\ schedule' = schedule \cup {entry} /\ (at <= now => Marred)
      \/ Ends
  BY DEF Schedule
<1> HIDE DEF entry, Ends
<1>2. ~Ends
  BY DEF Ends
<1>3. \/ at <= job.at /\ schedule' = schedule
      \/ at > job.at /\ ~(at <= now) /\ schedule' = schedule \cup {entry}
  BY <1>1, <1>2
<1> QED
  BY <1>3 DEF entry

LEMMA PromiseSchedules ==
  ASSUME TypeOK, Queue, Promise, ScheduleSetFlag
  PROVE  Promise'
<1>1. /\ chain # <<>> /\ UNCHANGED <<flag, now>>
      /\ job.awaits = "scheduleOn" \/ job.awaits = "scheduleOff"
  BY DEF ScheduleSetFlag, Awaits
<1>2. hist \in HistType
  BY DEF TypeOK, HistType
<1>3. CASE EndJob(FALSE)
  BY <1>1, <1>3, ApplyFails DEF Deploys
<1>4. CASE Marred
  BY <1>2, <1>4, PromiseMarred DEF Marred
<1>5. CASE ~EndJob(FALSE) /\ ~Marred
  <2>1. SUFFICES ASSUME currentPlan # NoPlan, ~hist'.dirty PROVE Promise'
    <3>1. currentPlan' = currentPlan
      BY <1>5 DEF ScheduleSetFlag, Schedule, Then
    <3> QED
      BY <3>1 DEF Promise
  <2>2. /\ currentPlan' = currentPlan /\ hist' = hist
    BY <1>5 DEF ScheduleSetFlag, Schedule, Then
  <2>3. /\ now \in Nat /\ job.at \in Nat /\ currentPlan.start \in Nat /\ currentPlan.stop \in Nat
        /\ currentPlan.start < currentPlan.stop
    BY <2>1, PlanFacts
  <2>4. CASE job.awaits = "scheduleOn"
    <3>1. /\ schedule = {} /\ job.at <= now
          /\ InTime(currentPlan.start) /\ InTime(currentPlan.stop) => flag = InSlot(currentPlan, job.at)
      BY <2>1, <2>2, <2>4 DEF Promise
    <3>2. Schedule(TRUE, "scheduleOff")
      BY <2>4 DEF ScheduleSetFlag, Awaits
    <3>3. job' = [job EXCEPT !.awaits = "scheduleOff"]
      BY <1>5, <3>2 DEF Schedule, Then
    <3>4. job'.awaits = "scheduleOff" /\ job'.at = job.at
      BY <3>3 DEF TypeOK
    <3>5. IF currentPlan.start > job.at
          THEN schedule' = {SwitchOn} /\ currentPlan.start > now ELSE schedule' = {}
      <4>1. \/ currentPlan.start <= job.at /\ schedule' = schedule
            \/ currentPlan.start > job.at /\ ~(currentPlan.start <= now) /\ schedule' = schedule \cup {SwitchOn}
        BY <1>5, <3>2, ScheduleOutcomes DEF SwitchOn
      <4> QED
        BY <2>3, <3>1, <4>1
    <3>6. InTime(currentPlan.start)
      BY <3>5 DEF InTime
    <3>7. ASSUME InTime(currentPlan.stop)
          PROVE  HalfApplied'
      <4>1. flag = (IF currentPlan.start > job.at THEN currentPlan.start <= now ELSE job.at < currentPlan.stop)
        BY <2>3, <3>1, <3>5, <3>6, <3>7 DEF InSlot
      <4> QED
        BY <1>1, <2>2, <3>4, <3>5, <4>1 DEF HalfApplied, SwitchOn
    <3>8. InTime(currentPlan.stop)' => InTime(currentPlan.stop)
      BY <1>1, <2>2, <3>4 DEF InTime
    <3> QED
      BY <1>1, <3>1, <3>4, <3>7, <3>8 DEF Promise, Deploys
  <2>5. CASE job.awaits = "scheduleOff"
    <3>1. job.at <= now /\ (InTime(currentPlan.stop) => HalfApplied)
      BY <2>1, <2>2, <2>5 DEF Promise
    <3>2. Schedule(FALSE, "active")
      BY <2>5 DEF ScheduleSetFlag, Awaits
    <3>3. job' = [Idle EXCEPT !.awaits = "active"]
      BY <1>5, <3>2 DEF Schedule, Then
    <3>4. job'.awaits = "active"
      BY <3>3 DEF Idle
    <3>5. IF currentPlan.stop > job.at
          THEN schedule' = schedule \cup {SwitchOff} /\ currentPlan.stop > now ELSE schedule' = schedule
      <4>1. \/ currentPlan.stop <= job.at /\ schedule' = schedule
            \/ currentPlan.stop > job.at /\ ~(currentPlan.stop <= now) /\ schedule' = schedule \cup {SwitchOff}
        BY <1>5, <3>2, ScheduleOutcomes DEF SwitchOff
      <4> QED
        BY <2>3, <4>1
    <3>9. HalfApplied
      BY <3>1, <3>5 DEF InTime
    <3>6. flag = InSlot(currentPlan, now)
      BY <2>3, <3>1, <3>5, <3>9 DEF HalfApplied, InSlot
    <3>7. /\ schedule' \subseteq {SwitchOn, SwitchOff}
          /\ currentPlan.start > now => SwitchOn \in schedule'
          /\ currentPlan.stop > now => SwitchOff \in schedule'
      BY <2>3, <3>1, <3>5, <3>9 DEF HalfApplied
    <3>8. Applied'
      BY <1>1, <2>2, <3>6, <3>7 DEF Applied, SwitchOn, SwitchOff, InSlot
    <3> QED
      BY <3>4, <3>8 DEF Promise, Deploys
  <2> QED
    BY <1>1, <2>4, <2>5
<1> QED
  BY <1>3, <1>4, <1>5

LEMMA PromiseDeploys ==
  ASSUME TypeOK, Queue, Promise, ReadActive \/ ListScripts \/ StopIdle \/ StartScript \/ VerifyTakeover \/ ProbeUnderLock
  PROVE  Promise'
<1>1. chain # <<>> /\ Whole /\ UNCHANGED <<flag, schedule, now>>
  BY DEF ReadActive, ListScripts, StopIdle, StartScript, VerifyTakeover, ProbeUnderLock, Awaits, Whole, Deploys, device
<1>2. hist \in HistType
  BY DEF TypeOK, HistType
<1>3. CASE \E clean \in BOOLEAN : EndJob(clean) /\ (clean => ~hist.dirty)
  BY <1>1, <1>3, PromiseEnds
<1>4. CASE NextCall("deleteAll")
  BY <1>4, NextCallFacts, PromiseCleared DEF JobCalls
<1>5. CASE job'.awaits \in Deploys /\ UNCHANGED currentPlan /\ hist'.dirty = hist.dirty
  BY <1>1, <1>2, <1>5, PromiseSame DEF Whole, HistType
<1>6. CASE ReadActive
  <2>1. EndJob(FALSE) \/ (job'.awaits = "list" /\ UNCHANGED <<currentPlan, hist>>)
    BY <1>6 DEF ReadActive, DeployFails, Then, TypeOK
  <2> QED
    BY <1>3, <1>5, <2>1 DEF Deploys
<1>7. CASE ListScripts \/ StopIdle \/ StartScript
  <2>1. EndJob(FALSE) \/ ((UNCHANGED hist \/ Stopped) /\ \E call \in {"stop", "start", "verify"} : NextCall(call))
    BY <1>7 DEF ListScripts, StopIdle, StartScript, DeployFails
  <2>2. (\E call \in {"stop", "start", "verify"} : NextCall(call)) => job'.awaits \in Deploys /\ UNCHANGED currentPlan
    BY NextCallFacts DEF JobCalls, Deploys
  <2>3. UNCHANGED hist \/ Stopped => hist'.dirty = hist.dirty
    BY <1>2 DEF Stopped, HistType
  <2> QED
    BY <1>3, <1>5, <2>1, <2>2, <2>3
<1>8. CASE VerifyTakeover
  BY <1>3, <1>8 DEF VerifyTakeover, DeployFails
<1>9. CASE ProbeUnderLock
  BY <1>2, <1>3, <1>4, <1>9 DEF ProbeUnderLock
<1> QED
  BY <1>6, <1>7, <1>8, <1>9

LEMMA PromiseTicks ==
  ASSUME TypeOK, Promise, Tick
  PROVE  Promise'
<1>1. UNCHANGED <<schedule, job, currentPlan, hist>> /\ now' = now + 1
  BY DEF Tick, daemon
<1>2. SUFFICES ASSUME currentPlan # NoPlan, ~hist.dirty PROVE Promise'
  BY <1>1 DEF Promise
<1>3. /\ now \in Nat /\ job.at \in Nat /\ currentPlan.start \in Nat /\ currentPlan.stop \in Nat
      /\ currentPlan.start < currentPlan.stop
  BY <1>2, PlanFacts
<1>4. schedule = {} => flag' = flag
  BY DEF Tick
<1>5. HalfApplied => HalfApplied'
  <2>1. CASE currentPlan.start > job.at
    <3>1. SUFFICES ASSUME schedule = {SwitchOn}, flag = (currentPlan.start <= now)
          PROVE  flag' = (currentPlan.start <= now + 1)
      BY <1>1, <2>1 DEF HalfApplied, SwitchOn
    <3>2. SwitchOn.at = currentPlan.start /\ SwitchOn.value = TRUE
      BY DEF SwitchOn
    <3>3. CASE currentPlan.start = now + 1
      <4>1. flag' = TRUE
        BY <1>1, <3>1, <3>2, <3>3 DEF Tick
      <4>2. (currentPlan.start <= now + 1) = TRUE
        BY <1>3, <3>3
      <4> QED
        BY <4>1, <4>2
    <3>4. CASE currentPlan.start # now + 1
      <4>1. flag' = flag
        BY <1>1, <3>1, <3>2, <3>4 DEF Tick
      <4> QED
        BY <1>3, <3>1, <3>4, <4>1
    <3> QED
      BY <3>3, <3>4
  <2>2. CASE ~(currentPlan.start > job.at)
    BY <1>1, <1>4, <2>2 DEF HalfApplied
  <2> QED
    BY <2>1, <2>2
<1>6. Applied => Applied'
  <2>1. SUFFICES ASSUME Applied PROVE flag' = InSlot(currentPlan, now + 1)
    BY <1>1, <1>3 DEF Applied, SwitchOn, SwitchOff, InSlot
  <2>2. schedule \subseteq {SwitchOn, SwitchOff} /\ SwitchOn.at = currentPlan.start /\ SwitchOff.at = currentPlan.stop
        /\ SwitchOn.value = TRUE /\ SwitchOff.value = FALSE
    BY <2>1 DEF Applied, SwitchOn, SwitchOff
  <2>3. CASE currentPlan.start = now + 1
    <3>1. SwitchOn \in schedule
      BY <1>3, <2>1, <2>3 DEF Applied
    <3>2. flag' = TRUE
      BY <1>1, <2>2, <2>3, <3>1 DEF Tick
    <3>3. InSlot(currentPlan, now + 1) = TRUE
      BY <1>3, <2>3 DEF InSlot
    <3> QED
      BY <3>2, <3>3
  <2>4. CASE currentPlan.stop = now + 1
    <3>1. SwitchOff \in schedule
      BY <1>3, <2>1, <2>4 DEF Applied
    <3>2. \A e \in schedule : e.at = now + 1 => e.value = FALSE
      BY <1>3, <2>2, <2>4
    <3>3. flag' = FALSE
      BY <1>1, <2>2, <2>4, <3>1, <3>2 DEF Tick
    <3>4. InSlot(currentPlan, now + 1) = FALSE
      BY <1>3, <2>4 DEF InSlot
    <3> QED
      BY <3>3, <3>4
  <2>5. CASE currentPlan.start # now + 1 /\ currentPlan.stop # now + 1
    <3>1. flag' = flag /\ flag = InSlot(currentPlan, now)
      BY <1>1, <2>1, <2>2, <2>5 DEF Tick, Applied
    <3> QED
      BY <1>3, <2>5, <3>1 DEF InSlot
  <2> QED
    BY <2>3, <2>4, <2>5
<1>7. job.awaits \in {"flagOff", "flag", "scheduleOn"} => schedule' = {} /\ flag' = flag
  BY <1>1, <1>2, <1>4 DEF Promise
<1>8. /\ InTime(currentPlan.start)' => InTime(currentPlan.start)
      /\ InTime(currentPlan.stop)' => InTime(currentPlan.stop)
  BY <1>1, <1>3 DEF InTime
<1>9. job.at <= now => job'.at <= now'
  BY <1>1, <1>3
<1>10. InSlot(currentPlan, job.at)' = InSlot(currentPlan, job.at)
  BY <1>1 DEF InSlot
<1> QED
  BY <1>1, <1>2, <1>5, <1>6, <1>7, <1>8, <1>9, <1>10 DEF Promise

\* A write that nothing overtook says what the plan says now.
LEMMA PromiseSyncs ==
  ASSUME TypeOK, Queue, Promise, NEW o \in Overrides, SyncFlag(o)
  PROVE  Promise'
<1>1. hist \in HistType
  BY DEF TypeOK, HistType
<1>2. UNCHANGED <<schedule, job, currentPlan, now>>
  BY DEF SyncFlag, daemon
<1>3. CASE Marred
  BY <1>1, <1>3, PromiseMarred DEF Marred, HistType
<1>4. CASE UNCHANGED <<flag, hist>>
  BY <1>1, <1>2, <1>4, PromiseSame DEF HistType
<1>5. CASE UNCHANGED hist /\ job.awaits \in {"flagOff", "flag"}
  BY <1>2, <1>5 DEF Promise, Deploys
<1>6. CASE UNCHANGED hist /\ sync[o] = [plan |-> currentPlan, at |-> now] /\ flag' = InSlot(sync[o].plan, sync[o].at)
  <2>1. flag' = InSlot(currentPlan, now)
    BY <1>6
  <2>2. SUFFICES ASSUME currentPlan # NoPlan, ~hist.dirty PROVE Promise'
    BY <1>2, <1>6 DEF Promise
  <2>3. /\ now \in Nat /\ job.at \in Nat /\ currentPlan.start \in Nat /\ currentPlan.stop \in Nat
        /\ currentPlan.start < currentPlan.stop
    BY <2>2, PlanFacts
  <2>4. ASSUME job.at <= now, InTime(currentPlan.start), InTime(currentPlan.stop)
        PROVE  flag' = InSlot(currentPlan, job.at)
    BY <2>1, <2>3, <2>4 DEF InTime, InSlot
  <2>5. ASSUME job.at <= now, InTime(currentPlan.stop), HalfApplied
        PROVE  HalfApplied'
    BY <1>2, <2>1, <2>3, <2>5 DEF HalfApplied, InTime, SwitchOn, InSlot
  <2>6. Applied => Applied'
    BY <1>2, <2>1 DEF Applied, SwitchOn, SwitchOff, InSlot
  <2> QED
    BY <1>2, <2>2, <2>4, <2>5, <2>6 DEF Promise, InTime, InSlot
<1> QED
  BY <1>3, <1>4, <1>5, <1>6 DEF SyncFlag, Overtaken

LEMMA PromiseQueues ==
  ASSUME TypeOK, Queue, Promise, NEW j \in JobTypes, Enqueue(j), UNCHANGED <<flag, schedule, now, hist>>
  PROVE  Promise'
<1>1. hist.dirty \in BOOLEAN
  BY DEF TypeOK
<1>2. CASE chain # <<>>
  BY <1>1, <1>2, EnqueueFacts, PromiseSame
<1>3. CASE chain = <<>>
  <2>1. Whole
    BY <1>3 DEF Queue, Whole
  <2>2. /\ job'.awaits \in {"deleteAll", "probe", "active"}
        /\ job'.awaits # "deleteAll" => currentPlan' = currentPlan
    BY <1>3, EnqueueFacts
  <2>3. job'.awaits # "deleteAll" => Whole'
    BY <2>2 DEF Whole, Deploys
  <2> QED
    BY <1>1, <2>1, <2>2, <2>3, PromiseCleared, PromiseSame
<1> QED
  BY <1>2, <1>3

LEMMA PromiseStep ==
  ASSUME TypeOK, Queue, Promise, [Next]_vars
  PROVE  Promise'
<1>1. hist \in HistType
  BY DEF TypeOK, HistType
<1>2. CASE UNCHANGED <<flag, schedule, now, currentPlan, job>> /\ hist'.dirty = hist.dirty
  BY <1>1, <1>2, PromiseSame DEF HistType
<1>3. CASE (\E j \in JobTypes : Enqueue(j)) /\ UNCHANGED <<flag, schedule, now, hist>>
  BY <1>3, PromiseQueues
<1>4. CASE CheckHeartbeatHealth
  <2>1. [kind |-> "heal", plan |-> NoPlan] \in JobTypes
    BY DEF JobTypes
  <2> QED
    BY <1>2, <1>3, <1>4, <2>1 DEF CheckHeartbeatHealth, device
<1>5. CASE applyOperationalPlan
  <2>1. \A p \in Plans : [kind |-> "plan", plan |-> p] \in JobTypes
    BY DEF JobTypes
  <2> QED
    BY <1>3, <1>5, <2>1 DEF applyOperationalPlan, device
<1>6. CASE \E s \in Slots : Takeover(s)
  <2>1. /\ UNCHANGED <<flag, schedule, now, currentPlan, job>>
        /\ \/ DeviceCallLands \/ DeviceCallFails \/ Stopped
           \/ hist' = [hist EXCEPT !.interrupted = TRUE, !.stopFailed = TRUE]
    BY <1>6 DEF Takeover, StoreSlot, takeoverStopOld, takeoverDisableOld, takeoverEnableSelf, OnDevice, daemon
  <2>2. hist'.dirty = hist.dirty
    BY <1>1, <2>1 DEF HistType, DeviceCallLands, DeviceCallFails, Stopped
  <2> QED
    BY <1>2, <2>1, <2>2
<1>7. CASE Reboot
  BY <1>1, <1>2, <1>7 DEF Reboot, daemon
<1>8. CASE Restart
  BY <1>8 DEF Restart, Promise
<1>9. CASE \/ PingAllHeartbeats \/ HealIntervalPasses \/ UNCHANGED vars
           \/ \E o \in Overrides : setSaunaOverride(o)
  BY <1>2, <1>9 DEF PingAllHeartbeats, HealIntervalPasses, setSaunaOverride, vars, device, daemon
<1> QED
  BY <1>4, <1>5, <1>6, <1>7, <1>8, <1>9, PromiseClears, PromiseSetsFlag, PromiseSchedules, PromiseDeploys, PromiseTicks,
     PromiseSyncs
  DEF Next, JobStep, Monitor

-----------------------------------------------------------------------------
(* The theorems. *)

LEMMA InvInductive == Spec => []IInv
<1>1. Init => IInv
  <2>1. Init => Promise
    BY DEF Init, Promise
  <2> QED
    BY <2>1, TypeInit, QueueInit, OnePastInit, SteadyInit DEF IInv
<1>2. IInv /\ [Next]_vars => IInv'
  BY TypeStep, QueueStep, OnePastStep, SteadyStep, PromiseStep DEF IInv
<1> QED
  BY <1>1, <1>2, PTL DEF Spec

\* The variables of the device and of the daemon keep their types.
THEOREM TypeCorrect == Spec => []TypeOK
<1>1. IInv => TypeOK
  BY DEF IInv
<1> QED
  BY <1>1, InvInductive, PTL

\* However deploys, reboots and takeovers overlap, no two thermostats work the relay, unless
\* the takeover's stop of the old one failed and none was stopped since; and without a reboot or a failed call on the device no boot starts two.
THEOREM OneThermostatHolds == Spec => []OneThermostat
<1>1. IInv => OneThermostat
  <2> SUFFICES ASSUME IInv PROVE OneThermostat
    OBVIOUS
  <2>1. hist.stopFailed \/ ~(On(1, "on") /\ On(2, "on"))
    BY DEF IInv, OnePast, Past, On
  <2>2. ASSUME ~hist.interrupted PROVE Cardinality(enabled) <= 1
    <3>1. enabled \subseteq {1, 2} /\ ~(1 \in enabled /\ 2 \in enabled)
      BY <2>2 DEF IInv, TypeOK, Steady, Slots
    <3>2. enabled = {} \/ enabled = {1} \/ enabled = {2}
      BY <3>1
    <3>3. Cardinality({}) = 0 /\ Cardinality({1}) = 1 /\ Cardinality({2}) = 1
      BY FS_EmptySet, FS_Singleton
    <3> QED
      BY <3>2, <3>3
  <2> QED
    BY <2>1, <2>2 DEF OneThermostat, OneEnabled
<1> QED
  BY <1>1, InvInductive, PTL

\* Without a reboot or a failed call on the device some script always runs.
THEOREM NeverUnwatchedHolds == Spec => []NeverUnwatched
<1>1. IInv => NeverUnwatched
  BY ActiveTyped DEF IInv, Steady, NeverUnwatched
<1> QED
  BY <1>1, InvInductive, PTL

\* With no rebuild under way should_be_on is what the last plan says, unless a call of its
\* apply failed or came too late, or the write that follows the end of an override was
\* overtaken by a plan or an instant.
THEOREM FlagFollowsPlanHolds == Spec => []FlagFollowsPlan
<1>1. IInv => FlagFollowsPlan
  BY DEF IInv, Queue, Promise, Applied, FlagFollowsPlan
<1> QED
  BY <1>1, InvInductive, PTL
=============================================================================
