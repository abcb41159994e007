------------------------- MODULE SaunaAlerts_proofs -------------------------
(***************************************************************************)
(* For every threshold, window and bound, however the cycles overlap: no   *)
(* page goes out about what was not seen long enough without a break.      *)
(*                                                                         *)
(* The memory of the daemon never runs ahead of what was seen: its counts  *)
(* are at most the readings since the last break, its time of the first    *)
(* fault no older than it, and its temperatures no more than the cycles    *)
(* since the plan came.                                                    *)
(***************************************************************************)
EXTENDS SaunaAlerts, WellFoundedInduction, FiniteSetTheorems, SequenceTheorems, TLAPS

Status == [reachable : BOOLEAN, on : BOOLEAN, temp : Int, power : {"none", "some", "unknown"},
           ok : BOOLEAN, dark : BOOLEAN]

HistoryTyped(h) ==
  /\ h = [misses |-> h.misses, age |-> h.age, planAge |-> h.planAge, stranded |-> h.stranded]
  /\ h.misses \in Nat /\ h.age \in Nat /\ h.planAge \in Nat

Typed ==
  /\ room \in Status
  /\ cycles \in [Cycles -> [stage : Stages, beat : BOOLEAN, status : Status]]
  /\ failCounts \in Nat /\ faultFirstSeen \in {Unseen} \cup Nat
  /\ tempHistory \in Seq(Int)
  /\ calls \in [AnyCall -> Nat]
  /\ HistoryTyped(hist)

\* The stages that only one check goes through, and what brought a cycle there.
Probing == {"probe", "probe or page", "force off", "force off and page"}
ForcingOff == {"force off", "force off and page"}
Followed ==
  \A c \in Cycles : /\ cycles[c].stage \in Probing => check = "heartbeat" /\ ~cycles[c].beat
                    /\ cycles[c].stage \in ForcingOff => cycles[c].status.on
                    /\ cycles[c].stage = "swept" => check = "steam"

Counted ==
  /\ check \in Persistent /\ faultFirstSeen # Unseen => faultFirstSeen <= hist.age
  /\ check \notin Persistent => failCounts <= hist.misses

Recorded ==
  check \in Heating => /\ hist.planAge <= Window
                       /\ hist.planAge < Window => Len(tempHistory) <= hist.planAge

IInv == Typed /\ Followed /\ Counted /\ Recorded

\* What PagesEarned says of a step.
Earned ==
  TriggerSent =>
    /\ check \in Persistent => hist'.age >= Debounce
    /\ check \notin Persistent \cup ManualOnly \cup Immediate \cup {"heartbeat"} => hist'.misses >= ThresholdOf
    /\ check = "heartbeat" =>
         \/ ~room.ok
         \/ \E c \in Cycles : At(c, "force off and page") /\ ~cycles[c].beat /\ cycles[c].status.on
    /\ check \in Heating => 10 * hist'.planAge >= 8 * Window

-----------------------------------------------------------------------------
(* The statuses and the requests. *)

LEMMA StatusTyped == Fine \in Status /\ OutOfReach \in Status
<1>1. Threshold \in Int
  BY AlertsAssumption
<1> QED
  BY <1>1 DEF Fine, OutOfReach, Unreachable, Room, Status, NoTemp

LEMMA RoomsTyped == Rooms \subseteq Status
<1> DEFINE away == {Unreachable(dark) : dark \in BOOLEAN \ (IF check = "not-heating" THEN {TRUE} ELSE {})}
           scripted == {Room(FALSE, Threshold, "unknown", ok) : ok \in BOOLEAN}
           watched == {Room(on, Threshold, "unknown", ok) : on, ok \in BOOLEAN}
           warm == {Room(FALSE, t, "unknown", TRUE) : t \in Temps \cup {NoTemp}}
           heating == {Room(TRUE, t, "some", TRUE) : t \in Temps}
           below == {Room(TRUE, t, "some", TRUE) : t \in {u \in Temps : u < Threshold}}
           driven == {Room(TRUE, Threshold, p, TRUE) : p \in {"none", "some"}}
           yes == TRUE
           powered == {Room(on, Threshold, p, yes) : on \in BOOLEAN, p \in {"none", "some"}}
           reached ==
             CASE check \in Persistent -> {Fine}
               [] check = "heartbeat" -> watched
               [] check = "manual-reset" -> scripted
               [] check \in {"no-temp", "not-hot", "overheat"} -> warm
               [] check = "not-heating" -> heating
               [] check = "temp-stuck" -> below
               [] check = "coil-open" -> driven
               [] OTHER -> powered
<1>1. \A dark \in BOOLEAN : Unreachable(dark) \in Status
  BY DEF Unreachable, Status, NoTemp
<1>2. \A on, ok \in BOOLEAN, t \in Int, p \in {"none", "some", "unknown"} : Room(on, t, p, ok) \in Status
  BY DEF Room, Status
<1>3. Threshold \in Int /\ Temps \subseteq Int /\ NoTemp \in Int
  BY AlertsAssumption DEF NoTemp
<1>4. /\ away \subseteq Status /\ scripted \subseteq Status /\ watched \subseteq Status /\ warm \subseteq Status
      /\ heating \subseteq Status /\ below \subseteq Status /\ driven \subseteq Status
  <2>1. watched \subseteq Status
    <3>1. \A on, ok \in BOOLEAN : Room(on, Threshold, "unknown", ok) \in Status
      BY <1>2, <1>3
    <3> HIDE DEF away, scripted, warm, heating, below, driven, powered, reached, yes
    <3> QED
      BY <3>1, SMT
  <2>2. away \subseteq Status /\ scripted \subseteq Status /\ warm \subseteq Status
    BY <1>1, <1>2, <1>3
  <2>3. heating \subseteq Status /\ below \subseteq Status /\ driven \subseteq Status
    BY <1>1, <1>2, <1>3
  <2> HIDE DEF away, scripted, watched, warm, heating, below, driven
  <2> QED
    BY <2>1, <2>2, <2>3
<1>5. powered \subseteq Status
  <2>1. \A on \in BOOLEAN, p \in {"none", "some"} : Room(on, Threshold, p, yes) \in Status
    BY <1>2, <1>3
  <2> HIDE DEF away, scripted, watched, warm, heating, below, driven, reached, yes
  <2> QED
    BY <2>1, SMT
<1>6. Rooms = away \cup reached
  BY DEF Rooms
<1>7. reached \in {{Fine}, scripted, watched, warm, heating, below, driven, powered}
  <2> HIDE DEF scripted, watched, warm, heating, below, driven, powered
  <2> QED
    OBVIOUS
<1> HIDE DEF away, scripted, watched, warm, heating, below, driven, powered, reached
<1>8. reached \subseteq Status
  BY <1>4, <1>5, <1>7, StatusTyped
<1> QED
  BY <1>4, <1>6, <1>8

LEMMA NothingSent ==
  ASSUME Typed, calls' = calls
  PROVE  calls' \in [AnyCall -> Nat] /\ ~TriggerSent
BY DEF Typed, TriggerSent

\* Only the request that is sent becomes more.
LEMMA OneSent ==
  ASSUME Typed, NEW call, Sends(call)
  PROVE  calls' \in [AnyCall -> Nat] /\ (TriggerSent => call.op = "trigger")
<1>1. calls \in [AnyCall -> Nat] /\ calls' = [calls EXCEPT ![call] = calls[call] + 1]
  BY DEF Typed, Sends
<1>2. \A d \in AnyCall : calls[d] \in Nat /\ (d # call => calls'[d] = calls[d])
                                      /\ (d = call => calls'[d] = calls[d] + 1)
  BY <1>1
<1>3. calls' \in [AnyCall -> Nat]
  <2>1. calls' = [d \in AnyCall |-> calls'[d]]
    BY <1>1
  <2> QED
    BY <1>2, <2>1
<1>4. \A d \in AnyCall : d.op = "trigger" /\ calls'[d] > calls[d] => call.op = "trigger"
  BY <1>2
<1> QED
  BY <1>3, <1>4 DEF TriggerSent

LEMMA ResolveSent ==
  ASSUME Typed, NEW key, NEW then, Sends(Resolve(key, then))
  PROVE  calls' \in [AnyCall -> Nat] /\ ~TriggerSent
<1>1. Resolve(key, then).op = "resolve"
  BY DEF Resolve, Call
<1> QED
  BY <1>1, OneSent

\* A request that ends is one less, and what follows a trigger or a loud resolve is a
\* resolve.
LEMMA RequestEnds ==
  ASSUME Typed, NEW call \in AnyCall, calls[call] > 0,
         calls' \in {Without(call), ThenResolveLow(call)}
  PROVE  calls' \in [AnyCall -> Nat] /\ ~TriggerSent
<1> DEFINE low == Resolve("low", "nothing")
<1>1. calls \in [AnyCall -> Nat] /\ calls[call] - 1 \in Nat
  BY DEF Typed
<1>2. low.op = "resolve" /\ low \in AnyCall
  BY DEF Resolve, Call, AnyCall
<1> HIDE DEF low
<1>3. /\ Without(call) \in [AnyCall -> Nat]
      /\ \A d \in AnyCall : Without(call)[d] <= calls[d]
  BY <1>1 DEF Without
<1>4. /\ ThenResolveLow(call) \in [AnyCall -> Nat]
      /\ \A d \in AnyCall : d # low => ThenResolveLow(call)[d] <= calls[d]
  <2>1. ThenResolveLow(call) = [Without(call) EXCEPT ![low] = @ + 1]
    BY DEF ThenResolveLow, low
  <2> QED
    BY <1>2, <1>3, <2>1
<1>5. \A d \in AnyCall : d # low => calls'[d] <= calls[d]
  BY <1>3, <1>4
<1>6. \A d \in AnyCall : d.op = "trigger" => ~(calls'[d] > calls[d])
  <2> SUFFICES ASSUME NEW d \in AnyCall, d.op = "trigger" PROVE ~(calls'[d] > calls[d])
    OBVIOUS
  <2>1. d # low
    BY <1>2
  <2>2. calls[d] \in Nat /\ calls'[d] \in Nat
    BY <1>1, <1>3, <1>4
  <2> QED
    BY <1>5, <2>1, <2>2
<1> QED
  BY <1>3, <1>4, <1>6 DEF TriggerSent

-----------------------------------------------------------------------------
(* The cycles and the history. *)

LEMMA PlainStages ==
  \A stage \in {"idle", "pinged", "fetched", "checked", "swept"} :
    stage \in Stages /\ stage \notin Probing /\ stage \notin ForcingOff
BY DEF Stages, Probing, ForcingOff

\* A cycle moves on to a stage that its check goes through.
LEMMA CycleMoves ==
  ASSUME Typed, Followed, check' = check, NEW c \in Cycles,
         NEW stage \in Stages, NEW beat \in BOOLEAN, NEW status \in Status,
         stage \in Probing => check = "heartbeat" /\ ~beat,
         stage \in ForcingOff => status.on,
         stage = "swept" => check = "steam",
         cycles' = [cycles EXCEPT ![c] = [stage |-> stage, beat |-> beat, status |-> status]]
  PROVE  /\ cycles' \in [Cycles -> [stage : Stages, beat : BOOLEAN, status : Status]]
         /\ Followed'
<1>1. cycles \in [Cycles -> [stage : Stages, beat : BOOLEAN, status : Status]]
  BY DEF Typed
<1>2. cycles' \in [Cycles -> [stage : Stages, beat : BOOLEAN, status : Status]]
  BY <1>1
<1>3. \A d \in Cycles : d # c => cycles'[d] = cycles[d]
  BY <1>1
<1>4. cycles'[c].stage = stage /\ cycles'[c].beat = beat /\ cycles'[c].status = status
  BY <1>1
<1> QED
  BY <1>2, <1>3, <1>4 DEF Followed

LEMMA StageSet ==
  ASSUME NEW r \in [stage : Stages, beat : BOOLEAN, status : Status], NEW stage \in Stages
  PROVE  [r EXCEPT !.stage = stage] = [stage |-> stage, beat |-> r.beat, status |-> r.status]
OBVIOUS

LEMMA CycleGoes ==
  ASSUME Typed, Followed, check' = check, NEW c \in Cycles, NEW stage \in Stages,
         stage \in Probing => check = "heartbeat" /\ ~cycles[c].beat,
         stage \in ForcingOff => cycles[c].status.on,
         stage = "swept" => check = "steam",
         Goes(c, stage)
  PROVE  /\ cycles' \in [Cycles -> [stage : Stages, beat : BOOLEAN, status : Status]]
         /\ Followed'
<1>1. cycles = [d \in Cycles |-> cycles[d]]
  BY DEF Typed
<1>2. PICK r \in [stage : Stages, beat : BOOLEAN, status : Status] : r = cycles[c]
  BY DEF Typed
<1>3. PICK next : next = [stage |-> stage, beat |-> r.beat, status |-> r.status]
  OBVIOUS
<1>4. [r EXCEPT !.stage = stage] = next
  <2>1. [r EXCEPT !.stage = stage] = [stage |-> stage, beat |-> r.beat, status |-> r.status]
    BY <1>2, StageSet
  <2> QED
    BY <1>3, <2>1, Zenon
<1>5. cycles' = [cycles EXCEPT ![c] = next]
  BY <1>1, <1>2, <1>4 DEF Goes
<1>6. cycles' = [cycles EXCEPT ![c] = [stage |-> stage, beat |-> r.beat, status |-> r.status]]
  BY <1>3, <1>5
<1>7. r.beat \in BOOLEAN /\ r.status \in Status
  OBVIOUS
<1>8. /\ stage \in Probing => check = "heartbeat" /\ ~r.beat
      /\ stage \in ForcingOff => r.status.on
  BY <1>2
<1> QED
  BY <1>6, <1>7, <1>8, CycleMoves

LEMMA CycleEnds ==
  ASSUME Typed, Followed, check' = check, NEW c \in Cycles, Ends(c) \/ Checked(c)
  PROVE  /\ cycles' \in [Cycles -> [stage : Stages, beat : BOOLEAN, status : Status]]
         /\ Followed'
<1>1. cycles = [d \in Cycles |-> cycles[d]]
  BY DEF Typed
<1>2. /\ TRUE \in BOOLEAN
      /\ \A stage \in {"idle", "checked"} : stage \in Stages /\ stage \notin Probing /\ stage \notin ForcingOff
  BY PlainStages
<1>3. CASE Ends(c)
  <2>1. cycles' = [cycles EXCEPT ![c] = [stage |-> "idle", beat |-> TRUE, status |-> OutOfReach]]
    BY <1>3 DEF Ends, NoCycle
  <2> QED
    BY <1>2, <2>1, StatusTyped, CycleMoves
<1>4. CASE ~Ends(c)
  <2>1. PICK r \in [stage : Stages, beat : BOOLEAN, status : Status] : r = cycles[c]
    BY DEF Typed
  <2>2. PICK status \in Status : status = IF check = "steam" THEN r.status ELSE OutOfReach
    BY StatusTyped
  <2>3. cycles' = [cycles EXCEPT ![c].stage = "checked", ![c].status = status]
    BY <1>4, <2>1, <2>2 DEF Checked
  <2>4. @ = [[cycles EXCEPT ![c].stage = "checked"] EXCEPT ![c].status = status]
    OBVIOUS
  <2>5. PICK next : next = [stage |-> "checked", beat |-> r.beat, status |-> r.status]
    OBVIOUS
  <2>6. [r EXCEPT !.stage = "checked"] = next
    BY <2>5
  <2>7. [cycles EXCEPT ![c].stage = "checked"] = [cycles EXCEPT ![c] = next]
    BY <1>1, <2>1, <2>6
  <2>8. PICK done : done = [stage |-> "checked", beat |-> r.beat, status |-> status]
    OBVIOUS
  <2>9. [next EXCEPT !.status = status] = done
    BY <2>5, <2>8
  <2>10. [[cycles EXCEPT ![c] = next] EXCEPT ![c].status = status] = [cycles EXCEPT ![c] = done]
    BY <1>1, <2>9
  <2>11. cycles' = [cycles EXCEPT ![c] = [stage |-> "checked", beat |-> r.beat, status |-> status]]
    BY <2>3, <2>4, <2>7, <2>8, <2>10
  <2>12. r.beat \in BOOLEAN
    OBVIOUS
  <2> QED
    BY <1>2, <2>11, <2>12, CycleMoves
<1> QED
  BY <1>3, <1>4

\* The history after a fault was seen, or was not.
LEMMA SeenTyped ==
  ASSUME Typed, FaultSeen \/ Broken
  PROVE  /\ HistoryTyped(hist')
         /\ hist'.planAge = (IF check \in Heating THEN Capped(hist.planAge + 1, Window) ELSE 0)
         /\ FaultSeen => /\ hist'.age = hist.age
                         /\ hist'.misses = (IF check \in Persistent THEN 0 ELSE Capped(hist.misses + 1, ThresholdOf))
<1>1. /\ Window \in Nat /\ ThresholdOf \in Nat
  BY AlertsAssumption DEF ThresholdOf
<1>2. \A n, m \in Nat : Capped(n, m) \in Nat
  BY DEF Capped
<1> DEFINE planAge == IF check \in Heating THEN Capped(hist.planAge + 1, Window) ELSE 0
           misses == IF check \in Persistent THEN 0 ELSE Capped(hist.misses + 1, ThresholdOf)
<1>3. HistoryTyped(hist)
  BY DEF Typed
<1>4. planAge \in Nat /\ misses \in Nat
  BY <1>1, <1>2, <1>3 DEF HistoryTyped
<1>5. /\ FaultSeen => hist' = [hist EXCEPT !.misses = misses, !.planAge = planAge]
      /\ Broken => hist' = [hist EXCEPT !.misses = 0, !.age = 0, !.planAge = planAge]
  BY DEF FaultSeen, Broken
<1> HIDE DEF planAge, misses
<1>6. CASE FaultSeen
  <2>1. hist' = [misses |-> misses, age |-> hist.age, planAge |-> planAge, stranded |-> hist.stranded]
    BY <1>3, <1>5, <1>6 DEF HistoryTyped
  <2>2. HistoryTyped(hist')
    BY <1>3, <1>4, <2>1 DEF HistoryTyped
  <2> QED
    BY <2>1, <2>2 DEF planAge, misses
<1>7. CASE Broken /\ ~FaultSeen
  <2>1. hist' = [misses |-> 0, age |-> 0, planAge |-> planAge, stranded |-> hist.stranded]
    BY <1>3, <1>5, <1>7 DEF HistoryTyped
  <2>2. HistoryTyped(hist')
    BY <1>4, <2>1 DEF HistoryTyped
  <2> QED
    BY <1>7, <2>1, <2>2 DEF planAge
<1> QED
  BY <1>6, <1>7

-----------------------------------------------------------------------------
(* What the helpers that count make of the memory. *)

LEMMA Bounds == /\ Window \in Nat /\ ThresholdOf \in Nat /\ Debounce \in Nat
                /\ Window >= 1 /\ ThresholdOf >= 1 /\ Debounce >= 1
  BY AlertsAssumption DEF ThresholdOf

LEMMA PersistentSeen ==
  ASSUME IInv, check' = check, NEW status, check \in Persistent, alertIfPersistent(status), FaultSeen
  PROVE  /\ failCounts' \in Nat /\ faultFirstSeen' \in {Unseen} \cup Nat /\ calls' \in [AnyCall -> Nat]
         /\ HistoryTyped(hist') /\ Counted'
         /\ TriggerSent => hist'.age >= Debounce
<1>1. hist'.age = hist.age /\ HistoryTyped(hist')
  BY SeenTyped DEF IInv
<1>2. hist.age \in Nat /\ failCounts \in Nat /\ faultFirstSeen \in {Unseen} \cup Nat
  BY DEF IInv, Typed, HistoryTyped
<1>3. /\ faultFirstSeen' = IF faultFirstSeen = Unseen THEN 0 ELSE faultFirstSeen
      /\ failCounts' = failCounts
  BY DEF alertIfPersistent
<1>4. faultFirstSeen' \in Nat /\ faultFirstSeen' <= hist'.age
  BY <1>1, <1>2, <1>3 DEF IInv, Counted, Unseen
<1>5. calls' \in [AnyCall -> Nat] /\ (TriggerSent => faultFirstSeen' >= Debounce)
  <2>1. CASE faultFirstSeen' >= Debounce
    BY <2>1, OneSent DEF alertIfPersistent, IInv
  <2>2. CASE ~(faultFirstSeen' >= Debounce)
    BY <2>2, NothingSent DEF alertIfPersistent, IInv
  <2> QED
    BY <2>1, <2>2
<1>6. hist'.age \in Nat
  BY <1>1 DEF HistoryTyped
<1> QED
  BY <1>1, <1>2, <1>3, <1>4, <1>5, <1>6, Bounds DEF Counted

LEMMA ThresholdSeen ==
  ASSUME IInv, check' = check, check \notin Persistent, CountUp, FaultSeen
  PROVE  /\ failCounts' \in Nat /\ HistoryTyped(hist')
         /\ failCounts' <= hist'.misses
<1>1. HistoryTyped(hist') /\ hist'.misses = Capped(hist.misses + 1, ThresholdOf)
  BY SeenTyped DEF IInv
<1>2. hist.misses \in Nat /\ failCounts \in Nat /\ failCounts <= hist.misses
  BY DEF IInv, Typed, HistoryTyped, Counted
<1>3. failCounts' = Capped(failCounts + 1, ThresholdOf)
  BY DEF CountUp
<1> QED
  BY <1>1, <1>2, <1>3, Bounds DEF Capped

LEMMA ThresholdAlert ==
  ASSUME IInv, check' = check, NEW status, check \notin Persistent, alertIfThreshold(status), FaultSeen
  PROVE  /\ failCounts' \in Nat /\ faultFirstSeen' \in {Unseen} \cup Nat /\ calls' \in [AnyCall -> Nat]
         /\ HistoryTyped(hist') /\ Counted'
         /\ TriggerSent => hist'.misses >= ThresholdOf
<1>1. failCounts' \in Nat /\ HistoryTyped(hist') /\ failCounts' <= hist'.misses
  BY ThresholdSeen DEF alertIfThreshold
<1>2. faultFirstSeen' \in {Unseen} \cup Nat
  BY DEF alertIfThreshold, IInv, Typed
<1>3. calls' \in [AnyCall -> Nat] /\ (TriggerSent => failCounts' >= ThresholdOf)
  <2>1. CASE failCounts' >= ThresholdOf
    BY <2>1, OneSent DEF alertIfThreshold, IInv
  <2>2. CASE ~(failCounts' >= ThresholdOf)
    BY <2>2, NothingSent DEF alertIfThreshold, IInv
  <2> QED
    BY <2>1, <2>2
<1>4. hist'.misses \in Nat
  BY <1>1 DEF HistoryTyped
<1> QED
  BY <1>1, <1>2, <1>3, <1>4, Bounds DEF Counted

LEMMA AllClearSeen ==
  ASSUME IInv, check' = check, resolveIfClear, Broken
  PROVE  /\ failCounts' \in Nat /\ faultFirstSeen' \in {Unseen} \cup Nat /\ calls' \in [AnyCall -> Nat]
         /\ HistoryTyped(hist') /\ Counted' /\ ~TriggerSent
<1>1. HistoryTyped(hist')
  BY SeenTyped DEF IInv
<1>2. calls' \in [AnyCall -> Nat] /\ ~TriggerSent
  BY ResolveSent DEF resolveIfClear, IInv
<1>3. failCounts' = 0 /\ faultFirstSeen' = Unseen
  BY DEF resolveIfClear
<1>4. hist'.misses \in Nat
  BY <1>1 DEF HistoryTyped
<1> QED
  BY <1>1, <1>2, <1>3, <1>4 DEF Counted

-----------------------------------------------------------------------------
(* The temperatures. *)

LEMMA HistoryGrows ==
  ASSUME IInv, check \in Heating, NEW status \in Status
  PROVE  /\ recordTemp(status) \in Seq(Int)
         /\ hist.planAge < Window => Len(recordTemp(status)) <= hist.planAge + 1
<1> DEFINE longer == Append(tempHistory, status.temp)
<1>1. tempHistory \in Seq(Int) /\ status.temp \in Int
  BY DEF IInv, Typed, Status
<1>2. longer \in Seq(Int) /\ longer # <<>> /\ Len(longer) = Len(tempHistory) + 1
  BY <1>1, AppendProperties
<1> HIDE DEF longer
<1>3. Tail(longer) \in Seq(Int) /\ Len(Tail(longer)) = Len(longer) - 1
  BY <1>2, HeadTailProperties
<1>4. recordTemp(status) = IF Len(longer) > Window + 1 THEN Tail(longer) ELSE longer
  BY DEF recordTemp, longer
<1>5. Len(tempHistory) \in Nat /\ hist.planAge \in Nat
  BY <1>1, LenProperties DEF IInv, Typed, HistoryTyped
<1>6. hist.planAge < Window => Len(tempHistory) <= hist.planAge
  BY DEF IInv, Recorded
<1> QED
  BY <1>2, <1>3, <1>4, <1>5, <1>6, Bounds

LEMMA TempsRecorded ==
  ASSUME IInv, check' = check, NEW status \in Status, FaultSeen \/ Broken,
         tempHistory' = IF check \in Heating THEN recordTemp(status) ELSE tempHistory
  PROVE  /\ tempHistory' \in Seq(Int) /\ Recorded'
         /\ check \in Heating /\ hist'.planAge < Window => Len(recordTemp(status)) <= hist'.planAge
<1>1. hist'.planAge = IF check \in Heating THEN Capped(hist.planAge + 1, Window) ELSE 0
  BY SeenTyped DEF IInv
<1>2. hist.planAge \in Nat /\ tempHistory \in Seq(Int)
  BY DEF IInv, Typed, HistoryTyped
<1>3. CASE check \in Heating
  <2>1. /\ recordTemp(status) \in Seq(Int)
        /\ hist.planAge < Window => Len(recordTemp(status)) <= hist.planAge + 1
    BY <1>3, HistoryGrows
  <2>2. tempHistory' = recordTemp(status) /\ hist'.planAge = Capped(hist.planAge + 1, Window)
    BY <1>1, <1>3
  <2>3. Len(recordTemp(status)) \in Nat
    BY <2>1, LenProperties
  <2> QED
    BY <1>2, <2>1, <2>2, <2>3, Bounds DEF Recorded, Capped
<1>4. CASE check \notin Heating
  BY <1>2, <1>4 DEF Recorded
<1> QED
  BY <1>3, <1>4

\* A non-empty set of naturals has a least element, so that there is a first reading.
LEMMA LeastExists ==
  ASSUME NEW S, S \subseteq Nat, S # {}
  PROVE  \E s \in S : \A t \in S : s <= t
<1>1. IsWellFoundedOn(OpToRel(<, Nat), Nat)
  BY NatLessThanWellFounded
<1>2. PICK s \in S : \A t \in S : ~(<<t, s>> \in OpToRel(<, Nat))
  BY <1>1, WFMin
<1>3. \A t \in S : ~(t < s)
  BY <1>2 DEF OpToRel
<1> QED
  BY <1>3

LEMMA EnoughIsLong ==
  ASSUME NEW h \in Seq(Int), EnoughReadings(h)
  PROVE  10 * Len(h) >= 8 * Window
<1>1. Readings(h) # {}
  <2>1. Cardinality(Readings(h)) # 0
    BY DEF EnoughReadings
  <2>2. Cardinality({}) = 0
    BY FS_EmptySet
  <2> QED
    BY <2>1, <2>2
<1>2. Readings(h) \subseteq 1..Len(h) /\ Len(h) \in Nat
  BY LenProperties DEF Readings
<1>3. \E i \in Readings(h) : \A j \in Readings(h) : i <= j
  BY <1>1, <1>2, LeastExists
<1>4. FirstReading(h) \in Readings(h)
  BY <1>3 DEF FirstReading
<1>5. 10 * (Len(h) - FirstReading(h)) >= 8 * Window
  BY DEF EnoughReadings
<1> QED
  BY <1>2, <1>4, <1>5, Bounds

-----------------------------------------------------------------------------
(* The steps of a cycle. *)

CyclesType == [Cycles -> [stage : Stages, beat : BOOLEAN, status : Status]]

\* A cycle that has begun, or fetched, leaves the memory of the daemon alone.
LEMMA Pinged ==
  ASSUME IInv, NEW c \in Cycles, PingAllHeartbeats(c)
  PROVE  IInv' /\ Earned
<1>1. cycles = [d \in Cycles |-> cycles[d]] /\ check' = check /\ Typed /\ Followed
  BY DEF IInv, Typed, PingAllHeartbeats, world
<1>2. PICK r \in [stage : Stages, beat : BOOLEAN, status : Status] : r = cycles[c]
  BY DEF IInv, Typed
<1>3. PICK beat \in BOOLEAN : beat = (check # "heartbeat" \/ room.ok)
  BY DEF IInv, Typed, Status
<1>4. PICK next : next = [stage |-> "pinged", beat |-> r.beat, status |-> r.status]
  OBVIOUS
<1>5. PICK done : done = [stage |-> "pinged", beat |-> beat, status |-> r.status]
  OBVIOUS
<1>6. [r EXCEPT !.stage = "pinged"] = next
  BY <1>4
<1>7. [next EXCEPT !.beat = beat] = done
  BY <1>4, <1>5
<1>8. cycles' = [cycles EXCEPT ![c] = [stage |-> "pinged", beat |-> beat, status |-> r.status]]
  <2>1. cycles' = [cycles EXCEPT ![c].stage = "pinged", ![c].beat = beat]
    BY <1>3 DEF PingAllHeartbeats
  <2>2. @ = [[cycles EXCEPT ![c].stage = "pinged"] EXCEPT ![c].beat = beat]
    OBVIOUS
  <2>3. [cycles EXCEPT ![c].stage = "pinged"] = [cycles EXCEPT ![c] = next]
    BY <1>1, <1>2, <1>6
  <2>4. [[cycles EXCEPT ![c] = next] EXCEPT ![c].beat = beat] = [cycles EXCEPT ![c] = done]
    BY <1>1, <1>7
  <2> QED
    BY <1>5, <2>1, <2>2, <2>3, <2>4
<1>9. cycles' \in CyclesType /\ Followed'
  <2>1. "pinged" \in Stages /\ "pinged" \notin Probing /\ "pinged" \notin ForcingOff /\ r.status \in Status
    BY PlainStages
  <2> QED
    BY <1>1, <1>8, <2>1, CycleMoves DEF CyclesType
<1>10. /\ HistoryTyped(hist') /\ hist'.misses = hist.misses /\ hist'.planAge = hist.planAge
       /\ hist'.age = IF check \in Persistent THEN Capped(hist.age + 1, Debounce) ELSE hist.age
  <2>1. HistoryTyped(hist)
    BY <1>1 DEF Typed
  <2>2. Capped(hist.age + 1, Debounce) \in Nat
    BY <2>1, Bounds DEF HistoryTyped, Capped
  <2>3. CASE check \in Persistent
    <3>1. PICK age \in Nat : age = Capped(hist.age + 1, Debounce)
      BY <2>2
    <3>2. hist' = [misses |-> hist.misses, age |-> age, planAge |-> hist.planAge, stranded |-> hist.stranded]
      BY <2>1, <2>3, <3>1 DEF PingAllHeartbeats, HistoryTyped
    <3> QED
      BY <2>1, <2>3, <3>1, <3>2 DEF HistoryTyped
  <2>4. CASE check \notin Persistent
    BY <2>1, <2>4 DEF PingAllHeartbeats
  <2> QED
    BY <2>3, <2>4
<1>11. /\ faultFirstSeen' = IF faultFirstSeen = Unseen THEN Unseen ELSE Capped(faultFirstSeen + 1, Debounce)
       /\ UNCHANGED <<room, failCounts, tempHistory, calls>>
  BY DEF PingAllHeartbeats, world
<1>12. faultFirstSeen' \in {Unseen} \cup Nat
  BY <1>1, <1>11, Bounds DEF Typed, Capped, Unseen
<1>13. Counted'
  BY <1>1, <1>10, <1>11, Bounds DEF IInv, Typed, HistoryTyped, Counted, Capped, Unseen
<1>14. Recorded'
  BY <1>1, <1>10, <1>11 DEF IInv, Recorded
<1>15. ~TriggerSent
  BY <1>1, <1>11, NothingSent
<1> QED
  BY <1>1, <1>9, <1>10, <1>11, <1>12, <1>13, <1>14, <1>15 DEF IInv, Typed, Earned, CyclesType

LEMMA Fetched ==
  ASSUME IInv, NEW c \in Cycles, FetchAllHeaterStatus(c)
  PROVE  IInv' /\ Earned
<1>1. cycles = [d \in Cycles |-> cycles[d]] /\ check' = check /\ Typed /\ Followed
  BY DEF IInv, Typed, FetchAllHeaterStatus, world
<1>2. PICK r \in [stage : Stages, beat : BOOLEAN, status : Status] : r = cycles[c]
  BY DEF IInv, Typed
<1>3. PICK next : next = [stage |-> "fetched", beat |-> r.beat, status |-> r.status]
  OBVIOUS
<1>4. PICK done : done = [stage |-> "fetched", beat |-> r.beat, status |-> room]
  OBVIOUS
<1>5. [r EXCEPT !.stage = "fetched"] = next
  BY <1>3
<1>6. [next EXCEPT !.status = room] = done
  BY <1>3, <1>4
<1>7. cycles' = [cycles EXCEPT ![c] = [stage |-> "fetched", beat |-> r.beat, status |-> room]]
  <2>1. cycles' = [cycles EXCEPT ![c].stage = "fetched", ![c].status = room]
    BY DEF FetchAllHeaterStatus
  <2>2. @ = [[cycles EXCEPT ![c].stage = "fetched"] EXCEPT ![c].status = room]
    OBVIOUS
  <2>3. [cycles EXCEPT ![c].stage = "fetched"] = [cycles EXCEPT ![c] = next]
    BY <1>1, <1>2, <1>5
  <2>4. [[cycles EXCEPT ![c] = next] EXCEPT ![c].status = room] = [cycles EXCEPT ![c] = done]
    BY <1>1, <1>6
  <2> QED
    BY <1>4, <2>1, <2>2, <2>3, <2>4
<1>8. cycles' \in CyclesType /\ Followed'
  <2>1. /\ "fetched" \in Stages /\ r.beat \in BOOLEAN /\ room \in Status
        /\ "fetched" \notin Probing /\ "fetched" \notin ForcingOff
    BY <1>1, PlainStages DEF Typed
  <2> QED
    BY <1>1, <1>7, <2>1, CycleMoves DEF CyclesType
<1>9. UNCHANGED <<check, room, failCounts, faultFirstSeen, tempHistory, calls, hist>>
  BY DEF FetchAllHeaterStatus, world
<1> QED
  BY <1>1, <1>8, <1>9, NothingSent DEF IInv, Typed, Counted, Recorded, Earned, CyclesType

\* An outage breaks every count.
LEMMA Suspended ==
  ASSUME IInv, NEW c \in Cycles, SuspendAlerts(c)
  PROVE  IInv' /\ Earned
<1>1. /\ UNCHANGED <<check, room, calls>> /\ failCounts' = 0 /\ faultFirstSeen' = Unseen
      /\ tempHistory' = IF check \in Heating THEN recordTemp(OutOfReach) ELSE tempHistory
      /\ Broken /\ Ends(c)
  BY DEF SuspendAlerts, world
<1>2. HistoryTyped(hist')
  BY <1>1, SeenTyped DEF IInv
<1>3. tempHistory' \in Seq(Int) /\ Recorded'
  BY <1>1, StatusTyped, TempsRecorded
<1>4. cycles' \in CyclesType /\ Followed'
  BY <1>1, CycleEnds DEF IInv, CyclesType
<1>5. Counted'
  BY <1>1, <1>2 DEF Counted, HistoryTyped
<1> QED
  BY <1>1, <1>2, <1>3, <1>4, <1>5, NothingSent DEF IInv, Typed, Earned, CyclesType

\* The checks: a page about heating rests on a history that is long enough.
LEMMA HealthChecked ==
  ASSUME IInv, NEW c \in Cycles, checkSaunaHealth(c)
  PROVE  IInv' /\ Earned
<1> DEFINE status == cycles[c].status
           history == recordTemp(status)
           faulty == Faulty(status, history)
<1>1. status \in Status /\ Typed /\ Followed
  BY DEF IInv, Typed
<1>2. /\ UNCHANGED <<check, room>> /\ Checked(c) /\ check \notin {"heartbeat"} \cup Immediate
      /\ tempHistory' = IF check \in Heating THEN history ELSE tempHistory
      /\ \/ faulty /\ check \in Persistent /\ alertIfPersistent(status) /\ FaultSeen
         \/ faulty /\ check \notin Persistent /\ alertIfThreshold(status) /\ FaultSeen
         \/ ~faulty /\ check \notin ManualOnly /\ resolveIfClear /\ Broken
         \/ ~faulty /\ check \in ManualOnly /\ SameMemory /\ UNCHANGED <<calls, hist>>
  BY DEF checkSaunaHealth, world, Later
<1>3. check \in Heating /\ faulty => EnoughReadings(history)
  BY DEF Faulty, Heating, Persistent
<1> HIDE DEF status, faulty
<1>4. cycles' \in CyclesType /\ Followed'
  BY <1>1, <1>2, CycleEnds DEF CyclesType
<1>5. FaultSeen \/ Broken =>
        /\ tempHistory' \in Seq(Int) /\ Recorded'
        /\ check \in Heating /\ hist'.planAge < Window => Len(history) <= hist'.planAge
  BY <1>1, <1>2, TempsRecorded
<1>6. CASE faulty /\ check \in Persistent /\ alertIfPersistent(status) /\ FaultSeen
  <2>1. /\ failCounts' \in Nat /\ faultFirstSeen' \in {Unseen} \cup Nat /\ calls' \in [AnyCall -> Nat]
        /\ HistoryTyped(hist') /\ Counted'
        /\ TriggerSent => hist'.age >= Debounce
    BY <1>2, <1>6, PersistentSeen
  <2>2. Earned
    BY <1>2, <1>6, <2>1 DEF Earned, Persistent, Heating
  <2> QED
    BY <1>1, <1>2, <1>4, <1>5, <1>6, <2>1, <2>2 DEF IInv, Typed, CyclesType
<1>7. CASE faulty /\ check \notin Persistent /\ alertIfThreshold(status) /\ FaultSeen
  <2>1. /\ failCounts' \in Nat /\ faultFirstSeen' \in {Unseen} \cup Nat /\ calls' \in [AnyCall -> Nat]
        /\ HistoryTyped(hist') /\ Counted'
        /\ TriggerSent => hist'.misses >= ThresholdOf
    BY <1>2, <1>7, ThresholdAlert
  <2>2. check \in Heating => 10 * hist'.planAge >= 8 * Window
    <3> SUFFICES ASSUME check \in Heating PROVE 10 * hist'.planAge >= 8 * Window
      OBVIOUS
    <3>1. history \in Seq(Int)
      BY <1>1, HistoryGrows
    <3>2. 10 * Len(history) >= 8 * Window
      BY <1>3, <1>7, <3>1, EnoughIsLong
    <3>3. hist'.planAge < Window => Len(history) <= hist'.planAge
      BY <1>5, <1>7
    <3>4. hist'.planAge \in Nat /\ Len(history) \in Nat
      BY <2>1, <3>1, LenProperties DEF HistoryTyped
    <3> HIDE DEF history
    <3> QED
      BY <3>2, <3>3, <3>4, Bounds
  <2> QED
    BY <1>1, <1>2, <1>4, <1>5, <1>7, <2>1, <2>2 DEF IInv, Typed, Earned, CyclesType
<1>8. CASE ~faulty /\ resolveIfClear /\ Broken
  BY <1>1, <1>2, <1>4, <1>5, <1>8, AllClearSeen DEF IInv, Typed, Earned, CyclesType
<1>9. CASE check \in ManualOnly /\ SameMemory /\ UNCHANGED <<calls, hist>>
  <2>1. check \notin Heating /\ tempHistory' = tempHistory
    BY <1>2, <1>9 DEF ManualOnly, Heating
  <2> QED
    BY <1>1, <1>2, <1>4, <1>9, <2>1, NothingSent
       DEF IInv, Typed, Counted, Recorded, Earned, CyclesType, SameMemory
<1> QED
  BY <1>2, <1>6, <1>7, <1>8, <1>9

LEMMA OverheatChecked ==
  ASSUME IInv, NEW c \in Cycles, checkOverheatFromStatus(c)
  PROVE  IInv' /\ Earned
<1>1. /\ UNCHANGED <<check, room, failCounts, faultFirstSeen, tempHistory, hist>>
      /\ check = "overheat" /\ Checked(c) /\ Typed /\ Followed
  BY DEF checkOverheatFromStatus, world, SameMemory, IInv
<1>2. cycles' \in CyclesType /\ Followed'
  BY <1>1, CycleEnds DEF CyclesType
<1>3. calls' \in [AnyCall -> Nat]
  <2>1. CASE cycles[c].status.temp = NoTemp
    BY <1>1, <2>1, NothingSent DEF checkOverheatFromStatus
  <2>2. CASE cycles[c].status.temp # NoTemp
    BY <1>1, <2>2, OneSent DEF checkOverheatFromStatus
  <2> QED
    BY <2>1, <2>2
<1> QED
  BY <1>1, <1>2, <1>3
     DEF IInv, Typed, Counted, Recorded, Earned, CyclesType, Persistent, Immediate, Heating

LEMMA HeartbeatChecked ==
  ASSUME IInv, NEW c \in Cycles, checkHeartbeatHealth(c)
  PROVE  IInv' /\ Earned
<1>1. /\ UNCHANGED <<check, room, tempHistory>> /\ check = "heartbeat"
      /\ check \notin Persistent /\ check \notin Heating /\ Typed /\ Followed
  BY DEF checkHeartbeatHealth, world, IInv, Persistent, Heating
<1>2. CASE resolveIfClear /\ Broken /\ Checked(c)
  <2>1. cycles' \in CyclesType /\ Followed'
    BY <1>1, <1>2, CycleEnds DEF CyclesType
  <2> QED
    BY <1>1, <1>2, <2>1, AllClearSeen DEF IInv, Typed, Recorded, Earned, CyclesType
<1>3. CASE SameMemory /\ UNCHANGED <<calls, hist>> /\ Checked(c)
  <2>1. cycles' \in CyclesType /\ Followed'
    BY <1>1, <1>3, CycleEnds DEF CyclesType
  <2> QED
    BY <1>1, <1>3, <2>1, NothingSent
       DEF IInv, Typed, Counted, Recorded, Earned, CyclesType, SameMemory
<1>4. CASE /\ CountUp /\ FaultSeen
           /\ UNCHANGED <<faultFirstSeen, lowKeysOpened, calls>> /\ ~cycles[c].beat
           /\ IF failCounts' < ConfirmCycles THEN Checked(c)
              ELSE Goes(c, IF failCounts' < AlertCycles THEN "probe" ELSE "probe or page")
  <2>1. cycles' \in CyclesType /\ Followed'
    <3>1. CASE Checked(c)
      BY <1>1, <3>1, CycleEnds DEF CyclesType
    <3>2. CASE \E stage \in {"probe", "probe or page"} : Goes(c, stage)
      <4>1. PICK stage \in {"probe", "probe or page"} : Goes(c, stage)
        BY <3>2
      <4>2. stage \in Stages /\ stage # "swept" /\ stage \notin ForcingOff
        BY <4>1 DEF Stages, ForcingOff
      <4> QED
        BY <1>1, <1>4, <4>1, <4>2, CycleGoes DEF CyclesType
    <3> QED
      BY <1>4, <3>1, <3>2
  <2>2. failCounts' \in Nat /\ HistoryTyped(hist') /\ failCounts' <= hist'.misses
    BY <1>1, <1>4, ThresholdSeen
  <2> QED
    BY <1>1, <1>4, <2>1, <2>2, NothingSent
       DEF IInv, Typed, Counted, Recorded, Earned, CyclesType
<1> QED
  BY <1>2, <1>3, <1>4 DEF checkHeartbeatHealth

\* A page for a heartbeat goes out after a second ping that was not answered.
LEMMA HeartbeatProbed ==
  ASSUME IInv, NEW c \in Cycles, ProbeHeartbeat(c)
  PROVE  IInv' /\ Earned
<1>1. /\ UNCHANGED <<check, room, tempHistory>> /\ check = "heartbeat"
      /\ check \notin Persistent /\ check \notin Heating /\ Typed /\ Followed
  BY DEF ProbeHeartbeat, world, IInv, Followed, Probing, Persistent, Heating
<1>2. CASE resolveIfClear /\ Broken /\ Checked(c)
  <2>1. cycles' \in CyclesType /\ Followed'
    BY <1>1, <1>2, CycleEnds DEF CyclesType
  <2> QED
    BY <1>1, <1>2, <2>1, AllClearSeen DEF IInv, Typed, Recorded, Earned, CyclesType
<1>3. CASE /\ ~room.ok /\ cycles[c].status.on /\ SameMemory /\ UNCHANGED <<calls, hist>>
           /\ Goes(c, IF At(c, "probe") THEN "force off" ELSE "force off and page")
  <2>1. PICK stage \in ForcingOff : Goes(c, stage)
    BY <1>3 DEF ForcingOff
  <2>2. stage \in Stages /\ stage \in Probing /\ stage # "swept"
    BY <2>1 DEF Stages, Probing, ForcingOff
  <2>3. ~cycles[c].beat
    BY <1>1 DEF ProbeHeartbeat, Followed, Probing
  <2>4. cycles' \in CyclesType /\ Followed'
    BY <1>1, <1>3, <2>1, <2>2, <2>3, CycleGoes DEF CyclesType
  <2> QED
    BY <1>1, <1>3, <2>4, NothingSent
       DEF IInv, Typed, Counted, Recorded, Earned, CyclesType, SameMemory
<1>4. CASE /\ ~room.ok /\ ~cycles[c].status.on /\ SameMemory /\ UNCHANGED hist
           /\ IF At(c, "probe or page") THEN Sends(Trigger(KeyOf(cycles[c].status))) ELSE UNCHANGED calls
           /\ Checked(c)
  <2>1. calls' \in [AnyCall -> Nat]
    BY <1>1, <1>4, OneSent, NothingSent
  <2>2. cycles' \in CyclesType /\ Followed'
    BY <1>1, <1>4, CycleEnds DEF CyclesType
  <2> QED
    BY <1>1, <1>4, <2>1, <2>2
       DEF IInv, Typed, Counted, Recorded, Earned, CyclesType, SameMemory
<1> QED
  BY <1>2, <1>3, <1>4 DEF ProbeHeartbeat

\* With the relay on at the status, the page follows the call that was to switch it off.
LEMMA HeartbeatForcedOff ==
  ASSUME IInv, NEW c \in Cycles, ForceOff(c)
  PROVE  IInv' /\ Earned
<1>1. /\ UNCHANGED <<check, hist, failCounts, faultFirstSeen, tempHistory>> /\ check = "heartbeat" /\ Checked(c)
      /\ check \notin Persistent /\ check \notin Heating /\ Typed /\ Followed
      /\ ~cycles[c].beat /\ cycles[c].status.on
  BY DEF ForceOff, SameMemory, IInv, Followed, Probing, ForcingOff, Persistent, Heating
<1>2. cycles' \in CyclesType /\ Followed'
  BY <1>1, CycleEnds DEF CyclesType
<1>3. room' \in Status
  <2>1. room \in Status
    BY <1>1 DEF Typed
  <2>2. [room EXCEPT !.on = FALSE] \in Status
    BY <2>1 DEF Status
  <2> QED
    BY <2>1, <2>2 DEF ForceOff
<1>4. CASE At(c, "force off and page")
  <2>1. calls' \in [AnyCall -> Nat]
    BY <1>1, <1>4, OneSent DEF ForceOff
  <2> QED
    BY <1>1, <1>2, <1>3, <1>4, <2>1 DEF IInv, Typed, Counted, Recorded, Earned, CyclesType
<1>5. CASE ~At(c, "force off and page")
  <2>1. calls' = calls
    BY <1>5 DEF ForceOff
  <2> QED
    BY <1>1, <1>2, <1>3, <2>1, NothingSent DEF IInv, Typed, Counted, Recorded, Earned, CyclesType
<1> QED
  BY <1>4, <1>5

LEMMA Swept ==
  ASSUME IInv, NEW c \in Cycles, FinishSweep(c)
  PROVE  IInv' /\ Earned
<1>1. /\ UNCHANGED <<check, room, failCounts, faultFirstSeen, tempHistory, calls>>
      /\ Typed /\ Followed /\ HistoryTyped(hist)
  BY DEF FinishSweep, world, SameMemory, IInv, Typed
<1>2. cycles' \in CyclesType /\ Followed'
  <2>1. CASE check = "steam" /\ Goes(c, "swept")
    <3>1. "swept" \in Stages /\ "swept" \notin Probing /\ "swept" \notin ForcingOff
      BY PlainStages
    <3> QED
      BY <1>1, <2>1, <3>1, CycleGoes DEF CyclesType
  <2>2. CASE Ends(c)
    BY <1>1, <2>2, CycleEnds DEF CyclesType
  <2> QED
    BY <2>1, <2>2 DEF FinishSweep
<1>3. PICK stranded : hist' = [hist EXCEPT !.stranded = stranded]
  BY DEF FinishSweep
<1>4. hist' = [misses |-> hist.misses, age |-> hist.age, planAge |-> hist.planAge, stranded |-> stranded]
  BY <1>1, <1>3 DEF HistoryTyped
<1>5. HistoryTyped(hist') /\ hist'.misses = hist.misses /\ hist'.age = hist.age /\ hist'.planAge = hist.planAge
  BY <1>1, <1>4 DEF HistoryTyped
<1> QED
  BY <1>1, <1>2, <1>5, NothingSent DEF IInv, Typed, Counted, Recorded, Earned, CyclesType

LEMMA SteamChecked ==
  ASSUME IInv, NEW c \in Cycles, checkSteamReachable(c)
  PROVE  IInv' /\ Earned
<1>1. /\ UNCHANGED <<check, room, tempHistory>> /\ check = "steam" /\ Ends(c)
      /\ check \in Persistent /\ check \notin Heating /\ Typed /\ Followed
  BY DEF checkSteamReachable, world, IInv, Followed, Persistent, Heating, At
<1>2. cycles' \in CyclesType /\ Followed'
  BY <1>1, CycleEnds DEF CyclesType
<1>3. CASE alertIfPersistent(cycles[c].status) /\ FaultSeen
  BY <1>1, <1>2, <1>3, PersistentSeen DEF IInv, Typed, Recorded, Earned, CyclesType
<1>4. CASE resolveIfClear /\ Broken
  BY <1>1, <1>2, <1>4, AllClearSeen DEF IInv, Typed, Recorded, Earned, CyclesType
<1> QED
  BY <1>3, <1>4 DEF checkSteamReachable

LEMMA ResetChecked ==
  ASSUME IInv, checkManualResetRequired
  PROVE  IInv' /\ Earned
<1>1. /\ UNCHANGED <<check, room, cycles, failCounts, faultFirstSeen, tempHistory, hist>>
      /\ check = "manual-reset" /\ Typed
  BY DEF checkManualResetRequired, world, SameMemory, IInv
<1>2. calls' \in [AnyCall -> Nat]
  BY <1>1, OneSent DEF checkManualResetRequired
<1> QED
  BY <1>1, <1>2
     DEF IInv, Typed, Followed, Counted, Recorded, Earned, Persistent, Immediate, Heating

-----------------------------------------------------------------------------
(* PagerDuty and the rest of the world. *)

\* Of the history only the mark of a stranded incident is touched.
LEMMA RequestOver ==
  ASSUME IInv, NEW call \in AnyCall, Answered(call) \/ NotAnswered(call)
  PROVE  IInv' /\ Earned
<1>1. /\ UNCHANGED <<check, room, cycles, failCounts, faultFirstSeen, tempHistory>>
      /\ Typed /\ HistoryTyped(hist)
  BY DEF Answered, NotAnswered, world, SameMemory, IInv, Typed
<1>2. calls' \in [AnyCall -> Nat] /\ ~TriggerSent
  BY <1>1, RequestEnds DEF Answered, NotAnswered
<1>3. PICK stranded : hist' = [hist EXCEPT !.stranded = stranded]
  BY DEF Answered, NotAnswered
<1>4. hist' = [misses |-> hist.misses, age |-> hist.age, planAge |-> hist.planAge, stranded |-> stranded]
  BY <1>1, <1>3 DEF HistoryTyped
<1>5. HistoryTyped(hist') /\ hist'.misses = hist.misses /\ hist'.age = hist.age /\ hist'.planAge = hist.planAge
  BY <1>1, <1>4 DEF HistoryTyped
<1> QED
  BY <1>1, <1>2, <1>5 DEF IInv, Typed, Followed, Counted, Recorded, Earned

LEMMA WorldMoves ==
  ASSUME IInv, DeviceChanges \/ PlanMoves \/ ResolvedByHand \/ UNCHANGED vars
  PROVE  IInv' /\ Earned
<1>1. /\ UNCHANGED <<check, cycles, failCounts, faultFirstSeen, tempHistory, calls, hist>>
      /\ room' \in Rooms \cup {room}
  BY DEF DeviceChanges, PlanMoves, ResolvedByHand, Nothing, SameMemory, world, vars
<1>2. room' \in Status
  BY <1>1, RoomsTyped DEF IInv, Typed
<1> QED
  BY <1>1, <1>2, NothingSent DEF IInv, Typed, Followed, Counted, Recorded, Earned

LEMMA PlanComes ==
  ASSUME IInv, applyOperationalPlan
  PROVE  IInv' /\ Earned
<1>1. /\ UNCHANGED <<check, room, cycles, failCounts, faultFirstSeen, calls>>
      /\ tempHistory' = <<>> /\ check \in Heating
      /\ hist' = [hist EXCEPT !.planAge = 0] /\ HistoryTyped(hist)
  BY DEF applyOperationalPlan, Nothing, SameMemory, IInv, Typed
<1>2. hist' = [misses |-> hist.misses, age |-> hist.age, planAge |-> 0, stranded |-> hist.stranded]
  BY <1>1 DEF HistoryTyped
<1>3. HistoryTyped(hist') /\ hist'.misses = hist.misses /\ hist'.age = hist.age /\ hist'.planAge = 0
  BY <1>1, <1>2 DEF HistoryTyped
<1>4. tempHistory' \in Seq(Int) /\ Len(tempHistory') = 0
  BY <1>1, EmptySeq
<1>5. Counted' /\ Recorded'
  BY <1>1, <1>3, <1>4, Bounds DEF IInv, Counted, Recorded
<1>6. ~TriggerSent
  BY <1>1, NothingSent DEF IInv
<1> QED
  BY <1>1, <1>3, <1>4, <1>5, <1>6 DEF IInv, Typed, Followed, Earned

\* A restart forgets everything, and the history begins again.
Fresh ==
  /\ cycles = [c \in Cycles |-> NoCycle]
  /\ failCounts = 0 /\ faultFirstSeen = Unseen /\ tempHistory = <<>>
  /\ calls = [call \in AnyCall |-> 0] /\ hist = Unbroken /\ room \in Status

LEMMA Begins == Fresh => IInv
<1> SUFFICES ASSUME Fresh PROVE IInv
  OBVIOUS
<1>1. "idle" \in Stages /\ NoCycle \in [stage : Stages, beat : BOOLEAN, status : Status]
  BY StatusTyped DEF NoCycle, Stages
<1>2. NoCycle.stage = "idle" /\ "idle" \notin Probing /\ "idle" \notin ForcingOff
  BY PlainStages DEF NoCycle
<1>3. cycles \in [Cycles -> [stage : Stages, beat : BOOLEAN, status : Status]] /\ Followed
  BY <1>1, <1>2 DEF Fresh, Followed
<1>4. tempHistory \in Seq(Int) /\ Len(tempHistory) = 0
  BY EmptySeq DEF Fresh
<1>5. HistoryTyped(hist) /\ hist.misses = 0 /\ hist.planAge = 0
  BY DEF Fresh, Unbroken, HistoryTyped
<1>6. calls \in [AnyCall -> Nat]
  BY DEF Fresh
<1>7. failCounts = 0 /\ faultFirstSeen = Unseen /\ room \in Status
  BY DEF Fresh
<1>8. Counted /\ Recorded
  BY <1>4, <1>5, <1>7, Bounds DEF Counted, Recorded
<1> QED
  BY <1>3, <1>4, <1>5, <1>6, <1>7, <1>8 DEF IInv, Typed

LEMMA Restarted ==
  ASSUME IInv, Restart
  PROVE  IInv' /\ Earned
<1>1. Fresh'
  BY DEF Restart, Fresh, world, IInv, Typed
<1>2. Fresh' => IInv'
  BY Begins, PTL
<1>3. \A call \in AnyCall : calls[call] \in Nat /\ calls'[call] = 0
  BY <1>1 DEF Fresh, IInv, Typed
<1>4. ~TriggerSent
  BY <1>3 DEF TriggerSent
<1> QED
  BY <1>1, <1>2, <1>4 DEF Earned

LEMMA InitOK == Init => IInv
<1>1. Init => Fresh
  BY StatusTyped DEF Init, Fresh
<1> QED
  BY <1>1, Begins

LEMMA NextOK == IInv /\ [Next]_vars => IInv' /\ Earned
<1> SUFFICES ASSUME IInv, [Next]_vars PROVE IInv' /\ Earned
  OBVIOUS
<1>1. ASSUME NEW c \in Cycles, CycleStep(c) PROVE IInv' /\ Earned
  BY <1>1, Pinged, Fetched, Suspended, HealthChecked, OverheatChecked, HeartbeatChecked,
     HeartbeatProbed, HeartbeatForcedOff, Swept, SteamChecked DEF CycleStep
<1>2. ASSUME NEW call \in AnyCall, Answered(call) \/ NotAnswered(call) PROVE IInv' /\ Earned
  BY <1>2, RequestOver
<1>3. CASE checkManualResetRequired
  BY <1>3, ResetChecked
<1>4. CASE applyOperationalPlan
  BY <1>4, PlanComes
<1>5. CASE Restart
  BY <1>5, Restarted
<1>6. CASE DeviceChanges \/ PlanMoves \/ ResolvedByHand \/ UNCHANGED vars
  BY <1>6, WorldMoves
<1> QED
  BY <1>1, <1>2, <1>3, <1>4, <1>5, <1>6 DEF Next

LEMMA Invariance == Spec => []IInv
<1>1. IInv /\ [Next]_vars => IInv'
  BY NextOK
<1> QED
  BY <1>1, InitOK, PTL DEF Spec

\* No page goes out about what was not seen long enough without a break: for the
\* debounce time or the threshold of readings, after a second ping that failed, or over
\* most of a window since the plan came (alertIfPersistent, alertIfThreshold,
\* checkHeartbeatHealth, suspendAlerts, applyOperationalPlanInner).
THEOREM PagesAreEarned == Spec => PagesEarned
<1>1. IInv /\ [Next]_vars => [TriggerSent =>
        /\ check \in Persistent => hist'.age >= Debounce
        /\ check \notin Persistent \cup ManualOnly \cup Immediate \cup {"heartbeat"} => hist'.misses >= ThresholdOf
        /\ check = "heartbeat" =>
             \/ ~room.ok
             \/ \E c \in Cycles : At(c, "force off and page") /\ ~cycles[c].beat /\ cycles[c].status.on
        /\ check \in Heating => 10 * hist'.planAge >= 8 * Window]_vars
  BY NextOK DEF Earned
<1> QED
  BY <1>1, Invariance, PTL DEF Spec, PagesEarned
=============================================================================
