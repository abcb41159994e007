-------------------------- MODULE RoomFans_proofs --------------------------
(***************************************************************************)
(* For any plans: the lights follow the bookings, the fan serves the       *)
(* bookings of the heater slots, rests outside of them and their cooldown, *)
(* and the daemon watches every cooldown.                                  *)
(*                                                                         *)
(* Part one is about the calls that a plan is turned into.  mergeBookings  *)
(* and the rest build them by folds; their lemmas say which calls there    *)
(* are and which call still comes behind which, for plans of any length    *)
(* (BookingsAreMerged, LightsCallsOK, SlotCallsOK, ApplyCallsOK).          *)
(*                                                                         *)
(* Part two is the invariant.  Types and Shape hold always.  LightsServed  *)
(* and FanServed relate the relay, the device's schedule and the timers to *)
(* the calls that are still to come: whatever the plan asks for is in      *)
(* place, or behind in the list.  LightsOK and FanOK are about values, not *)
(* states, and have a lemma for each call and handler; that every step     *)
(* preserves them cites these.                                             *)
(***************************************************************************)
EXTENDS RoomFans, WellFoundedInduction, NaturalsInduction, SequenceTheorems,
        FiniteSetTheorems, TLAPS

LEMMA LeastExists ==
  ASSUME NEW S, S \subseteq Nat, S # {}
  PROVE  \E s \in S : \A t \in S : s <= t
  <1>1. IsWellFoundedOn(OpToRel(<, Nat), Nat)
    BY NatLessThanWellFounded
  <1>2. PICK s \in S : \A t \in S : ~(<<t, s>> \in OpToRel(<, Nat))
    BY <1>1, WFMin
  <1>3. \A t \in S : ~(t < s)
    BY <1>2 DEF OpToRel
  <1> QED
    BY <1>3

-----------------------------------------------------------------------------
(* Sequences built from left to right. *)

Steps(f, T, base, n, step) ==
  f \in [0..n -> T] /\ f[0] = base /\ \A i \in 1..n : f[i] = step[i][f[i - 1]]

\* Whatever each step makes of the one before, there is a function of all steps.
LEMMA StepsExist ==
  ASSUME NEW T, NEW base \in T, NEW n \in Nat, NEW step \in [1..n -> [T -> T]]
  PROVE  \E f : Steps(f, T, base, n, step)
  <1> USE DEF Steps
  <1> DEFINE Built(f, k) == f[0] = base /\ \A i \in 1..k : f[i] = step[i][f[i - 1]]
             bad == {k \in 0..n : ~ \E f \in [0..k -> T] : Built(f, k)}
  <1>0. SUFFICES ASSUME bad # {} PROVE FALSE
    <2>1. n \in 0..n
      OBVIOUS
    <2> QED
      BY <2>1
  <1>1. PICK k \in bad : \A j \in bad : k <= j
    <2>1. bad \subseteq Nat
      OBVIOUS
    <2> HIDE DEF bad
    <2> QED
      BY <1>0, <2>1, LeastExists
  <1>2. k # 0
    <2>1. [i \in 0..0 |-> base] \in [0..0 -> T] /\ Built([i \in 0..0 |-> base], 0)
      OBVIOUS
    <2> QED
      BY <2>1
  <1>3. PICK f \in [0..(k - 1) -> T] : Built(f, k - 1)
    <2>1. k - 1 \in 0..n /\ k - 1 \notin bad
      BY <1>1, <1>2
    <2> QED
      BY <2>1
  <1> DEFINE g == [i \in 0..k |-> IF i = k THEN step[k][f[k - 1]] ELSE f[i]]
  <1>4. step[k][f[k - 1]] \in T
    BY <1>2, <1>3
  <1>5. g \in [0..k -> T]
    BY <1>2, <1>4
  <1>6. \A i \in 1..k : g[i] = step[i][g[i - 1]]
    <2> SUFFICES ASSUME NEW i \in 1..k PROVE g[i] = step[i][g[i - 1]]
      OBVIOUS
    <2>1. g[i - 1] = f[i - 1]
      BY <1>2
    <2>2. CASE i = k
      <3>1. g[k] = step[k][f[k - 1]]
        BY <1>2
      <3>2. g[k - 1] = f[k - 1]
        BY <2>1, <2>2
      <3> HIDE DEF g
      <3> QED
        BY <2>2, <3>1, <3>2
    <2>3. CASE i # k
      BY <1>2, <1>3, <2>1, <2>3
    <2> QED
      BY <2>2, <2>3
  <1>7. Built(g, k)
    <2>1. g[0] = base
      BY <1>2, <1>3
    <2> QED
      BY <1>6, <2>1
  <1> QED
    BY <1>1, <1>5, <1>7

Concats(f, seqs, n) == f = [i \in 1..n |-> IF i = 1 THEN seqs[i] ELSE f[i - 1] \o seqs[i]]

LEMMA ConcatSteps ==
  ASSUME NEW T, \A x, y \in T : x \o y \in T,
         NEW n \in Nat, n # 0, NEW seqs, \A i \in 1..n : seqs[i] \in T
  PROVE  \E f : Concats(f, seqs, n)
  <1> DEFINE Step(i) == [x \in T |-> IF i = 1 THEN seqs[1] ELSE x \o seqs[i]]
  <1>1. PICK step : step = [i \in 1..n |-> Step(i)]
    OBVIOUS
  <1>2. step \in [1..n -> [T -> T]]
    BY <1>1
  <1>3. \A x \in T, i \in 1..n : step[i][x] = IF i = 1 THEN seqs[1] ELSE x \o seqs[i]
    BY <1>1
  <1>4. seqs[1] \in T
    OBVIOUS
  <1>5. PICK g : Steps(g, T, seqs[1], n, step)
    BY <1>2, <1>4, StepsExist
  <1>6. \A i \in 1..n : g[i] = IF i = 1 THEN seqs[i] ELSE g[i - 1] \o seqs[i]
    <2> SUFFICES ASSUME NEW i \in 1..n
                 PROVE  g[i] = IF i = 1 THEN seqs[i] ELSE g[i - 1] \o seqs[i]
      OBVIOUS
    <2>1. g[i - 1] \in T /\ g[i] = step[i][g[i - 1]]
      BY <1>5 DEF Steps
    <2>2. step[i][g[i - 1]] = IF i = 1 THEN seqs[1] ELSE g[i - 1] \o seqs[i]
      BY <1>3, <2>1
    <2> QED
      BY <2>1, <2>2
  <1> DEFINE h == [i \in 1..n |-> g[i]]
  <1>7. \A i \in 1..n : i # 1 => h[i - 1] = g[i - 1]
    OBVIOUS
  <1>8. h = [i \in 1..n |-> IF i = 1 THEN seqs[i] ELSE h[i - 1] \o seqs[i]]
    BY <1>6, <1>7
  <1> QED
    BY <1>8 DEF Concats

Flattened(f, S, seqs, n) ==
  /\ f \in [1..n -> Seq(S)] /\ f[1] = seqs[1]
  /\ \A i \in 2..n : f[i] = f[i - 1] \o seqs[i]

LEMMA FlattenSteps ==
  ASSUME NEW S, NEW seqs \in Seq(Seq(S)), NEW n, n = Len(seqs), n # 0
  PROVE  \E f : Flattened(f, S, seqs, n) /\ FlattenSeq(seqs) = f[n]
  <1>0. PICK T : T = Seq(S)
    OBVIOUS
  <1>1. /\ n \in Nat /\ (\A i \in 1..n : seqs[i] \in T)
        /\ \A x, y \in T : x \o y \in T
    BY <1>0
  <1> DEFINE f == CHOOSE x : Concats(x, seqs, n)
  <1>2. \E x : Concats(x, seqs, n)
    BY <1>1, ConcatSteps
  <1>3. Concats(f, seqs, n)
    BY <1>2, Zenon
  <1>4. FlattenSeq(seqs) = f[n]
    BY DEF FlattenSeq, Concats
  <1> HIDE DEF f
  <1>5. \A i \in 1..n : f[i] = IF i = 1 THEN seqs[i] ELSE f[i - 1] \o seqs[i]
    BY <1>3 DEF Concats
  <1> DEFINE bad == {i \in 1..n : f[i] \notin T}
  <1>6. bad = {}
    <2> SUFFICES ASSUME bad # {} PROVE FALSE
      OBVIOUS
    <2>1. bad \subseteq Nat
      BY <1>1
    <2>2. PICK i \in bad : \A j \in bad : i <= j
      <3> HIDE DEF bad
      <3> QED
        BY <2>1, LeastExists
    <2>3. i # 1
      BY <1>1, <1>5
    <2>4. i - 1 \in 1..n /\ i - 1 \notin bad
      BY <1>1, <2>2, <2>3
    <2>5. f[i] = f[i - 1] \o seqs[i] /\ f[i - 1] \in T /\ seqs[i] \in T
      BY <1>1, <1>5, <2>3, <2>4
    <2> QED
      BY <1>1, <2>2, <2>5
  <1>7. f \in [1..n -> T]
    BY <1>3, <1>6 DEF Concats
  <1>8. f[1] = seqs[1] /\ \A i \in 2..n : f[i] = f[i - 1] \o seqs[i]
    <2>1. 1 \in 1..n /\ \A i \in 2..n : i \in 1..n /\ i # 1
      BY <1>1
    <2> QED
      BY <1>5, <2>1
  <1> QED
    BY <1>0, <1>4, <1>7, <1>8 DEF Flattened

\* c comes in q behind position k
After(q, k, c) == \E i \in DOMAIN q : i > k /\ q[i] = c

LEMMA ConcatAfter ==
  ASSUME NEW S, NEW p \in Seq(S), NEW s \in Seq(S), NEW k, NEW c
  PROVE  /\ After(p, k, c) => After(p \o s, k, c)
         /\ \A v \in DOMAIN s : k \in Int /\ k < Len(p) + v /\ s[v] = c => After(p \o s, k, c)
  <1>1. /\ p \o s \in Seq(S) /\ Len(p \o s) = Len(p) + Len(s)
        /\ \A i \in DOMAIN p : i \in DOMAIN (p \o s) /\ (p \o s)[i] = p[i]
        /\ \A v \in DOMAIN s : /\ Len(p) + v \in DOMAIN (p \o s)
                               /\ (p \o s)[Len(p) + v] = s[v]
    OBVIOUS
  <1> QED
    BY <1>1 DEF After

\* q is made of the first m of the sequences, in their order
Trail(q, seqs, m) ==
  /\ \A i \in 1..m : \A u \in DOMAIN seqs[i] : After(q, 0, seqs[i][u])
  /\ \A k \in DOMAIN q : \E i \in 1..m : \E u \in DOMAIN seqs[i] :
       /\ q[k] = seqs[i][u]
       /\ \A j \in 1..m : \A v \in DOMAIN seqs[j] :
            j > i \/ (j = i /\ v > u) => After(q, k, seqs[j][v])

LEMMA TrailGrows ==
  ASSUME NEW S, NEW seqs, NEW m \in Nat, NEW p \in Seq(S), Trail(p, seqs, m), seqs[m + 1] \in Seq(S)
  PROVE  Trail(p \o seqs[m + 1], seqs, m + 1)
  <1> DEFINE s == seqs[m + 1]
             q == p \o s
  <1>1. s \in Seq(S) /\ \A u \in DOMAIN s : u \in Nat \ {0}
    OBVIOUS
  <1>0. PICK len : len = Len(p)
    OBVIOUS
  <1>2. /\ q \in Seq(S) /\ len \in Nat
        /\ \A k \in DOMAIN q : \/ k \in DOMAIN p /\ q[k] = p[k] /\ k <= len /\ k \in Nat
                              \/ /\ k \in Nat /\ k > len /\ k - len \in DOMAIN s
                                 /\ q[k] = s[k - len]
    BY <1>0
  <1>3. \A k, c : After(p, k, c) => After(q, k, c)
    BY <1>1, ConcatAfter
  <1>4. \A k \in Int : \A v \in DOMAIN s : k < len + v => After(q, k, s[v])
    BY <1>0, <1>1, ConcatAfter
  <1> HIDE DEF q, s
  <1>5. \A i \in 1..(m + 1) : i # m + 1 => i \in 1..m
    OBVIOUS
  <1>6. \A i \in 1..(m + 1) : \A u \in DOMAIN seqs[i] : After(q, 0, seqs[i][u])
    <2> SUFFICES ASSUME NEW i \in 1..(m + 1), NEW u \in DOMAIN seqs[i]
                 PROVE  After(q, 0, seqs[i][u])
      OBVIOUS
    <2>1. CASE i = m + 1
      <3>1. u \in DOMAIN s /\ u \in Nat \ {0} /\ seqs[i][u] = s[u]
        BY <1>1, <2>1 DEF s
      <3>2. 0 \in Int /\ 0 < len + u
        BY <1>2, <3>1
      <3> QED
        BY <1>4, <3>1, <3>2
    <2>2. CASE i # m + 1
      BY <1>3, <1>5, <2>2 DEF Trail
    <2> QED
      BY <2>1, <2>2
  <1>7. ASSUME NEW k \in DOMAIN q
        PROVE  \E i \in 1..(m + 1) : \E u \in DOMAIN seqs[i] :
                 /\ q[k] = seqs[i][u]
                 /\ \A j \in 1..(m + 1) : \A v \in DOMAIN seqs[j] :
                      j > i \/ (j = i /\ v > u) => After(q, k, seqs[j][v])
    <2>1. CASE k \in DOMAIN p /\ q[k] = p[k] /\ k <= len /\ k \in Nat
      <3>0. PICK i \in 1..m : \E u \in DOMAIN seqs[i] :
              /\ p[k] = seqs[i][u]
              /\ \A j \in 1..m : \A v \in DOMAIN seqs[j] :
                   j > i \/ (j = i /\ v > u) => After(p, k, seqs[j][v])
        BY <2>1 DEF Trail
      <3>1. PICK u \in DOMAIN seqs[i] :
              /\ p[k] = seqs[i][u]
              /\ \A j \in 1..m : \A v \in DOMAIN seqs[j] :
                   j > i \/ (j = i /\ v > u) => After(p, k, seqs[j][v])
        BY <3>0
      <3>2. \A v \in DOMAIN seqs[m + 1] : After(q, k, seqs[m + 1][v])
        <4>1. \A v \in DOMAIN s : k < len + v
          BY <1>1, <1>2, <2>1
        <4>2. \A v \in DOMAIN s : After(q, k, s[v])
          BY <1>4, <2>1, <4>1
        <4> QED
          BY <4>2 DEF s
      <3>3. \A j \in 1..(m + 1) : \A v \in DOMAIN seqs[j] :
              j > i \/ (j = i /\ v > u) => After(q, k, seqs[j][v])
        BY <1>3, <1>5, <3>1, <3>2
      <3>4. i \in 1..(m + 1)
        OBVIOUS
      <3> QED
        BY <2>1, <3>1, <3>3, <3>4
    <2>2. CASE k \in Nat /\ k > len /\ k - len \in DOMAIN s /\ q[k] = s[k - len]
      <3> DEFINE u == k - len
      <3>1. u \in DOMAIN seqs[m + 1] /\ q[k] = seqs[m + 1][u]
        BY <2>2 DEF s
      <3>2. \A v \in DOMAIN seqs[m + 1] : v > u => After(q, k, seqs[m + 1][v])
        <4>1. \A v \in DOMAIN s : v > u => k < len + v
          BY <1>1, <1>2, <2>2
        <4>2. \A v \in DOMAIN s : v > u => After(q, k, s[v])
          BY <1>4, <2>2, <4>1
        <4> QED
          BY <4>2 DEF s
      <3>3. \A j \in 1..(m + 1) : \A v \in DOMAIN seqs[j] :
              j > m + 1 \/ (j = m + 1 /\ v > u) => After(q, k, seqs[j][v])
        BY <1>5, <3>2
      <3>4. m + 1 \in 1..(m + 1)
        OBVIOUS
      <3> HIDE DEF u
      <3> QED
        BY <3>1, <3>3, <3>4
    <2> QED
      BY <1>2, <2>1, <2>2
  <1>8. Trail(q, seqs, m + 1)
    BY <1>6, <1>7 DEF Trail
  <1> QED
    BY <1>8 DEF q, s

\* FlattenSeq keeps the elements and their order.
LEMMA FlattenTrail ==
  ASSUME NEW S, NEW seqs \in Seq(Seq(S))
  PROVE  FlattenSeq(seqs) \in Seq(S) /\ Trail(FlattenSeq(seqs), seqs, Len(seqs))
  <1>1. CASE Len(seqs) = 0
    <2>1. FlattenSeq(seqs) = <<>>
      BY <1>1 DEF FlattenSeq
    <2> QED
      BY <1>1, <2>1 DEF Trail
  <1>2. CASE Len(seqs) # 0
    <2>1. PICK n : n = Len(seqs)
      OBVIOUS
    <2>2. n \in Nat \ {0} /\ \A i \in 1..n : seqs[i] \in Seq(S)
      BY <1>2, <2>1
    <2>0. PICK f : Flattened(f, S, seqs, n) /\ FlattenSeq(seqs) = f[n]
      BY <1>2, <2>1, FlattenSteps
    <2>3. /\ f \in [1..n -> Seq(S)] /\ f[1] = seqs[1]
          /\ \A i \in 2..n : f[i] = f[i - 1] \o seqs[i]
      BY <2>0 DEF Flattened
    <2> DEFINE bad == {i \in 1..n : ~ Trail(f[i], seqs, i)}
    <2>4. bad = {}
      <3> SUFFICES ASSUME bad # {} PROVE FALSE
        OBVIOUS
      <3>1. bad \subseteq Nat
        OBVIOUS
      <3>2. PICK i \in bad : \A j \in bad : i <= j
        <4> HIDE DEF bad
        <4> QED
          BY <3>1, LeastExists
      <3>3. <<>> \in Seq(S) /\ Trail(<<>>, seqs, 0)
        BY DEF Trail
      <3>4. Trail(<<>> \o seqs[1], seqs, 1) /\ <<>> \o seqs[1] = seqs[1]
        <4>1. 0 \in Nat /\ 0 + 1 = 1 /\ seqs[0 + 1] \in Seq(S)
          BY <2>2
        <4>2. Trail(<<>> \o seqs[0 + 1], seqs, 0 + 1)
          BY <3>3, <4>1, TrailGrows
        <4>3. <<>> \o seqs[1] = seqs[1]
          BY <4>1
        <4> QED
          BY <4>1, <4>2, <4>3
      <3>5. i # 1
        BY <2>3, <3>4
      <3>6. i - 1 \in 1..n /\ i - 1 \notin bad
        BY <2>2, <3>2, <3>5
      <3>7. Trail(f[i - 1], seqs, i - 1) /\ f[i - 1] \in Seq(S) /\ (i - 1) + 1 = i /\ i - 1 \in Nat
        BY <2>3, <3>6
      <3>8. Trail(f[i - 1] \o seqs[i], seqs, i)
        BY <2>2, <3>7, TrailGrows
      <3>9. f[i] = f[i - 1] \o seqs[i]
        <4>1. i \in 2..n
          BY <2>2, <3>5
        <4> QED
          BY <2>3, <4>1
      <3> QED
        BY <3>2, <3>8, <3>9
    <2>5. n \in 1..n
      BY <2>2
    <2> QED
      BY <2>0, <2>1, <2>3, <2>4, <2>5
  <1> QED
    BY <1>1, <1>2

-----------------------------------------------------------------------------
(* Periods in order. *)

LEMMA BeforeOrders ==
  ASSUME NEW p \in Period, NEW q \in Period
  PROVE  /\ ~ Before(p, p)
         /\ p # q => Before(p, q) \/ Before(q, p)
         /\ \A r \in Period : Before(p, q) /\ Before(q, r) => Before(p, r)
  BY DEF Period, Before

LEMMA OrderExists ==
  ASSUME NEW P, P \subseteq Period, IsFiniteSet(P)
  PROVE  \E s \in [1..Cardinality(P) -> P] :
           \A i, j \in DOMAIN s : i < j => Before(s[i], s[j])
  <1> DEFINE n == Cardinality(P)
             Less(p) == {q \in P : Before(q, p)}
             place == [p \in P |-> Cardinality(Less(p)) + 1]
  <1>1. n \in Nat
    BY FS_CardinalityType
  <1>2. \A p \in P : ~ Before(p, p)
    BY BeforeOrders
  <1>3. \A p \in P : IsFiniteSet(Less(p)) /\ Cardinality(Less(p)) \in Nat
    BY FS_Subset, FS_CardinalityType
  <1>4. ASSUME NEW p \in P, NEW q \in P, Before(p, q)
        PROVE  Cardinality(Less(p)) < Cardinality(Less(q))
    <2>1. Less(p) \in SUBSET Less(q) /\ p \in Less(q) /\ p \notin Less(p)
      <3>1. \A r \in P : Before(r, p) => Before(r, q)
        BY <1>4, BeforeOrders
      <3> QED
        BY <1>2, <1>4, <3>1
    <2> HIDE DEF Less
    <2>2. /\ Cardinality(Less(p)) <= Cardinality(Less(q))
          /\ Cardinality(Less(p)) # Cardinality(Less(q))
      BY <1>3, <2>1, FS_Subset
    <2> QED
      BY <1>3, <2>2
  <1>5. ASSUME NEW p \in P PROVE Cardinality(Less(p)) < n
    <2>1. Less(p) \in SUBSET P /\ p \notin Less(p)
      BY <1>2
    <2> HIDE DEF Less
    <2>2. Cardinality(Less(p)) <= n /\ Cardinality(Less(p)) # n
      BY <2>1, FS_Subset
    <2> QED
      BY <1>1, <1>3, <2>2
  <1>6. place \in [P -> 1..n]
    <2>1. \A p \in P : Cardinality(Less(p)) + 1 \in 1..n
      <3> HIDE DEF Less, n
      <3> QED
        BY <1>1, <1>3, <1>5
    <2> HIDE DEF Less, n
    <2> QED
      BY <2>1
  <1>7. \A p, q \in P : Before(p, q) => place[p] < place[q]
    <2> HIDE DEF Less
    <2> QED
      BY <1>3, <1>4
  <1> HIDE DEF place
  <1>8. \A p, q \in P : place[p] = place[q] => p = q
    <2>1. \A p, q \in P : Before(p, q) => place[p] # place[q]
      <3> SUFFICES ASSUME NEW p \in P, NEW q \in P, Before(p, q) PROVE place[p] # place[q]
        OBVIOUS
      <3>1. place[p] < place[q] /\ place[p] \in Nat /\ place[q] \in Nat
        BY <1>1, <1>6, <1>7
      <3> QED
        BY <3>1
    <2>2. \A p, q \in P : p # q => Before(p, q) \/ Before(q, p)
      BY BeforeOrders
    <2> QED
      BY <2>1, <2>2
  <1>9. place \in Surjection(P, 1..n)
    <2>1. place \in Injection(P, 1..n)
      BY <1>6, <1>8 DEF Injection, IsInjective
    <2>2. IsFiniteSet(1..n) /\ Cardinality(1..n) = n
      <3>1. 1 \in Int /\ n \in Int
        BY <1>1
      <3>2. IsFiniteSet(1..n) /\ Cardinality(1..n) = IF 1 > n THEN 0 ELSE n - 1 + 1
        BY <3>1, FS_Interval
      <3> HIDE DEF n
      <3> QED
        BY <1>1, <3>2
    <2> QED
      BY <2>1, <2>2, FS_Injection
  <1> DEFINE s == [k \in 1..n |-> CHOOSE p \in P : place[p] = k]
  <1>10. \A k \in 1..n : s[k] \in P /\ place[s[k]] = k
    <2> SUFFICES ASSUME NEW k \in 1..n PROVE s[k] \in P /\ place[s[k]] = k
      OBVIOUS
    <2>1. \E p \in P : place[p] = k
      BY <1>9 DEF Surjection
    <2>2. s[k] = CHOOSE p \in P : place[p] = k
      OBVIOUS
    <2> QED
      BY <2>1, <2>2
  <1>11. s \in [1..n -> P]
    BY <1>10
  <1> HIDE DEF s
  <1>12. ASSUME NEW i \in 1..n, NEW j \in 1..n, i < j
         PROVE  Before(s[i], s[j])
    <2>1. s[i] \in P /\ s[j] \in P /\ place[s[i]] = i /\ place[s[j]] = j
      BY <1>10
    <2>2. ~ Before(s[j], s[i])
      BY <1>1, <1>7, <1>12, <2>1
    <2>3. s[i] # s[j]
      BY <1>1, <1>12, <2>1
    <2>4. Before(s[i], s[j]) \/ Before(s[j], s[i])
      BY <2>1, <2>3, BeforeOrders
    <2> QED
      BY <2>2, <2>4
  <1> QED
    BY <1>11, <1>12

\* InOrder lists each period, the earlier ones first.
LEMMA OrderOK ==
  ASSUME NEW P, P \subseteq Period, IsFiniteSet(P)
  PROVE  /\ InOrder(P) \in Seq(P)
         /\ \A p \in P : \E i \in DOMAIN InOrder(P) : InOrder(P)[i] = p
         /\ \A i, j \in DOMAIN InOrder(P) : i < j => Before(InOrder(P)[i], InOrder(P)[j])
  <1> DEFINE n == Cardinality(P)
             s == InOrder(P)
  <1>1. n \in Nat
    BY FS_CardinalityType
  <1>2. s \in [1..n -> P] /\ \A i, j \in DOMAIN s : i < j => Before(s[i], s[j])
    BY OrderExists, Zenon DEF InOrder
  <1> HIDE DEF s
  <1>3. \A p \in P : ~ Before(p, p)
    BY DEF Period, Before
  <1>4. \A i, j \in 1..n : i # j => s[i] # s[j]
    BY <1>1, <1>2, <1>3
  <1>5. s \in Injection(1..n, P)
    BY <1>2, <1>4 DEF Injection, IsInjective
  <1>6. Cardinality(1..n) = n
    <2>1. 1 \in Int /\ n \in Int
      BY <1>1
    <2>2. Cardinality(1..n) = IF 1 > n THEN 0 ELSE n - 1 + 1
      BY <2>1, FS_Interval
    <2> HIDE DEF n
    <2> QED
      BY <1>1, <2>2
  <1>7. s \in Surjection(1..n, P)
    BY <1>5, <1>6, FS_Injection
  <1>8. \A p \in P : \E i \in DOMAIN s : s[i] = p
    BY <1>2, <1>7 DEF Surjection
  <1>9. s \in Seq(P)
    BY <1>1, <1>2
  <1> QED
    BY <1>2, <1>8, <1>9 DEF s

-----------------------------------------------------------------------------
(* Merged bookings. *)

\* m is what becomes of the bookings B: periods apart from each other that cover the
\* same instants, each one from the start of a booking
Merged(m, B) ==
  /\ m \in Seq(Period)
  /\ \A i, j \in DOMAIN m : i < j => m[i].stop < m[j].start
  /\ \A b \in B : \E i \in DOMAIN m : m[i].start <= b.start /\ b.stop <= m[i].stop
  /\ \A i \in DOMAIN m : \E b \in B : b.start = m[i].start
  /\ \A i \in DOMAIN m : \A t \in Nat : In(m[i], t) => \E b \in B : In(b, t)

LEMMA MergeOK ==
  ASSUME NEW m, NEW B, B \subseteq Period, Merged(m, B), NEW b \in Period,
         \A c \in B : c.start <= b.start
  PROVE  Merged(Merge(m, b), B \cup {b})
  <1>1. PICK n : n = Len(m)
    OBVIOUS
  <1>2. m \in Seq(Period) /\ n \in Nat /\ DOMAIN m = 1..n /\ \A i \in 1..n : m[i] \in Period
    BY <1>1 DEF Merged
  <1>3. b.start \in Nat /\ b.stop \in Nat /\ b.start < b.stop
    BY DEF Period
  <1>4. \A i \in 1..n : m[i].start \in Nat /\ m[i].stop \in Nat /\ m[i].start < m[i].stop
    BY <1>2 DEF Period
  <1>5. \A i \in 1..n : m[i].start <= b.start
    BY <1>2 DEF Merged
  <1>6. /\ \A i, j \in 1..n : i < j => m[i].stop < m[j].start
        /\ \A c \in B : \E i \in 1..n : m[i].start <= c.start /\ c.stop <= m[i].stop
        /\ \A i \in 1..n : \E c \in B : c.start = m[i].start
        /\ \A i \in 1..n : \A t \in Nat : In(m[i], t) => \E c \in B : In(c, t)
    BY <1>2 DEF Merged
  <1>7. \A c \in B : c.start \in Nat /\ c.stop \in Nat
    BY DEF Period
  <1>8. CASE Prolongs(m, b)
    <2>1. n # 0 /\ b.start <= m[n].stop
      BY <1>1, <1>2, <1>8 DEF Prolongs, Last
    <2> DEFINE r == [start |-> m[n].start, stop |-> Larger(m[n].stop, b.stop)]
               q == [i \in 1..n |-> IF i = n THEN r ELSE m[i]]
    <2>2. n \in 1..n /\ \A i \in 1..n : i # n => i < n
      BY <1>2, <2>1
    <2>3. r \in Period /\ r.stop >= m[n].stop /\ r.stop >= b.stop /\ (r.stop = m[n].stop \/ r.stop = b.stop)
      BY <1>3, <1>4, <2>2 DEF Larger, Period
    <2>4. Merge(m, b) = q
      <3>1. [m[n] EXCEPT !.stop = Larger(@, b.stop)] = r
        BY <1>2, <2>2 DEF Period
      <3>2. Merge(m, b) = Append(SubSeq(m, 1, n - 1), r)
        BY <1>1, <1>8, <3>1 DEF Merge, Last, Front
      <3> HIDE DEF r
      <3>3. SubSeq(m, 1, n - 1) \in Seq(Period) /\ Len(SubSeq(m, 1, n - 1)) = n - 1
            /\ \A i \in 1..(n - 1) : SubSeq(m, 1, n - 1)[i] = m[i]
        BY <1>1, <1>2, <2>1
      <3> QED
        BY <1>2, <2>1, <2>3, <3>2, <3>3
    <2>5. DOMAIN q = 1..n /\ q[n].start = m[n].start /\ q[n].stop = r.stop /\ q[n] = r
          /\ \A i \in 1..n : i # n => q[i] = m[i]
      BY <2>2
    <2>6. q \in Seq(Period)
      <3> HIDE DEF r
      <3> QED
        BY <1>2, <2>2, <2>3
    <2> HIDE DEF q, r
    <2>7. \A i, j \in 1..n : i < j => q[i].stop < q[j].start
      <3> SUFFICES ASSUME NEW i \in 1..n, NEW j \in 1..n, i < j PROVE q[i].stop < q[j].start
        OBVIOUS
      <3>1. i # n
        BY <1>2
      <3>2. q[i] = m[i] /\ q[j].start = m[j].start
        BY <2>5, <3>1
      <3> QED
        BY <1>6, <3>2
    <2>8. \A c \in B \cup {b} : \E i \in 1..n : q[i].start <= c.start /\ c.stop <= q[i].stop
      <3>1. CASE TRUE
        <4>1. q[n].start <= b.start /\ b.stop <= q[n].stop
          BY <1>5, <2>2, <2>3, <2>5
        <4>2. ASSUME NEW c \in B
              PROVE  \E i \in 1..n : q[i].start <= c.start /\ c.stop <= q[i].stop
          <5>1. PICK i \in 1..n : m[i].start <= c.start /\ c.stop <= m[i].stop
            BY <1>6
          <5>2. CASE i = n
            <6>1. r.stop \in Nat
              BY <2>3 DEF Period
            <6> QED
              BY <1>4, <1>7, <2>3, <2>5, <5>1, <5>2, <6>1
          <5> QED
            BY <2>5, <5>1, <5>2
        <4> QED
          BY <2>2, <4>1, <4>2
      <3> QED
        BY <3>1
    <2>9. \A i \in 1..n : \E c \in B \cup {b} : c.start = q[i].start
      BY <1>6, <2>5
    <2>10. ASSUME NEW i \in 1..n, NEW t \in Nat, In(q[i], t) PROVE \E c \in B \cup {b} : In(c, t)
      <3>1. CASE i # n
        BY <1>6, <2>5, <2>10, <3>1
      <3>2. CASE i = n
        <4>1. m[n].start <= t /\ t < r.stop
          BY <2>5, <2>10, <3>2 DEF In
        <4>2. In(m[n], t) \/ In(b, t)
          BY <1>3, <1>4, <1>5, <2>1, <2>2, <2>3, <4>1 DEF In
        <4> QED
          BY <1>6, <2>2, <4>2
      <3> QED
        BY <3>1, <3>2
    <2> QED
      BY <2>4, <2>5, <2>6, <2>7, <2>8, <2>9, <2>10 DEF Merged
  <1>9. CASE ~ Prolongs(m, b)
    <2>1. n # 0 => m[n].stop < b.start
      BY <1>1, <1>2, <1>3, <1>4, <1>9 DEF Prolongs, Last
    <2> DEFINE q == Append(m, b)
    <2>2. Merge(m, b) = q
      BY <1>9 DEF Merge
    <2>3. /\ q \in Seq(Period) /\ DOMAIN q = 1..(n + 1)
          /\ q[n + 1] = b /\ \A i \in 1..n : q[i] = m[i]
      BY <1>1, <1>2
    <2> HIDE DEF q
    <2>4. /\ n + 1 \in 1..(n + 1)
          /\ \A i \in 1..(n + 1) : i # n + 1 => i \in 1..n
          /\ \A i \in 1..n : i \in 1..(n + 1) /\ i <= n
      BY <1>2
    <2>5. \A i \in 1..n : m[i].stop < b.start
      <3> SUFFICES ASSUME NEW i \in 1..n PROVE m[i].stop < b.start
        OBVIOUS
      <3>1. n \in 1..n
        BY <1>2
      <3>2. i = n \/ i < n
        BY <1>2
      <3> QED
        <4>1. n # 0 /\ m[n].stop < b.start /\ m[n].start < m[n].stop
          BY <1>4, <2>1, <3>1
        <4>2. i < n => m[i].stop < m[n].start
          BY <1>6, <3>1
        <4> QED
          BY <1>3, <1>4, <3>1, <3>2, <4>1, <4>2
    <2>6. \A i, j \in 1..(n + 1) : i < j => q[i].stop < q[j].start
      <3> SUFFICES ASSUME NEW i \in 1..(n + 1), NEW j \in 1..(n + 1), i < j
                   PROVE  q[i].stop < q[j].start
        OBVIOUS
      <3>1. i \in 1..n
        BY <1>2
      <3> QED
        BY <1>6, <2>3, <2>4, <2>5, <3>1
    <2>7. \A c \in B \cup {b} : \E i \in 1..(n + 1) : q[i].start <= c.start /\ c.stop <= q[i].stop
      <3>1. q[n + 1].start <= b.start /\ b.stop <= q[n + 1].stop
        BY <1>3, <2>3
      <3>2. \A c \in B : \E i \in 1..n : q[i].start <= c.start /\ c.stop <= q[i].stop
        BY <1>6, <2>3
      <3>3. \A c \in B : \E i \in 1..(n + 1) : q[i].start <= c.start /\ c.stop <= q[i].stop
        <4> SUFFICES ASSUME NEW c \in B
                     PROVE  \E i \in 1..(n + 1) : q[i].start <= c.start /\ c.stop <= q[i].stop
          OBVIOUS
        <4>1. PICK i \in 1..n : q[i].start <= c.start /\ c.stop <= q[i].stop
          BY <3>2
        <4>2. i \in 1..(n + 1) /\ q[i] = m[i]
          BY <1>2, <2>3
        <4>3. q[i].start <= c.start /\ c.stop <= q[i].stop
          BY <4>1, <4>2
        <4> QED
          BY <4>2, <4>3
      <3> QED
        BY <2>4, <3>1, <3>3
    <2>8. \A i \in 1..(n + 1) : \E c \in B \cup {b} : c.start = q[i].start
      BY <1>6, <2>3, <2>4
    <2>9. \A i \in 1..(n + 1) : \A t \in Nat : In(q[i], t) => \E c \in B \cup {b} : In(c, t)
      BY <1>6, <2>3, <2>4
    <2> QED
      BY <2>2, <2>3, <2>6, <2>7, <2>8, <2>9 DEF Merged
  <1> QED
    BY <1>8, <1>9

Merges(f, s) == f = [i \in 0..Len(s) |-> IF i = 0 THEN <<>> ELSE Merge(f[i - 1], s[i])]

LEMMA MergesExist ==
  ASSUME NEW s \in Seq(Period)
  PROVE  \E f : Merges(f, s)
  <1>1. PICK n : n = Len(s)
    OBVIOUS
  <1>2. PICK T : T = Seq(Period)
    OBVIOUS
  <1>3. n \in Nat /\ <<>> \in T /\ \A i \in 1..n : s[i] \in Period
    BY <1>1, <1>2
  <1>4. \A x \in T, b \in Period : Merge(x, b) \in T
    <2> SUFFICES ASSUME NEW x \in Seq(Period), NEW b \in Period PROVE Merge(x, b) \in Seq(Period)
      BY <1>2
    <2>1. CASE Prolongs(x, b)
      <3>1. x # <<>> /\ Last(x) \in Period /\ Front(x) \in Seq(Period)
        <4>1. x # <<>>
          BY <2>1 DEF Prolongs
        <4> QED
          BY <4>1 DEF Last, Front
      <3>2. [Last(x) EXCEPT !.stop = Larger(@, b.stop)] \in Period
        <4>1. PICK r \in Period : r = Last(x)
          BY <3>1
        <4>2. [r EXCEPT !.stop = Larger(@, b.stop)] = [start |-> r.start, stop |-> Larger(r.stop, b.stop)]
          BY DEF Period
        <4>3. [start |-> r.start, stop |-> Larger(r.stop, b.stop)] \in Period
          BY DEF Period, Larger
        <4> QED
          BY <4>1, <4>2, <4>3
      <3> QED
        BY <2>1, <3>1, <3>2 DEF Merge
    <2>2. CASE ~ Prolongs(x, b)
      BY <2>2 DEF Merge
    <2> QED
      BY <2>1, <2>2
  <1>5. PICK step : step = [i \in 1..n |-> [x \in T |-> Merge(x, s[i])]]
    OBVIOUS
  <1>6. step \in [1..n -> [T -> T]]
    BY <1>3, <1>4, <1>5
  <1>7. \A i \in 1..n, x \in T : step[i][x] = Merge(x, s[i])
    BY <1>5
  <1>8. PICK g : Steps(g, T, <<>>, n, step)
    BY <1>3, <1>6, StepsExist
  <1>9. \A i \in 0..n : g[i] = IF i = 0 THEN <<>> ELSE Merge(g[i - 1], s[i])
    <2> SUFFICES ASSUME NEW i \in 0..n, i # 0 PROVE g[i] = Merge(g[i - 1], s[i])
      BY <1>8 DEF Steps
    <2>1. i \in 1..n /\ i - 1 \in 0..n
      BY <1>3
    <2>2. g[i] = step[i][g[i - 1]] /\ g[i - 1] \in T
      BY <1>8, <2>1 DEF Steps
    <2> QED
      BY <1>7, <2>1, <2>2
  <1>10. g = [i \in 0..n |-> g[i]]
    BY <1>8 DEF Steps
  <1>11. g = [i \in 0..n |-> IF i = 0 THEN <<>> ELSE Merge(g[i - 1], s[i])]
    BY <1>9, <1>10
  <1> QED
    BY <1>1, <1>11 DEF Merges

\* mergeBookings returns the union of the bookings as periods apart from each other, in
\* order, for any bookings, also those that touch, overlap or lie in each other; so no
\* "off" of one period falls on the "on" of the next.
THEOREM BookingsAreMerged ==
  ASSUME NEW B, B \subseteq Period, IsFiniteSet(B)
  PROVE  Merged(mergeBookings(B), B)
  <1>1. PICK s : s = InOrder(B)
    OBVIOUS
  <1>2. PICK n : n = Len(s)
    OBVIOUS
  <1>3. /\ s \in Seq(B) /\ s \in Seq(Period) /\ DOMAIN s = 1..n /\ n \in Nat
        /\ \A i \in 1..n : s[i] \in B
        /\ \A p \in B : \E i \in 1..n : s[i] = p
        /\ \A i, j \in 1..n : i < j => Before(s[i], s[j])
    <2>1. s \in Seq(B)
      BY <1>1, OrderOK
    <2>2. DOMAIN s = 1..n /\ n \in Nat /\ s \in Seq(Period)
      BY <1>2, <2>1
    <2> QED
      BY <1>1, <2>1, <2>2, OrderOK
  <1> DEFINE f == CHOOSE x : Merges(x, s)
  <1>4. Merges(f, s)
    BY <1>3, MergesExist, Zenon
  <1>5. mergeBookings(B) = f[n]
    BY <1>1, <1>2 DEF mergeBookings, Merges
  <1> HIDE DEF f
  <1>6. f[0] = <<>> /\ \A i \in 1..n : f[i] = Merge(f[i - 1], s[i])
    BY <1>2, <1>3, <1>4 DEF Merges
  <1> DEFINE Sofar(i) == {s[j] : j \in 1..i}
             bad == {i \in 0..n : ~ Merged(f[i], Sofar(i))}
  <1>7. bad = {}
    <2> SUFFICES ASSUME bad # {} PROVE FALSE
      OBVIOUS
    <2>1. PICK i \in bad : \A j \in bad : i <= j
      <3>1. bad \subseteq Nat
        OBVIOUS
      <3> HIDE DEF bad
      <3> QED
        BY <3>1, LeastExists
    <2>2. i # 0
      <3>1. Sofar(0) = {}
        OBVIOUS
      <3>2. Merged(<<>>, {})
        BY DEF Merged
      <3> QED
        BY <1>6, <2>1, <3>1, <3>2
    <2>3. i \in 1..n /\ i - 1 \in 0..n /\ i - 1 \notin bad
      <3>1. i \in 0..n
        OBVIOUS
      <3> HIDE DEF bad
      <3> QED
        BY <1>3, <2>1, <2>2, <3>1
    <2>4. Merged(f[i - 1], Sofar(i - 1))
      BY <2>3
    <2>5. Sofar(i) = Sofar(i - 1) \cup {s[i]}
      <3>1. \A j \in Int : j \in 1..i <=> j \in 1..(i - 1) \/ j = i
        BY <1>3, <2>3
      <3> QED
        BY <3>1
    <2>6. Sofar(i - 1) \subseteq Period
      BY <1>3, <2>3
    <2>7. \A c \in Sofar(i - 1) : c.start <= s[i].start
      <3> SUFFICES ASSUME NEW j \in 1..(i - 1) PROVE s[j].start <= s[i].start
        OBVIOUS
      <3>1. j \in 1..n /\ j < i
        BY <1>3, <2>3
      <3>2. s[j] \in Period /\ s[i] \in Period /\ Before(s[j], s[i])
        BY <1>3, <2>3, <3>1
      <3> QED
        BY <3>2 DEF Before, Period
    <2>8. s[i] \in Period
      BY <1>3, <2>3
    <2> HIDE DEF Sofar
    <2>9. Merged(Merge(f[i - 1], s[i]), Sofar(i - 1) \cup {s[i]})
      BY <2>4, <2>6, <2>7, <2>8, MergeOK
    <2>10. Merged(f[i], Sofar(i))
      BY <1>6, <2>3, <2>5, <2>9
    <2> QED
      BY <2>1, <2>10
  <1>8. Merged(f[n], Sofar(n))
    <2>1. n \in 0..n
      BY <1>3
    <2>2. n \notin bad
      BY <1>7
    <2> HIDE DEF Sofar
    <2> QED
      BY <2>1, <2>2
  <1>9. Sofar(n) = B
    BY <1>3
  <1> QED
    BY <1>5, <1>8, <1>9

-----------------------------------------------------------------------------
(* The calls of a plan, in their order. *)

\* q is p and then s
Joined(q, p, s) ==
  /\ \A c : After(q, 0, c) <=> After(p, 0, c) \/ After(s, 0, c)
  /\ \A k \in DOMAIN q :
       \/ /\ k \in DOMAIN p /\ q[k] = p[k]
          /\ \A c : After(p, k, c) \/ After(s, 0, c) => After(q, k, c)
       \/ \E v \in DOMAIN s : q[k] = s[v] /\ \A c : After(s, v, c) => After(q, k, c)

LEMMA Join ==
  ASSUME NEW S, NEW p \in Seq(S), NEW s \in Seq(S)
  PROVE  p \o s \in Seq(S) /\ Joined(p \o s, p, s)
  <1> DEFINE q == p \o s
  <1>1. PICK len : len = Len(p)
    OBVIOUS
  <1>2. /\ q \in Seq(S) /\ len \in Nat
        /\ \A k \in DOMAIN p : k \in DOMAIN q /\ q[k] = p[k] /\ k <= len /\ k \in Nat /\ k > 0
        /\ \A v \in DOMAIN s : v \in Nat /\ v > 0 /\ len + v \in DOMAIN q /\ q[len + v] = s[v]
        /\ \A k \in DOMAIN q : k \in DOMAIN p \/ (k \in Nat /\ k - len \in DOMAIN s /\ q[k] = s[k - len])
    BY <1>1
  <1> HIDE DEF q
  <1>3. \A c : After(q, 0, c) <=> After(p, 0, c) \/ After(s, 0, c)
    <2> TAKE c
    <2>1. ASSUME After(p, 0, c) PROVE After(q, 0, c)
      BY <1>2, <2>1 DEF After
    <2>2. ASSUME After(s, 0, c) PROVE After(q, 0, c)
      <3>1. PICK v \in DOMAIN s : s[v] = c
        BY <2>2 DEF After
      <3>2. len + v \in DOMAIN q /\ q[len + v] = c /\ len + v > 0
        BY <1>2, <3>1
      <3> QED
        BY <3>2 DEF After
    <2>3. ASSUME After(q, 0, c) PROVE After(p, 0, c) \/ After(s, 0, c)
      <3>1. PICK k \in DOMAIN q : q[k] = c
        BY <2>3 DEF After
      <3>2. CASE k \in DOMAIN p
        BY <1>2, <3>1, <3>2 DEF After
      <3>3. CASE k - len \in DOMAIN s /\ q[k] = s[k - len]
        BY <1>2, <3>1, <3>3 DEF After
      <3> QED
        BY <1>2, <3>2, <3>3
    <2> QED
      BY <2>1, <2>2, <2>3
  <1>4. ASSUME NEW k \in DOMAIN q
        PROVE  \/ /\ k \in DOMAIN p /\ q[k] = p[k]
                  /\ \A c : After(p, k, c) \/ After(s, 0, c) => After(q, k, c)
               \/ \E v \in DOMAIN s : q[k] = s[v] /\ \A c : After(s, v, c) => After(q, k, c)
    <2>1. CASE k \in DOMAIN p
      <3>1. \A c : After(p, k, c) => After(q, k, c)
        BY <1>2 DEF After
      <3>2. \A c : After(s, 0, c) => After(q, k, c)
        <4> SUFFICES ASSUME NEW c, After(s, 0, c) PROVE After(q, k, c)
          OBVIOUS
        <4>1. PICK v \in DOMAIN s : s[v] = c
          BY DEF After
        <4>2. len + v \in DOMAIN q /\ q[len + v] = c /\ len + v > k
          BY <1>2, <2>1, <4>1
        <4> QED
          BY <4>2 DEF After
      <3> QED
        BY <1>2, <2>1, <3>1, <3>2
    <2>2. CASE k \in Nat /\ k - len \in DOMAIN s /\ q[k] = s[k - len]
      <3>1. \A c : After(s, k - len, c) => After(q, k, c)
        <4> SUFFICES ASSUME NEW c, After(s, k - len, c) PROVE After(q, k, c)
          OBVIOUS
        <4>1. PICK v \in DOMAIN s : v > k - len /\ s[v] = c
          BY DEF After
        <4>2. len + v \in DOMAIN q /\ q[len + v] = c /\ len + v > k
          BY <1>2, <2>2, <4>1
        <4> QED
          BY <4>2 DEF After
      <3> QED
        BY <2>2, <3>1
    <2> QED
      BY <1>2, <2>1, <2>2
  <1>5. Joined(q, p, s)
    BY <1>3, <1>4 DEF Joined
  <1> QED
    BY <1>2, <1>5 DEF q

LEMMA IfOK ==
  ASSUME NEW S, NEW cond \in BOOLEAN, NEW call, cond => call \in S
  PROVE  /\ If(cond, call) \in Seq(S)
         /\ \A u \in DOMAIN If(cond, call) : cond /\ If(cond, call)[u] = call
         /\ cond => After(If(cond, call), 0, call)
  BY DEF If, After

LEMMA OneOK ==
  ASSUME NEW S, NEW call \in S
  PROVE  /\ <<call>> \in Seq(S)
         /\ \A u \in DOMAIN <<call>> : <<call>>[u] = call
         /\ After(<<call>>, 0, call)
  BY DEF After

PlanOK(P) ==
  P.slots \cup P.bookings \subseteq Period /\ IsFiniteSet(P.slots) /\ IsFiniteSet(P.bookings)

CreateOf(e) == [op |-> "create", entry |-> e]

LightsJobs ==
  {Set("lights")} \cup {CreateOf(e) : e \in [switch : {"lights"}, at : Nat, on : BOOLEAN]}
  \cup [op : {"blinks"}, ends : SUBSET Nat]

FanJobs ==
  {Set("fan")} \cup {CreateOf(e) : e \in [switch : {"fan"}, at : Nat, on : BOOLEAN]}
  \cup {[op |-> "cancelFanCooldowns"]} \cup [op : {"later", "resume"}, end : Nat]

Jobs == LightsJobs \cup FanJobs

Lit(P) == {mergeBookings(P.bookings)[i] : i \in DOMAIN mergeBookings(P.bookings)}
Covered(P, t) == \E b \in P.bookings : In(b, t)

\* what the schedule is given for the lights by a plan applied at t
LightsEntries(P, t) ==
  {Entry("lights", p.start, TRUE) : p \in {x \in Lit(P) : x.start > t}}
  \cup {Entry("lights", p.stop, FALSE) : p \in {x \in Lit(P) : x.stop > t}}

\* The lights go on in a booking only, before the schedule is given.
LightsTodo(q, P, t) ==
  \A k \in DOMAIN q :
    /\ q[k].op = "create" /\ q[k].entry.switch = "lights" => q[k].entry \in LightsEntries(P, t)
    /\ q[k] = Set("lights") =>
         Covered(P, t) /\ \A e \in LightsEntries(P, t) : After(q, k, CreateOf(e))

\* ... and the schedule is given whole.
LightsWhole(q, P, t) ==
  /\ \A e \in LightsEntries(P, t) : After(q, 0, CreateOf(e))
  /\ Covered(P, t) => After(q, 0, Set("lights"))

\* After the blinks no call is about the lights.
BlinksLast(q) ==
  \A j, k \in DOMAIN q : j < k /\ q[j].op = "blinks" => q[k] \in FanJobs

LEMMA BlinksLastOK ==
  ASSUME NEW p \in Seq(Jobs), \A k \in DOMAIN p : p[k].op # "blinks",
         NEW b \in Jobs, NEW r \in Seq(FanJobs)
  PROVE  BlinksLast((p \o <<b>>) \o r)
  <1>1. PICK len : len = Len(p)
    OBVIOUS
  <1>2. PICK q : q = (p \o <<b>>) \o r
    OBVIOUS
  <1>3. r \in Seq(Jobs) /\ \A k \in DOMAIN r : r[k] \in FanJobs
    BY DEF Jobs
  <1>4. /\ len \in Nat /\ q \in Seq(Jobs)
        /\ \A k \in DOMAIN q :
             \/ k \in DOMAIN p /\ q[k] = p[k]
             \/ k = len + 1
             \/ k > len + 1 /\ k - (len + 1) \in DOMAIN r /\ q[k] = r[k - (len + 1)]
    <2>1. PICK u : u = p \o <<b>>
      OBVIOUS
    <2>2. /\ len \in Nat /\ u \in Seq(Jobs) /\ Len(u) = len + 1
          /\ \A k \in DOMAIN u : (k \in DOMAIN p /\ u[k] = p[k]) \/ k = len + 1
      BY <1>1, <2>1
    <2>3. q = u \o r
      BY <1>2, <2>1
    <2>4. /\ q \in Seq(Jobs)
          /\ \A k \in DOMAIN q :
               \/ k \in DOMAIN u /\ q[k] = u[k]
               \/ k > len + 1 /\ k - (len + 1) \in DOMAIN r /\ q[k] = r[k - (len + 1)]
      <3>1. r \in Seq(Jobs) /\ u \in Seq(Jobs) /\ Len(u) = len + 1
        BY <1>3, <2>2
      <3>2. /\ q \in Seq(Jobs) /\ Len(q) = (len + 1) + Len(r)
            /\ \A k \in 1..Len(q) : q[k] = IF k <= len + 1 THEN u[k] ELSE r[k - (len + 1)]
        <4>1. /\ u \o r \in Seq(Jobs)
              /\ Len(u \o r) = Len(u) + Len(r)
              /\ \A k \in 1 .. Len(u) + Len(r) :
                    (u \o r)[k] = IF k <= Len(u) THEN u[k] ELSE r[k - Len(u)]
          BY ONLY <3>1, ConcatProperties
        <4>2. /\ q \in Seq(Jobs)
              /\ Len(q) = Len(u) + Len(r)
              /\ \A k \in 1 .. Len(q) :
                    q[k] = IF k <= Len(u) THEN u[k] ELSE r[k - Len(u)]
          BY ONLY <4>1, <2>3, Zenon
        <4> QED
          BY ONLY <3>1, <4>2
      <3>3. PICK lr : lr = Len(r)
        OBVIOUS
      <3>4. lr \in Nat /\ DOMAIN r = 1..lr /\ DOMAIN u = 1..(len + 1)
            /\ Len(q) = (len + 1) + lr /\ DOMAIN q = 1..Len(q)
        BY <3>1, <3>2, <3>3
      <3>5. ASSUME NEW k \in DOMAIN q, k > len + 1
            PROVE  k - (len + 1) \in DOMAIN r /\ q[k] = r[k - (len + 1)]
        <4>1. k \in Int /\ k <= (len + 1) + lr
          BY <2>2, <3>4
        <4> QED
          BY <2>2, <3>2, <3>4, <3>5, <4>1
      <3>6. ASSUME NEW k \in DOMAIN q, ~ (k > len + 1)
            PROVE  k \in DOMAIN u /\ q[k] = u[k]
        <4>1. k \in Int /\ k >= 1
          BY <2>2, <3>4
        <4> QED
          BY <2>2, <3>2, <3>4, <3>6, <4>1
      <3>7. \A k \in DOMAIN q :
              \/ k \in DOMAIN u /\ q[k] = u[k]
              \/ k > len + 1 /\ k - (len + 1) \in DOMAIN r /\ q[k] = r[k - (len + 1)]
        BY <3>5, <3>6, Zenon
      <3>8. q \in Seq(Jobs)
        BY <3>2
      <3> QED
        BY <3>7, <3>8
    <2> QED
      BY <2>2, <2>4
  <1>5. \A k \in DOMAIN q : k \in Int
    BY <1>4
  <1>6. \A k \in DOMAIN r : r[k].op # "blinks"
    BY <1>3 DEF FanJobs, Set, CreateOf
  <1>7. ASSUME NEW j \in DOMAIN q, NEW k \in DOMAIN q, j < k, q[j].op = "blinks"
        PROVE  q[k] \in FanJobs
    <2>1. j >= len + 1
      BY <1>4, <1>5, <1>6, <1>7
    <2>2. k > len + 1 /\ ~ (k \in DOMAIN p)
      BY <1>1, <1>4, <1>5, <1>7, <2>1
    <2> QED
      BY <1>3, <1>4, <2>2
  <1> QED
    BY <1>2, <1>7 DEF BlinksLast


LEMMA LitOK ==
  ASSUME NEW P, PlanOK(P)
  PROVE  /\ Lit(P) \subseteq Period
         /\ \A p, r \in Lit(P) : p = r \/ p.stop < r.start \/ r.stop < p.start
         /\ \A t \in Nat : (\E p \in Lit(P) : In(p, t)) <=> Covered(P, t)
  <1>1. PICK m : m = mergeBookings(P.bookings)
    OBVIOUS
  <1>2. Merged(m, P.bookings)
    BY <1>1, BookingsAreMerged DEF PlanOK
  <1>3. m \in Seq(Period)
    BY <1>2 DEF Merged
  <1>4. \A i \in DOMAIN m : m[i] \in Period /\ i \in Nat
    BY <1>3
  <1>5. Lit(P) = {m[i] : i \in DOMAIN m}
    BY <1>1 DEF Lit
  <1>6. \A p, r \in Lit(P) : p = r \/ p.stop < r.start \/ r.stop < p.start
    <2> SUFFICES ASSUME NEW i \in DOMAIN m, NEW j \in DOMAIN m
                 PROVE  m[i] = m[j] \/ m[i].stop < m[j].start \/ m[j].stop < m[i].start
      BY <1>5
    <2>1. i = j \/ i < j \/ j < i
      BY <1>4
    <2> QED
      BY <1>2, <2>1 DEF Merged
  <1>7. ASSUME NEW t \in Nat PROVE (\E p \in Lit(P) : In(p, t)) <=> Covered(P, t)
    <2>1. ASSUME NEW i \in DOMAIN m, In(m[i], t) PROVE Covered(P, t)
      BY <1>2, <2>1 DEF Merged, Covered
    <2>2. ASSUME NEW b \in P.bookings, In(b, t) PROVE \E i \in DOMAIN m : In(m[i], t)
      <3>1. PICK i \in DOMAIN m : m[i].start <= b.start /\ b.stop <= m[i].stop
        BY <1>2 DEF Merged
      <3>2. b \in Period /\ m[i] \in Period
        BY <1>4 DEF PlanOK
      <3>3. In(m[i], t)
        BY <2>2, <3>1, <3>2 DEF In, Period
      <3> QED
        BY <3>3
    <2> QED
      BY <1>5, <2>1, <2>2 DEF Covered
  <1> QED
    BY <1>4, <1>5, <1>6, <1>7

LEMMA LightsCallsOK ==
  ASSUME NEW P, PlanOK(P), NEW t \in Nat
  PROVE  /\ LightsCalls(P, t) \in Seq(LightsJobs)
         /\ LightsTodo(LightsCalls(P, t), P, t)
         /\ LightsWhole(LightsCalls(P, t), P, t)
         /\ \A r \in Seq(FanJobs) : BlinksLast(LightsCalls(P, t) \o r)
  <1>1. PICK m : m = mergeBookings(P.bookings)
    OBVIOUS
  <1>2. Merged(m, P.bookings)
    BY <1>1, BookingsAreMerged DEF PlanOK
  <1>3. m \in Seq(Period)
    BY <1>2 DEF Merged
  <1>4. PICK n : n = Len(m)
    OBVIOUS
  <1>5. n \in Nat /\ DOMAIN m = 1..n /\ \A i \in 1..n : m[i].start \in Nat /\ m[i].stop \in Nat
    <2>1. \A i \in 1..n : m[i] \in Period
      BY <1>3, <1>4
    <2> QED
      BY <1>3, <1>4, <2>1 DEF Period
  <1>6. Lit(P) = {m[i] : i \in 1..n}
    BY <1>1, <1>5 DEF Lit
  <1> DEFINE On(i) == If(m[i].start > t, Create("lights", m[i].start, TRUE))
             Off(i) == If(m[i].stop > t, Create("lights", m[i].stop, FALSE))
             seqs == [i \in DOMAIN m |-> On(i) \o Off(i)]
             A == If(\E i \in DOMAIN m : In(m[i], t), Set("lights"))
             E == FlattenSeq(seqs)
             blinks == [op |-> "blinks", ends |-> {s.stop : s \in {r \in P.slots : r.stop > t}}]
             B == <<blinks>>
  <1>7. LightsCalls(P, t) = (A \o E) \o B
    BY <1>1 DEF LightsCalls, Each
  <1>8. PICK T : T = Seq(LightsJobs)
    OBVIOUS
  <1>9. (\E i \in DOMAIN m : In(m[i], t)) <=> Covered(P, t)
    BY <1>5, <1>6, LitOK
  <1>10. /\ A \in T /\ (\A u \in DOMAIN A : Covered(P, t) /\ A[u] = Set("lights"))
         /\ Covered(P, t) => After(A, 0, Set("lights"))
    <2>1. Set("lights") \in LightsJobs
      BY DEF LightsJobs
    <2>2. (\E i \in DOMAIN m : In(m[i], t)) \in BOOLEAN
      OBVIOUS
    <2> QED
      BY <1>8, <1>9, <2>1, <2>2, IfOK
  <1>11. /\ blinks \in [op : {"blinks"}, ends : SUBSET Nat] /\ blinks \in LightsJobs
         /\ B \in T /\ (\A u \in DOMAIN B : B[u] = blinks) /\ After(B, 0, blinks)
    <2>1. blinks \in [op : {"blinks"}, ends : SUBSET Nat]
      <3>1. \A s \in P.slots : s.stop \in Nat
        BY DEF PlanOK, Period
      <3> QED
        BY <3>1
    <2> HIDE DEF blinks
    <2>2. blinks \in LightsJobs
      BY <2>1 DEF LightsJobs
    <2> QED
      BY <1>8, <2>1, <2>2, OneOK
  <1>12. ASSUME NEW i \in 1..n
         PROVE  /\ seqs[i] \in T
                /\ \A u \in DOMAIN seqs[i] : \E e \in LightsEntries(P, t) : seqs[i][u] = CreateOf(e)
                /\ m[i].start > t => After(seqs[i], 0, Create("lights", m[i].start, TRUE))
                /\ m[i].stop > t => After(seqs[i], 0, Create("lights", m[i].stop, FALSE))
    <2> DEFINE on == Create("lights", m[i].start, TRUE)
               off == Create("lights", m[i].stop, FALSE)
    <2>1. on \in LightsJobs /\ off \in LightsJobs
      <3>1. /\ on = CreateOf(Entry("lights", m[i].start, TRUE))
            /\ off = CreateOf(Entry("lights", m[i].stop, FALSE))
            /\ Entry("lights", m[i].start, TRUE) \in [switch : {"lights"}, at : Nat, on : BOOLEAN]
            /\ Entry("lights", m[i].stop, FALSE) \in [switch : {"lights"}, at : Nat, on : BOOLEAN]
        BY <1>5 DEF Create, CreateOf, Entry
      <3> HIDE DEF on, off
      <3> QED
        BY <3>1 DEF LightsJobs
    <2>2. /\ m[i].start > t => \E e \in LightsEntries(P, t) : on = CreateOf(e)
          /\ m[i].stop > t => \E e \in LightsEntries(P, t) : off = CreateOf(e)
      BY <1>6 DEF LightsEntries, Create, CreateOf
    <2>3. (m[i].start > t) \in BOOLEAN /\ (m[i].stop > t) \in BOOLEAN
      BY <1>5
    <2> HIDE DEF on, off
    <2>4. /\ On(i) \in T /\ (\A u \in DOMAIN On(i) : m[i].start > t /\ On(i)[u] = on)
          /\ m[i].start > t => After(On(i), 0, on)
      BY <1>8, <2>1, <2>3, IfOK DEF on
    <2>5. /\ Off(i) \in T /\ (\A u \in DOMAIN Off(i) : m[i].stop > t /\ Off(i)[u] = off)
          /\ m[i].stop > t => After(Off(i), 0, off)
      BY <1>8, <2>1, <2>3, IfOK DEF off
    <2>6. seqs[i] = On(i) \o Off(i)
      BY <1>5
    <2> HIDE DEF On, Off, seqs
    <2>7. seqs[i] \in T /\ Joined(seqs[i], On(i), Off(i))
      BY <1>8, <2>4, <2>5, <2>6, Join
    <2> QED
      BY <2>2, <2>4, <2>5, <2>7 DEF Joined, on, off
  <1>13. seqs \in Seq(Seq(LightsJobs)) /\ Len(seqs) = n
    <2>1. seqs \in [1..n -> T]
      <3> HIDE DEF On, Off
      <3> QED
        BY <1>5, <1>12
    <2> HIDE DEF seqs
    <2> QED
      BY <1>5, <1>8, <2>1
  <1> HIDE DEF seqs
  <1>14. E \in T /\ Trail(E, seqs, n)
    BY <1>8, <1>13, FlattenTrail
  <1> HIDE DEF E, A, B, blinks
  <1>15. /\ \A k \in DOMAIN E : \E e \in LightsEntries(P, t) : E[k] = CreateOf(e)
         /\ \A e \in LightsEntries(P, t) : After(E, 0, CreateOf(e))
    <2>1. \A k \in DOMAIN E : \E e \in LightsEntries(P, t) : E[k] = CreateOf(e)
      <3> SUFFICES ASSUME NEW k \in DOMAIN E PROVE \E e \in LightsEntries(P, t) : E[k] = CreateOf(e)
        OBVIOUS
      <3>1. PICK i \in 1..n : \E u \in DOMAIN seqs[i] : E[k] = seqs[i][u]
        BY <1>14 DEF Trail
      <3> QED
        BY <1>12, <3>1
    <2>2. \A i \in 1..n : \A c : After(seqs[i], 0, c) => After(E, 0, c)
      <3> SUFFICES ASSUME NEW i \in 1..n, NEW c, After(seqs[i], 0, c) PROVE After(E, 0, c)
        OBVIOUS
      <3>1. PICK u \in DOMAIN seqs[i] : seqs[i][u] = c
        BY DEF After
      <3> QED
        BY <1>14, <3>1 DEF Trail
    <2>3. \A e \in LightsEntries(P, t) : After(E, 0, CreateOf(e))
      BY <1>6, <1>12, <2>2 DEF LightsEntries, Create, CreateOf
    <2> QED
      BY <2>1, <2>3
  <1>16. PICK AE : AE = A \o E
    OBVIOUS
  <1>17. AE \in T /\ Joined(AE, A, E)
    BY <1>8, <1>10, <1>14, <1>16, Join
  <1>18. PICK q : q = AE \o B
    OBVIOUS
  <1>19. q \in T /\ Joined(q, AE, B) /\ LightsCalls(P, t) = q
    BY <1>7, <1>8, <1>11, <1>16, <1>17, <1>18, Join
  <1>20. ASSUME NEW r \in Seq(FanJobs) PROVE BlinksLast(q \o r)
    <2>1. \A k \in DOMAIN AE : AE[k].op # "blinks"
      <3> SUFFICES ASSUME NEW k \in DOMAIN AE PROVE AE[k].op # "blinks"
        OBVIOUS
      <3>1. (\E u \in DOMAIN A : AE[k] = A[u]) \/ (\E u \in DOMAIN E : AE[k] = E[u])
        BY <1>17 DEF Joined
      <3> QED
        BY <1>10, <1>15, <3>1 DEF Set, CreateOf
    <2>2. AE \in Seq(Jobs) /\ blinks \in Jobs
      <3>1. AE \in Seq(LightsJobs)
        BY <1>8, <1>17
      <3> QED
        BY <1>11, <3>1 DEF Jobs
    <2> QED
      BY <1>18, <2>1, <2>2, BlinksLastOK DEF B
  <1>21. LightsWhole(q, P, t)
    BY <1>10, <1>15, <1>17, <1>19 DEF LightsWhole, Joined
  <1>22. ASSUME NEW k \in DOMAIN q
         PROVE  \/ \E e \in LightsEntries(P, t) : q[k] = CreateOf(e)
                \/ q[k] = blinks
                \/ /\ q[k] = Set("lights") /\ Covered(P, t)
                   /\ \A e \in LightsEntries(P, t) : After(q, k, CreateOf(e))
    <2>1. CASE /\ k \in DOMAIN AE /\ q[k] = AE[k]
               /\ \A c : After(AE, k, c) \/ After(B, 0, c) => After(q, k, c)
      <3>1. CASE /\ k \in DOMAIN A /\ AE[k] = A[k]
                 /\ \A c : After(A, k, c) \/ After(E, 0, c) => After(AE, k, c)
        BY <1>10, <1>11, <1>15, <2>1, <3>1
      <3>2. CASE \E v \in DOMAIN E : AE[k] = E[v]
        BY <1>15, <2>1, <3>2
      <3> QED
        BY <1>17, <2>1, <3>1, <3>2 DEF Joined
    <2>2. CASE \E v \in DOMAIN B : q[k] = B[v]
      BY <1>11, <2>2
    <2> QED
      BY <1>19, <2>1, <2>2 DEF Joined
  <1>23. LightsTodo(q, P, t)
    <2>1. \A e : CreateOf(e).entry = e /\ CreateOf(e) # Set("lights") /\ CreateOf(e).op = "create"
      BY DEF CreateOf, Set
    <2>2. blinks.op = "blinks" /\ blinks # Set("lights") /\ Set("lights").op = "set"
      BY <1>11 DEF Set
    <2> QED
      BY <1>22, <2>1, <2>2 DEF LightsTodo
  <1> QED
    BY <1>8, <1>19, <1>20, <1>21, <1>23

\* The fan is switched off at the end of the slot or later, but before another slot.
LEMMA fanOffTimeOK ==
  ASSUME NEW P, PlanOK(P), NEW s \in P.slots
  PROVE  /\ fanOffTime(s, P) \in Nat /\ s.stop <= fanOffTime(s, P)
         /\ \A o \in P.slots : o.start >= s.stop =>
              /\ fanOffTime(s, P) <= o.start
              /\ fanOffTime(s, P) > s.stop => fanOffTime(s, P) < o.start
  <1> DEFINE caps == {s.stop + MaxTime} \cup
                     {other.start - Margin : other \in {o \in P.slots : o.start >= s.stop}}
             shifted == {c + Margin : c \in caps}
  <1>1. /\ MaxTime \in Nat /\ Margin \in Nat /\ Margin > 0
        /\ s.stop \in Nat /\ \A o \in P.slots : o.start \in Nat
    BY FansAssumption DEF PlanOK, Period
  <1>2. \A c \in caps : c \in Int /\ c + Margin \in Nat
    BY <1>1
  <1>3. shifted \subseteq Nat /\ shifted # {}
    <2> HIDE DEF caps
    <2>1. \E c : c \in caps
      BY DEF caps
    <2> QED
      BY <1>2, <2>1
  <1>4. \E c \in caps : \A d \in caps : c <= d
    <2>1. PICK x \in shifted : \A y \in shifted : x <= y
      <3> HIDE DEF shifted
      <3> QED
        BY <1>3, LeastExists
    <2> HIDE DEF caps
    <2>2. PICK c \in caps : x = c + Margin
      BY <2>1
    <2>3. \A d \in caps : c + Margin <= d + Margin
      BY <2>1, <2>2
    <2>4. \A d \in caps : c <= d
      BY <1>1, <1>2, <2>2, <2>3
    <2> QED
      BY <2>2, <2>4
  <1> DEFINE least == CHOOSE c \in caps : \A d \in caps : c <= d
  <1>5. least \in caps /\ \A d \in caps : least <= d
    <2> HIDE DEF caps
    <2> QED
      BY <1>4
  <1>6. fanOffTime(s, P) = Larger(least, s.stop)
    BY DEF fanOffTime
  <1>7. \A o \in P.slots : o.start >= s.stop => least <= o.start - Margin
    <2>1. \A o \in P.slots : o.start >= s.stop => o.start - Margin \in caps
      OBVIOUS
    <2> HIDE DEF caps, least
    <2> QED
      BY <1>5, <2>1
  <1>8. least \in Int
    <2> HIDE DEF caps, least
    <2> QED
      BY <1>2, <1>5
  <1> HIDE DEF least
  <1> QED
    BY <1>1, <1>6, <1>7, <1>8 DEF Larger

-----------------------------------------------------------------------------
(* The calls for the fan. *)

Overlapped(P) == {s \in P.slots : overlappingBookings(s, P) # {}}

Parts(s, P) ==
  {mergeBookings(overlappingBookings(s, P))[i] :
     i \in DOMAIN mergeBookings(overlappingBookings(s, P))}

Cooled(s, P) == fanOffTime(s, P) > s.stop

\* what the schedule is given for the fan by a plan applied at t
FanEntries(P, t) ==
  {Entry("fan", p.start, TRUE) :
     p \in {x \in UNION {Parts(s, P) : s \in Overlapped(P)} : x.start > t}}
  \cup {Entry("fan", fanOffTime(s, P), FALSE) :
          s \in {x \in Overlapped(P) : fanOffTime(x, P) > t}}

Later(s) == [op |-> "later", end |-> s.stop]
Resume(s) == [op |-> "resume", end |-> s.stop]

On(p) == CreateOf(Entry("fan", p.start, TRUE))
Off(s, P) == CreateOf(Entry("fan", fanOffTime(s, P), FALSE))

\* behind k comes what ends the fan of the slot s
Ended(q, k, s, P, t) ==
  /\ fanOffTime(s, P) > t => After(q, k, Off(s, P))
  /\ Cooled(s, P) /\ s.stop > t => After(q, k, Later(s))
  /\ Cooled(s, P) /\ s.stop <= t /\ t < fanOffTime(s, P) => After(q, k, Resume(s))

FanBegun(P, t) == \E s \in Overlapped(P) : \E p \in Parts(s, P) : In(p, t)

\* behind k comes all that a plan applied at t makes of the fan
FanWhole(q, k, P, t) ==
  /\ \A e \in FanEntries(P, t) : After(q, k, CreateOf(e))
  /\ FanBegun(P, t) => After(q, k, Set("fan"))
  /\ \A s \in Overlapped(P) : Cooled(s, P) =>
       /\ s.stop > t => After(q, k, Later(s))
       /\ s.stop <= t /\ t < fanOffTime(s, P) => After(q, k, Resume(s))

\* The fan goes on before the schedule ends it and its cooldowns are set up, the old
\* cooldowns are cancelled before anything, and the cooldown of a slot is set up before
\* the schedule has the next ones.
FanCallOK(q, k, P, t) ==
  /\ q[k].op = "create" /\ q[k].entry.switch = "fan" => q[k].entry \in FanEntries(P, t)
  /\ q[k] = Set("fan") =>
       \E s \in Overlapped(P) :
         /\ \E p \in Parts(s, P) : In(p, t)
         /\ \A r \in Overlapped(P) : r = s \/ Before(s, r) => Ended(q, k, r, P, t)
  /\ q[k].op = "cancelFanCooldowns" => FanWhole(q, k, P, t)
  /\ q[k].op \in {"later", "resume"} =>
       \E s \in Overlapped(P) :
         /\ q[k].end = s.stop /\ Cooled(s, P)
         /\ IF q[k].op = "later" THEN s.stop > t ELSE s.stop <= t /\ t < fanOffTime(s, P)
         /\ \A r \in Overlapped(P) : Before(s, r) =>
              \A p \in Parts(r, P) :
                p.start > t => After(q, k, CreateOf(Entry("fan", p.start, TRUE)))

FanTodo(q, P, t) == \A k \in DOMAIN q : FanCallOK(q, k, P, t)

LEMMA overlappingBookingsOK ==
  ASSUME NEW P, PlanOK(P), NEW s \in P.slots
  PROVE  /\ overlappingBookings(s, P) \subseteq Period
         /\ IsFiniteSet(overlappingBookings(s, P))
         /\ Merged(mergeBookings(overlappingBookings(s, P)), overlappingBookings(s, P))
  <1>1. overlappingBookings(s, P) \in SUBSET P.bookings
    BY DEF overlappingBookings
  <1>2. IsFiniteSet(overlappingBookings(s, P))
    BY <1>1, FS_Subset DEF PlanOK
  <1> QED
    BY <1>1, <1>2, BookingsAreMerged DEF PlanOK

\* The parts of a slot cover its bookings and start with one.
LEMMA PartsOK ==
  ASSUME NEW P, PlanOK(P), NEW s \in P.slots
  PROVE  /\ Parts(s, P) \subseteq Period
         /\ \A p \in Parts(s, P) : \E b \in overlappingBookings(s, P) : b.start = p.start
         /\ \A p \in Parts(s, P) : \A t \in Nat :
              In(p, t) => \E b \in overlappingBookings(s, P) : In(b, t)
         /\ \A b \in overlappingBookings(s, P) :
              \E p \in Parts(s, P) : p.start <= b.start /\ b.stop <= p.stop
  <1>1. PICK m : m = mergeBookings(overlappingBookings(s, P))
    OBVIOUS
  <1>2. Merged(m, overlappingBookings(s, P)) /\ Parts(s, P) = {m[i] : i \in DOMAIN m}
    BY <1>1, overlappingBookingsOK DEF Parts
  <1>3. m \in Seq(Period)
    BY <1>2 DEF Merged
  <1>4. \A i \in DOMAIN m : m[i] \in Period
    BY <1>3
  <1> QED
    BY <1>2, <1>4 DEF Merged

\* the calls c of one slot: what they are, and that each one is there
SlotTodo(c, s, P, t) ==
  \A u \in DOMAIN c :
    \/ \E p \in Parts(s, P) : p.start > t /\ c[u] = On(p)
    \/ c[u] = Off(s, P) /\ fanOffTime(s, P) > t
    \/ c[u] = Set("fan") /\ (\E p \in Parts(s, P) : In(p, t)) /\ Ended(c, u, s, P, t)
    \/ c[u] = Later(s) /\ Cooled(s, P) /\ s.stop > t
    \/ c[u] = Resume(s) /\ Cooled(s, P) /\ s.stop <= t /\ t < fanOffTime(s, P)

SlotWhole(c, s, P, t) ==
  /\ \A p \in Parts(s, P) : p.start > t => After(c, 0, On(p))
  /\ (\E p \in Parts(s, P) : In(p, t)) => After(c, 0, Set("fan"))
  /\ fanOffTime(s, P) > t => After(c, 0, Off(s, P))
  /\ Cooled(s, P) /\ s.stop > t => After(c, 0, Later(s))
  /\ Cooled(s, P) /\ s.stop <= t /\ t < fanOffTime(s, P) => After(c, 0, Resume(s))

LEMMA SlotCallsOK ==
  ASSUME NEW P, PlanOK(P), NEW t \in Nat, NEW s \in P.slots
  PROVE  /\ SlotCalls(s, P, t) \in Seq(FanJobs)
         /\ SlotTodo(SlotCalls(s, P, t), s, P, t)
         /\ SlotWhole(SlotCalls(s, P, t), s, P, t)
  <1>1. PICK m : m = mergeBookings(overlappingBookings(s, P))
    OBVIOUS
  <1>2. Merged(m, overlappingBookings(s, P))
    BY <1>1, overlappingBookingsOK
  <1>3. m \in Seq(Period)
    BY <1>2 DEF Merged
  <1>4. PICK n : n = Len(m)
    OBVIOUS
  <1>5. n \in Nat /\ DOMAIN m = 1..n /\ \A i \in 1..n : m[i].start \in Nat /\ m[i].stop \in Nat
    <2>1. \A i \in 1..n : m[i] \in Period
      BY <1>3, <1>4
    <2> QED
      BY <1>3, <1>4, <2>1 DEF Period
  <1>6. Parts(s, P) = {m[i] : i \in 1..n}
    BY <1>1, <1>5 DEF Parts
  <1>7. PICK off : off = fanOffTime(s, P)
    OBVIOUS
  <1>8. off \in Nat /\ s.stop \in Nat
    BY <1>7, fanOffTimeOK DEF PlanOK, Period
  <1>9. PICK T : T = Seq(FanJobs)
    OBVIOUS
  <1> DEFINE Begun(i) == If(In(m[i], t), Set("fan"))
             Begins(i) == If(m[i].start > t, Create("fan", m[i].start, TRUE))
             seqs == [i \in DOMAIN m |-> Begun(i) \o Begins(i)]
             E == FlattenSeq(seqs)
             later == off > s.stop /\ s.stop > t
             resume == off > s.stop /\ s.stop <= t /\ t < off
             C == If(off > t, Create("fan", off, FALSE))
             LA == If(later, [op |-> "later", end |-> s.stop])
             RE == If(resume, [op |-> "resume", end |-> s.stop])
  <1>10. SlotCalls(s, P, t) = (E \o C) \o (LA \o RE)
    BY <1>1, <1>7 DEF SlotCalls, Each, CapCall, CooldownCalls
  <1>11. /\ \A p \in Period : Create("fan", p.start, TRUE) = On(p) /\ On(p) \in FanJobs
         /\ Create("fan", off, FALSE) = Off(s, P) /\ Off(s, P) \in FanJobs
         /\ Set("fan") \in FanJobs
         /\ Later(s) = [op |-> "later", end |-> s.stop] /\ Later(s) \in FanJobs
         /\ Resume(s) = [op |-> "resume", end |-> s.stop] /\ Resume(s) \in FanJobs
    <2>1. ASSUME NEW p \in Period
          PROVE  Create("fan", p.start, TRUE) = On(p) /\ On(p) \in FanJobs
      <3>1. Entry("fan", p.start, TRUE) \in [switch : {"fan"}, at : Nat, on : BOOLEAN]
        BY DEF Period, Entry
      <3>2. On(p) \in FanJobs
        BY <3>1 DEF On, FanJobs
      <3> QED
        BY <3>2 DEF On, Create, CreateOf
    <2>2. Off(s, P) \in FanJobs
      <3>1. Entry("fan", off, FALSE) \in [switch : {"fan"}, at : Nat, on : BOOLEAN]
        BY <1>8 DEF Entry
      <3> QED
        BY <1>7, <3>1 DEF Off, FanJobs
    <2>3. Later(s) \in FanJobs /\ Resume(s) \in FanJobs
      BY <1>8 DEF Later, Resume, FanJobs
    <2> QED
      BY <1>7, <2>1, <2>2, <2>3 DEF FanJobs, Off, Create, CreateOf, Later, Resume
  <1>12. /\ C \in T /\ (\A u \in DOMAIN C : off > t /\ C[u] = Off(s, P))
         /\ off > t => After(C, 0, Off(s, P))
    <2>1. (off > t) \in BOOLEAN
      OBVIOUS
    <2> QED
      BY <1>9, <1>11, <2>1, IfOK
  <1>13. /\ LA \in T /\ (\A u \in DOMAIN LA : later /\ LA[u] = Later(s))
         /\ later => After(LA, 0, Later(s))
    <2>1. later \in BOOLEAN
      OBVIOUS
    <2> HIDE DEF later
    <2> QED
      BY <1>9, <1>11, <2>1, IfOK
  <1>14. /\ RE \in T /\ (\A u \in DOMAIN RE : resume /\ RE[u] = Resume(s))
         /\ resume => After(RE, 0, Resume(s))
    <2>1. resume \in BOOLEAN
      OBVIOUS
    <2> HIDE DEF resume
    <2> QED
      BY <1>9, <1>11, <2>1, IfOK
  <1> HIDE DEF C, LA, RE, later, resume
  <1>15. ASSUME NEW i \in 1..n
         PROVE  /\ seqs[i] \in T
                /\ \A u \in DOMAIN seqs[i] :
                     \/ In(m[i], t) /\ seqs[i][u] = Set("fan")
                     \/ m[i].start > t /\ seqs[i][u] = On(m[i])
                /\ In(m[i], t) => After(seqs[i], 0, Set("fan"))
                /\ m[i].start > t => After(seqs[i], 0, On(m[i]))
    <2>1. m[i] \in Period
      BY <1>3, <1>5
    <2>2. (m[i].start > t) \in BOOLEAN /\ In(m[i], t) \in BOOLEAN
      BY DEF In
    <2>3. /\ Begun(i) \in T /\ (\A u \in DOMAIN Begun(i) : In(m[i], t) /\ Begun(i)[u] = Set("fan"))
          /\ In(m[i], t) => After(Begun(i), 0, Set("fan"))
      BY <1>9, <1>11, <2>2, IfOK
    <2>4. /\ Begins(i) \in T /\ (\A u \in DOMAIN Begins(i) : m[i].start > t /\ Begins(i)[u] = On(m[i]))
          /\ m[i].start > t => After(Begins(i), 0, On(m[i]))
      BY <1>9, <1>11, <2>1, <2>2, IfOK
    <2>5. seqs[i] = Begun(i) \o Begins(i)
      BY <1>5
    <2> HIDE DEF Begun, Begins, seqs
    <2>6. seqs[i] \in T /\ Joined(seqs[i], Begun(i), Begins(i))
      BY <1>9, <2>3, <2>4, <2>5, Join
    <2> QED
      BY <2>3, <2>4, <2>6 DEF Joined
  <1>16. seqs \in Seq(Seq(FanJobs)) /\ Len(seqs) = n
    <2>1. seqs \in [1..n -> T]
      <3> HIDE DEF Begun, Begins
      <3> QED
        BY <1>5, <1>15
    <2> HIDE DEF seqs
    <2> QED
      BY <1>5, <1>9, <2>1
  <1> HIDE DEF seqs
  <1>17. E \in T /\ Trail(E, seqs, n)
    BY <1>9, <1>16, FlattenTrail
  <1> HIDE DEF E
  <1>18. \A k \in DOMAIN E :
           \/ E[k] = Set("fan") /\ \E p \in Parts(s, P) : In(p, t)
           \/ \E p \in Parts(s, P) : p.start > t /\ E[k] = On(p)
    <2> SUFFICES ASSUME NEW k \in DOMAIN E
                 PROVE  \/ E[k] = Set("fan") /\ \E p \in Parts(s, P) : In(p, t)
                        \/ \E p \in Parts(s, P) : p.start > t /\ E[k] = On(p)
      OBVIOUS
    <2>1. PICK i \in 1..n : \E u \in DOMAIN seqs[i] : E[k] = seqs[i][u]
      BY <1>17 DEF Trail
    <2>2. m[i] \in Parts(s, P)
      BY <1>6
    <2> QED
      BY <1>15, <2>1, <2>2
  <1>19. /\ \A p \in Parts(s, P) : p.start > t => After(E, 0, On(p))
         /\ (\E p \in Parts(s, P) : In(p, t)) => After(E, 0, Set("fan"))
    <2>1. \A i \in 1..n : \A c : After(seqs[i], 0, c) => After(E, 0, c)
      <3> SUFFICES ASSUME NEW i \in 1..n, NEW c, After(seqs[i], 0, c) PROVE After(E, 0, c)
        OBVIOUS
      <3>1. PICK u \in DOMAIN seqs[i] : seqs[i][u] = c
        BY DEF After
      <3> QED
        BY <1>17, <3>1 DEF Trail
    <2> QED
      BY <1>6, <1>15, <2>1
  <1>20. PICK EC : EC = E \o C
    OBVIOUS
  <1>21. EC \in T /\ Joined(EC, E, C)
    BY <1>9, <1>12, <1>17, <1>20, Join
  <1>22. PICK D : D = LA \o RE
    OBVIOUS
  <1>23. D \in T /\ Joined(D, LA, RE)
    BY <1>9, <1>13, <1>14, <1>22, Join
  <1>24. PICK c : c = EC \o D
    OBVIOUS
  <1>25. c \in T /\ Joined(c, EC, D) /\ SlotCalls(s, P, t) = c
    BY <1>9, <1>10, <1>20, <1>21, <1>22, <1>23, <1>24, Join
  <1>26. /\ later <=> Cooled(s, P) /\ s.stop > t
         /\ resume <=> Cooled(s, P) /\ s.stop <= t /\ t < off
    BY <1>7 DEF later, resume, Cooled
  <1>27. SlotWhole(c, s, P, t)
    BY <1>7, <1>12, <1>13, <1>14, <1>19, <1>21, <1>23, <1>25, <1>26 DEF SlotWhole, Joined
  <1>28. \A k \in DOMAIN D : \/ D[k] = Later(s) /\ later
                             \/ D[k] = Resume(s) /\ resume
    BY <1>13, <1>14, <1>23 DEF Joined
  <1>29. \A k \in DOMAIN EC :
           \/ \E p \in Parts(s, P) : p.start > t /\ EC[k] = On(p)
           \/ EC[k] = Off(s, P) /\ off > t
           \/ /\ EC[k] = Set("fan") /\ \E p \in Parts(s, P) : In(p, t)
              /\ off > t => After(EC, k, Off(s, P))
    <2> SUFFICES ASSUME NEW k \in DOMAIN EC
                 PROVE  \/ \E p \in Parts(s, P) : p.start > t /\ EC[k] = On(p)
                        \/ EC[k] = Off(s, P) /\ off > t
                        \/ /\ EC[k] = Set("fan") /\ \E p \in Parts(s, P) : In(p, t)
                           /\ off > t => After(EC, k, Off(s, P))
      OBVIOUS
    <2>1. CASE /\ k \in DOMAIN E /\ EC[k] = E[k]
               /\ \A x : After(E, k, x) \/ After(C, 0, x) => After(EC, k, x)
      BY <1>12, <1>18, <2>1
    <2>2. CASE \E v \in DOMAIN C : EC[k] = C[v]
      BY <1>12, <2>2
    <2> QED
      BY <1>21, <2>1, <2>2 DEF Joined
  <1>30. SlotTodo(c, s, P, t)
    <2> SUFFICES ASSUME NEW u \in DOMAIN c
                 PROVE  \/ \E p \in Parts(s, P) : p.start > t /\ c[u] = On(p)
                        \/ c[u] = Off(s, P) /\ off > t
                        \/ /\ c[u] = Set("fan") /\ \E p \in Parts(s, P) : In(p, t)
                           /\ Ended(c, u, s, P, t)
                        \/ c[u] = Later(s) /\ Cooled(s, P) /\ s.stop > t
                        \/ c[u] = Resume(s) /\ Cooled(s, P) /\ s.stop <= t /\ t < off
      BY <1>7 DEF SlotTodo
    <2>1. CASE /\ u \in DOMAIN EC /\ c[u] = EC[u]
               /\ \A x : After(EC, u, x) \/ After(D, 0, x) => After(c, u, x)
      <3>1. /\ later => After(D, 0, Later(s))
            /\ resume => After(D, 0, Resume(s))
        BY <1>13, <1>14, <1>23 DEF Joined
      <3>2. (off > t => After(EC, u, Off(s, P))) => Ended(c, u, s, P, t)
        BY <1>7, <1>26, <2>1, <3>1 DEF Ended
      <3> QED
        BY <1>29, <2>1, <3>2
    <2>2. CASE \E v \in DOMAIN D : c[u] = D[v]
      BY <1>26, <1>28, <2>2
    <2> QED
      BY <1>25, <2>1, <2>2 DEF Joined
  <1> QED
    BY <1>9, <1>25, <1>27, <1>30

\* A call is as good where more comes after it.
LEMMA FanCallMoves ==
  ASSUME NEW P, NEW t, NEW r, NEW v, NEW q, NEW k, q[k] = r[v],
         \A c : After(r, v, c) => After(q, k, c), FanCallOK(r, v, P, t)
  PROVE  FanCallOK(q, k, P, t)
  <1>1. /\ q[k].op = "create" /\ q[k].entry.switch = "fan" => q[k].entry \in FanEntries(P, t)
        /\ q[k].op = "cancelFanCooldowns" => FanWhole(q, k, P, t)
    BY DEF FanCallOK, FanWhole
  <1>2. ASSUME q[k] = Set("fan")
        PROVE  \E s \in Overlapped(P) :
                 /\ \E p \in Parts(s, P) : In(p, t)
                 /\ \A x \in Overlapped(P) : x = s \/ Before(s, x) => Ended(q, k, x, P, t)
    <2>1. \A x : Ended(r, v, x, P, t) => Ended(q, k, x, P, t)
      BY DEF Ended
    <2> QED
      BY <1>2, <2>1 DEF FanCallOK
  <1>3. ASSUME q[k].op \in {"later", "resume"}
        PROVE  \E s \in Overlapped(P) :
                 /\ q[k].end = s.stop /\ Cooled(s, P)
                 /\ IF q[k].op = "later" THEN s.stop > t ELSE s.stop <= t /\ t < fanOffTime(s, P)
                 /\ \A x \in Overlapped(P) : Before(s, x) =>
                      \A p \in Parts(x, P) :
                        p.start > t => After(q, k, CreateOf(Entry("fan", p.start, TRUE)))
    BY <1>3 DEF FanCallOK
  <1> QED
    BY <1>1, <1>2, <1>3 DEF FanCallOK

LEMMA JobsOK ==
  /\ \A j \in LightsJobs : ~ (j.op = "create" /\ j.entry.switch = "fan")
                           /\ j # Set("fan") /\ j.op # "cancelFanCooldowns"
                           /\ j.op \notin {"later", "resume"}
  /\ \A j \in FanJobs : ~ (j.op = "create" /\ j.entry.switch = "lights") /\ j # Set("lights")
  <1>1. Set("lights").switch = "lights" /\ Set("lights").op = "set"
        /\ Set("fan").switch = "fan" /\ Set("fan").op = "set"
    BY DEF Set
  <1>2. \A e : CreateOf(e).op = "create" /\ CreateOf(e).entry = e
    BY DEF CreateOf
  <1>3. ASSUME NEW j \in LightsJobs
        PROVE  ~ (j.op = "create" /\ j.entry.switch = "fan")
               /\ j # Set("fan") /\ j.op # "cancelFanCooldowns"
               /\ j.op \notin {"later", "resume"}
    BY <1>1, <1>2 DEF LightsJobs
  <1>4. ASSUME NEW j \in FanJobs
        PROVE  ~ (j.op = "create" /\ j.entry.switch = "lights") /\ j # Set("lights")
    BY <1>1, <1>2 DEF FanJobs
  <1> QED
    BY <1>3, <1>4

\* what the calls of all slots are
Slots(P, t) ==
  Each(LAMBDA slot : SlotCalls(slot, P, t),
       InOrder({s \in P.slots : overlappingBookings(s, P) # {}}))

LEMMA SlotsOK ==
  ASSUME NEW P, PlanOK(P), NEW t \in Nat
  PROVE  /\ Slots(P, t) \in Seq(FanJobs)
         /\ \A s \in Overlapped(P) : \A c :
              After(SlotCalls(s, P, t), 0, c) => After(Slots(P, t), 0, c)
         /\ \A k \in DOMAIN Slots(P, t) : \E s \in Overlapped(P) :
              /\ \E u \in DOMAIN SlotCalls(s, P, t) :
                   /\ Slots(P, t)[k] = SlotCalls(s, P, t)[u]
                   /\ \A c : After(SlotCalls(s, P, t), u, c) => After(Slots(P, t), k, c)
              /\ \A r \in Overlapped(P) : Before(s, r) =>
                   \A c : After(SlotCalls(r, P, t), 0, c) => After(Slots(P, t), k, c)
  <1>1. Overlapped(P) \in SUBSET P.slots /\ Overlapped(P) \subseteq Period
    BY DEF Overlapped, PlanOK
  <1>2. IsFiniteSet(Overlapped(P))
    BY <1>1, FS_Subset DEF PlanOK
  <1>3. PICK w : w = InOrder(Overlapped(P))
    OBVIOUS
  <1>4. PICK n : n = Len(w)
    OBVIOUS
  <1>5. /\ n \in Nat /\ DOMAIN w = 1..n
        /\ \A i \in 1..n : w[i] \in Overlapped(P)
        /\ \A s \in Overlapped(P) : \E i \in 1..n : w[i] = s
        /\ \A i, j \in 1..n : i < j => Before(w[i], w[j])
    <2>1. w \in Seq(Overlapped(P))
      BY <1>1, <1>2, <1>3, OrderOK
    <2>2. n \in Nat /\ DOMAIN w = 1..n /\ \A i \in 1..n : w[i] \in Overlapped(P)
      BY <1>4, <2>1
    <2> QED
      BY <1>1, <1>2, <1>3, <2>2, OrderOK
  <1>6. PICK T : T = Seq(FanJobs)
    OBVIOUS
  <1> DEFINE seqs == [i \in DOMAIN w |-> SlotCalls(w[i], P, t)]
             F == FlattenSeq(seqs)
  <1>7. Slots(P, t) = F
    BY <1>3 DEF Slots, Each, Overlapped
  <1>8. \A i \in 1..n : seqs[i] = SlotCalls(w[i], P, t) /\ seqs[i] \in T
    BY <1>1, <1>5, <1>6, SlotCallsOK
  <1>9. seqs \in Seq(Seq(FanJobs)) /\ Len(seqs) = n
    <2>1. seqs \in [1..n -> T]
      BY <1>5, <1>8
    <2> HIDE DEF seqs
    <2> QED
      BY <1>5, <1>6, <2>1
  <1> HIDE DEF seqs
  <1>10. F \in T /\ Trail(F, seqs, n)
    BY <1>6, <1>9, FlattenTrail
  <1> HIDE DEF F
  <1>11. ASSUME NEW s \in Overlapped(P), NEW c, After(SlotCalls(s, P, t), 0, c)
         PROVE  After(F, 0, c)
    <2>1. PICK i \in 1..n : w[i] = s
      BY <1>5
    <2>2. PICK u \in DOMAIN seqs[i] : seqs[i][u] = c
      BY <1>8, <1>11, <2>1 DEF After
    <2> QED
      BY <1>10, <2>2 DEF Trail
  <1>12. ASSUME NEW k \in DOMAIN F
         PROVE  \E s \in Overlapped(P) :
                  /\ \E u \in DOMAIN SlotCalls(s, P, t) :
                       /\ F[k] = SlotCalls(s, P, t)[u]
                       /\ \A c : After(SlotCalls(s, P, t), u, c) => After(F, k, c)
                  /\ \A r \in Overlapped(P) : Before(s, r) =>
                       \A c : After(SlotCalls(r, P, t), 0, c) => After(F, k, c)
    <2>1. PICK i \in 1..n : \E u \in DOMAIN seqs[i] :
            /\ F[k] = seqs[i][u]
            /\ \A j \in 1..n : \A v \in DOMAIN seqs[j] :
                 j > i \/ (j = i /\ v > u) => After(F, k, seqs[j][v])
      BY <1>10 DEF Trail
    <2>2. PICK u \in DOMAIN seqs[i] :
            /\ F[k] = seqs[i][u]
            /\ \A j \in 1..n : \A v \in DOMAIN seqs[j] :
                 j > i \/ (j = i /\ v > u) => After(F, k, seqs[j][v])
      BY <2>1
    <2>3. \A c : After(SlotCalls(w[i], P, t), u, c) => After(F, k, c)
      BY <1>8, <2>2 DEF After
    <2>4. ASSUME NEW r \in Overlapped(P), Before(w[i], r), NEW c, After(SlotCalls(r, P, t), 0, c)
          PROVE  After(F, k, c)
      <3>1. PICK j \in 1..n : w[j] = r
        BY <1>5
      <3>2. w[i] \in Period /\ r \in Period
        BY <1>1, <1>5
      <3>3. ~ Before(w[i], w[i]) /\ ~ (Before(w[i], r) /\ Before(r, w[i]))
        BY <3>2, BeforeOrders
      <3>4. j > i
        <4>1. j # i
          BY <2>4, <3>1, <3>3
        <4>2. ~ (j < i)
          BY <1>5, <2>4, <3>1, <3>3
        <4> QED
          BY <1>5, <4>1, <4>2
      <3>5. PICK v \in DOMAIN seqs[j] : seqs[j][v] = c
        BY <1>8, <2>4, <3>1 DEF After
      <3> QED
        BY <2>2, <3>4, <3>5
    <2>5. w[i] \in Overlapped(P) /\ u \in DOMAIN SlotCalls(w[i], P, t) /\ F[k] = SlotCalls(w[i], P, t)[u]
      BY <1>5, <1>8, <2>2
    <2> QED
      BY <2>3, <2>4, <2>5
  <1> QED
    BY <1>6, <1>7, <1>10, <1>11, <1>12

LEMMA SlotsTodo ==
  ASSUME NEW P, PlanOK(P), NEW t \in Nat
  PROVE  FanTodo(Slots(P, t), P, t) /\ FanWhole(Slots(P, t), 0, P, t)
  <1>1. PICK F : F = Slots(P, t)
    OBVIOUS
  <1>2. \A s \in Overlapped(P) : /\ SlotTodo(SlotCalls(s, P, t), s, P, t)
                                 /\ SlotWhole(SlotCalls(s, P, t), s, P, t)
    BY SlotCallsOK DEF Overlapped
  <1>3. \A s \in Overlapped(P) : \A c : After(SlotCalls(s, P, t), 0, c) => After(F, 0, c)
    BY <1>1, SlotsOK
  <1>4. FanWhole(F, 0, P, t)
    <2>1. \A e \in FanEntries(P, t) : After(F, 0, CreateOf(e))
      <3>1. ASSUME NEW s \in Overlapped(P), NEW p \in Parts(s, P), p.start > t
            PROVE  After(F, 0, CreateOf(Entry("fan", p.start, TRUE)))
        BY <1>2, <1>3, <3>1 DEF SlotWhole, On
      <3>2. ASSUME NEW s \in Overlapped(P), fanOffTime(s, P) > t
            PROVE  After(F, 0, CreateOf(Entry("fan", fanOffTime(s, P), FALSE)))
        BY <1>2, <1>3, <3>2 DEF SlotWhole, Off
      <3> QED
        BY <3>1, <3>2 DEF FanEntries
    <2>2. FanBegun(P, t) => After(F, 0, Set("fan"))
      BY <1>2, <1>3 DEF SlotWhole, FanBegun
    <2>3. ASSUME NEW s \in Overlapped(P), Cooled(s, P)
          PROVE  /\ s.stop > t => After(F, 0, Later(s))
                 /\ s.stop <= t /\ t < fanOffTime(s, P) => After(F, 0, Resume(s))
      BY <1>2, <1>3, <2>3 DEF SlotWhole
    <2> QED
      BY <2>1, <2>2, <2>3 DEF FanWhole
  <1>5. ASSUME NEW k \in DOMAIN F PROVE FanCallOK(F, k, P, t)
    <2>1. PICK s \in Overlapped(P) :
            /\ \E u \in DOMAIN SlotCalls(s, P, t) :
                 /\ F[k] = SlotCalls(s, P, t)[u]
                 /\ \A c : After(SlotCalls(s, P, t), u, c) => After(F, k, c)
            /\ \A r \in Overlapped(P) : Before(s, r) =>
                 \A c : After(SlotCalls(r, P, t), 0, c) => After(F, k, c)
      BY <1>1, SlotsOK
    <2>2. PICK C : C = SlotCalls(s, P, t)
      OBVIOUS
    <2>3. PICK u \in DOMAIN C : F[k] = C[u] /\ \A c : After(C, u, c) => After(F, k, c)
      BY <2>1, <2>2
    <2>4. ASSUME NEW r \in Overlapped(P), Before(s, r)
          PROVE  /\ Ended(F, k, r, P, t)
                 /\ \A p \in Parts(r, P) : p.start > t => After(F, k, On(p))
      BY <1>2, <2>1, <2>4 DEF SlotWhole, Ended
    <2>5. \A e : CreateOf(e).op = "create" /\ CreateOf(e).entry = e /\ CreateOf(e) # Set("fan")
      BY DEF CreateOf, Set
    <2>6. /\ Set("fan").op = "set"
          /\ Later(s).op = "later" /\ Later(s).end = s.stop
          /\ Resume(s).op = "resume" /\ Resume(s).end = s.stop
      BY DEF Set, Later, Resume
    <2>7. CASE \E p \in Parts(s, P) : p.start > t /\ C[u] = On(p)
      <3>1. PICK p \in Parts(s, P) : p.start > t /\ C[u] = On(p)
        BY <2>7
      <3>2. Entry("fan", p.start, TRUE) \in FanEntries(P, t)
        BY <3>1 DEF FanEntries
      <3> QED
        BY <2>3, <2>5, <3>1, <3>2 DEF FanCallOK, On
    <2>8. CASE C[u] = Off(s, P) /\ fanOffTime(s, P) > t
      <3>2. Entry("fan", fanOffTime(s, P), FALSE) \in FanEntries(P, t)
        BY <2>8 DEF FanEntries
      <3> QED
        BY <2>3, <2>5, <2>8, <3>2 DEF FanCallOK, Off
    <2>9. CASE C[u] = Set("fan") /\ (\E p \in Parts(s, P) : In(p, t)) /\ Ended(C, u, s, P, t)
      <3>1. Ended(F, k, s, P, t)
        BY <2>3, <2>9 DEF Ended
      <3>2. \A r \in Overlapped(P) : r = s \/ Before(s, r) => Ended(F, k, r, P, t)
        BY <2>4, <3>1
      <3> QED
        BY <2>3, <2>6, <2>9, <3>2 DEF FanCallOK
    <2>10. \A r \in Overlapped(P) : Before(s, r) =>
             \A p \in Parts(r, P) :
               p.start > t => After(F, k, CreateOf(Entry("fan", p.start, TRUE)))
      BY <2>4 DEF On
    <2>11. CASE C[u] = Later(s) /\ Cooled(s, P) /\ s.stop > t
      BY <2>3, <2>6, <2>10, <2>11 DEF FanCallOK
    <2>12. CASE C[u] = Resume(s) /\ Cooled(s, P) /\ s.stop <= t /\ t < fanOffTime(s, P)
      BY <2>3, <2>6, <2>10, <2>12 DEF FanCallOK
    <2>13. SlotTodo(C, s, P, t)
      BY <1>2, <2>2
    <2> QED
      BY <2>7, <2>8, <2>9, <2>11, <2>12, <2>13 DEF SlotTodo
  <1> QED
    BY <1>1, <1>4, <1>5 DEF FanTodo

LEMMA ApplyCallsOK ==
  ASSUME NEW P, PlanOK(P), NEW t \in Nat
  PROVE  /\ ApplyCalls(P, t) \in Seq(Jobs)
         /\ LightsTodo(ApplyCalls(P, t), P, t) /\ LightsWhole(ApplyCalls(P, t), P, t)
         /\ BlinksLast(ApplyCalls(P, t))
         /\ FanTodo(ApplyCalls(P, t), P, t) /\ FanWhole(ApplyCalls(P, t), 0, P, t)
         /\ After(ApplyCalls(P, t), 0, [op |-> "cancelFanCooldowns"])
  <1> DEFINE cancel == [op |-> "cancelFanCooldowns"]
             X == <<cancel>>
  <1>1. PICK L : L = LightsCalls(P, t)
    OBVIOUS
  <1>2. PICK F : F = Slots(P, t)
    OBVIOUS
  <1>3. PICK R : R = X \o F
    OBVIOUS
  <1>4. PICK q : q = L \o R
    OBVIOUS
  <1>5. cancel \in FanJobs /\ cancel.op = "cancelFanCooldowns"
    BY DEF FanJobs
  <1> HIDE DEF cancel
  <1>6. PICK T : T = Seq(FanJobs)
    OBVIOUS
  <1>7. X \in T /\ (\A u \in DOMAIN X : X[u] = cancel) /\ After(X, 0, cancel)
    BY <1>5, <1>6, OneOK
  <1> HIDE DEF X
  <1>8. F \in T /\ FanTodo(F, P, t) /\ FanWhole(F, 0, P, t)
    BY <1>2, <1>6, SlotsOK, SlotsTodo
  <1>9. R \in T /\ Joined(R, X, F)
    BY <1>3, <1>6, <1>7, <1>8, Join
  <1>10. L \in Seq(LightsJobs) /\ LightsTodo(L, P, t) /\ LightsWhole(L, P, t) /\ BlinksLast(q)
    BY <1>1, <1>4, <1>6, <1>9, LightsCallsOK
  <1>11. PICK U : U = Seq(Jobs)
    OBVIOUS
  <1>12. L \in U /\ R \in U /\ X \in U /\ F \in U
    <2>1. \A y : y \in Seq(LightsJobs) \/ y \in Seq(FanJobs) => y \in Seq(Jobs)
      BY DEF Jobs
    <2> QED
      BY <1>6, <1>7, <1>8, <1>9, <1>10, <1>11, <2>1
  <1>13. q \in U /\ Joined(q, L, R)
    BY <1>4, <1>11, <1>12, Join
  <1>14. ApplyCalls(P, t) = q
    <2>1. ApplyCalls(P, t) = (L \o X) \o F
      BY <1>1, <1>2 DEF ApplyCalls, Slots, X, cancel
    <2> QED
      BY <1>3, <1>4, <1>11, <1>12, <2>1, ConcatAssociative
  <1>15. /\ \A k \in DOMAIN L : L[k] \in LightsJobs
         /\ \A k \in DOMAIN R : R[k] \in FanJobs
    BY <1>6, <1>9, <1>10
  <1>16. /\ \A c : After(F, 0, c) => After(R, 0, c)
         /\ \A c : After(R, 0, c) \/ After(L, 0, c) => After(q, 0, c)
         /\ After(R, 0, cancel)
    BY <1>7, <1>9, <1>13 DEF Joined
  <1>17. LightsWhole(q, P, t) /\ FanWhole(q, 0, P, t) /\ After(q, 0, cancel)
    BY <1>8, <1>10, <1>16 DEF LightsWhole, FanWhole
  <1>18. LightsTodo(q, P, t)
    <2> SUFFICES ASSUME NEW k \in DOMAIN q
                 PROVE  /\ q[k].op = "create" /\ q[k].entry.switch = "lights" =>
                             q[k].entry \in LightsEntries(P, t)
                        /\ q[k] = Set("lights") =>
                             Covered(P, t) /\ \A e \in LightsEntries(P, t) : After(q, k, CreateOf(e))
      BY DEF LightsTodo
    <2>1. CASE /\ k \in DOMAIN L /\ q[k] = L[k]
               /\ \A c : After(L, k, c) \/ After(R, 0, c) => After(q, k, c)
      BY <1>10, <2>1 DEF LightsTodo
    <2>2. CASE \E v \in DOMAIN R : q[k] = R[v]
      BY <1>15, <2>2, JobsOK
    <2> QED
      BY <1>13, <2>1, <2>2 DEF Joined
  <1>19. FanTodo(R, P, t)
    <2> SUFFICES ASSUME NEW k \in DOMAIN R PROVE FanCallOK(R, k, P, t)
      BY DEF FanTodo
    <2>1. CASE /\ k \in DOMAIN X /\ R[k] = X[k]
               /\ \A c : After(X, k, c) \/ After(F, 0, c) => After(R, k, c)
      <3>1. R[k] = cancel /\ cancel.op = "cancelFanCooldowns" /\ cancel # Set("fan")
        BY <1>5, <1>7, <2>1 DEF Set
      <3>2. FanWhole(R, k, P, t)
        BY <1>8, <2>1 DEF FanWhole
      <3> QED
        BY <3>1, <3>2 DEF FanCallOK
    <2>2. CASE \E v \in DOMAIN F : R[k] = F[v] /\ \A c : After(F, v, c) => After(R, k, c)
      <3>1. PICK v \in DOMAIN F : R[k] = F[v] /\ \A c : After(F, v, c) => After(R, k, c)
        BY <2>2
      <3>2. FanCallOK(F, v, P, t)
        BY <1>8 DEF FanTodo
      <3> QED
        BY <3>1, <3>2, FanCallMoves
    <2> QED
      BY <1>9, <2>1, <2>2 DEF Joined
  <1>20. FanTodo(q, P, t)
    <2> SUFFICES ASSUME NEW k \in DOMAIN q PROVE FanCallOK(q, k, P, t)
      BY DEF FanTodo
    <2>1. CASE k \in DOMAIN L /\ q[k] = L[k]
      BY <1>15, <2>1, JobsOK DEF FanCallOK
    <2>2. CASE \E v \in DOMAIN R : q[k] = R[v] /\ \A c : After(R, v, c) => After(q, k, c)
      <3>1. PICK v \in DOMAIN R : q[k] = R[v] /\ \A c : After(R, v, c) => After(q, k, c)
        BY <2>2
      <3>2. FanCallOK(R, v, P, t)
        BY <1>19 DEF FanTodo
      <3> QED
        BY <3>1, <3>2, FanCallMoves
    <2> QED
      BY <1>13, <2>1, <2>2 DEF Joined
  <1> QED
    BY <1>10, <1>11, <1>13, <1>14, <1>17, <1>18, <1>20 DEF cancel

-----------------------------------------------------------------------------
(* The lights, as the plan is applied and time goes by. *)

LateIn(q, switch, n) ==
  \E k \in DOMAIN q : q[k].op = "create" /\ q[k].entry.switch = switch /\ q[k].entry.at <= n

LEMMA TailOK ==
  ASSUME NEW q \in Seq(Jobs), q # <<>>
  PROVE  /\ Tail(q) \in Seq(Jobs) /\ 1 \in DOMAIN q /\ Head(q) = q[1] /\ Head(q) \in Jobs
         /\ \A k \in DOMAIN Tail(q) : k \in Nat /\ k + 1 \in DOMAIN q /\ Tail(q)[k] = q[k + 1]
         /\ \A k \in Nat : \A c : After(q, k + 1, c) => After(Tail(q), k, c)
         /\ \A c : After(q, 0, c) <=> c = Head(q) \/ After(Tail(q), 0, c)
  <1>1. PICK r : r = Tail(q)
    OBVIOUS
  <1>2. PICK n : n = Len(q)
    OBVIOUS
  <1>3. /\ r \in Seq(Jobs) /\ Head(q) = q[1] /\ n \in Nat /\ n > 0
        /\ DOMAIN q = 1..n /\ DOMAIN r = 1..(n - 1) /\ \A k \in 1..(n - 1) : r[k] = q[k + 1]
        /\ \A k \in 1..n : q[k] \in Jobs
    BY <1>1, <1>2
  <1>4. \A k \in DOMAIN r : k \in Nat /\ k + 1 \in DOMAIN q /\ r[k] = q[k + 1]
    BY <1>3
  <1>5. ASSUME NEW k \in Nat, NEW c, After(q, k + 1, c) PROVE After(r, k, c)
    <2>1. PICK i \in 1..n : i > k + 1 /\ q[i] = c
      BY <1>3, <1>5 DEF After
    <2>2. i - 1 \in 1..(n - 1) /\ i - 1 > k /\ r[i - 1] = c
      BY <1>3, <2>1
    <2> QED
      BY <1>3, <2>2 DEF After
  <1>6. ASSUME NEW c PROVE After(q, 0, c) <=> c = Head(q) \/ After(r, 0, c)
    <2>1. ASSUME After(q, 0, c), c # Head(q) PROVE After(r, 0, c)
      <3>1. PICK i \in 1..n : q[i] = c
        BY <1>3, <2>1 DEF After
      <3>2. i - 1 \in 1..(n - 1) /\ i - 1 > 0 /\ r[i - 1] = c
        BY <1>3, <2>1, <3>1
      <3> QED
        BY <1>3, <3>2 DEF After
    <2>2. c = Head(q) => After(q, 0, c)
      BY <1>3 DEF After
    <2>3. ASSUME After(r, 0, c) PROVE After(q, 0, c)
      <3>1. PICK i \in DOMAIN r : r[i] = c
        BY <2>3 DEF After
      <3>2. i + 1 \in DOMAIN q /\ i + 1 > 0 /\ q[i + 1] = c
        BY <1>4, <3>1
      <3> QED
        BY <3>2 DEF After
    <2> QED
      BY <2>1, <2>2, <2>3
  <1>7. 1 \in DOMAIN q /\ Head(q) \in Jobs
    BY <1>3
  <1> HIDE DEF Jobs
  <1> QED
    BY <1>1, <1>3, <1>4, <1>5, <1>6, <1>7

LEMMA TailTodo ==
  ASSUME NEW q \in Seq(Jobs), q # <<>>, NEW P, NEW t
  PROVE  /\ LightsTodo(q, P, t) => LightsTodo(Tail(q), P, t)
         /\ BlinksLast(q) => BlinksLast(Tail(q))
         /\ FanTodo(q, P, t) => FanTodo(Tail(q), P, t)
         /\ \A sw, n : LateIn(Tail(q), sw, n) => LateIn(q, sw, n)
         /\ \A sw, n : LateIn(q, sw, n) =>
              \/ LateIn(Tail(q), sw, n)
              \/ Head(q).op = "create" /\ Head(q).entry.switch = sw /\ Head(q).entry.at <= n
  <1>1. PICK r : r = Tail(q)
    OBVIOUS
  <1>2. /\ \A k \in DOMAIN r : k \in Nat /\ k + 1 \in DOMAIN q /\ r[k] = q[k + 1]
        /\ \A k \in Nat : \A c : After(q, k + 1, c) => After(r, k, c)
    BY <1>1, TailOK
  <1>3. LightsTodo(q, P, t) => LightsTodo(r, P, t)
    BY <1>2 DEF LightsTodo
  <1>4. BlinksLast(q) => BlinksLast(r)
    BY <1>2 DEF BlinksLast
  <1>5. ASSUME FanTodo(q, P, t), NEW k \in DOMAIN r PROVE FanCallOK(r, k, P, t)
    <2>1. FanCallOK(q, k + 1, P, t) /\ r[k] = q[k + 1] /\ \A c : After(q, k + 1, c) => After(r, k, c)
      BY <1>2, <1>5 DEF FanTodo
    <2> QED
      BY <2>1, FanCallMoves
  <1>6. \A sw, n : LateIn(r, sw, n) => LateIn(q, sw, n)
    BY <1>2 DEF LateIn
  <1>7. ASSUME NEW sw, NEW n, LateIn(q, sw, n)
        PROVE  \/ LateIn(r, sw, n)
               \/ Head(q).op = "create" /\ Head(q).entry.switch = sw /\ Head(q).entry.at <= n
    <2>1. PICK k \in DOMAIN q : q[k].op = "create" /\ q[k].entry.switch = sw /\ q[k].entry.at <= n
      BY <1>7 DEF LateIn
    <2>2. After(q, 0, q[k])
      <3>1. k > 0
        OBVIOUS
      <3> QED
        BY <3>1 DEF After
    <2>3. CASE q[k] = Head(q)
      BY <2>1, <2>3
    <2>4. CASE After(r, 0, q[k])
      BY <2>1, <2>4 DEF After, LateIn
    <2> QED
      BY <1>1, <2>2, <2>3, <2>4, TailOK
  <1> QED
    BY <1>1, <1>3, <1>4, <1>5, <1>6, <1>7 DEF FanTodo

\* a call of the schedule that is to come is late once its time has come
LEMMA PendingLate ==
  ASSUME NEW q, NEW e, After(q, 0, CreateOf(e)), NEW n, e.at <= n
  PROVE  LateIn(q, e.switch, n)
  BY DEF After, LateIn, CreateOf

\* The schedule of the lights has, or gets, all that the plan wants from t on; unless it
\* gets it late, the lights are as the plan wants, are about to be, or return to that.
LightsOK(P, t, q, n, on, sch, b) ==
  /\ LightsTodo(q, P, t)
  /\ \A e \in sch : e.switch = "lights" => e \in LightsEntries(P, t)
  /\ \A e \in LightsEntries(P, t) : e \in sch \/ After(q, 0, CreateOf(e))
  /\ \/ LateIn(q, "lights", n)
     \/ After(q, 0, Set("lights"))
     \/ IF b = NoBlink THEN on = Covered(P, n) ELSE b.resting = Covered(P, n)

LEMMA LightsEntriesOK ==
  ASSUME NEW P, PlanOK(P), NEW t \in Nat, NEW e \in LightsEntries(P, t)
  PROVE  e.switch = "lights" /\ e.at \in Nat /\ e.at > t
  BY LitOK DEF LightsEntries, Entry, Period

LEMMA LightsEntriesHave ==
  ASSUME NEW P, NEW t, NEW p \in Lit(P)
  PROVE  /\ p.start > t => Entry("lights", p.start, TRUE) \in LightsEntries(P, t)
         /\ p.stop > t => Entry("lights", p.stop, FALSE) \in LightsEntries(P, t)
  BY DEF LightsEntries

\* Where the plan has nothing to switch, it covers the first instant and the last alike.
LEMMA CoverStays ==
  ASSUME NEW P, PlanOK(P), NEW t \in Nat, NEW n \in Nat, t <= n,
         \A e \in LightsEntries(P, t) : e.at > n
  PROVE  Covered(P, n) = Covered(P, t)
  <1>1. \A p \in Lit(P) : /\ p.start \in Nat /\ p.stop \in Nat
                          /\ p.start > t => p.start > n
                          /\ p.stop > t => p.stop > n
    <2>1. \A p \in Lit(P) : p.start \in Nat /\ p.stop \in Nat
      BY LitOK DEF Period
    <2>2. \A x, y : Entry("lights", x, y).at = x
      BY DEF Entry
    <2> QED
      BY <2>1, <2>2, LightsEntriesHave
  <1>2. /\ (\E p \in Lit(P) : In(p, n)) <=> Covered(P, n)
        /\ (\E p \in Lit(P) : In(p, t)) <=> Covered(P, t)
    BY LitOK
  <1>3. \A p \in Lit(P) : In(p, n) <=> In(p, t)
    BY <1>1 DEF In
  <1> QED
    BY <1>2, <1>3 DEF Covered

LEMMA LightsTail ==
  ASSUME NEW P, NEW t, NEW q \in Seq(Jobs), q # <<>>, NEW n, NEW on, NEW sch, NEW b,
         LightsOK(P, t, q, n, on, sch, b),
         ~ (Head(q).op = "create" /\ Head(q).entry.switch = "lights"),
         Head(q) # Set("lights"),
         \A e \in LightsEntries(P, t) : e.switch = "lights"
  PROVE  LightsOK(P, t, Tail(q), n, on, sch, b)
  <1>1. \A e \in LightsEntries(P, t) : CreateOf(e) # Head(q)
    BY DEF CreateOf
  <1> QED
    BY <1>1, TailOK, TailTodo DEF LightsOK

LEMMA LightsCreate ==
  ASSUME NEW P, NEW t, NEW q \in Seq(Jobs), q # <<>>, NEW n \in Nat, NEW on, NEW sch, NEW b,
         LightsOK(P, t, q, n, on, sch, b),
         NEW e, Head(q) = CreateOf(e), e.switch = "lights" => ~ (e.at <= n)
  PROVE  LightsOK(P, t, Tail(q), n, on, sch \cup {e}, b)
  <1>1. Head(q) # Set("lights") /\ Head(q).op = "create" /\ Head(q).entry = e
    BY DEF CreateOf, Set
  <1>2. LateIn(q, "lights", n) => LateIn(Tail(q), "lights", n)
    BY <1>1, TailTodo
  <1>3. e.switch = "lights" => e \in LightsEntries(P, t)
    BY <1>1, TailOK DEF LightsOK, LightsTodo
  <1>4. \A x : After(q, 0, CreateOf(x)) => x = e \/ After(Tail(q), 0, CreateOf(x))
    BY TailOK DEF CreateOf
  <1>5. After(q, 0, Set("lights")) => After(Tail(q), 0, Set("lights"))
    BY <1>1, TailOK
  <1> QED
    BY <1>2, <1>3, <1>4, <1>5, TailTodo DEF LightsOK

LEMMA LightsSet ==
  ASSUME NEW P, PlanOK(P), NEW t \in Nat, NEW q \in Seq(Jobs), q # <<>>,
         NEW n \in Nat, t <= n, NEW on, NEW sch,
         LightsOK(P, t, q, n, on, sch, NoBlink), Head(q) = Set("lights")
  PROVE  LightsOK(P, t, Tail(q), n, TRUE, sch, NoBlink)
  <1>1. Head(q).op # "create" /\ \A e : CreateOf(e) # Head(q)
    BY DEF CreateOf, Set
  <1>2. Covered(P, t) /\ \A e \in LightsEntries(P, t) : After(Tail(q), 0, CreateOf(e))
    <2>1. Covered(P, t) /\ \A e \in LightsEntries(P, t) : After(q, 0 + 1, CreateOf(e))
      BY TailOK DEF LightsOK, LightsTodo
    <2>2. 0 \in Nat
      OBVIOUS
    <2> QED
      BY <2>1, <2>2, TailOK
  <1>3. LateIn(Tail(q), "lights", n) \/ TRUE = Covered(P, n)
    <2>1. SUFFICES ASSUME ~ LateIn(Tail(q), "lights", n) PROVE TRUE = Covered(P, n)
      OBVIOUS
    <2>2. \A e \in LightsEntries(P, t) : e.at > n
      <3> SUFFICES ASSUME NEW e \in LightsEntries(P, t), ~ (e.at > n) PROVE FALSE
        OBVIOUS
      <3>1. e.switch = "lights" /\ e.at <= n
        BY LightsEntriesOK
      <3>2. LateIn(Tail(q), e.switch, n)
        BY <1>2, <3>1, PendingLate
      <3> QED
        BY <2>1, <3>1, <3>2
    <2>3. Covered(P, n) = Covered(P, t)
      BY <2>2, CoverStays
    <2> QED
      BY <1>2, <2>3 DEF Covered
  <1>4. LightsTodo(Tail(q), P, t)
    BY TailTodo DEF LightsOK
  <1> QED
    BY <1>2, <1>3, <1>4 DEF LightsOK

LEMMA LightsTick ==
  ASSUME NEW P, PlanOK(P), NEW t \in Nat, NEW q \in Seq(Jobs), NEW n \in Nat, t <= n,
         NEW on \in BOOLEAN, NEW sch, LightsOK(P, t, q, n, on, sch, NoBlink),
         NEW next,
         LET due == {e \in sch : e.switch = "lights" /\ e.at = n + 1}
         IN next \in IF due = {} THEN {on} ELSE {e.on : e \in due}
  PROVE  LightsOK(P, t, q, n + 1, next, sch, NoBlink)
  <1>1. SUFFICES ASSUME ~ LateIn(q, "lights", n + 1), ~ After(q, 0, Set("lights"))
                 PROVE  next = Covered(P, n + 1)
    BY DEF LightsOK
  <1>2. \A k \in DOMAIN q : q[k].op = "create" /\ q[k].entry.switch = "lights" =>
          q[k].entry.at \in Nat
    BY LightsEntriesOK DEF LightsOK, LightsTodo
  <1>3. ~ LateIn(q, "lights", n)
    BY <1>1, <1>2 DEF LateIn
  <1>4. on = Covered(P, n)
    BY <1>1, <1>3 DEF LightsOK
  <1>5. \A e \in LightsEntries(P, t) : e.at = n + 1 => e \in sch /\ e.switch = "lights"
    <2> SUFFICES ASSUME NEW e \in LightsEntries(P, t), e.at = n + 1
                 PROVE  e \in sch /\ e.switch = "lights"
      OBVIOUS
    <2>1. e.switch = "lights" /\ e.at <= n + 1
      BY LightsEntriesOK
    <2>2. ~ After(q, 0, CreateOf(e))
      BY <1>1, <2>1, PendingLate
    <2> QED
      BY <2>1, <2>2 DEF LightsOK
  <1>6. /\ (\E p \in Lit(P) : In(p, n)) <=> Covered(P, n)
        /\ (\E p \in Lit(P) : In(p, n + 1)) <=> Covered(P, n + 1)
        /\ \A p \in Lit(P) : p.start \in Nat /\ p.stop \in Nat /\ p.start < p.stop
    BY LitOK DEF Period
  <1> DEFINE due == {e \in sch : e.switch = "lights" /\ e.at = n + 1}
  <1>7. CASE due = {}
    <2>1. \A p \in Lit(P) : p.start # n + 1 /\ p.stop # n + 1
      <3> SUFFICES ASSUME NEW p \in Lit(P), p.start = n + 1 \/ p.stop = n + 1 PROVE FALSE
        OBVIOUS
      <3>1. CASE p.start = n + 1
        <4>1. Entry("lights", p.start, TRUE) \in LightsEntries(P, t)
          <5>1. p.start > t
            BY <3>1
          <5> QED
            BY <5>1, LightsEntriesHave
        <4> QED
          BY <1>5, <1>7, <3>1, <4>1 DEF Entry
      <3>2. CASE p.stop = n + 1
        <4>1. Entry("lights", p.stop, FALSE) \in LightsEntries(P, t)
          <5>1. p.stop > t
            BY <3>2
          <5> QED
            BY <5>1, LightsEntriesHave
        <4> QED
          BY <1>5, <1>7, <3>2, <4>1 DEF Entry
      <3> QED
        BY <3>1, <3>2
    <2>2. \A p \in Lit(P) : In(p, n) <=> In(p, n + 1)
      BY <1>6, <2>1 DEF In
    <2>3. next = on
      BY <1>7
    <2> QED
      BY <1>4, <1>6, <2>2, <2>3 DEF Covered
  <1>8. CASE due # {}
    <2>1. PICK e \in sch : e.switch = "lights" /\ e.at = n + 1 /\ next = e.on
      BY <1>8
    <2>2. e \in LightsEntries(P, t)
      BY <2>1 DEF LightsOK
    <2>3. CASE \E p \in Lit(P) : e = Entry("lights", p.start, TRUE)
      <3>1. PICK p \in Lit(P) : e = Entry("lights", p.start, TRUE)
        BY <2>3
      <3>2. next = TRUE /\ p.start = n + 1
        BY <2>1, <3>1 DEF Entry
      <3>3. In(p, n + 1)
        BY <1>6, <3>2 DEF In
      <3> QED
        BY <1>6, <3>2, <3>3 DEF Covered
    <2>4. CASE \E p \in Lit(P) : e = Entry("lights", p.stop, FALSE)
      <3>1. PICK p \in Lit(P) : e = Entry("lights", p.stop, FALSE)
        BY <2>4
      <3>2. next = FALSE /\ p.stop = n + 1
        BY <2>1, <3>1 DEF Entry
      <3>3. ~ \E r \in Lit(P) : In(r, n + 1)
        <4> SUFFICES ASSUME NEW r \in Lit(P), In(r, n + 1) PROVE FALSE
          OBVIOUS
        <4>1. p = r \/ p.stop < r.start \/ r.stop < p.start
          BY LitOK
        <4> QED
          BY <1>6, <3>2, <4>1 DEF In
      <3> QED
        BY <1>6, <3>2, <3>3 DEF Covered
    <2> QED
      BY <2>2, <2>3, <2>4 DEF LightsEntries
  <1> QED
    BY <1>7, <1>8

LEMMA LightsBegin ==
  ASSUME NEW P, PlanOK(P), NEW t \in Nat, NEW on \in BOOLEAN, on => Covered(P, t),
         NEW sch, \A e \in sch : e.switch # "lights"
  PROVE  LightsOK(P, t, ApplyCalls(P, t), t, on, sch, NoBlink)
  <1>1. LightsTodo(ApplyCalls(P, t), P, t) /\ LightsWhole(ApplyCalls(P, t), P, t)
    BY ApplyCallsOK
  <1>2. After(ApplyCalls(P, t), 0, Set("lights")) \/ on = Covered(P, t)
    BY <1>1 DEF LightsWhole, Covered
  <1> QED
    BY <1>1, <1>2 DEF LightsOK, LightsWhole

-----------------------------------------------------------------------------
(* The states. *)

Entries == [switch : {"lights", "fan"}, at : Nat, on : BOOLEAN]
JobType == [stage : {"idle", "clear", "begin", "calls"}, todo : Seq(Jobs), tries : Int]
CooldownType ==
  [slotEndedAt : Nat, lowest : Temps \cup {NoReading}, lowestAt : Nat, latestAt : Nat]
BlinkType == [stage : {"none", "away", "back"}, left : Int, resting : BOOLEAN]
HistType == [lights : BOOLEAN, fan : BOOLEAN, watched : BOOLEAN, plan : Plans \cup {NoPlan}]

Types ==
  /\ now \in Nat /\ lights \in BOOLEAN /\ fan \in BOOLEAN
  /\ schedule \subseteq Entries
  /\ currentPlan \in Plans \cup {NoPlan} /\ job \in JobType
  /\ lightsBlinkTasks \subseteq Nat /\ fanCooldownTasks \subseteq Nat /\ starting \subseteq Nat
  /\ activeFanCooldown \in CooldownType \cup {NoCooldown} /\ cooldownOff \in Nat
  /\ blink \in BlinkType /\ monitored \in BOOLEAN /\ hist \in HistType

LEMMA PlansOK == \A P \in Plans \cup {NoPlan} : PlanOK(P)
  <1>1. PlanOK(NoPlan)
    BY FS_EmptySet DEF PlanOK, NoPlan
  <1> QED
    BY <1>1, FansAssumption DEF PlanOK

\* what a call may be
LEMMA JobKinds ==
  ASSUME NEW c \in Jobs
  PROVE  /\ c.op = "set" => c = Set("lights") \/ c = Set("fan")
         /\ c.op = "create" => \E e \in Entries : c = CreateOf(e)
         /\ c.op = "blinks" => c.ends \subseteq Nat
         /\ c.op = "cancelFanCooldowns" => c = [op |-> "cancelFanCooldowns"]
         /\ c.op \in {"later", "resume"} => c.end \in Nat /\ c = [op |-> c.op, end |-> c.end]
  <1>1. /\ Set("lights").op = "set" /\ Set("fan").op = "set"
        /\ \A e : CreateOf(e).op = "create"
    BY DEF Set, CreateOf
  <1>2. c.op = "set" => c = Set("lights") \/ c = Set("fan")
    BY <1>1 DEF Jobs, LightsJobs, FanJobs
  <1>3. c.op = "create" => \E e \in Entries : c = CreateOf(e)
    <2>1. \A e : e \in [switch : {"lights"}, at : Nat, on : BOOLEAN]
                 \/ e \in [switch : {"fan"}, at : Nat, on : BOOLEAN] => e \in Entries
      BY DEF Entries
    <2> QED
      BY <1>1, <2>1 DEF Jobs, LightsJobs, FanJobs
  <1>4. c.op = "blinks" => c.ends \subseteq Nat
    BY <1>1 DEF Jobs, LightsJobs, FanJobs
  <1>5. /\ c.op = "cancelFanCooldowns" => c = [op |-> "cancelFanCooldowns"]
        /\ c.op \in {"later", "resume"} => c.end \in Nat /\ c = [op |-> c.op, end |-> c.end]
    BY <1>1 DEF Jobs, LightsJobs, FanJobs
  <1> QED
    BY <1>2, <1>3, <1>4, <1>5

\* the next call
LEMMA NextCall ==
  ASSUME Types, NEW op, Next1(op)
  PROVE  job.todo \in Seq(Jobs) /\ job.todo # <<>> /\ Head1 = Head(job.todo) /\ Head1 \in Jobs
         /\ Head1.op = op /\ job.stage = "calls"
  <1>1. job.todo \in Seq(Jobs) /\ job.todo # <<>>
    BY DEF Types, JobType, Next1
  <1> QED
    BY <1>1, TailOK DEF Next1, Head1, Stage

LEMMA JobDone ==
  ASSUME Types, job.todo # <<>>, Done
  PROVE  /\ job' \in JobType /\ job'.stage = job.stage /\ job'.todo = Tail(job.todo)
         /\ job'.todo \in Seq(Jobs)
  <1>1. Tail(job.todo) \in Seq(Jobs)
    BY TailOK DEF Types, JobType
  <1>2. MaxTries \in Int
    BY FansAssumption
  <1> QED
    BY <1>1, <1>2 DEF Types, JobType, Done

LEMMA JobIdle ==
  ASSUME Types, GivesUp
  PROVE  job' \in JobType /\ job'.stage = "idle" /\ job'.todo = <<>>
  <1>1. MaxTries \in Int /\ <<>> \in Seq(Jobs)
    BY FansAssumption
  <1> QED
    BY <1>1 DEF GivesUp, IdleJob, JobType

LEMMA ForfeitOK ==
  ASSUME Types, NEW what \in {"lights", "fan", "watched"}, Forfeit(what)
  PROVE  /\ hist' \in HistType /\ hist'.plan = hist.plan /\ hist'[what] = FALSE
         /\ hist'.lights => hist.lights
         /\ hist'.fan => hist.fan
         /\ hist'.watched => hist.watched
  BY DEF Types, HistType, Forfeit

LEMMA newFanCooldownOK ==
  ASSUME NEW e \in Nat
  PROVE  /\ newFanCooldown(e) \in CooldownType /\ newFanCooldown(e).slotEndedAt = e
         /\ newFanCooldown(e) # NoCooldown
  BY DEF newFanCooldown, CooldownType, NoCooldown

LEMMA withReadingOK ==
  ASSUME NEW c \in CooldownType, NEW t \in Nat, NEW reading \in Temps \cup {NoReading}
  PROVE  /\ withReading(c, t, reading) \in CooldownType
         /\ withReading(c, t, reading).slotEndedAt = c.slotEndedAt
         /\ withReading(c, t, reading) # NoCooldown
  <1>1. withReading(c, t, reading) \in CooldownType
        /\ withReading(c, t, reading).slotEndedAt = c.slotEndedAt
    BY DEF withReading, CooldownType
  <1>2. \A d \in CooldownType : d # NoCooldown
    BY DEF CooldownType, NoCooldown
  <1> QED
    BY <1>1, <1>2

LEMMA TypesInit == Init => Types
  <1> SUFFICES ASSUME Init PROVE Types
    OBVIOUS
  <1>1. IdleJob \in JobType
    <2>1. MaxTries \in Int /\ <<>> \in Seq(Jobs)
      BY FansAssumption
    <2> QED
      BY <2>1 DEF IdleJob, JobType
  <1>2. NoBlink \in BlinkType /\ Accounted \in HistType
    BY DEF NoBlink, BlinkType, Accounted, HistType
  <1> QED
    BY <1>1, <1>2 DEF Init, Types

LEMMA TypesApply == Types /\ Apply => Types'
  <1> SUFFICES ASSUME Types, Apply PROVE Types'
    OBVIOUS
  <1>1. CASE clearAllSchedulesAndScripts
    <2>1. job' \in JobType /\ schedule' \subseteq Entries /\ hist' \in HistType
      BY <1>1 DEF Types, clearAllSchedulesAndScripts, JobType, HistType
    <2> QED
      BY <1>1, <2>1 DEF Types, clearAllSchedulesAndScripts, timers, cooldown
  <1>2. CASE BeginApply
    <2>1. ApplyCalls(currentPlan, now) \in Seq(Jobs)
      BY PlansOK, ApplyCallsOK DEF Types
    <2>2. job' \in JobType
      BY <1>2, <2>1 DEF Types, BeginApply, JobType
    <2>3. hist' \in HistType
      <3> DEFINE l == hist.lights /\ blink = NoBlink /\ (lights => \E b \in currentPlan.bookings : In(b, now))
                 f == hist.fan /\ (fan => \E s \in currentPlan.slots : InSession(s, currentPlan, now))
      <3>1. hist' = [hist EXCEPT !.lights = l, !.fan = f]
        BY <1>2 DEF BeginApply
      <3>2. l \in BOOLEAN /\ f \in BOOLEAN
        OBVIOUS
      <3> HIDE DEF l, f
      <3> QED
        BY <3>1, <3>2 DEF Types, HistType
    <2> QED
      BY <1>2, <2>2, <2>3 DEF Types, BeginApply, timers, cooldown, device
  <1>3. CASE SetOn
    <2>1. job.todo # <<>> /\ Head1.switch \in {"lights", "fan"}
      <3>1. job.todo # <<>> /\ Head1 \in Jobs /\ Head1.op = "set"
        BY <1>3, NextCall DEF SetOn
      <3>2. Set("lights").switch = "lights" /\ Set("fan").switch = "fan"
        BY DEF Set
      <3> QED
        BY <3>1, <3>2, JobKinds
    <2>2. job' \in JobType
      <3>1. Done => job' \in JobType
        BY <2>1, JobDone
      <3>2. [job EXCEPT !.tries = @ - 1] \in JobType
        BY DEF Types, JobType
      <3> QED
        BY <1>3, <3>1, <3>2 DEF SetOn
    <2>3. hist' \in HistType
      BY <1>3, <2>1, ForfeitOK DEF SetOn, Types
    <2>4. lights' \in BOOLEAN /\ fan' \in BOOLEAN
      BY <1>3 DEF SetOn, Types, Switched
    <2> QED
      BY <1>3, <2>2, <2>3, <2>4 DEF Types, SetOn, timers, cooldown
  <1>4. CASE scheduleSwitch
    <2>1. job.todo # <<>> /\ Head1.entry \in Entries
      <3>1. job.todo # <<>> /\ Head1 \in Jobs /\ Head1.op = "create"
        BY <1>4, NextCall DEF scheduleSwitch
      <3>2. \A e : CreateOf(e).entry = e
        BY DEF CreateOf
      <3> QED
        BY <3>1, <3>2, JobKinds
    <2>2. job' \in JobType
      BY <1>4, <2>1, JobDone, JobIdle DEF scheduleSwitch
    <2>3. hist' \in HistType
      <3>1. Head1.entry.switch \in {"lights", "fan"}
        BY <2>1 DEF Entries
      <3> QED
        BY <1>4, <3>1, ForfeitOK DEF scheduleSwitch, Types
    <2>4. schedule' \subseteq Entries
      BY <1>4, <2>1 DEF scheduleSwitch, Types
    <2> QED
      BY <1>4, <2>2, <2>3, <2>4 DEF Types, scheduleSwitch, timers, cooldown
  <1>5. CASE scheduleLightsBlink
    <2>1. job.todo # <<>> /\ Head1.ends \subseteq Nat
      BY <1>5, NextCall, JobKinds DEF scheduleLightsBlink
    <2>2. job' \in JobType
      BY <1>5, <2>1, JobDone DEF scheduleLightsBlink
    <2> QED
      BY <1>5, <2>1, <2>2 DEF Types, scheduleLightsBlink, device, cooldown
  <1>6. CASE cancelFanCooldowns
    <2>1. job' \in JobType
      BY <1>6, NextCall, JobDone DEF cancelFanCooldowns
    <2>2. hist' \in HistType
      BY <1>6 DEF Types, cancelFanCooldowns, HistType
    <2> QED
      BY <1>6, <2>1, <2>2 DEF Types, cancelFanCooldowns, CooldownsCancelled, device
  <1>7. CASE scheduleFanCooldown
    <2>1. job.todo # <<>> /\ Head1.end \in Nat
      BY <1>7, NextCall, JobKinds DEF scheduleFanCooldown
    <2>2. job' \in JobType
      BY <1>7, <2>1, JobDone DEF scheduleFanCooldown
    <2> QED
      BY <1>7, <2>1, <2>2 DEF Types, scheduleFanCooldown, device, cooldown
  <1>8. CASE ResumeFanCooldown
    <2>1. job.todo # <<>> /\ Head1.end \in Nat
      BY <1>8, NextCall, JobKinds DEF ResumeFanCooldown
    <2>2. job' \in JobType
      BY <1>8, <2>1, JobDone, JobIdle DEF ResumeFanCooldown
    <2>3. activeFanCooldown' \in CooldownType \cup {NoCooldown}
      BY <1>8, <2>1, newFanCooldownOK DEF Types, ResumeFanCooldown
    <2> QED
      BY <1>8, <2>2, <2>3 DEF Types, ResumeFanCooldown, device, timers
  <1>9. CASE EndApply
    <2>1. job' \in JobType /\ hist' \in HistType
      <3>1. job' \in JobType
        BY <1>9, JobIdle DEF EndApply
      <3> QED
        BY <1>9, <3>1 DEF Types, EndApply, HistType
    <2> QED
      BY <1>9, <2>1 DEF Types, EndApply, device, timers, cooldown
  <1> QED
    BY <1>1, <1>2, <1>3, <1>4, <1>5, <1>6, <1>7, <1>8, <1>9 DEF Apply

LEMMA TypesNext == Types /\ [Next]_vars => Types'
  <1> SUFFICES ASSUME Types, [Next]_vars PROVE Types'
    OBVIOUS
  <1>1. CASE applyOperationalPlan
    <2>1. job' \in JobType
      <3>1. MaxTries \in Int /\ <<>> \in Seq(Jobs)
        BY FansAssumption
      <3> QED
        BY <1>1, <3>1 DEF applyOperationalPlan, IdleJob, JobType
    <2>2. hist' \in HistType
      BY <1>1 DEF Types, applyOperationalPlan, HistType
    <2> QED
      BY <1>1, <2>1, <2>2 DEF Types, applyOperationalPlan, device, cooldown
  <1>2. CASE FanCooldownDue
    BY <1>2 DEF Types, FanCooldownDue, device
  <1>3. CASE startFanCooldown
    <2>1. hist' \in HistType
      BY <1>3, ForfeitOK DEF startFanCooldown, Types
    <2>2. activeFanCooldown' \in CooldownType \cup {NoCooldown} /\ starting' \subseteq Nat
      BY <1>3, newFanCooldownOK DEF startFanCooldown, Types
    <2> QED
      BY <1>3, <2>1, <2>2 DEF Types, startFanCooldown, device, timers
  <1>4. CASE updateFanCooldown
    <2>1. activeFanCooldown' \in CooldownType \cup {NoCooldown} /\ cooldownOff' \in Nat /\ starting' = starting
      <3>1. MaxTries \in Nat
        BY FansAssumption
      <3>2. CASE activeFanCooldown = NoCooldown
        BY <1>4, <3>2 DEF updateFanCooldown, Types, cooldown
      <3>3. CASE activeFanCooldown # NoCooldown
        BY <1>4, <3>1, <3>3, withReadingOK DEF updateFanCooldown, Types
      <3> QED
        BY <3>2, <3>3
    <2> QED
      BY <1>4, <2>1 DEF Types, updateFanCooldown, device, timers
  <1>5. CASE CooldownSetOff
    <2>1. hist' \in HistType
      BY <1>5, ForfeitOK DEF CooldownSetOff, Types
    <2>2. cooldownOff' \in Nat
      <3>1. cooldownOff \in Nat
        BY DEF Types
      <3>2. cooldownOff' = 0 \/ cooldownOff' = cooldownOff - 1
        BY <1>5 DEF CooldownSetOff
      <3>3. cooldownOff > 0
        BY <1>5 DEF CooldownSetOff
      <3> QED
        BY <3>1, <3>2, <3>3
    <2>3. fan' \in BOOLEAN
      BY <1>5 DEF CooldownSetOff, Types
    <2> QED
      BY <1>5, <2>1, <2>2, <2>3 DEF Types, CooldownSetOff, timers
  <1>6. CASE LightsBlinkDue
    <2>1. blink' \in BlinkType
      <3>1. BlinkCount \in Nat
        BY FansAssumption
      <3> QED
        BY <1>6, <3>1 DEF LightsBlinkDue, Types, BlinkType
    <2> QED
      BY <1>6, <2>1 DEF Types, LightsBlinkDue, device, cooldown
  <1>7. CASE blinkSwitch
    <2>1. hist' \in HistType
      BY <1>7, ForfeitOK DEF blinkSwitch, Types
    <2>2. blink' \in BlinkType
      <3>1. blink \in BlinkType
        BY DEF Types
      <3>2. NoBlink \in BlinkType /\ [blink EXCEPT !.stage = "back"] \in BlinkType
        BY <3>1 DEF BlinkType, NoBlink
      <3>3. blink.left - 1 \in Int
        BY <3>1 DEF BlinkType
      <3>4. \A x \in Int : [blink EXCEPT !.stage = "away", !.left = x] \in BlinkType
        BY <3>1 DEF BlinkType
      <3>5. [blink EXCEPT !.stage = "away", !.left = @ - 1] \in BlinkType
        BY <3>3, <3>4
      <3> QED
        BY <1>7, <3>2, <3>5 DEF blinkSwitch
    <2>3. lights' \in BOOLEAN
      <3>1. blink.resting \in BOOLEAN /\ (~ blink.resting) \in BOOLEAN
        BY DEF Types, BlinkType
      <3> QED
        BY <1>7, <3>1 DEF blinkSwitch, Types
    <2> QED
      BY <1>7, <2>1, <2>2, <2>3 DEF Types, blinkSwitch, timers, cooldown
  <1>8. CASE ByHand
    <2>1. hist' \in HistType /\ lights' \in BOOLEAN /\ fan' \in BOOLEAN
      BY <1>8, ForfeitOK DEF ByHand, Types, Switched
    <2> QED
      BY <1>8, <2>1 DEF Types, ByHand, timers, cooldown
  <1>9. CASE Restart
    <2>1. job' \in JobType /\ hist' \in HistType /\ blink' \in BlinkType
      <3>1. MaxTries \in Int /\ <<>> \in Seq(Jobs)
        BY FansAssumption
      <3>2. job' \in JobType /\ blink' \in BlinkType
        BY <1>9, <3>1 DEF Restart, IdleJob, JobType, NoBlink, BlinkType
      <3>3. PICK l \in BOOLEAN : hist' = [hist EXCEPT !.lights = l]
        BY <1>9 DEF Restart
      <3>4. hist' \in HistType
        BY <3>3 DEF Types, HistType
      <3> QED
        BY <3>2, <3>4
    <2> QED
      BY <1>9, <2>1 DEF Types, Restart, device
  <1>10. CASE Tick
    <2>1. lights' \in BOOLEAN /\ fan' \in BOOLEAN
      <3>1. \A sw : \A on \in BOOLEAN : Fires(sw, on) \subseteq BOOLEAN
        <4>1. \A e \in schedule : e.on \in BOOLEAN
          BY DEF Types, Entries
        <4> QED
          BY <4>1 DEF Fires
      <3> QED
        BY <1>10, <3>1 DEF Tick, Types
    <2>2. now' \in Nat /\ monitored' \in BOOLEAN
      <3>1. now \in Nat
        BY DEF Types
      <3>2. now' \in Nat
        BY <1>10, <3>1 DEF Tick
      <3>3. monitored' \in BOOLEAN
        BY <1>10 DEF Tick
      <3> QED
        BY <3>2, <3>3
    <2>3. UNCHANGED <<schedule, currentPlan, job, lightsBlinkTasks, fanCooldownTasks, starting,
                      activeFanCooldown, cooldownOff, blink, hist>>
      BY <1>10 DEF Tick, timers, cooldown
    <2> QED
      BY <2>1, <2>2, <2>3 DEF Types
  <1>11. CASE UNCHANGED vars
    BY <1>11 DEF vars, device, timers, cooldown, Types
  <1> QED
    BY <1>1, <1>2, <1>3, <1>4, <1>5, <1>6, <1>7, <1>8, <1>9, <1>10, <1>11, TypesApply DEF Next

\* only a plan that is being applied has calls to come, and then none is applied whole
JobShape ==
  /\ job.stage # "calls" => job.todo = <<>>
  /\ job.stage # "idle" => hist.plan = NoPlan

\* the plan of the device is the daemon's, or the daemon was restarted and has none
PlanShape ==
  hist.plan # NoPlan =>
    \/ currentPlan = hist.plan
    \/ /\ currentPlan = NoPlan
       /\ fanCooldownTasks = {} /\ starting = {} /\ activeFanCooldown = NoCooldown

\* a plan begins on a clear schedule and with no blinks to come
ClearShape ==
  /\ job.stage \in {"clear", "begin"} => lightsBlinkTasks = {}
  /\ job.stage = "begin" =>
       \A sw \in {"lights", "fan"} : hist[sw] => \A e \in schedule : e.switch # sw

\* no blink begins before the plan has switched the lights
BlinkShape ==
  /\ BlinksLast(job.todo)
  /\ After(job.todo, 0, Set("lights")) =>
       lightsBlinkTasks = {} /\ (hist.lights => blink = NoBlink)

Shape == JobShape /\ PlanShape /\ ClearShape /\ BlinkShape

LEMMA ShapeInit == Init => Shape
  BY DEF Init, Shape, JobShape, PlanShape, ClearShape, BlinkShape, IdleJob, Accounted, NoPlan,
         BlinksLast, After

LEMMA JobShapeNext == Types /\ JobShape /\ [Next]_vars => JobShape'
  <1> SUFFICES ASSUME Types, JobShape, [Next]_vars PROVE JobShape'
    OBVIOUS
  <1> USE DEF JobShape, Stage
  <1>1. CASE applyOperationalPlan
    BY <1>1 DEF applyOperationalPlan, IdleJob, Types, HistType
  <1>2. CASE clearAllSchedulesAndScripts
    BY <1>2 DEF clearAllSchedulesAndScripts, Types, JobType, HistType
  <1>3. CASE BeginApply
    <2>1. job' = [job EXCEPT !.stage = "calls", !.todo = ApplyCalls(currentPlan, now)]
      BY <1>3 DEF BeginApply
    <2>2. job'.stage = "calls"
      BY <2>1 DEF Types, JobType
    <2>3. hist'.plan = hist.plan
      BY <1>3 DEF BeginApply, Types, HistType
    <2>4. job.stage = "begin"
      BY <1>3 DEF BeginApply
    <2> QED
      BY <2>2, <2>3, <2>4
  <1>4. ASSUME job.stage = "calls", job'.stage = "calls", hist'.plan = hist.plan
        PROVE  JobShape'
    BY <1>4
  <1>5. ASSUME GivesUp, hist'.plan = hist.plan \/ job'.stage = "idle" PROVE JobShape'
    BY <1>5, JobIdle
  <1>6. CASE SetOn
    <2>1. job.todo # <<>> /\ job.stage = "calls" /\ Head1.switch \in {"lights", "fan"}
      <3>1. job.todo # <<>> /\ Head1 \in Jobs /\ Head1.op = "set" /\ job.stage = "calls"
        BY <1>6, NextCall DEF SetOn
      <3>2. Set("lights").switch = "lights" /\ Set("fan").switch = "fan"
        BY DEF Set
      <3> QED
        BY <3>1, <3>2, JobKinds
    <2>2. job'.stage = "calls"
      <3>1. [job EXCEPT !.tries = @ - 1].stage = job.stage
        BY DEF Types, JobType
      <3> QED
        BY <1>6, <2>1, <3>1, JobDone DEF SetOn
    <2>3. hist'.plan = hist.plan
      BY <1>6, <2>1, ForfeitOK DEF SetOn
    <2> QED
      BY <1>4, <2>1, <2>2, <2>3
  <1>7. CASE scheduleSwitch
    <2>1. job.todo # <<>> /\ job.stage = "calls" /\ Head1.entry.switch \in {"lights", "fan"}
      <3>1. job.todo # <<>> /\ Head1 \in Jobs /\ Head1.op = "create" /\ job.stage = "calls"
        BY <1>7, NextCall DEF scheduleSwitch
      <3>2. \A e : CreateOf(e).entry = e
        BY DEF CreateOf
      <3> QED
        BY <3>1, <3>2, JobKinds DEF Entries
    <2>2. CASE Done
      <3>1. hist'.plan = hist.plan
        BY <1>7, <2>1, ForfeitOK DEF scheduleSwitch
      <3> QED
        BY <1>4, <2>1, <2>2, <3>1, JobDone
    <2>3. CASE GivesUp
      BY <1>5, <2>3, JobIdle
    <2> QED
      BY <1>7, <2>2, <2>3 DEF scheduleSwitch
  <1>8. CASE scheduleLightsBlink
    BY <1>4, <1>8, NextCall, JobDone DEF scheduleLightsBlink
  <1>9. CASE cancelFanCooldowns
    <2>1. hist'.plan = hist.plan
      BY <1>9 DEF cancelFanCooldowns, Types, HistType
    <2> QED
      BY <1>4, <1>9, <2>1, NextCall, JobDone DEF cancelFanCooldowns
  <1>10. CASE scheduleFanCooldown
    BY <1>4, <1>10, NextCall, JobDone DEF scheduleFanCooldown
  <1>11. CASE ResumeFanCooldown
    <2>1. CASE Done
      BY <1>4, <1>11, <2>1, NextCall, JobDone DEF ResumeFanCooldown
    <2>2. CASE GivesUp
      BY <1>5, <2>2, JobIdle
    <2> QED
      BY <1>11, <2>1, <2>2 DEF ResumeFanCooldown
  <1>12. CASE EndApply
    BY <1>5, <1>12, JobIdle DEF EndApply
  <1>13. CASE Restart
    <2>1. job'.stage = "idle" /\ job'.todo = <<>>
      BY <1>13 DEF Restart, IdleJob
    <2> QED
      BY <2>1
  <1>14. ASSUME UNCHANGED job, hist'.plan = hist.plan PROVE JobShape'
    BY <1>14
  <1>15. CASE startFanCooldown \/ CooldownSetOff \/ blinkSwitch \/ ByHand
    <2>1. hist'.plan = hist.plan /\ UNCHANGED job
      BY <1>15, ForfeitOK DEF startFanCooldown, CooldownSetOff, blinkSwitch, ByHand
    <2> QED
      BY <1>14, <2>1
  <1>16. CASE FanCooldownDue \/ updateFanCooldown \/ LightsBlinkDue \/ Tick \/ UNCHANGED vars
    BY <1>14, <1>16 DEF FanCooldownDue, updateFanCooldown, LightsBlinkDue, Tick, vars
  <1> QED
    BY <1>1, <1>2, <1>3, <1>6, <1>7, <1>8, <1>9, <1>10, <1>11, <1>12, <1>13, <1>15, <1>16
       DEF Next, Apply

\* What a step does to the history: the relays never become accountable again.
LEMMA HistNext ==
  ASSUME Types, [Next]_vars
  PROVE  /\ hist'.lights => hist.lights
         /\ hist'.fan => hist.fan
         /\ \/ hist'.plan = hist.plan
            \/ applyOperationalPlan /\ hist'.plan = NoPlan
            \/ EndApply /\ hist'.plan = currentPlan
  <1>1. CASE applyOperationalPlan
    BY <1>1 DEF applyOperationalPlan, Types, HistType
  <1>2. CASE clearAllSchedulesAndScripts \/ cancelFanCooldowns
    BY <1>2 DEF clearAllSchedulesAndScripts, cancelFanCooldowns, Types, HistType
  <1>3. CASE BeginApply
    BY <1>3 DEF BeginApply, Types, HistType
  <1>4. CASE Restart
    BY <1>4 DEF Restart, Types, HistType
  <1>5. CASE SetOn
    <2>1. Head1.switch \in {"lights", "fan"}
      <3>1. Head1 \in Jobs /\ Head1.op = "set"
        BY <1>5, NextCall DEF SetOn
      <3>2. Set("lights").switch = "lights" /\ Set("fan").switch = "fan"
        BY DEF Set
      <3> QED
        BY <3>1, <3>2, JobKinds
    <2> QED
      BY <1>5, <2>1, ForfeitOK DEF SetOn
  <1>6. CASE scheduleSwitch
    <2>1. Head1.entry.switch \in {"lights", "fan"}
      <3>1. Head1 \in Jobs /\ Head1.op = "create"
        BY <1>6, NextCall DEF scheduleSwitch
      <3>2. \A e : CreateOf(e).entry = e
        BY DEF CreateOf
      <3> QED
        BY <3>1, <3>2, JobKinds DEF Entries
    <2> QED
      BY <1>6, <2>1, ForfeitOK DEF scheduleSwitch
  <1>7. CASE EndApply
    BY <1>7 DEF EndApply, Types, HistType
  <1>8. CASE startFanCooldown \/ CooldownSetOff \/ blinkSwitch \/ ByHand
    BY <1>8, ForfeitOK DEF startFanCooldown, CooldownSetOff, blinkSwitch, ByHand
  <1>9. CASE \/ FanCooldownDue \/ updateFanCooldown \/ LightsBlinkDue \/ Tick \/ UNCHANGED vars
             \/ scheduleLightsBlink \/ scheduleFanCooldown \/ ResumeFanCooldown
    BY <1>9 DEF FanCooldownDue, updateFanCooldown, LightsBlinkDue, Tick, vars,
                scheduleLightsBlink, scheduleFanCooldown, ResumeFanCooldown
  <1> QED
    BY <1>1, <1>2, <1>3, <1>4, <1>5, <1>6, <1>7, <1>8, <1>9 DEF Next, Apply

LEMMA PlanShapeNext == Types /\ JobShape /\ PlanShape /\ [Next]_vars => PlanShape'
  <1> SUFFICES ASSUME Types, JobShape, PlanShape, [Next]_vars, hist'.plan # NoPlan
               PROVE  \/ currentPlan' = hist'.plan
                      \/ /\ currentPlan' = NoPlan /\ fanCooldownTasks' = {}
                         /\ starting' = {} /\ activeFanCooldown' = NoCooldown
    BY DEF PlanShape
  <1>1. CASE EndApply /\ hist'.plan = currentPlan
    BY <1>1 DEF EndApply
  <1>2. CASE hist'.plan = hist.plan
    <2>1. \/ currentPlan = hist.plan
          \/ /\ currentPlan = NoPlan /\ fanCooldownTasks = {}
             /\ starting = {} /\ activeFanCooldown = NoCooldown
      BY <1>2 DEF PlanShape
    <2>2. ~ Stage("calls") /\ ~ Stage("clear") /\ ~ Stage("begin")
      BY <1>2 DEF JobShape, Stage
    <2>3. CASE applyOperationalPlan
      BY <1>2, <2>3 DEF applyOperationalPlan, Types, HistType
    <2>4. CASE Apply
      BY <2>2, <2>4 DEF Apply, clearAllSchedulesAndScripts, BeginApply, SetOn, scheduleSwitch,
        scheduleLightsBlink, cancelFanCooldowns, scheduleFanCooldown, ResumeFanCooldown,
        EndApply, Next1
    <2>5. CASE FanCooldownDue
      BY <1>2, <2>1, <2>5 DEF FanCooldownDue
    <2>6. CASE startFanCooldown
      BY <1>2, <2>1, <2>6 DEF startFanCooldown
    <2>7. CASE updateFanCooldown
      BY <1>2, <2>1, <2>7 DEF updateFanCooldown, timers, cooldown
    <2>8. CASE CooldownSetOff \/ LightsBlinkDue \/ blinkSwitch \/ ByHand \/ Tick \/ UNCHANGED vars
      BY <1>2, <2>1, <2>8 DEF CooldownSetOff, LightsBlinkDue, blinkSwitch, ByHand, Tick, vars,
        timers, cooldown
    <2>9. CASE Restart
      BY <2>9 DEF Restart
    <2> QED
      BY <2>3, <2>4, <2>5, <2>6, <2>7, <2>8, <2>9 DEF Next
  <1> QED
    BY <1>1, <1>2, HistNext

LEMMA ClearShapeNext == Types /\ JobShape /\ ClearShape /\ [Next]_vars => ClearShape'
  <1> SUFFICES ASSUME Types, JobShape, ClearShape, [Next]_vars PROVE ClearShape'
    OBVIOUS
  <1>1. ASSUME job'.stage \notin {"clear", "begin"} PROVE ClearShape'
    BY <1>1 DEF ClearShape
  <1>2. CASE applyOperationalPlan
    BY <1>2 DEF applyOperationalPlan, ClearShape, IdleJob
  <1>3. CASE clearAllSchedulesAndScripts
    <2>1. job'.stage = "begin" /\ lightsBlinkTasks' = {}
      BY <1>3 DEF clearAllSchedulesAndScripts, Types, JobType, ClearShape, Stage, timers
    <2>2. schedule' = {} \/ (hist'.lights = FALSE /\ hist'.fan = FALSE)
      BY <1>3 DEF clearAllSchedulesAndScripts, Types, HistType
    <2> QED
      BY <2>1, <2>2 DEF ClearShape
  <1>4. CASE BeginApply
    <2>1. job'.stage = "calls"
      BY <1>4 DEF BeginApply, Types, JobType
    <2> QED
      BY <1>1, <2>1
  <1>5. ASSUME job.stage = "calls", job'.stage \in {"calls", "idle"} PROVE ClearShape'
    BY <1>1, <1>5
  <1>6. CASE \/ scheduleLightsBlink \/ cancelFanCooldowns \/ scheduleFanCooldown
    <2>1. job.todo # <<>> /\ job.stage = "calls" /\ Done
      BY <1>6, NextCall DEF scheduleLightsBlink, cancelFanCooldowns, scheduleFanCooldown
    <2> QED
      BY <1>5, <2>1, JobDone
  <1>7. CASE SetOn \/ scheduleSwitch \/ ResumeFanCooldown
    <2>1. job.todo # <<>> /\ job.stage = "calls"
      BY <1>7, NextCall DEF SetOn, scheduleSwitch, ResumeFanCooldown
    <2>2. Done \/ GivesUp \/ job' = [job EXCEPT !.tries = @ - 1]
      BY <1>7 DEF SetOn, scheduleSwitch, ResumeFanCooldown
    <2>3. [job EXCEPT !.tries = @ - 1].stage = job.stage
      BY DEF Types, JobType
    <2> QED
      BY <1>5, <2>1, <2>2, <2>3, JobDone, JobIdle
  <1>8. CASE EndApply
    BY <1>1, <1>8, JobIdle DEF EndApply
  <1>9. CASE Restart
    <2>1. job'.stage = "idle"
      BY <1>9 DEF Restart, IdleJob
    <2> QED
      BY <1>1, <2>1
  <1>10. ASSUME UNCHANGED <<job, schedule>>, lightsBlinkTasks' \subseteq lightsBlinkTasks
         PROVE  ClearShape'
    BY <1>10, HistNext DEF ClearShape
  <1>11. CASE \/ FanCooldownDue \/ startFanCooldown \/ updateFanCooldown \/ CooldownSetOff
              \/ LightsBlinkDue \/ blinkSwitch \/ ByHand \/ Tick \/ UNCHANGED vars
    <2>1. UNCHANGED <<job, schedule>> /\ lightsBlinkTasks' \subseteq lightsBlinkTasks
      BY <1>11 DEF FanCooldownDue, startFanCooldown, updateFanCooldown, CooldownSetOff,
        LightsBlinkDue, blinkSwitch, ByHand, Tick, vars, device, timers
    <2> QED
      BY <1>10, <2>1
  <1> QED
    BY <1>2, <1>3, <1>4, <1>6, <1>7, <1>8, <1>9, <1>11 DEF Next, Apply

LEMMA BlinkShapeNext == Types /\ ClearShape /\ BlinkShape /\ [Next]_vars => BlinkShape'
  <1> SUFFICES ASSUME Types, ClearShape, BlinkShape, [Next]_vars PROVE BlinkShape'
    OBVIOUS
  <1>0. job.todo \in Seq(Jobs) /\ (hist'.lights => hist.lights)
    BY HistNext DEF Types, JobType
  <1>1. ASSUME job'.todo = <<>> PROVE BlinkShape'
    BY <1>1 DEF BlinkShape, BlinksLast, After
  <1>2. CASE applyOperationalPlan \/ Restart
    BY <1>1, <1>2 DEF applyOperationalPlan, Restart, IdleJob
  <1>3. CASE BeginApply
    <2>1. job'.todo = ApplyCalls(currentPlan, now)
      BY <1>3 DEF BeginApply, Types, JobType
    <2>2. BlinksLast(job'.todo)
      BY <2>1, PlansOK, ApplyCallsOK DEF Types
    <2>3. lightsBlinkTasks' = {}
      BY <1>3 DEF BeginApply, ClearShape, Stage, timers
    <2>4. hist'.lights => blink' = NoBlink
      BY <1>3 DEF BeginApply, Types, HistType
    <2> QED
      BY <2>2, <2>3, <2>4 DEF BlinkShape
  <1>4. ASSUME job.todo # <<>>, job'.todo = Tail(job.todo), UNCHANGED <<lightsBlinkTasks, blink>>
        PROVE  BlinkShape'
    <2>1. BlinksLast(job'.todo)
      BY <1>0, <1>4, TailTodo DEF BlinkShape
    <2>2. After(job'.todo, 0, Set("lights")) => After(job.todo, 0, Set("lights"))
      BY <1>0, <1>4, TailOK
    <2> QED
      BY <1>0, <1>4, <2>1, <2>2 DEF BlinkShape
  <1>5. ASSUME GivesUp PROVE BlinkShape'
    BY <1>1, <1>5, JobIdle
  <1>6. ASSUME UNCHANGED <<job, blink>>, lightsBlinkTasks' \subseteq lightsBlinkTasks
        PROVE  BlinkShape'
    BY <1>0, <1>6 DEF BlinkShape
  <1>7. CASE clearAllSchedulesAndScripts
    <2>1. job'.todo = job.todo /\ UNCHANGED <<blink, lightsBlinkTasks>>
      BY <1>7 DEF clearAllSchedulesAndScripts, Types, JobType, timers
    <2> QED
      BY <1>0, <2>1 DEF BlinkShape
  <1>8. CASE SetOn
    <2>1. job.todo # <<>> /\ UNCHANGED <<blink, lightsBlinkTasks>>
      BY <1>8, NextCall DEF SetOn, timers
    <2>2. CASE Done
      BY <1>4, <2>1, <2>2, JobDone
    <2>3. CASE job' = [job EXCEPT !.tries = @ - 1]
      <3>1. job'.todo = job.todo
        BY <2>3 DEF Types, JobType
      <3> QED
        BY <1>0, <2>1, <3>1 DEF BlinkShape
    <2> QED
      BY <1>8, <2>2, <2>3 DEF SetOn
  <1>9. CASE scheduleSwitch \/ ResumeFanCooldown \/ cancelFanCooldowns \/ scheduleFanCooldown
    <2>1. job.todo # <<>> /\ UNCHANGED <<blink, lightsBlinkTasks>>
      BY <1>9, NextCall DEF scheduleSwitch, ResumeFanCooldown, cancelFanCooldowns,
        scheduleFanCooldown, timers
    <2>2. CASE Done
      BY <1>4, <2>1, <2>2, JobDone
    <2> QED
      BY <1>5, <1>9, <2>2 DEF scheduleSwitch, ResumeFanCooldown, cancelFanCooldowns,
        scheduleFanCooldown
  <1>10. CASE scheduleLightsBlink
    <2>1. job.todo # <<>> /\ Head(job.todo).op = "blinks" /\ job'.todo = Tail(job.todo)
      BY <1>10, NextCall, JobDone DEF scheduleLightsBlink
    <2>2. BlinksLast(job'.todo)
      BY <1>0, <2>1, TailTodo DEF BlinkShape
    <2>3. ~ After(job'.todo, 0, Set("lights"))
      <3> SUFFICES ASSUME NEW k \in DOMAIN Tail(job.todo), Tail(job.todo)[k] = Set("lights")
                   PROVE  FALSE
        BY <2>1 DEF After
      <3>1. /\ 1 \in DOMAIN job.todo /\ k + 1 \in DOMAIN job.todo
            /\ job.todo[1].op = "blinks" /\ job.todo[k + 1] = Set("lights")
        BY <1>0, <2>1, TailOK
      <3>2. 1 < k + 1
        OBVIOUS
      <3> QED
        BY <3>1, <3>2, JobsOK DEF BlinkShape, BlinksLast
    <2> QED
      BY <2>2, <2>3 DEF BlinkShape
  <1>11. CASE EndApply
    BY <1>5, <1>11 DEF EndApply
  <1>12. CASE \/ FanCooldownDue \/ startFanCooldown \/ updateFanCooldown \/ CooldownSetOff
              \/ ByHand \/ Tick \/ UNCHANGED vars
    <2>1. UNCHANGED <<job, blink, lightsBlinkTasks>>
      BY <1>12 DEF FanCooldownDue, startFanCooldown, updateFanCooldown, CooldownSetOff,
        ByHand, Tick, vars, timers
    <2> QED
      BY <1>6, <2>1
  <1>13. CASE LightsBlinkDue
    <2>1. UNCHANGED job /\ lightsBlinkTasks # {}
      BY <1>13 DEF LightsBlinkDue
    <2> QED
      BY <2>1 DEF BlinkShape
  <1>14. CASE blinkSwitch
    <2>1. UNCHANGED <<job, lightsBlinkTasks>> /\ blink # NoBlink
      BY <1>14 DEF blinkSwitch, timers
    <2> QED
      BY <1>0, <2>1 DEF BlinkShape
  <1> QED
    BY <1>2, <1>3, <1>7, <1>8, <1>9, <1>10, <1>11, <1>12, <1>13, <1>14 DEF Next, Apply

LEMMA ShapeNext == Types /\ Shape /\ [Next]_vars => Shape'
  BY JobShapeNext, PlanShapeNext, ClearShapeNext, BlinkShapeNext DEF Shape

-----------------------------------------------------------------------------
(* The bounds of the types: tries, and cooldowns of slots that have ended. *)

TriesOK ==
  /\ now <= Horizon
  /\ job.tries \in 1..MaxTries /\ cooldownOff <= MaxTries
  /\ blink.left \in 0..BlinkCount

EndedOK ==
  /\ activeFanCooldown # NoCooldown => activeFanCooldown.slotEndedAt <= now
  /\ \A t \in starting : t <= now
  /\ \A k \in DOMAIN job.todo : job.todo[k].op = "resume" => job.todo[k].end <= now

LEMMA BoundsInit == Init => TriesOK /\ EndedOK
  <1> SUFFICES ASSUME Init PROVE TriesOK /\ EndedOK
    OBVIOUS
  <1>1. TriesOK
    BY FansAssumption DEF Init, TriesOK, IdleJob, NoBlink
  <1>2. \A k : k \notin DOMAIN <<>>
    OBVIOUS
  <1>3. EndedOK
    BY <1>2 DEF Init, EndedOK, IdleJob
  <1> QED
    BY <1>1, <1>3

LEMMA TriesNext == Types /\ TriesOK /\ [Next]_vars => TriesOK'
  <1> SUFFICES ASSUME Types, TriesOK, [Next]_vars PROVE TriesOK'
    OBVIOUS
  <1>1. MaxTries \in Nat \ {0} /\ BlinkCount \in Nat \ {0} /\ Horizon \in Nat
    BY FansAssumption
  <1>2. job \in JobType /\ blink \in BlinkType /\ cooldownOff \in Nat /\ now \in Nat
    BY DEF Types
  <1>3. IdleJob.tries \in 1..MaxTries /\ NoBlink.left \in 0..BlinkCount
    BY <1>1 DEF IdleJob, NoBlink
  <1>4. CASE Apply
    <2>1. job'.tries \in 1..MaxTries
      <3>1. Done => job'.tries = MaxTries
        BY <1>2 DEF Done, JobType
      <3>2. GivesUp => job'.tries = MaxTries
        BY DEF GivesUp, IdleJob
      <3>3. CASE clearAllSchedulesAndScripts \/ BeginApply
        <4>1. job'.tries = job.tries
          BY <1>2, <3>3 DEF clearAllSchedulesAndScripts, BeginApply, JobType
        <4> QED
          BY <4>1 DEF TriesOK
      <3>4. CASE SetOn
        <4>1. Done \/ (~ LastTry /\ job' = [job EXCEPT !.tries = @ - 1])
          BY <3>4 DEF SetOn
        <4>2. CASE ~ LastTry /\ job' = [job EXCEPT !.tries = @ - 1]
          <5>1. job'.tries = job.tries - 1 /\ job.tries # 1
            BY <1>2, <4>2 DEF LastTry, JobType
          <5> QED
            BY <1>1, <5>1 DEF TriesOK
        <4> QED
          BY <1>1, <3>1, <4>1, <4>2
      <3>5. CASE scheduleSwitch \/ ResumeFanCooldown \/ EndApply
        <4>1. Done \/ GivesUp
          BY <3>5 DEF scheduleSwitch, ResumeFanCooldown, EndApply
        <4> QED
          BY <1>1, <3>1, <3>2, <4>1
      <3>6. CASE scheduleLightsBlink \/ cancelFanCooldowns \/ scheduleFanCooldown
        <4>1. Done
          BY <3>6 DEF scheduleLightsBlink, cancelFanCooldowns, scheduleFanCooldown
        <4> QED
          BY <1>1, <3>1, <4>1
      <3> QED
        BY <1>4, <3>3, <3>4, <3>5, <3>6 DEF Apply
    <2>2. UNCHANGED <<now, cooldownOff, blink>>
      BY <1>4 DEF Apply, clearAllSchedulesAndScripts, BeginApply, SetOn, scheduleSwitch,
            scheduleLightsBlink, cancelFanCooldowns, scheduleFanCooldown, ResumeFanCooldown,
            EndApply, cooldown
    <2> QED
      BY <2>1, <2>2 DEF TriesOK
  <1>5. CASE applyOperationalPlan
    <2>1. job'.tries \in 1..MaxTries /\ UNCHANGED <<now, cooldownOff, blink>>
      BY <1>3, <1>5 DEF applyOperationalPlan, IdleJob, cooldown
    <2> QED
      BY <2>1 DEF TriesOK
  <1>6. CASE FanCooldownDue \/ startFanCooldown \/ ByHand
    <2>1. UNCHANGED <<now, job, cooldownOff, blink>>
      BY <1>6 DEF FanCooldownDue, startFanCooldown, ByHand, cooldown
    <2> QED
      BY <2>1 DEF TriesOK
  <1>7. CASE updateFanCooldown \/ CooldownSetOff
    <2>1. UNCHANGED <<now, job, blink>>
      BY <1>7 DEF updateFanCooldown, CooldownSetOff
    <2>2. cooldownOff' \in {cooldownOff, MaxTries, 0}
          \/ (cooldownOff > 0 /\ cooldownOff' = cooldownOff - 1)
      BY <1>7 DEF updateFanCooldown, CooldownSetOff, cooldown
    <2>3. cooldownOff' <= MaxTries
      BY <1>1, <1>2, <2>2 DEF TriesOK
    <2> QED
      BY <2>1, <2>3 DEF TriesOK
  <1>8. CASE LightsBlinkDue \/ blinkSwitch
    <2>1. UNCHANGED <<now, job, cooldownOff>>
      BY <1>8 DEF LightsBlinkDue, blinkSwitch, cooldown
    <2>2. \/ blink'.left = BlinkCount \/ blink' = NoBlink \/ blink'.left = blink.left
          \/ (blink.left > 1 /\ blink'.left = blink.left - 1)
      <3>1. CASE LightsBlinkDue
        <4>1. \/ blink' = [stage |-> "away", left |-> BlinkCount, resting |-> lights]
              \/ blink' = blink
          BY <3>1 DEF LightsBlinkDue
        <4> QED
          BY <4>1
      <3>2. CASE blinkSwitch
        <4>1. \/ blink' = [blink EXCEPT !.stage = "back"]
              \/ blink.left > 1 /\ blink' = [blink EXCEPT !.stage = "away", !.left = @ - 1]
              \/ blink' = NoBlink
          BY <3>2, Zenon DEF blinkSwitch
        <4>2. /\ [blink EXCEPT !.stage = "back"].left = blink.left
              /\ [blink EXCEPT !.stage = "away", !.left = @ - 1].left = blink.left - 1
          BY <1>2 DEF BlinkType
        <4> QED
          BY <4>1, <4>2
      <3> QED
        BY <1>8, <3>1, <3>2
    <2>3. blink'.left \in 0..BlinkCount
      BY <1>1, <1>2, <1>3, <2>2 DEF TriesOK
    <2> QED
      BY <2>1, <2>3 DEF TriesOK
  <1>9. CASE Restart
    <2>1. job' = IdleJob /\ cooldownOff' = 0 /\ blink' = NoBlink /\ now' = now
      BY <1>9 DEF Restart
    <2> QED
      BY <1>1, <1>3, <2>1 DEF TriesOK
  <1>10. CASE Tick
    <2>1. now < Horizon /\ now' = now + 1 /\ UNCHANGED <<job, cooldownOff, blink>>
      BY <1>10 DEF Tick, cooldown
    <2>2. now' <= Horizon
      BY <1>1, <1>2, <2>1
    <2> QED
      BY <2>1, <2>2 DEF TriesOK
  <1>11. CASE UNCHANGED vars
    BY <1>11 DEF vars, cooldown, TriesOK
  <1> QED
    BY <1>4, <1>5, <1>6, <1>7, <1>8, <1>9, <1>10, <1>11 DEF Next

\* A cooldown is started by the timer of a slot's end, or taken up when the slot is over.
LEMMA EndedNext == Types /\ EndedOK /\ [Next]_vars => EndedOK'
  <1> SUFFICES ASSUME Types, EndedOK, [Next]_vars PROVE EndedOK'
    OBVIOUS
  <1>1. now \in Nat /\ job \in JobType /\ job.todo \in Seq(Jobs)
        /\ activeFanCooldown \in CooldownType \cup {NoCooldown} /\ starting \subseteq Nat
    BY DEF Types, JobType
  <1>2. \A k : k \notin DOMAIN <<>>
    OBVIOUS
  <1>3. ASSUME job.todo # <<>>, Done
        PROVE  \A k \in DOMAIN job'.todo :
                 job'.todo[k].op = "resume" => job'.todo[k].end <= now
    <2>1. job'.todo = Tail(job.todo)
      BY <1>1, <1>3 DEF Done, JobType
    <2> QED
      BY <1>1, <1>3, <2>1, TailOK DEF EndedOK
  <1>4. GivesUp => job'.todo = <<>>
    BY DEF GivesUp, IdleJob
  <1>5. CASE clearAllSchedulesAndScripts
    <2>1. job'.todo = job.todo /\ UNCHANGED <<now, starting, activeFanCooldown>>
      BY <1>1, <1>5 DEF clearAllSchedulesAndScripts, cooldown, JobType
    <2> QED
      BY <2>1 DEF EndedOK
  <1>6. CASE BeginApply
    <2>1. job'.todo = ApplyCalls(currentPlan, now) /\ UNCHANGED <<now, starting, activeFanCooldown>>
      BY <1>1, <1>6 DEF BeginApply, cooldown, JobType
    <2>2. PlanOK(currentPlan)
      BY PlansOK DEF Types
    <2>3. FanTodo(job'.todo, currentPlan, now)
      BY <1>1, <2>1, <2>2, ApplyCallsOK
    <2>4. \A k \in DOMAIN job'.todo : job'.todo[k].op = "resume" => job'.todo[k].end <= now
      BY <2>3 DEF FanTodo, FanCallOK
    <2> QED
      BY <2>1, <2>4 DEF EndedOK
  <1>7. CASE SetOn
    <2>1. job.todo # <<>> /\ UNCHANGED <<now, starting, activeFanCooldown>>
      BY <1>7 DEF SetOn, Next1, cooldown
    <2>2. Done \/ job' = [job EXCEPT !.tries = @ - 1]
      BY <1>7 DEF SetOn
    <2>3. job' = [job EXCEPT !.tries = @ - 1] => job'.todo = job.todo
      BY <1>1 DEF JobType
    <2> QED
      BY <1>3, <2>1, <2>2, <2>3 DEF EndedOK
  <1>8. CASE scheduleSwitch \/ scheduleLightsBlink \/ cancelFanCooldowns \/ scheduleFanCooldown
    <2>1. job.todo # <<>> /\ UNCHANGED <<now, starting>> /\ (Done \/ GivesUp)
          /\ activeFanCooldown' \in {activeFanCooldown, NoCooldown}
      BY <1>8 DEF scheduleSwitch, scheduleLightsBlink, cancelFanCooldowns, scheduleFanCooldown,
            CooldownsCancelled, Next1, cooldown
    <2> QED
      BY <1>2, <1>3, <1>4, <2>1 DEF EndedOK
  <1>9. CASE ResumeFanCooldown
    <2>1. job.todo # <<>> /\ Head1.op = "resume" /\ UNCHANGED <<now, starting>> /\ (Done \/ GivesUp)
          /\ activeFanCooldown' \in {activeFanCooldown, newFanCooldown(Head1.end)}
      BY <1>9 DEF ResumeFanCooldown, Next1
    <2>2. Head1.end <= now
      BY <1>1, <2>1 DEF EndedOK, Head1
    <2>3. newFanCooldown(Head1.end).slotEndedAt = Head1.end
      BY DEF newFanCooldown
    <2> QED
      BY <1>2, <1>3, <1>4, <2>1, <2>2, <2>3 DEF EndedOK
  <1>10. CASE EndApply \/ Restart
    <2>1. job'.todo = <<>> /\ now' = now /\ starting' \subseteq starting
          /\ activeFanCooldown' \in {activeFanCooldown, NoCooldown}
      BY <1>10 DEF EndApply, Restart, GivesUp, IdleJob, cooldown
    <2> QED
      BY <1>2, <2>1 DEF EndedOK
  <1>11. CASE FanCooldownDue
    <2>1. PICK t \in fanCooldownTasks : t <= now /\ starting' = starting \cup {t}
      BY <1>11 DEF FanCooldownDue
    <2>2. UNCHANGED <<now, job, activeFanCooldown>>
      BY <1>11 DEF FanCooldownDue
    <2> QED
      BY <2>1, <2>2 DEF EndedOK
  <1>12. CASE startFanCooldown
    <2>1. PICK t \in starting : /\ starting' = starting \ {t}
                                /\ activeFanCooldown' \in {activeFanCooldown, newFanCooldown(t)}
      BY <1>12 DEF startFanCooldown
    <2>2. UNCHANGED <<now, job>> /\ newFanCooldown(t).slotEndedAt = t
      BY <1>12 DEF startFanCooldown, newFanCooldown
    <2> QED
      BY <2>1, <2>2 DEF EndedOK
  <1>13. CASE updateFanCooldown
    <2>1. UNCHANGED <<now, job, starting>>
      BY <1>13 DEF updateFanCooldown, cooldown
    <2>2. \/ activeFanCooldown' \in {activeFanCooldown, NoCooldown}
          \/ /\ activeFanCooldown # NoCooldown
             /\ \E reading \in Temps \cup {NoReading} :
                  activeFanCooldown' = withReading(activeFanCooldown, now, reading)
      BY <1>13 DEF updateFanCooldown, cooldown
    <2>3. activeFanCooldown' # NoCooldown => activeFanCooldown'.slotEndedAt <= now
      BY <1>1, <2>2, withReadingOK DEF EndedOK
    <2> QED
      BY <2>1, <2>3 DEF EndedOK
  <1>14. CASE CooldownSetOff \/ LightsBlinkDue \/ blinkSwitch \/ ByHand
    <2>1. UNCHANGED <<now, job, starting, activeFanCooldown>>
      BY <1>14 DEF CooldownSetOff, LightsBlinkDue, blinkSwitch, ByHand, cooldown
    <2> QED
      BY <2>1 DEF EndedOK
  <1>15. CASE applyOperationalPlan
    <2>1. job'.todo = <<>> /\ UNCHANGED <<now, starting, activeFanCooldown>>
      BY <1>15 DEF applyOperationalPlan, IdleJob, cooldown
    <2> QED
      BY <1>2, <2>1 DEF EndedOK
  <1>16. CASE Tick
    <2>1. now' = now + 1 /\ UNCHANGED <<job, starting, activeFanCooldown>>
      BY <1>16 DEF Tick, cooldown
    <2>2. \A k \in DOMAIN job.todo : job.todo[k].op = "resume" => job.todo[k].end \in Nat
      <3>1. \A j \in Jobs : j.op = "resume" => j.end \in Nat
        BY JobKinds
      <3> QED
        BY <1>1, <3>1
    <2>3. activeFanCooldown # NoCooldown => activeFanCooldown.slotEndedAt \in Nat
      BY <1>1 DEF CooldownType
    <2>4. \A x \in Nat : x <= now => x <= now'
      BY <1>1, <2>1
    <2> QED
      BY <1>1, <2>1, <2>2, <2>3, <2>4 DEF EndedOK
  <1>17. CASE UNCHANGED vars
    BY <1>17 DEF vars, cooldown, EndedOK
  <1> QED
    BY <1>5, <1>6, <1>7, <1>8, <1>9, <1>10, <1>11, <1>12, <1>13, <1>14, <1>15, <1>16, <1>17
    DEF Next, Apply

\* Every variable keeps its type: the tries of a call never run out below one, and a
\* cooldown is never that of a slot which is still to end.
THEOREM TypeCorrect == Spec => []TypeOK
  <1>1. Types /\ TriesOK /\ EndedOK => TypeOK
    <2> SUFFICES ASSUME Types, TriesOK, EndedOK PROVE TypeOK
      OBVIOUS
    <2>1. now \in 0..Horizon /\ cooldownOff \in 0..MaxTries
      BY FansAssumption DEF Types, TriesOK
    <2>2. activeFanCooldown.slotEndedAt \in {-1} \cup 0..Horizon
      <3>1. CASE activeFanCooldown = NoCooldown
        BY <3>1 DEF NoCooldown
      <3>2. CASE activeFanCooldown # NoCooldown
        <4>1. activeFanCooldown.slotEndedAt \in Nat /\ activeFanCooldown.slotEndedAt <= now
          BY <3>2 DEF Types, CooldownType, EndedOK
        <4> QED
          BY <2>1, <4>1, FansAssumption
      <3> QED
        BY <3>1, <3>2
    <2>3. \A e \in schedule : e.switch \in Switches /\ e.on \in BOOLEAN /\ e.at \in Nat
      BY DEF Types, Entries, Switches
    <2>4. job.stage \in {"idle", "clear", "begin", "calls"} /\ blink.stage \in {"none", "away", "back"}
      BY DEF Types, JobType, BlinkType
    <2> QED
      BY <2>1, <2>2, <2>3, <2>4 DEF TypeOK, Types, TriesOK
  <1>2. Types /\ TriesOK /\ EndedOK /\ [Next]_vars => (Types /\ TriesOK /\ EndedOK)'
    BY TypesNext, TriesNext, EndedNext
  <1>3. Init => Types /\ TriesOK /\ EndedOK
    BY TypesInit, BoundsInit
  <1> QED
    BY <1>1, <1>2, <1>3, PTL DEF Spec

-----------------------------------------------------------------------------
(* The lights follow the bookings. *)

Serving == Stage("calls") \/ hist.plan # NoPlan
ThePlan == IF Stage("calls") THEN currentPlan ELSE hist.plan

\* the lights are right for the plan P since t
LightsState(P, t) == LightsOK(P, t, job.todo, now, lights, schedule, blink)

LightsServed == Serving /\ hist.lights => \E t \in 0..now : LightsState(ThePlan, t)

\* A step that leaves a plan with the device leaves the same one there.
LEMMA PlanStays ==
  ASSUME Types, JobShape, [Next]_vars, Serving', ~ BeginApply
  PROVE  Serving /\ ThePlan' = ThePlan
  <1>1. CASE applyOperationalPlan
    <2>1. ~ Stage("calls")' /\ hist'.plan = NoPlan
      BY <1>1 DEF applyOperationalPlan, Stage, IdleJob, Types, HistType
    <2> QED
      BY <2>1 DEF Serving
  <1>2. CASE clearAllSchedulesAndScripts
    <2>1. ~ Stage("calls")' /\ hist'.plan = NoPlan
      BY <1>2 DEF clearAllSchedulesAndScripts, Stage, Types, JobType, HistType, JobShape
    <2> QED
      BY <2>1 DEF Serving
  <1>3. CASE EndApply
    <2>1. ~ Stage("calls")'
      BY <1>3, JobIdle DEF EndApply, Stage
    <2>2. Stage("calls") /\ hist'.plan = currentPlan
      BY <1>3 DEF EndApply, Types, HistType
    <2> QED
      BY <2>1, <2>2 DEF Serving, ThePlan
  <1>4. ASSUME UNCHANGED <<currentPlan>>, job.stage = "calls", hist'.plan = hist.plan,
               job'.stage = "calls" \/ job'.stage = "idle"
        PROVE  Serving /\ ThePlan' = ThePlan
    <2>1. hist.plan = NoPlan
      BY <1>4 DEF JobShape
    <2> QED
      BY <1>4, <2>1 DEF Serving, ThePlan, Stage
  <1>5. CASE SetOn \/ scheduleSwitch \/ scheduleLightsBlink \/ cancelFanCooldowns
             \/ scheduleFanCooldown \/ ResumeFanCooldown
    <2>1. job.todo # <<>> /\ job.stage = "calls"
      BY <1>5, NextCall DEF SetOn, scheduleSwitch, scheduleLightsBlink, cancelFanCooldowns,
        scheduleFanCooldown, ResumeFanCooldown
    <2>2. Done \/ GivesUp \/ job' = [job EXCEPT !.tries = @ - 1]
      BY <1>5 DEF SetOn, scheduleSwitch, scheduleLightsBlink, cancelFanCooldowns,
        scheduleFanCooldown, ResumeFanCooldown
    <2>3. [job EXCEPT !.tries = @ - 1].stage = job.stage
      BY DEF Types, JobType
    <2>4. job'.stage = "calls" \/ job'.stage = "idle"
      BY <2>1, <2>2, <2>3, JobDone, JobIdle
    <2>5. UNCHANGED currentPlan
      BY <1>5 DEF SetOn, scheduleSwitch, scheduleLightsBlink, cancelFanCooldowns,
        scheduleFanCooldown, ResumeFanCooldown
    <2>6. ~ applyOperationalPlan /\ ~ EndApply
      BY <2>1 DEF applyOperationalPlan, EndApply, Stage
    <2> QED
      BY <1>4, <2>1, <2>4, <2>5, <2>6, HistNext
  <1>6. CASE Restart
    <2>1. ~ Stage("calls")' /\ hist'.plan = hist.plan
      BY <1>6 DEF Restart, Stage, IdleJob, Types, HistType
    <2>2. ~ Stage("calls")
      BY <2>1 DEF Serving, JobShape, Stage
    <2> QED
      BY <2>1, <2>2 DEF Serving, ThePlan
  <1>7. CASE \/ FanCooldownDue \/ startFanCooldown \/ updateFanCooldown \/ CooldownSetOff
             \/ LightsBlinkDue \/ blinkSwitch \/ ByHand \/ Tick \/ UNCHANGED vars
    <2>1. UNCHANGED <<job, currentPlan>>
      BY <1>7 DEF FanCooldownDue, startFanCooldown, updateFanCooldown, CooldownSetOff,
        LightsBlinkDue, blinkSwitch, ByHand, Tick, vars
    <2>2. hist'.plan = hist.plan
      BY <1>7, ForfeitOK DEF FanCooldownDue, startFanCooldown, updateFanCooldown,
        CooldownSetOff, LightsBlinkDue, blinkSwitch, ByHand, Tick, vars
    <2> QED
      BY <2>1, <2>2 DEF Serving, ThePlan, Stage
  <1> QED
    BY <1>1, <1>2, <1>3, <1>5, <1>6, <1>7 DEF Next, Apply

\* A plan that is given up no longer serves.
LEMMA GivenUp ==
  ASSUME Types, JobShape, Stage("calls"), GivesUp, UNCHANGED hist
  PROVE  ~ Serving'
  <1>1. hist.plan = NoPlan
    BY DEF JobShape, Stage
  <1>2. ~ Stage("calls")'
    BY JobIdle DEF Stage
  <1> QED
    BY <1>1, <1>2 DEF Serving

\* Each step keeps the lights right for the plan, as the lemmas above say of each call,
\* or they are no longer accountable to it.
LEMMA LightsStays ==
  ASSUME Types, Shape, [Next]_vars, ~ BeginApply, Serving', hist'.lights, hist.lights,
         NEW P, PlanOK(P), NEW t \in Nat, t <= now, LightsState(P, t)
  PROVE  LightsState(P, t)'
  <1>0. /\ job.todo \in Seq(Jobs) /\ now \in Nat /\ lights \in BOOLEAN
        /\ \A e \in LightsEntries(P, t) : e.switch = "lights"
    BY LightsEntriesOK DEF Types, JobType
  <1>1. LightsOK(P, t, job.todo, now, lights, schedule, blink)
    BY DEF LightsState
  <1>2. ASSUME job'.todo = job.todo, UNCHANGED <<now, lights, schedule, blink>>
        PROVE  LightsState(P, t)'
    BY <1>1, <1>2 DEF LightsState
  <1>3. ASSUME job.todo # <<>>, job'.todo = Tail(job.todo),
               UNCHANGED <<now, lights, schedule, blink>>,
               ~ (Head(job.todo).op = "create" /\ Head(job.todo).entry.switch = "lights"),
               Head(job.todo) # Set("lights")
        PROVE  LightsState(P, t)'
    BY <1>0, <1>1, <1>3, LightsTail DEF LightsState
  <1>4. CASE applyOperationalPlan \/ clearAllSchedulesAndScripts
    <2>1. ~ Stage("calls")' /\ hist'.plan = NoPlan
      BY <1>4 DEF applyOperationalPlan, clearAllSchedulesAndScripts, Stage, IdleJob, Types,
        JobType, HistType, Shape, JobShape
    <2> QED
      BY <2>1 DEF Serving
  <1>5. CASE EndApply
    <2>1. job'.todo = job.todo
      BY <1>5, JobIdle DEF EndApply
    <2> QED
      BY <1>2, <1>5, <2>1 DEF EndApply, device
  <1>6. CASE SetOn
    <2>1. /\ job.todo # <<>> /\ Head1 = Head(job.todo) /\ Head1 \in Jobs /\ Head1.op = "set"
          /\ UNCHANGED <<now, schedule, blink>>
      BY <1>6, NextCall DEF SetOn
    <2>2. Head1 = Set("lights") \/ Head1 = Set("fan")
      BY <2>1, JobKinds
    <2>3. CASE Head1 = Set("fan")
      <3>1. Head1.switch = "fan" /\ Head1 # Set("lights")
        BY <2>3 DEF Set
      <3>2. UNCHANGED lights
        BY <1>6, <3>1 DEF SetOn, Switched
      <3>3. CASE Done
        BY <1>3, <2>1, <3>1, <3>2, <3>3, JobDone
      <3>4. CASE job' = [job EXCEPT !.tries = @ - 1]
        <4>1. job'.todo = job.todo
          BY <3>4 DEF Types, JobType
        <4> QED
          BY <1>2, <2>1, <3>2, <4>1
      <3> QED
        BY <1>6, <3>3, <3>4 DEF SetOn
    <2>4. CASE Head1 = Set("lights")
      <3>1. Head1.switch = "lights"
        BY <2>4 DEF Set
      <3>2. After(job.todo, 0, Set("lights"))
        BY <1>0, <2>1, <2>4, TailOK
      <3>3. blink = NoBlink
        BY <3>2 DEF Shape, BlinkShape
      <3>4. CASE Answered /\ Switched(Head1.switch, TRUE) /\ Done
        <4>1. lights' = TRUE /\ job'.todo = Tail(job.todo)
          BY <2>1, <3>1, <3>4, JobDone DEF Switched
        <4>2. LightsOK(P, t, Tail(job.todo), now, TRUE, schedule, NoBlink)
          BY <1>0, <1>1, <2>1, <2>4, <3>3, LightsSet
        <4> QED
          BY <2>1, <3>3, <4>1, <4>2 DEF LightsState
      <3>5. CASE /\ IF LastTry THEN Done ELSE job' = [job EXCEPT !.tries = @ - 1]
                 /\ IF LastTry \/ Crossing(Head1.switch) THEN Forfeit(Head1.switch)
                    ELSE UNCHANGED hist
        <4>1. ~ LastTry
          BY <3>1, <3>5, ForfeitOK
        <4>2. job'.todo = job.todo
          BY <3>5, <4>1 DEF Types, JobType
        <4>3. LightsOK(P, t, job.todo, now, lights', schedule, blink)
          BY <1>1, <3>2 DEF LightsOK
        <4> QED
          BY <2>1, <4>2, <4>3 DEF LightsState
      <3> QED
        BY <1>6, <3>4, <3>5 DEF SetOn
    <2> QED
      BY <2>2, <2>3, <2>4
  <1>7. CASE scheduleSwitch
    <2>1. /\ job.todo # <<>> /\ Head1 = Head(job.todo) /\ Head1 \in Jobs /\ Head1.op = "create"
          /\ UNCHANGED <<now, lights, blink>> /\ Stage("calls")
      BY <1>7, NextCall DEF scheduleSwitch, Stage
    <2>2. PICK e \in Entries : Head1 = CreateOf(e)
      BY <2>1, JobKinds
    <2>3. Head1.entry = e
      BY <2>2 DEF CreateOf
    <2>4. CASE Done /\ schedule' = schedule \cup {e} /\ IF e.at <= now THEN Forfeit(e.switch) ELSE UNCHANGED hist
      <3>1. e.switch = "lights" => ~ (e.at <= now)
        BY <2>4, ForfeitOK
      <3>2. LightsOK(P, t, Tail(job.todo), now, lights, schedule \cup {e}, blink)
        BY <1>0, <1>1, <2>1, <2>2, <3>1, LightsCreate
      <3>3. job'.todo = Tail(job.todo)
        BY <2>1, <2>4, JobDone
      <3> QED
        BY <2>1, <2>4, <3>2, <3>3 DEF LightsState
    <2>5. CASE GivesUp /\ UNCHANGED hist
      BY <2>1, <2>5, GivenUp DEF Shape
    <2> QED
      BY <1>7, <2>3, <2>4, <2>5 DEF scheduleSwitch
  <1>8. CASE scheduleLightsBlink \/ cancelFanCooldowns \/ scheduleFanCooldown \/ ResumeFanCooldown
    <2>1. /\ job.todo # <<>> /\ Head1 = Head(job.todo) /\ Head1 \in Jobs /\ Stage("calls")
          /\ Head1.op \in {"blinks", "cancelFanCooldowns", "later", "resume"}
      BY <1>8, NextCall DEF scheduleLightsBlink, cancelFanCooldowns, scheduleFanCooldown,
        ResumeFanCooldown, Stage
    <2>2. Head1.op # "create" /\ Head1 # Set("lights")
      BY <2>1 DEF Set
    <2>3. UNCHANGED <<now, lights, schedule, blink>>
      BY <1>8 DEF scheduleLightsBlink, cancelFanCooldowns, scheduleFanCooldown,
        ResumeFanCooldown, device
    <2>4. CASE Done
      BY <1>3, <2>1, <2>2, <2>3, <2>4, JobDone
    <2>5. CASE GivesUp /\ UNCHANGED hist
      BY <2>1, <2>5, GivenUp DEF Shape
    <2> QED
      BY <1>8, <2>4, <2>5 DEF scheduleLightsBlink, cancelFanCooldowns, scheduleFanCooldown,
        ResumeFanCooldown
  <1>9. CASE \/ FanCooldownDue \/ startFanCooldown \/ updateFanCooldown \/ CooldownSetOff
             \/ UNCHANGED vars
    BY <1>2, <1>9 DEF FanCooldownDue, startFanCooldown, updateFanCooldown, CooldownSetOff,
      vars, device
  <1>10. CASE LightsBlinkDue
    <2>1. UNCHANGED <<now, lights, schedule, job>> /\ blink = NoBlink /\ lightsBlinkTasks # {}
      BY <1>10 DEF LightsBlinkDue, device
    <2>2. ~ After(job.todo, 0, Set("lights"))
      BY <2>1 DEF Shape, BlinkShape
    <2>3. blink' = blink \/ (blink' # NoBlink /\ blink'.resting = lights)
      BY <1>10 DEF LightsBlinkDue, NoBlink
    <2> QED
      BY <1>1, <2>1, <2>2, <2>3 DEF LightsState, LightsOK
  <1>11. CASE blinkSwitch
    <2>1. UNCHANGED <<now, schedule, job>> /\ blink # NoBlink
      BY <1>11 DEF blinkSwitch
    <2>2. ~ After(job.todo, 0, Set("lights"))
      BY <2>1 DEF Shape, BlinkShape
    <2>3. \/ blink' = NoBlink /\ lights' = blink.resting
          \/ blink' # NoBlink /\ blink'.resting = blink.resting
      <3>1. ~ Forfeit("lights")
        BY ForfeitOK
      <3>2. /\ lights' = IF blink.stage = "away" THEN ~blink.resting ELSE blink.resting
            /\ blink' = IF blink.stage = "away" THEN [blink EXCEPT !.stage = "back"]
                        ELSE IF blink.left > 1 THEN [blink EXCEPT !.stage = "away", !.left = @ - 1]
                        ELSE NoBlink
        BY <1>11, <3>1 DEF blinkSwitch
      <3>3. blink \in BlinkType /\ NoBlink.stage = "none"
        BY DEF Types, NoBlink
      <3>4. CASE blink.stage = "away"
        BY <3>2, <3>3, <3>4 DEF BlinkType
      <3>5. CASE blink.stage # "away" /\ blink.left > 1
        BY <3>2, <3>3, <3>5 DEF BlinkType
      <3>6. CASE blink.stage # "away" /\ ~ (blink.left > 1)
        BY <3>2, <3>6
      <3> QED
        BY <3>4, <3>5, <3>6
    <2> QED
      BY <1>1, <2>1, <2>2, <2>3 DEF LightsState, LightsOK
  <1>12. CASE ByHand
    <2>1. /\ UNCHANGED <<now, schedule, job, blink>>
          /\ \E switch \in {"lights", "fan"}, on \in BOOLEAN :
               Switched(switch, on) /\ Forfeit(switch)
      BY <1>12 DEF ByHand
    <2>2. UNCHANGED lights
      BY <2>1, ForfeitOK DEF Switched
    <2> QED
      BY <1>2, <2>1, <2>2
  <1>13. CASE Restart
    <2>1. UNCHANGED <<now, lights, schedule>> /\ blink' = NoBlink /\ blink = NoBlink
      BY <1>13 DEF Restart, device, Types, HistType
    <2>2. ~ Stage("calls")
      BY <1>13 DEF Restart, Stage, IdleJob, Types, HistType, Shape, JobShape, Serving
    <2>3. job'.todo = job.todo
      BY <1>13, <2>2 DEF Restart, IdleJob, Shape, JobShape, Stage
    <2> QED
      BY <1>2, <2>1, <2>3
  <1>14. CASE Tick
    <2>1. now' = now + 1 /\ UNCHANGED <<schedule, job, blink>> /\ blink = NoBlink
      BY <1>14 DEF Tick, InstantOver
    <2>2. LightsOK(P, t, job.todo, now + 1, lights', schedule, NoBlink)
      BY <1>0, <1>1, <1>14, <2>1, LightsTick DEF Tick, Fires
    <2> QED
      BY <2>1, <2>2 DEF LightsState
  <1> QED
    BY <1>4, <1>5, <1>6, <1>7, <1>8, <1>9, <1>10, <1>11, <1>12, <1>13, <1>14 DEF Next, Apply

LEMMA ClockNext ==
  ASSUME [Next]_vars
  PROVE  now' = now \/ now' = now + 1
  BY DEF Next, Apply, applyOperationalPlan, clearAllSchedulesAndScripts, BeginApply, SetOn,
    scheduleSwitch, scheduleLightsBlink, cancelFanCooldowns, scheduleFanCooldown,
    ResumeFanCooldown, EndApply, FanCooldownDue, startFanCooldown, updateFanCooldown,
    CooldownSetOff, LightsBlinkDue, blinkSwitch, ByHand, Restart, Tick, vars

LEMMA LightsServedNext == Types /\ Shape /\ LightsServed /\ [Next]_vars => LightsServed'
  <1> SUFFICES ASSUME Types, Shape, LightsServed, [Next]_vars, Serving', hist'.lights
               PROVE  \E t \in 0..now' : LightsState(ThePlan, t)'
    BY DEF LightsServed
  <1>1. CASE BeginApply
    <2>1. PICK t : t = now
      OBVIOUS
    <2>2. PICK P : P = currentPlan
      OBVIOUS
    <2>3. /\ t \in Nat /\ PlanOK(P) /\ lights \in BOOLEAN /\ hist.lights
          /\ \A e \in schedule : e.switch # "lights"
      BY <1>1, <2>1, <2>2, PlansOK, HistNext DEF Types, Shape, ClearShape, BeginApply, Stage
    <2>4. blink = NoBlink /\ (lights => Covered(P, t))
      BY <1>1, <2>1, <2>2 DEF BeginApply, Types, HistType, Covered
    <2>5. LightsOK(P, t, ApplyCalls(P, t), t, lights, schedule, NoBlink)
      BY <2>3, <2>4, LightsBegin
    <2>6. /\ job'.todo = ApplyCalls(P, t) /\ job'.stage = "calls"
          /\ UNCHANGED <<now, lights, schedule, blink, currentPlan>>
      BY <1>1, <2>1, <2>2 DEF BeginApply, device, Types, JobType
    <2>7. LightsState(ThePlan, t)'
      BY <2>1, <2>2, <2>4, <2>5, <2>6 DEF LightsState, ThePlan, Stage
    <2> QED
      BY <2>1, <2>3, <2>6, <2>7
  <1>2. CASE ~ BeginApply
    <2>1. Serving /\ ThePlan' = ThePlan
      BY <1>2, PlanStays DEF Shape
    <2>2. hist.lights
      BY HistNext
    <2>3. PICK t \in 0..now : LightsState(ThePlan, t)
      BY <2>1, <2>2 DEF LightsServed
    <2>4. PICK P : P = ThePlan
      OBVIOUS
    <2>5. PlanOK(P) /\ t \in Nat /\ t <= now
      BY <2>4, PlansOK DEF Types, ThePlan, HistType
    <2>6. LightsState(P, t)'
      BY <1>2, <2>2, <2>3, <2>4, <2>5, LightsStays
    <2>7. now' = now \/ now' = now + 1
      BY ClockNext
    <2>8. t \in 0..now'
      BY <2>3, <2>7 DEF Types
    <2> QED
      BY <2>1, <2>4, <2>6, <2>8
  <1> QED
    BY <1>1, <1>2

Inv == Types /\ Shape

LEMMA InvAlways == Spec => []Inv
  <1>1. Init => Inv
    BY TypesInit, ShapeInit DEF Inv
  <1>2. Inv /\ [Next]_vars => Inv'
    BY TypesNext, ShapeNext DEF Inv
  <1> QED
    BY <1>1, <1>2, PTL DEF Spec

\* When the plan is applied and nothing is under way, the lights are on in its bookings
\* and off between them, whatever was cancelled, retried, late or restarted before:
\* applyLightsFanSchedule, blinkSwitch and the device's own schedule together.
THEOREM TheLightsFollowBookings == Spec => []LightsFollowBookings
  <1>1. Init => LightsServed
    BY DEF Init, LightsServed, Serving, Stage, IdleJob, Accounted
  <1>2. Inv /\ LightsServed /\ [Next]_vars => LightsServed'
    BY LightsServedNext DEF Inv
  <1>3. Inv /\ LightsServed => LightsFollowBookings
    <2> SUFFICES ASSUME Inv, LightsServed, Settled, hist.lights
                 PROVE  lights = Covered(hist.plan, now)
      BY DEF LightsFollowBookings, Covered
    <2>1. Serving /\ ThePlan = hist.plan /\ job.todo = <<>> /\ blink = NoBlink
      BY DEF Settled, Serving, ThePlan, Stage, Inv, Shape, JobShape, InstantOver
    <2>2. PICK t : LightsState(ThePlan, t)
      BY <2>1 DEF LightsServed
    <2>3. LightsOK(hist.plan, t, <<>>, now, lights, schedule, NoBlink)
      BY <2>1, <2>2 DEF LightsState
    <2>4. \A k : k \notin DOMAIN <<>>
      OBVIOUS
    <2> QED
      BY <2>3, <2>4 DEF LightsOK, LateIn, After
  <1> QED
    BY <1>1, <1>2, <1>3, InvAlways, PTL DEF Spec

-----------------------------------------------------------------------------
(* The fan, as the plan is applied and time goes by. *)

LEMMA PlanFacts ==
  ASSUME NEW P, PlanOK(P), Apart(P)
  PROVE  /\ Overlapped(P) \subseteq P.slots
         /\ \A s \in P.slots :
              /\ s.start \in Nat /\ s.stop \in Nat /\ s.start < s.stop
              /\ fanOffTime(s, P) \in Nat /\ s.stop <= fanOffTime(s, P)
         /\ \A s \in P.slots : \A b \in overlappingBookings(s, P) :
              /\ s \in Overlapped(P)
              /\ b.start \in Nat /\ b.stop \in Nat /\ b.start < b.stop
              /\ b.start < s.stop /\ s.start < b.stop
         /\ \A r, s \in P.slots : r = s \/ r.stop <= s.start \/ s.stop <= r.start
         /\ \A r, s \in P.slots : r.stop <= s.start =>
              /\ fanOffTime(r, P) <= s.start
              /\ Cooled(r, P) => fanOffTime(r, P) < s.start
  <1>1. Overlapped(P) \subseteq P.slots /\ P.slots \subseteq Period
    BY DEF Overlapped, PlanOK
  <1>2. \A s \in P.slots :
          /\ s.start \in Nat /\ s.stop \in Nat /\ s.start < s.stop
          /\ fanOffTime(s, P) \in Nat /\ s.stop <= fanOffTime(s, P)
    BY <1>1, fanOffTimeOK DEF Period
  <1>3. \A s \in P.slots : \A b \in overlappingBookings(s, P) :
          /\ s \in Overlapped(P)
          /\ b.start \in Nat /\ b.stop \in Nat /\ b.start < b.stop
          /\ b.start < s.stop /\ s.start < b.stop
    <2> SUFFICES ASSUME NEW s \in P.slots, NEW b \in overlappingBookings(s, P)
                 PROVE  /\ s \in Overlapped(P)
                        /\ b.start \in Nat /\ b.stop \in Nat /\ b.start < b.stop
                        /\ b.start < s.stop /\ s.start < b.stop
      OBVIOUS
    <2>1. b \in Period
      BY overlappingBookingsOK
    <2>2. s \in Overlapped(P)
      BY DEF Overlapped
    <2>3. b.start < s.stop /\ b.stop > s.start
      BY DEF overlappingBookings
    <2>4. b.start \in Nat /\ b.stop \in Nat /\ b.start < b.stop
      BY <2>1 DEF Period
    <2> QED
      BY <1>2, <2>2, <2>3, <2>4
  <1>4. \A r, s \in P.slots : r = s \/ r.stop <= s.start \/ s.stop <= r.start
    BY DEF Apart
  <1>5. ASSUME NEW r \in P.slots, NEW s \in P.slots, r.stop <= s.start
        PROVE  /\ fanOffTime(r, P) <= s.start
               /\ Cooled(r, P) => fanOffTime(r, P) < s.start
    <2>1. s.start >= r.stop
      BY <1>2, <1>5
    <2> QED
      BY <2>1, fanOffTimeOK DEF Cooled
  <1> QED
    BY <1>1, <1>2, <1>3, <1>4, <1>5

\* The bookings of a slot with an earlier one, if it is handed the fan, begin after it does.
LEMMA HandedOver ==
  ASSUME NEW P, PlanOK(P), Apart(P), NEW s \in P.slots, Handed(s, P),
         NEW r \in Overlapped(P), r.stop <= s.start, NEW b \in overlappingBookings(s, P)
  PROVE  s.start < b.start
  <1>1. r \in P.slots /\ overlappingBookings(r, P) # {}
    BY DEF Overlapped
  <1> QED
    BY <1>1 DEF Handed

\* While a booking of a slot goes on that is handed the fan, no slot has it switched off.
LEMMA NoOffWhileBooked ==
  ASSUME NEW P, PlanOK(P), Apart(P), NEW m \in Nat, NEW s \in P.slots, Handed(s, P), m < s.stop,
         NEW b \in overlappingBookings(s, P), b.start <= m, NEW r \in Overlapped(P)
  PROVE  fanOffTime(r, P) # m
  <1>1. /\ s.start \in Nat /\ s.stop \in Nat /\ m < s.stop
        /\ r \in P.slots /\ r.start \in Nat /\ r.stop \in Nat /\ r.start < r.stop
        /\ fanOffTime(r, P) \in Nat /\ r.stop <= fanOffTime(r, P)
        /\ b.start \in Nat
    BY PlanFacts
  <1>2. CASE r = s
    BY <1>1, <1>2
  <1>3. CASE r.stop <= s.start
    <2>1. fanOffTime(r, P) <= s.start
      BY <1>1, <1>3, PlanFacts
    <2>2. s.start < b.start
      BY <1>3, HandedOver
    <2> QED
      BY <1>1, <2>1, <2>2
  <1>4. CASE s.stop <= r.start
    BY <1>1, <1>4
  <1> QED
    BY <1>1, <1>2, <1>3, <1>4, PlanFacts

\* the end of a slot with a cooldown that the device had still to end as the plan came at t
IsEnd(P, t, e) ==
  \E s \in Overlapped(P) : s.stop = e /\ Cooled(s, P) /\ fanOffTime(s, P) > t

\* by n no booking has begun of the slots behind e that are handed the fan
NoneSince(P, e, n) ==
  \A s \in Overlapped(P) : Handed(s, P) /\ s.start >= e =>
    \A b \in overlappingBookings(s, P) : n < b.start

\* the fan has to run at n, by a booking that was not over when the plan came at t
Owed(P, t, n) ==
  \E s \in P.slots : /\ Handed(s, P) /\ n < s.stop
                     /\ \E b \in overlappingBookings(s, P) : b.start <= n /\ b.stop > t

\* a slot that is handed the fan goes on
Taken(P, n) == \E s \in Overlapped(P) : Handed(s, P) /\ In(s, n)

\* A cooldown under way meets no fan that has to run.
LEMMA CoolsNotOwed ==
  ASSUME NEW P, PlanOK(P), Apart(P), NEW n \in Nat, NEW t, NEW e, IsEnd(P, t, e), e <= n,
         NoneSince(P, e, n)
  PROVE  ~ Owed(P, t, n)
  <1> SUFFICES ASSUME NEW s \in P.slots, Handed(s, P), n < s.stop,
                      NEW b \in overlappingBookings(s, P), b.start <= n
               PROVE  FALSE
    BY DEF Owed
  <1>1. PICK r \in Overlapped(P) : r.stop = e
    BY DEF IsEnd
  <1>2. /\ r \in P.slots /\ r.start \in Nat /\ r.stop \in Nat /\ r.start < r.stop
        /\ s.start \in Nat /\ s.stop \in Nat /\ n < s.stop /\ b.start \in Nat
        /\ s \in Overlapped(P)
        /\ r = s \/ r.stop <= s.start \/ s.stop <= r.start
    BY PlanFacts
  <1>3. s.start >= e
    BY <1>1, <1>2
  <1>4. n < b.start
    BY <1>2, <1>3 DEF NoneSince
  <1> QED
    BY <1>2, <1>4

\* The fan runs in a session.  If bookings outlast their sessions the plan, coming at t, may
\* have turned it on outside of one, until the device has another off for it.
Rests(P, t, n, on) ==
  on => \/ \E s \in P.slots : InSession(s, P, n)
        \/ ~ Within(P) /\ \A r \in Overlapped(P) : fanOffTime(r, P) > t => n < fanOffTime(r, P)

\* A fan that still runs after the end of a slot does so before the next slot takes it.
LEMMA CoolsBetweenSlots ==
  ASSUME NEW P, PlanOK(P), Apart(P), NEW t \in Nat, NEW n \in Nat, Rests(P, t, n, TRUE),
         NEW e, IsEnd(P, t, e), e <= n, NoneSince(P, e, n)
  PROVE  ~ Taken(P, n)
  <1> SUFFICES ASSUME NEW r \in Overlapped(P), Handed(r, P), In(r, n) PROVE FALSE
    BY DEF Taken
  <1>1. PICK s \in Overlapped(P) : s.stop = e /\ Cooled(s, P) /\ fanOffTime(s, P) > t
    BY DEF IsEnd
  <1>2. /\ s \in P.slots /\ s.start \in Nat /\ s.stop \in Nat /\ s.start < s.stop
        /\ fanOffTime(s, P) \in Nat
        /\ r \in P.slots /\ r.start \in Nat /\ r.stop \in Nat /\ r.start <= n /\ n < r.stop
        /\ r.start < r.stop
        /\ r = s \/ r.stop <= s.start \/ s.stop <= r.start
    BY PlanFacts DEF In
  <1>3. s.stop <= r.start
    BY <1>1, <1>2
  <1>4. \A b \in overlappingBookings(r, P) : n < b.start
    <2>1. r.start >= e
      BY <1>1, <1>2, <1>3
    <2> QED
      BY <2>1 DEF NoneSince
  <1>5. fanOffTime(s, P) < r.start
    BY <1>1, <1>2, <1>3, PlanFacts
  <1>6. ASSUME NEW s2 \in P.slots, InSession(s2, P, n) PROVE FALSE
    <2>1. PICK b2 \in overlappingBookings(s2, P) : b2.start <= n /\ n < fanOffTime(s2, P)
      BY <1>6 DEF InSession
    <2>2. /\ s2.start \in Nat /\ s2.stop \in Nat /\ s2.start < s2.stop
          /\ b2.start \in Nat /\ b2.stop \in Nat /\ s2.start < b2.stop
          /\ fanOffTime(s2, P) \in Nat
          /\ r = s2 \/ r.stop <= s2.start \/ s2.stop <= r.start
      BY <1>2, PlanFacts
    <2>3. CASE r = s2
      <3>1. n < b2.start
        BY <1>4, <2>3
      <3> QED
        BY <2>1, <2>2, <3>1
    <2>4. CASE s2.stop <= r.start
      <3>1. fanOffTime(s2, P) <= r.start
        BY <1>2, <2>4, PlanFacts
      <3> QED
        BY <1>2, <2>1, <2>2, <3>1
    <2>5. CASE r.stop <= s2.start
      <3>1. b2 \in P.bookings
        BY DEF overlappingBookings
      <3>2. b2.start < r.stop /\ b2.stop > r.start
        BY <1>2, <2>1, <2>2, <2>5
      <3>3. b2 \in overlappingBookings(r, P)
        BY <3>1, <3>2 DEF overlappingBookings
      <3>4. n < b2.start
        BY <1>4, <3>3
      <3> QED
        BY <2>1, <2>2, <3>4
    <2> QED
      BY <2>2, <2>3, <2>4, <2>5
  <1>7. ~ (fanOffTime(s, P) > t => n < fanOffTime(s, P))
    BY <1>1, <1>2, <1>5
  <1> QED
    BY <1>6, <1>7 DEF Rests

\* The fan runs where it has to, or is about to, and nothing is about to stop it.
Serves(P, t, q, n, on, off) == Owed(P, t, n) => After(q, 0, Set("fan")) \/ (on /\ off = 0)

\* The timers, the starts and the cooldown under way belong to slots of the plan that are
\* over, and to no later one; no slot is handed the fan in a cooldown the monitor has looked at.
CoolsAt(P, t, n, tasks, st, act, mon) ==
  /\ \A e \in tasks : IsEnd(P, t, e) /\ (e <= n => NoneSince(P, e, n))
  /\ \A e \in st : IsEnd(P, t, e) /\ e <= n /\ NoneSince(P, e, n)
  /\ act # NoCooldown =>
       /\ IsEnd(P, t, act.slotEndedAt) /\ act.slotEndedAt <= n
       /\ NoneSince(P, act.slotEndedAt, n)
       /\ mon => ~ Taken(P, n)

\* a slot goes on, and so does its session
Used(P, n) == \E r \in P.slots : InSession(r, P, n) /\ n < r.stop

\* The cooldown of each slot is to come, or is under way if the fan still runs, and not for
\* another slot.
WatchesAt(P, q, n, on, tasks, st, act, off) ==
  \A s \in Overlapped(P) : Cooled(s, P) =>
    /\ s.stop > n => After(q, 0, Later(s)) \/ s.stop \in tasks
    /\ s.stop <= n /\ n < fanOffTime(s, P) /\ on =>
         \/ After(q, 0, Later(s)) \/ After(q, 0, Resume(s))
         \/ s.stop \in tasks \/ s.stop \in st
         \/ act # NoCooldown \/ off > 0 \/ Used(P, n)

Cancel == [op |-> "cancelFanCooldowns"]

\* The schedule of the fan has, or gets, all that the plan wants from t on.
FanEntered(P, t, q, sch) ==
  /\ FanTodo(q, P, t)
  /\ \A e \in sch : e.switch = "fan" => e \in FanEntries(P, t)
  /\ \A e \in FanEntries(P, t) : e \in sch \/ After(q, 0, CreateOf(e))

\* Unless it gets it late, the fan is as the plan wants, and once the old cooldowns are
\* cancelled so are its own; w: the daemon has the plan and no call of a cooldown failed.
FanOK(P, t, q, n, on, off, tasks, st, act, mon, w) ==
  \/ LateIn(q, "fan", n)
  \/ /\ Rests(P, t, n, on) /\ Serves(P, t, q, n, on, off)
     /\ \/ After(q, 0, Cancel)
        \/ /\ CoolsAt(P, t, n, tasks, st, act, mon)
           /\ w => WatchesAt(P, q, n, on, tasks, st, act, off)

LEMMA FanEntriesOK ==
  ASSUME NEW P, PlanOK(P), Apart(P), NEW t \in Nat, NEW e \in FanEntries(P, t)
  PROVE  e.switch = "fan" /\ e.at \in Nat /\ e.at > t
  <1>1. CASE \E s \in Overlapped(P) : \E p \in Parts(s, P) :
               p.start > t /\ e = Entry("fan", p.start, TRUE)
    <2>1. PICK s \in Overlapped(P) : \E p \in Parts(s, P) :
            p.start > t /\ e = Entry("fan", p.start, TRUE)
      BY <1>1
    <2>2. PICK p \in Parts(s, P) : p.start > t /\ e = Entry("fan", p.start, TRUE)
      BY <2>1
    <2>3. p \in Period
      BY PartsOK, PlanFacts
    <2> QED
      BY <2>2, <2>3 DEF Entry, Period
  <1>2. CASE \E s \in Overlapped(P) :
               fanOffTime(s, P) > t /\ e = Entry("fan", fanOffTime(s, P), FALSE)
    BY <1>2, PlanFacts DEF Entry
  <1> QED
    BY <1>1, <1>2 DEF FanEntries

LEMMA FanEntriesHave ==
  ASSUME NEW P, NEW t, NEW s \in Overlapped(P)
  PROVE  /\ \A p \in Parts(s, P) :
              p.start > t => Entry("fan", p.start, TRUE) \in FanEntries(P, t)
         /\ fanOffTime(s, P) > t => Entry("fan", fanOffTime(s, P), FALSE) \in FanEntries(P, t)
  BY DEF FanEntries

\* A call that is about neither the fan nor its cooldowns, or that gives the schedule its
\* next entry in time.
LEMMA FanTail ==
  ASSUME NEW P, NEW t, NEW q \in Seq(Jobs), q # <<>>, NEW n, NEW on, NEW off,
         NEW tasks, NEW st, NEW act, NEW mon, NEW w,
         FanOK(P, t, q, n, on, off, tasks, st, act, mon, w),
         Head(q) # Set("fan"), Head(q).op \notin {"cancelFanCooldowns", "later", "resume"},
         Head(q).op = "create" /\ Head(q).entry.switch = "fan" => ~ (Head(q).entry.at <= n)
  PROVE  FanOK(P, t, Tail(q), n, on, off, tasks, st, act, mon, w)
  <1>1. Head(q) # Cancel /\ \A s : Head(q) # Later(s) /\ Head(q) # Resume(s)
    BY DEF Cancel, Later, Resume
  <1>2. \A c : c # Head(q) /\ After(q, 0, c) => After(Tail(q), 0, c)
    BY TailOK
  <1>3. LateIn(q, "fan", n) => LateIn(Tail(q), "fan", n)
    BY TailTodo
  <1>4. WatchesAt(P, q, n, on, tasks, st, act, off) =>
          WatchesAt(P, Tail(q), n, on, tasks, st, act, off)
    BY <1>1, <1>2 DEF WatchesAt
  <1>5. Serves(P, t, q, n, on, off) => Serves(P, t, Tail(q), n, on, off)
    BY <1>2 DEF Serves
  <1>6. After(q, 0, Cancel) => After(Tail(q), 0, Cancel)
    BY <1>1, <1>2
  <1> QED
    BY <1>3, <1>4, <1>5, <1>6 DEF FanOK

\* What holds behind the call that turns the fan on.
LEMMA FanSetFacts ==
  ASSUME NEW P, PlanOK(P), Apart(P), NEW t \in Nat, NEW n \in Nat, t <= n,
         NEW q \in Seq(Jobs), q # <<>>, Head(q) = Set("fan"), FanTodo(q, P, t),
         ~ LateIn(q, "fan", n)
  PROVE  /\ Rests(P, t, n, TRUE)
         /\ \A s \in Overlapped(P) : Cooled(s, P) /\ s.stop <= n /\ n < fanOffTime(s, P) =>
              After(Tail(q), 0, Later(s)) \/ After(Tail(q), 0, Resume(s)) \/ Used(P, n)
  <1>1. 1 \in DOMAIN q /\ q[1] = Set("fan")
    BY TailOK
  <1>2. PICK s \in Overlapped(P) :
          /\ \E p \in Parts(s, P) : In(p, t)
          /\ \A r \in Overlapped(P) : r = s \/ Before(s, r) => Ended(q, 1, r, P, t)
    BY <1>1 DEF FanTodo, FanCallOK
  <1>3. s \in P.slots
    BY PlanFacts
  <1>4. PICK b \in overlappingBookings(s, P) : In(b, t)
    BY <1>2, <1>3, PartsOK
  <1>5. /\ s.start \in Nat /\ s.stop \in Nat /\ fanOffTime(s, P) \in Nat
        /\ s.stop <= fanOffTime(s, P) /\ s.start < s.stop
        /\ b.start \in Nat /\ b.stop \in Nat /\ b.start <= t /\ t < b.stop
    BY <1>3, <1>4, PlanFacts DEF In
  <1>6. ASSUME NEW r \in Overlapped(P)
        PROVE  /\ r \in P.slots /\ r.start \in Nat /\ r.stop \in Nat /\ r.start < r.stop
               /\ fanOffTime(r, P) \in Nat /\ r.stop <= fanOffTime(r, P)
               /\ (r = s \/ Before(s, r)) \/ fanOffTime(r, P) <= s.start
    <2>1. r \in P.slots
      BY PlanFacts
    <2>2. /\ r.start \in Nat /\ r.stop \in Nat /\ r.start < r.stop
          /\ fanOffTime(r, P) \in Nat /\ r.stop <= fanOffTime(r, P)
          /\ r = s \/ r.stop <= s.start \/ s.stop <= r.start
          /\ r.stop <= s.start => fanOffTime(r, P) <= s.start
      BY <1>3, <2>1, PlanFacts
    <2>3. ASSUME s.stop <= r.start PROVE Before(s, r)
      <3>1. s.start < r.start
        BY <1>5, <2>2, <2>3
      <3> QED
        BY <3>1 DEF Before
    <2> QED
      BY <2>1, <2>2, <2>3
  <1>7. ASSUME NEW r \in Overlapped(P), r = s \/ Before(s, r), fanOffTime(r, P) > t
        PROVE  n < fanOffTime(r, P)
    <2>1. Ended(q, 1, r, P, t)
      BY <1>2, <1>7
    <2>2. After(q, 1, Off(r, P))
      BY <1>7, <2>1 DEF Ended
    <2>3. After(q, 0, Off(r, P))
      BY <2>2 DEF After
    <2>4. Entry("fan", fanOffTime(r, P), FALSE).at = fanOffTime(r, P)
          /\ Entry("fan", fanOffTime(r, P), FALSE).switch = "fan"
      BY DEF Entry
    <2>5. ~ (fanOffTime(r, P) <= n)
      BY <2>3, <2>4, PendingLate DEF Off
    <2>6. fanOffTime(r, P) \in Nat
      BY <1>6
    <2> QED
      BY <2>5, <2>6
  <1>8. Rests(P, t, n, TRUE)
    <2>1. CASE fanOffTime(s, P) > t
      <3>1. n < fanOffTime(s, P) /\ b.start <= n
        BY <1>5, <1>7, <2>1
      <3> QED
        BY <1>3, <3>1 DEF Rests, InSession
    <2>2. CASE ~ (fanOffTime(s, P) > t)
      <3>1. ~ (b.stop <= fanOffTime(s, P))
        BY <1>5, <2>2
      <3>2. ~ Within(P)
        BY <1>3, <3>1 DEF Within
      <3>3. ASSUME NEW r \in Overlapped(P), fanOffTime(r, P) > t PROVE n < fanOffTime(r, P)
        <4>1. CASE r = s \/ Before(s, r)
          BY <1>7, <3>3, <4>1
        <4>2. CASE fanOffTime(r, P) <= s.start
          <5>1. fanOffTime(r, P) \in Nat
            BY <1>6
          <5> QED
            BY <1>5, <2>2, <3>3, <4>2, <5>1
        <4> QED
          BY <1>6, <4>1, <4>2
      <3> QED
        BY <3>2, <3>3 DEF Rests
    <2> QED
      BY <2>1, <2>2
  <1>9. ASSUME NEW r \in Overlapped(P), Cooled(r, P), r.stop <= n, n < fanOffTime(r, P)
        PROVE  After(Tail(q), 0, Later(r)) \/ After(Tail(q), 0, Resume(r)) \/ Used(P, n)
    <2>1. CASE n < s.stop
      <3>1. b.start <= n /\ n < fanOffTime(s, P)
        BY <1>5, <2>1
      <3> QED
        BY <1>3, <2>1, <3>1 DEF Used, InSession
    <2>2. CASE ~ (n < s.stop)
      <3>1. ~ (fanOffTime(r, P) <= s.start)
        <4>1. fanOffTime(r, P) \in Nat
          BY <1>6
        <4> QED
          BY <1>5, <1>9, <2>2, <4>1
      <3>2. Ended(q, 1, r, P, t)
        BY <1>2, <1>6, <3>1
      <3>3. r.stop > t \/ (r.stop <= t /\ t < fanOffTime(r, P))
        <4>1. r.stop \in Nat /\ fanOffTime(r, P) \in Nat
          BY <1>6
        <4> QED
          BY <1>9, <4>1
      <3>4. After(q, 1, Later(r)) \/ After(q, 1, Resume(r))
        BY <1>9, <3>2, <3>3 DEF Ended
      <3>5. 0 \in Nat /\ 0 + 1 = 1
        OBVIOUS
      <3> QED
        BY <3>4, <3>5, TailOK
    <2> QED
      BY <2>1, <2>2
  <1> QED
    BY <1>8, <1>9

\* After the cancel comes all that has to be, so a fan that has to run is about to.
LEMMA OwedAfterCancel ==
  ASSUME NEW P, PlanOK(P), Apart(P), NEW t \in Nat, NEW n \in Nat, t <= n,
         NEW q \in Seq(Jobs), FanTodo(q, P, t), After(q, 0, Cancel), ~ LateIn(q, "fan", n),
         Owed(P, t, n)
  PROVE  After(q, 0, Set("fan"))
  <1>1. PICK k \in DOMAIN q : q[k] = Cancel
    BY DEF After
  <1>2. FanWhole(q, k, P, t)
    <2>1. q[k].op = "cancelFanCooldowns"
      BY <1>1 DEF Cancel
    <2>2. FanCallOK(q, k, P, t)
      BY DEF FanTodo
    <2> QED
      BY <2>1, <2>2 DEF FanCallOK
  <1>3. \A c : After(q, k, c) => After(q, 0, c)
    <2>1. k > 0 /\ \A i \in DOMAIN q : i \in Nat
      OBVIOUS
    <2> QED
      BY <2>1 DEF After
  <1>4. PICK s \in P.slots : \E b \in overlappingBookings(s, P) : b.start <= n /\ b.stop > t
    BY DEF Owed
  <1>5. PICK b \in overlappingBookings(s, P) : b.start <= n /\ b.stop > t
    BY <1>4
  <1>6. s \in Overlapped(P) /\ b.start \in Nat /\ b.stop \in Nat
    BY PlanFacts
  <1>7. PICK p \in Parts(s, P) : p.start <= b.start /\ b.stop <= p.stop
    BY PartsOK
  <1>8. p.start \in Nat /\ p.stop \in Nat
    BY PartsOK DEF Period
  <1>9. p.start <= n /\ t < p.stop
    BY <1>5, <1>6, <1>7, <1>8
  <1>10. ~ (p.start > t)
    <2> SUFFICES ASSUME p.start > t PROVE FALSE
      OBVIOUS
    <2>1. Entry("fan", p.start, TRUE) \in FanEntries(P, t)
      BY <1>6, FanEntriesHave
    <2>2. After(q, 0, CreateOf(Entry("fan", p.start, TRUE)))
      BY <1>2, <1>3, <2>1 DEF FanWhole
    <2>3. /\ Entry("fan", p.start, TRUE).at = p.start
          /\ Entry("fan", p.start, TRUE).switch = "fan"
      BY DEF Entry
    <2> QED
      BY <1>9, <2>2, <2>3, PendingLate
  <1>11. In(p, t)
    BY <1>8, <1>9, <1>10 DEF In
  <1> QED
    BY <1>2, <1>3, <1>6, <1>11 DEF FanWhole, FanBegun

LEMMA FanSet ==
  ASSUME NEW P, PlanOK(P), Apart(P), NEW t \in Nat, NEW n \in Nat, t <= n,
         NEW q \in Seq(Jobs), q # <<>>, Head(q) = Set("fan"), FanTodo(q, P, t),
         NEW on, NEW tasks, NEW st, NEW act, NEW mon, NEW w,
         FanOK(P, t, q, n, on, 0, tasks, st, act, mon, w)
  PROVE  /\ FanOK(P, t, Tail(q), n, TRUE, 0, tasks, st, act, mon, w)
         /\ FanOK(P, t, q, n, TRUE, 0, tasks, st, act, mon, w)
  <1>1. Head(q).op = "set" /\ Head(q) # Cancel /\ \A s : Head(q) # Later(s) /\ Head(q) # Resume(s)
    BY DEF Cancel, Later, Resume, Set
  <1>2. \A c : c # Head(q) /\ After(q, 0, c) => After(Tail(q), 0, c)
    BY TailOK
  <1>3. LateIn(Tail(q), "fan", n) <=> LateIn(q, "fan", n)
    BY <1>1, TailTodo
  <1>4. SUFFICES ASSUME ~ LateIn(q, "fan", n)
                 PROVE  /\ FanOK(P, t, Tail(q), n, TRUE, 0, tasks, st, act, mon, w)
                        /\ FanOK(P, t, q, n, TRUE, 0, tasks, st, act, mon, w)
    BY <1>3 DEF FanOK
  <1>5. /\ Rests(P, t, n, TRUE)
        /\ \A s \in Overlapped(P) : Cooled(s, P) /\ s.stop <= n /\ n < fanOffTime(s, P) =>
             After(Tail(q), 0, Later(s)) \/ After(Tail(q), 0, Resume(s)) \/ Used(P, n)
    BY <1>4, FanSetFacts
  <1>6. Serves(P, t, Tail(q), n, TRUE, 0) /\ Serves(P, t, q, n, TRUE, 0)
    BY DEF Serves
  <1>7. After(q, 0, Cancel) => After(Tail(q), 0, Cancel)
    BY <1>1, <1>2
  <1>8. \A c : After(Tail(q), 0, c) => After(q, 0, c)
    BY TailOK
  <1>9. WatchesAt(P, q, n, on, tasks, st, act, 0) =>
          /\ WatchesAt(P, Tail(q), n, TRUE, tasks, st, act, 0)
          /\ WatchesAt(P, q, n, TRUE, tasks, st, act, 0)
    BY <1>1, <1>2, <1>5, <1>8 DEF WatchesAt
  <1> QED
    BY <1>4, <1>5, <1>6, <1>7, <1>9 DEF FanOK

LEMMA FanCancel ==
  ASSUME NEW P, PlanOK(P), Apart(P), NEW t \in Nat, NEW n \in Nat, t <= n,
         NEW q \in Seq(Jobs), q # <<>>, Head(q) = Cancel, FanTodo(q, P, t),
         NEW on, NEW off, NEW tasks, NEW st, NEW act, NEW mon, NEW w, NEW mon2, NEW w2,
         FanOK(P, t, q, n, on, off, tasks, st, act, mon, w)
  PROVE  FanOK(P, t, Tail(q), n, on, off, {}, {}, NoCooldown, mon2, w2)
  <1>1. Head(q) # Set("fan") /\ Head(q).op # "create"
    BY DEF Cancel, Set
  <1>2. \A c : c # Head(q) /\ After(q, 0, c) => After(Tail(q), 0, c)
    BY TailOK
  <1>3. LateIn(q, "fan", n) => LateIn(Tail(q), "fan", n)
    BY <1>1, TailTodo
  <1>4. Serves(P, t, q, n, on, off) => Serves(P, t, Tail(q), n, on, off)
    BY <1>1, <1>2 DEF Serves
  <1>5. CoolsAt(P, t, n, {}, {}, NoCooldown, mon2)
    BY DEF CoolsAt
  <1>6. FanWhole(q, 1, P, t)
    <2>1. 1 \in DOMAIN q /\ q[1] = Cancel
      BY TailOK
    <2>2. q[1].op = "cancelFanCooldowns"
      BY <2>1 DEF Cancel
    <2>3. FanCallOK(q, 1, P, t)
      BY <2>1 DEF FanTodo
    <2> QED
      BY <2>2, <2>3 DEF FanCallOK
  <1>7. \A c : After(q, 1, c) => After(Tail(q), 0, c)
    <2>1. 0 \in Nat /\ 0 + 1 = 1
      OBVIOUS
    <2> QED
      BY <2>1, TailOK
  <1>8. WatchesAt(P, Tail(q), n, on, {}, {}, NoCooldown, off)
    <2> SUFFICES ASSUME NEW s \in Overlapped(P), Cooled(s, P)
                 PROVE  /\ s.stop > n => After(Tail(q), 0, Later(s))
                        /\ s.stop <= n /\ n < fanOffTime(s, P) =>
                             After(Tail(q), 0, Later(s)) \/ After(Tail(q), 0, Resume(s))
      BY DEF WatchesAt
    <2>1. s.stop \in Nat /\ fanOffTime(s, P) \in Nat
      BY PlanFacts
    <2>2. /\ s.stop > t => After(q, 1, Later(s))
          /\ s.stop <= t /\ t < fanOffTime(s, P) => After(q, 1, Resume(s))
      BY <1>6 DEF FanWhole
    <2>3. s.stop > n => s.stop > t
      BY <2>1
    <2>4. n < fanOffTime(s, P) => s.stop > t \/ (s.stop <= t /\ t < fanOffTime(s, P))
      BY <2>1
    <2> QED
      BY <1>7, <2>2, <2>3, <2>4
  <1> QED
    BY <1>3, <1>4, <1>5, <1>8 DEF FanOK

\* What a pending call of a cooldown says: the slots behind its own get their bookings
\* after it, so none of these has begun if it is not late.
LEMMA FanLaterFacts ==
  ASSUME NEW P, PlanOK(P), Apart(P), NEW t \in Nat, NEW n \in Nat, t <= n,
         NEW q \in Seq(Jobs), q # <<>>, Head(q).op \in {"later", "resume"}, FanTodo(q, P, t),
         ~ LateIn(q, "fan", n)
  PROVE  \E s \in Overlapped(P) :
           /\ Head(q).end = s.stop /\ Cooled(s, P)
           /\ Head(q).op = "resume" => s.stop <= n
           /\ IsEnd(P, t, s.stop) /\ NoneSince(P, s.stop, n)
  <1>1. 1 \in DOMAIN q /\ q[1] = Head(q)
    BY TailOK
  <1>2. FanCallOK(q, 1, P, t)
    BY <1>1 DEF FanTodo
  <1>3. PICK s \in Overlapped(P) :
          /\ q[1].end = s.stop /\ Cooled(s, P)
          /\ IF q[1].op = "later" THEN s.stop > t ELSE s.stop <= t /\ t < fanOffTime(s, P)
          /\ \A r \in Overlapped(P) : Before(s, r) =>
               \A p \in Parts(r, P) :
                 p.start > t => After(q, 1, CreateOf(Entry("fan", p.start, TRUE)))
    BY <1>1, <1>2 DEF FanCallOK
  <1>4. s \in P.slots /\ s.start \in Nat /\ s.stop \in Nat /\ s.start < s.stop
        /\ fanOffTime(s, P) \in Nat
    BY PlanFacts
  <1>5. IsEnd(P, t, s.stop)
    <2>1. s.stop <= fanOffTime(s, P)
      BY <1>4, PlanFacts
    <2>2. s.stop > t \/ t < fanOffTime(s, P)
      BY <1>3
    <2>3. fanOffTime(s, P) > t
      BY <1>4, <2>1, <2>2
    <2> QED
      BY <1>3, <2>3 DEF IsEnd
  <1>6. Head(q).op = "resume" => s.stop <= n
    <2>1. Head(q).op = "resume" => s.stop <= t
      BY <1>1, <1>3
    <2> QED
      BY <1>4, <2>1
  <1>7. NoneSince(P, s.stop, n)
    <2> SUFFICES ASSUME NEW r \in Overlapped(P), Handed(r, P), r.start >= s.stop,
                        NEW b \in overlappingBookings(r, P)
                 PROVE  n < b.start
      BY DEF NoneSince
    <2>1. r \in P.slots /\ r.start \in Nat /\ b.start \in Nat
      BY PlanFacts
    <2>2. Before(s, r)
      <3>1. s.start < r.start
        BY <1>4, <2>1
      <3> QED
        BY <3>1 DEF Before
    <2>3. PICK p \in Parts(r, P) : p.start <= b.start
      BY <2>1, PartsOK
    <2>4. PICK c \in overlappingBookings(r, P) : c.start = p.start
      BY <2>1, PartsOK
    <2>5. p.start \in Nat /\ r.start <= p.start
      <3>1. s.stop <= r.start
        BY <1>4, <2>1
      <3>2. r.start < c.start /\ c.start \in Nat
        BY <2>1, <3>1, HandedOver, PlanFacts
      <3> QED
        BY <2>1, <2>4, <3>2
    <2>6. p.start > t
      <3>1. CASE q[1].op = "later"
        <4>1. s.stop > t
          BY <1>3, <3>1
        <4> QED
          BY <1>4, <2>1, <2>5, <4>1
      <3>2. CASE q[1].op # "later"
        <4>1. t < fanOffTime(s, P)
          BY <1>3, <3>2
        <4>2. s.stop <= r.start
          BY <1>4, <2>1
        <4>3. fanOffTime(s, P) < r.start
          BY <1>3, <1>4, <2>1, <4>2, PlanFacts
        <4> QED
          BY <1>4, <2>1, <2>5, <4>1, <4>3
      <3> QED
        BY <3>1, <3>2
    <2>7. After(q, 0, CreateOf(Entry("fan", p.start, TRUE)))
      <3>1. After(q, 1, CreateOf(Entry("fan", p.start, TRUE)))
        BY <1>3, <2>2, <2>6
      <3>2. \A call : After(q, 1, call) => After(q, 0, call)
        BY DEF After
      <3> QED
        BY <3>1, <3>2
    <2>8. ~ (p.start <= n)
      <3>1. /\ Entry("fan", p.start, TRUE).at = p.start
            /\ Entry("fan", p.start, TRUE).switch = "fan"
        BY DEF Entry
      <3> QED
        BY <2>7, <3>1, PendingLate
    <2> QED
      BY <2>1, <2>3, <2>5, <2>8
  <1> QED
    BY <1>1, <1>3, <1>5, <1>6, <1>7

\* The cooldown of a slot is set up.
LEMMA FanLater ==
  ASSUME NEW P, PlanOK(P), Apart(P), NEW t \in Nat, NEW n \in Nat, t <= n,
         NEW q \in Seq(Jobs), q # <<>>, NEW x, Head(q) = [op |-> "later", end |-> x],
         FanTodo(q, P, t),
         NEW on, NEW off, NEW tasks, NEW st, NEW act, NEW mon, NEW w,
         FanOK(P, t, q, n, on, off, tasks, st, act, mon, w)
  PROVE  FanOK(P, t, Tail(q), n, on, off, tasks \cup {x}, st, act, mon, w)
  <1>1. /\ Head(q).op = "later" /\ Head(q).end = x /\ Head(q) # Set("fan") /\ Head(q) # Cancel
        /\ \A s : Head(q) # Resume(s) /\ (Head(q) = Later(s) => s.stop = x)
    BY DEF Cancel, Later, Resume, Set
  <1>2. \A c : c # Head(q) /\ After(q, 0, c) => After(Tail(q), 0, c)
    BY TailOK
  <1>3. LateIn(q, "fan", n) <=> LateIn(Tail(q), "fan", n)
    BY <1>1, TailTodo
  <1>4. SUFFICES ASSUME ~ LateIn(q, "fan", n)
                 PROVE  FanOK(P, t, Tail(q), n, on, off, tasks \cup {x}, st, act, mon, w)
    BY <1>3 DEF FanOK
  <1>5. Serves(P, t, q, n, on, off) => Serves(P, t, Tail(q), n, on, off)
    BY <1>1, <1>2 DEF Serves
  <1>6. After(q, 0, Cancel) => After(Tail(q), 0, Cancel)
    BY <1>1, <1>2
  <1>7. IsEnd(P, t, x) /\ NoneSince(P, x, n)
    BY <1>1, <1>4, FanLaterFacts
  <1>8. CoolsAt(P, t, n, tasks, st, act, mon) => CoolsAt(P, t, n, tasks \cup {x}, st, act, mon)
    BY <1>7 DEF CoolsAt
  <1>9. WatchesAt(P, q, n, on, tasks, st, act, off) =>
          WatchesAt(P, Tail(q), n, on, tasks \cup {x}, st, act, off)
    BY <1>1, <1>2 DEF WatchesAt
  <1> QED
    BY <1>4, <1>5, <1>6, <1>8, <1>9 DEF FanOK

\* A cooldown begins for the end x of a slot, if the fan runs.
LEMMA CoolsStart ==
  ASSUME NEW P, PlanOK(P), Apart(P), NEW t \in Nat, NEW n \in Nat, Rests(P, t, n, TRUE),
         NEW x \in Nat, IsEnd(P, t, x), x <= n, NoneSince(P, x, n),
         NEW tasks, NEW st, NEW act, NEW mon, CoolsAt(P, t, n, tasks, st, act, mon)
  PROVE  CoolsAt(P, t, n, tasks, st, newFanCooldown(x), mon)
  <1>1. newFanCooldown(x).slotEndedAt = x
    BY newFanCooldownOK
  <1>2. ~ Taken(P, n)
    BY CoolsBetweenSlots
  <1> QED
    BY <1>1, <1>2 DEF CoolsAt

\* A cooldown that has begun is taken up again.
LEMMA FanResume ==
  ASSUME NEW P, PlanOK(P), Apart(P), NEW t \in Nat, NEW n \in Nat, t <= n,
         NEW q \in Seq(Jobs), q # <<>>, NEW x \in Nat, Head(q) = [op |-> "resume", end |-> x],
         FanTodo(q, P, t),
         NEW on \in BOOLEAN, NEW off, NEW tasks, NEW st, NEW act, NEW mon, NEW w,
         FanOK(P, t, q, n, on, off, tasks, st, act, mon, w)
  PROVE  FanOK(P, t, Tail(q), n, on, off, tasks, st, IF on THEN newFanCooldown(x) ELSE act, mon, w)
  <1>1. /\ Head(q).op = "resume" /\ Head(q).end = x /\ Head(q) # Set("fan") /\ Head(q) # Cancel
        /\ \A s : Head(q) # Later(s)
    BY DEF Cancel, Later, Set
  <1>2. \A c : c # Head(q) /\ After(q, 0, c) => After(Tail(q), 0, c)
    BY TailOK
  <1>3. LateIn(q, "fan", n) <=> LateIn(Tail(q), "fan", n)
    BY <1>1, TailTodo
  <1> DEFINE act2 == IF on THEN newFanCooldown(x) ELSE act
  <1>4. SUFFICES ASSUME ~ LateIn(q, "fan", n)
                 PROVE  FanOK(P, t, Tail(q), n, on, off, tasks, st, act2, mon, w)
    BY <1>3 DEF FanOK
  <1>5. Serves(P, t, q, n, on, off) => Serves(P, t, Tail(q), n, on, off)
    BY <1>1, <1>2 DEF Serves
  <1>6. After(q, 0, Cancel) => After(Tail(q), 0, Cancel)
    BY <1>1, <1>2
  <1>7. IsEnd(P, t, x) /\ NoneSince(P, x, n) /\ x <= n
    BY <1>1, <1>4, FanLaterFacts
  <1>8. Rests(P, t, n, on)
    BY <1>4 DEF FanOK
  <1>9. CoolsAt(P, t, n, tasks, st, act, mon) => CoolsAt(P, t, n, tasks, st, act2, mon)
    BY <1>7, <1>8, CoolsStart
  <1>10. newFanCooldown(x) # NoCooldown
    BY newFanCooldownOK
  <1>11. WatchesAt(P, q, n, on, tasks, st, act, off) =>
           WatchesAt(P, Tail(q), n, on, tasks, st, act2, off)
    BY <1>1, <1>2, <1>10 DEF WatchesAt
  <1> HIDE DEF act2
  <1> QED
    BY <1>4, <1>5, <1>6, <1>8, <1>9, <1>11 DEF FanOK

\* The monitor looks at the cooldown: with its last argument it goes on, or it ends.
LEMMA FanMonitor ==
  ASSUME NEW P, PlanOK(P), Apart(P), NEW t \in Nat, NEW n \in Nat, t <= n,
         NEW q \in Seq(Jobs), FanTodo(q, P, t),
         NEW on, NEW off, NEW tasks, NEW st, NEW act, act # NoCooldown, NEW mon, NEW w,
         FanOK(P, t, q, n, on, off, tasks, st, act, mon, w)
  PROVE  /\ \A tries \in Nat \ {0} :
              FanOK(P, t, q, n, on, tries, tasks, st, NoCooldown, TRUE, w)
         /\ \A next : /\ next # NoCooldown /\ next.slotEndedAt = act.slotEndedAt
                      /\ ~ \E s \in P.slots : In(s, n)
                      => FanOK(P, t, q, n, on, off, tasks, st, next, TRUE, w)
  <1> SUFFICES ASSUME ~ LateIn(q, "fan", n)
               PROVE  /\ \A tries \in Nat \ {0} :
                           FanOK(P, t, q, n, on, tries, tasks, st, NoCooldown, TRUE, w)
                      /\ \A next : /\ next # NoCooldown /\ next.slotEndedAt = act.slotEndedAt
                                   /\ ~ \E s \in P.slots : In(s, n)
                           => FanOK(P, t, q, n, on, off, tasks, st, next, TRUE, w)
    BY DEF FanOK
  <1>1. /\ Rests(P, t, n, on) /\ Serves(P, t, q, n, on, off)
        /\ \/ After(q, 0, Cancel)
           \/ /\ CoolsAt(P, t, n, tasks, st, act, mon)
              /\ w => WatchesAt(P, q, n, on, tasks, st, act, off)
    BY DEF FanOK
  <1>2. Owed(P, t, n) => After(q, 0, Set("fan"))
    <2>1. CASE After(q, 0, Cancel)
      BY <2>1, OwedAfterCancel
    <2>2. CASE CoolsAt(P, t, n, tasks, st, act, mon)
      <3>1. IsEnd(P, t, act.slotEndedAt) /\ act.slotEndedAt <= n /\ NoneSince(P, act.slotEndedAt, n)
        BY <2>2 DEF CoolsAt
      <3> QED
        BY <3>1, CoolsNotOwed
    <2> QED
      BY <1>1, <2>1, <2>2
  <1>3. ASSUME NEW tries \in Nat \ {0}
        PROVE  FanOK(P, t, q, n, on, tries, tasks, st, NoCooldown, TRUE, w)
    <2>1. Serves(P, t, q, n, on, tries)
      BY <1>2 DEF Serves
    <2>2. CoolsAt(P, t, n, tasks, st, act, mon) => CoolsAt(P, t, n, tasks, st, NoCooldown, TRUE)
      BY DEF CoolsAt
    <2>3. tries > 0
      OBVIOUS
    <2>4. WatchesAt(P, q, n, on, tasks, st, act, off) =>
            WatchesAt(P, q, n, on, tasks, st, NoCooldown, tries)
      BY <2>3 DEF WatchesAt
    <2> QED
      BY <1>1, <2>1, <2>2, <2>4 DEF FanOK
  <1>4. ASSUME NEW next, next # NoCooldown, next.slotEndedAt = act.slotEndedAt,
               ~ \E s \in P.slots : In(s, n)
        PROVE  FanOK(P, t, q, n, on, off, tasks, st, next, TRUE, w)
    <2>3. ~ Taken(P, n)
      BY <1>4, PlanFacts DEF Taken
    <2>1. CoolsAt(P, t, n, tasks, st, act, mon) => CoolsAt(P, t, n, tasks, st, next, TRUE)
      BY <1>4, <2>3 DEF CoolsAt
    <2>2. WatchesAt(P, q, n, on, tasks, st, act, off) =>
            WatchesAt(P, q, n, on, tasks, st, next, off)
      BY <1>4 DEF WatchesAt
    <2> QED
      BY <1>1, <2>1, <2>2 DEF FanOK
  <1> QED
    BY <1>3, <1>4

\* An attempt to end a cooldown: it lands, or is tried again, or is the last.
LEMMA FanSetOff ==
  ASSUME NEW P, NEW t, NEW n, NEW q, NEW on \in BOOLEAN, NEW off \in Nat, off > 0,
         NEW tasks, NEW st, NEW act, NEW mon, NEW w,
         FanOK(P, t, q, n, on, off, tasks, st, act, mon, w)
  PROVE  /\ FanOK(P, t, q, n, FALSE, 0, tasks, st, act, mon, w)
         /\ \A on2 \in {on, FALSE} : \A w2 : (w2 => w /\ off # 1) =>
              FanOK(P, t, q, n, on2, off - 1, tasks, st, act, mon, w2)
  <1> SUFFICES ASSUME ~ LateIn(q, "fan", n)
               PROVE  /\ FanOK(P, t, q, n, FALSE, 0, tasks, st, act, mon, w)
                      /\ \A on2 \in {on, FALSE} : \A w2 : (w2 => w /\ off # 1) =>
                           FanOK(P, t, q, n, on2, off - 1, tasks, st, act, mon, w2)
    BY DEF FanOK
  <1>1. /\ Rests(P, t, n, on) /\ Serves(P, t, q, n, on, off)
        /\ \/ After(q, 0, Cancel)
           \/ /\ CoolsAt(P, t, n, tasks, st, act, mon)
              /\ w => WatchesAt(P, q, n, on, tasks, st, act, off)
    BY DEF FanOK
  <1>2. off # 0
    OBVIOUS
  <1>3. Owed(P, t, n) => After(q, 0, Set("fan"))
    BY <1>1, <1>2 DEF Serves
  <1>4. FanOK(P, t, q, n, FALSE, 0, tasks, st, act, mon, w)
    <2>1. Rests(P, t, n, FALSE) /\ Serves(P, t, q, n, FALSE, 0)
      BY <1>3 DEF Rests, Serves
    <2>2. WatchesAt(P, q, n, on, tasks, st, act, off) =>
            WatchesAt(P, q, n, FALSE, tasks, st, act, 0)
      BY DEF WatchesAt
    <2> QED
      BY <1>1, <2>1, <2>2 DEF FanOK
  <1>5. ASSUME NEW on2 \in {on, FALSE}, NEW w2, w2 => w /\ off # 1
        PROVE  FanOK(P, t, q, n, on2, off - 1, tasks, st, act, mon, w2)
    <2>1. Rests(P, t, n, on2)
      BY <1>1 DEF Rests
    <2>4. Serves(P, t, q, n, on2, off - 1)
      BY <1>3 DEF Serves
    <2>2. off # 1 => off - 1 > 0
      OBVIOUS
    <2>3. WatchesAt(P, q, n, on, tasks, st, act, off) /\ off # 1 =>
            WatchesAt(P, q, n, on2, tasks, st, act, off - 1)
      BY <2>2 DEF WatchesAt
    <2> QED
      BY <1>1, <1>5, <2>1, <2>3, <2>4 DEF FanOK
  <1> QED
    BY <1>4, <1>5

\* The timer at the end of a slot starts ...
LEMMA FanStart ==
  ASSUME NEW P, PlanOK(P), Apart(P), NEW t, NEW n \in Nat, NEW q, NEW on, NEW off,
         NEW tasks, NEW st, NEW act, NEW mon, NEW w,
         FanOK(P, t, q, n, on, off, tasks, st, act, mon, w), NEW x \in tasks, x <= n
  PROVE  FanOK(P, t, q, n, on, off, tasks \ {x}, st \cup {x}, act, mon, w)
  <1> SUFFICES ASSUME ~ LateIn(q, "fan", n)
               PROVE  FanOK(P, t, q, n, on, off, tasks \ {x}, st \cup {x}, act, mon, w)
    BY DEF FanOK
  <1>1. /\ Rests(P, t, n, on) /\ Serves(P, t, q, n, on, off)
        /\ \/ After(q, 0, Cancel)
           \/ /\ CoolsAt(P, t, n, tasks, st, act, mon)
              /\ w => WatchesAt(P, q, n, on, tasks, st, act, off)
    BY DEF FanOK
  <1>2. CoolsAt(P, t, n, tasks, st, act, mon) => CoolsAt(P, t, n, tasks \ {x}, st \cup {x}, act, mon)
    BY DEF CoolsAt
  <1>3. \A s \in Overlapped(P) : s.stop > n => s.stop # x
    <2>1. \A s \in Overlapped(P) : s.stop \in Nat
      BY PlanFacts
    <2> QED
      BY <2>1
  <1>4. WatchesAt(P, q, n, on, tasks, st, act, off) =>
          WatchesAt(P, q, n, on, tasks \ {x}, st \cup {x}, act, off)
    BY <1>3 DEF WatchesAt
  <1> QED
    BY <1>1, <1>2, <1>4 DEF FanOK

\* ... a cooldown, if the fan runs, or nothing.
LEMMA FanStarted ==
  ASSUME NEW P, PlanOK(P), Apart(P), NEW t \in Nat, NEW n \in Nat, NEW q, NEW on, NEW off,
         NEW tasks, NEW st, st \subseteq Nat, NEW act, NEW mon, NEW w,
         FanOK(P, t, q, n, on, off, tasks, st, act, mon, w), NEW x \in st
  PROVE  /\ on = TRUE => FanOK(P, t, q, n, on, off, tasks, st \ {x}, newFanCooldown(x), mon, w)
         /\ on = FALSE => FanOK(P, t, q, n, on, off, tasks, st \ {x}, act, mon, w)
         /\ FanOK(P, t, q, n, on, off, tasks, st \ {x}, act, mon, FALSE)
  <1> SUFFICES ASSUME ~ LateIn(q, "fan", n)
               PROVE  /\ on = TRUE =>
                           FanOK(P, t, q, n, on, off, tasks, st \ {x}, newFanCooldown(x), mon, w)
                      /\ on = FALSE => FanOK(P, t, q, n, on, off, tasks, st \ {x}, act, mon, w)
                      /\ FanOK(P, t, q, n, on, off, tasks, st \ {x}, act, mon, FALSE)
    BY DEF FanOK
  <1>1. /\ Rests(P, t, n, on) /\ Serves(P, t, q, n, on, off)
        /\ \/ After(q, 0, Cancel)
           \/ /\ CoolsAt(P, t, n, tasks, st, act, mon)
              /\ w => WatchesAt(P, q, n, on, tasks, st, act, off)
    BY DEF FanOK
  <1>2. CoolsAt(P, t, n, tasks, st, act, mon) => CoolsAt(P, t, n, tasks, st \ {x}, act, mon)
    BY DEF CoolsAt
  <1>3. CoolsAt(P, t, n, tasks, st, act, mon) => IsEnd(P, t, x) /\ x <= n /\ NoneSince(P, x, n)
    BY DEF CoolsAt
  <1>4. FanOK(P, t, q, n, on, off, tasks, st \ {x}, act, mon, FALSE)
    BY <1>1, <1>2 DEF FanOK
  <1>5. ASSUME on = TRUE
        PROVE  FanOK(P, t, q, n, on, off, tasks, st \ {x}, newFanCooldown(x), mon, w)
    <2>1. CoolsAt(P, t, n, tasks, st, act, mon) =>
            CoolsAt(P, t, n, tasks, st \ {x}, newFanCooldown(x), mon)
      BY <1>1, <1>2, <1>3, <1>5, CoolsStart
    <2>2. newFanCooldown(x) # NoCooldown
      BY newFanCooldownOK
    <2>3. WatchesAt(P, q, n, on, tasks, st, act, off) =>
            WatchesAt(P, q, n, on, tasks, st \ {x}, newFanCooldown(x), off)
      BY <2>2 DEF WatchesAt
    <2> QED
      BY <1>1, <2>1, <2>3 DEF FanOK
  <1>6. ASSUME on = FALSE PROVE FanOK(P, t, q, n, on, off, tasks, st \ {x}, act, mon, w)
    <2>1. WatchesAt(P, q, n, FALSE, tasks, st, act, off) =>
            WatchesAt(P, q, n, FALSE, tasks, st \ {x}, act, off)
      BY DEF WatchesAt
    <2> QED
      BY <1>1, <1>2, <1>6, <2>1 DEF FanOK
  <1> QED
    BY <1>4, <1>5, <1>6

\* What the schedule makes of the fan in the next instant.
Due(sch, n) == {e \in sch : e.switch = "fan" /\ e.at = n + 1}
Turned(sch, n, on, next) == next \in IF Due(sch, n) = {} THEN {on} ELSE {e.on : e \in Due(sch, n)}

LEMMA FanEntryKinds ==
  ASSUME NEW P, NEW t, NEW e \in FanEntries(P, t)
  PROVE  \E s \in Overlapped(P) :
           \/ \E p \in Parts(s, P) : e.on = TRUE /\ e.at = p.start
           \/ e.on = FALSE /\ e.at = fanOffTime(s, P)
  BY DEF FanEntries, Entry

\* The fan turns on as a booking begins, and off as a slot with its cooldown is over.
LEMMA FanDue ==
  ASSUME NEW P, PlanOK(P), Apart(P), NEW t \in Nat, NEW n \in Nat, t <= n,
         NEW q \in Seq(Jobs), NEW on \in BOOLEAN, NEW sch, FanEntered(P, t, q, sch),
         ~ LateIn(q, "fan", n + 1), NEW next, Turned(sch, n, on, next)
  PROVE  /\ next \in BOOLEAN
         /\ next = TRUE =>
              \/ on = TRUE /\ \A s \in Overlapped(P) : fanOffTime(s, P) # n + 1
              \/ \E s \in Overlapped(P) : \E b \in overlappingBookings(s, P) : b.start = n + 1
         /\ next = FALSE =>
              \/ on = FALSE /\ \A s \in Overlapped(P) : \A p \in Parts(s, P) : p.start # n + 1
              \/ \E s \in Overlapped(P) : fanOffTime(s, P) = n + 1
  <1>1. PICK due : due = Due(sch, n)
    OBVIOUS
  <1>2. \A e \in FanEntries(P, t) : e.at = n + 1 => e \in due
    <2> SUFFICES ASSUME NEW e \in FanEntries(P, t), e.at = n + 1 PROVE e \in due
      OBVIOUS
    <2>1. e.switch = "fan" /\ e.at <= n + 1
      BY FanEntriesOK
    <2>2. ~ After(q, 0, CreateOf(e))
      BY <2>1, PendingLate
    <2> QED
      BY <1>1, <2>1, <2>2 DEF FanEntered, Due
  <1>3. \A e \in due : e \in FanEntries(P, t) /\ e.at = n + 1
    BY <1>1 DEF FanEntered, Due
  <1>4. n + 1 > t
    OBVIOUS
  <1>5. CASE due = {}
    <2>1. next = on
      BY <1>1, <1>5 DEF Turned
    <2>2. ASSUME NEW s \in Overlapped(P), fanOffTime(s, P) = n + 1 PROVE FALSE
      <3>1. Entry("fan", fanOffTime(s, P), FALSE) \in FanEntries(P, t)
        BY <1>4, <2>2, FanEntriesHave
      <3>2. Entry("fan", fanOffTime(s, P), FALSE).at = n + 1
        BY <2>2 DEF Entry
      <3> QED
        BY <1>2, <1>5, <3>1, <3>2
    <2>3. ASSUME NEW s \in Overlapped(P), NEW p \in Parts(s, P), p.start = n + 1 PROVE FALSE
      <3>1. Entry("fan", p.start, TRUE) \in FanEntries(P, t)
        BY <1>4, <2>3, FanEntriesHave
      <3>2. Entry("fan", p.start, TRUE).at = n + 1
        BY <2>3 DEF Entry
      <3> QED
        BY <1>2, <1>5, <3>1, <3>2
    <2> QED
      BY <2>1, <2>2, <2>3
  <1>6. CASE due # {}
    <2>1. PICK e \in due : next = e.on
      BY <1>1, <1>6 DEF Turned
    <2>2. e \in FanEntries(P, t) /\ e.at = n + 1
      BY <1>3
    <2>3. PICK s \in Overlapped(P) :
            \/ \E p \in Parts(s, P) : e.on = TRUE /\ e.at = p.start
            \/ e.on = FALSE /\ e.at = fanOffTime(s, P)
      BY <2>2, FanEntryKinds
    <2>4. CASE e.on = FALSE /\ e.at = fanOffTime(s, P)
      BY <2>1, <2>2, <2>4
    <2>5. CASE \E p \in Parts(s, P) : e.on = TRUE /\ e.at = p.start
      <3>1. PICK p \in Parts(s, P) : e.on = TRUE /\ e.at = p.start
        BY <2>5
      <3>2. PICK b \in overlappingBookings(s, P) : b.start = p.start
        BY PlanFacts, PartsOK
      <3> QED
        BY <2>1, <2>2, <3>1, <3>2
    <2> QED
      BY <2>3, <2>4, <2>5
  <1> QED
    BY <1>5, <1>6

LEMMA TickRests ==
  ASSUME NEW P, PlanOK(P), Apart(P), NEW t \in Nat, NEW n \in Nat, NEW on, Rests(P, t, n, on),
         \/ on = TRUE /\ \A s \in Overlapped(P) : fanOffTime(s, P) # n + 1
         \/ \E s \in Overlapped(P) : \E b \in overlappingBookings(s, P) : b.start = n + 1
  PROVE  Rests(P, t, n + 1, TRUE)
  <1>1. CASE \E s \in Overlapped(P) : \E b \in overlappingBookings(s, P) : b.start = n + 1
    <2>1. PICK s \in Overlapped(P) : \E b \in overlappingBookings(s, P) : b.start = n + 1
      BY <1>1
    <2>2. PICK b \in overlappingBookings(s, P) : b.start = n + 1
      BY <2>1
    <2>3. /\ s \in P.slots /\ b.start < s.stop
          /\ s.stop \in Nat /\ fanOffTime(s, P) \in Nat /\ s.stop <= fanOffTime(s, P)
      BY PlanFacts
    <2>4. b.start <= n + 1 /\ n + 1 < fanOffTime(s, P)
      BY <2>2, <2>3
    <2> QED
      BY <2>3, <2>4 DEF InSession, Rests
  <1>2. CASE on = TRUE /\ \A s \in Overlapped(P) : fanOffTime(s, P) # n + 1
    <2>1. CASE \E s \in P.slots : InSession(s, P, n)
      <3>1. PICK s \in P.slots : InSession(s, P, n)
        BY <2>1
      <3>2. PICK b \in overlappingBookings(s, P) : b.start <= n /\ n < fanOffTime(s, P)
        BY <3>1 DEF InSession
      <3>3. s \in Overlapped(P) /\ b.start \in Nat /\ fanOffTime(s, P) \in Nat
        BY PlanFacts
      <3>4. fanOffTime(s, P) # n + 1
        BY <1>2, <3>3
      <3>5. b.start <= n + 1 /\ n + 1 < fanOffTime(s, P)
        BY <3>2, <3>3, <3>4
      <3> QED
        BY <3>5 DEF InSession, Rests
    <2>2. CASE ~ Within(P) /\ \A r \in Overlapped(P) : fanOffTime(r, P) > t => n < fanOffTime(r, P)
      <3>1. ASSUME NEW r \in Overlapped(P), fanOffTime(r, P) > t PROVE n + 1 < fanOffTime(r, P)
        <4>1. fanOffTime(r, P) \in Nat
          BY PlanFacts
        <4>2. n < fanOffTime(r, P) /\ fanOffTime(r, P) # n + 1
          BY <1>2, <2>2, <3>1
        <4> QED
          BY <4>1, <4>2
      <3> QED
        BY <2>2, <3>1 DEF Rests
    <2> QED
      BY <1>2, <2>1, <2>2 DEF Rests
  <1> QED
    BY <1>1, <1>2

LEMMA TickServes ==
  ASSUME NEW P, PlanOK(P), Apart(P), NEW t \in Nat, NEW n \in Nat, t <= n, NEW on \in BOOLEAN,
         Owed(P, t, n) => on = TRUE, Owed(P, t, n + 1)
  PROVE  /\ on = TRUE \/ \E s \in Overlapped(P) : \E p \in Parts(s, P) : p.start = n + 1
         /\ \A s \in Overlapped(P) : fanOffTime(s, P) # n + 1
  <1>1. PICK s \in P.slots :
          /\ Handed(s, P) /\ n + 1 < s.stop
          /\ \E b \in overlappingBookings(s, P) : b.start <= n + 1 /\ b.stop > t
    BY DEF Owed
  <1>2. PICK b \in overlappingBookings(s, P) : b.start <= n + 1 /\ b.stop > t
    BY <1>1
  <1>3. /\ s.stop \in Nat /\ b.start \in Nat /\ b.stop \in Nat /\ b.start < b.stop
        /\ n < s.stop /\ s \in Overlapped(P)
    BY <1>1, PlanFacts
  <1>4. ASSUME NEW r \in Overlapped(P) PROVE fanOffTime(r, P) # n + 1
    <2>1. n + 1 \in Nat
      OBVIOUS
    <2> QED
      BY <1>1, <1>2, <2>1, NoOffWhileBooked
  <1>5. CASE b.start <= n
    BY <1>1, <1>2, <1>3, <1>4, <1>5 DEF Owed
  <1>6. CASE ~ (b.start <= n)
    <2>1. b.start = n + 1
      BY <1>2, <1>3, <1>6
    <2>2. PICK p \in Parts(s, P) : p.start <= b.start /\ b.stop <= p.stop
      BY PartsOK
    <2>3. p.start \in Nat /\ p.stop \in Nat
      BY PartsOK DEF Period
    <2>4. CASE p.start = n + 1
      BY <1>3, <1>4, <2>4
    <2>5. CASE p.start # n + 1
      <3>1. p.start <= n /\ n < p.stop
        BY <1>3, <2>1, <2>2, <2>3, <2>5
      <3>2. In(p, n)
        BY <3>1 DEF In
      <3>3. PICK c \in overlappingBookings(s, P) : In(c, n)
        BY <3>2, PartsOK
      <3>4. c.start <= n /\ n < c.stop /\ c.stop \in Nat
        BY <3>3, PlanFacts DEF In
      <3>5. c.stop > t
        BY <3>4
      <3> QED
        BY <1>1, <1>3, <1>4, <3>4, <3>5 DEF Owed
    <2> QED
      BY <2>4, <2>5
  <1> QED
    BY <1>5, <1>6

LEMMA TickNoneSince ==
  ASSUME NEW P, PlanOK(P), Apart(P), NEW t, NEW n \in Nat, NEW e, IsEnd(P, t, e), e <= n + 1,
         e # n + 1 => NoneSince(P, e, n) /\ ~ Taken(P, n)
  PROVE  NoneSince(P, e, n + 1)
  <1> SUFFICES ASSUME NEW s \in Overlapped(P), Handed(s, P), s.start >= e,
                      NEW b \in overlappingBookings(s, P)
               PROVE  n + 1 < b.start
    BY DEF NoneSince
  <1>1. PICK r \in Overlapped(P) : r.stop = e
    BY DEF IsEnd
  <1>2. /\ s \in P.slots /\ s.start \in Nat /\ s.stop \in Nat /\ b.start \in Nat
        /\ b.start < s.stop /\ r \in P.slots /\ r.stop \in Nat
    BY PlanFacts
  <1>3. s.start < b.start
    <2>1. r.stop <= s.start
      BY <1>1, <1>2
    <2> QED
      BY <1>2, <2>1, HandedOver
  <1>4. CASE e = n + 1
    BY <1>2, <1>3, <1>4
  <1>5. CASE e # n + 1
    <2>1. n < b.start
      BY <1>5 DEF NoneSince
    <2>2. ~ In(s, n)
      BY <1>5 DEF Taken
    <2>3. b.start # n + 1
      BY <1>2, <1>3, <2>2 DEF In
    <2> QED
      BY <1>2, <2>1, <2>3
  <1> QED
    BY <1>4, <1>5

LEMMA TickWatches ==
  ASSUME NEW P, PlanOK(P), Apart(P), NEW n \in Nat, NEW q, NEW on, NEW tasks, NEW act,
         WatchesAt(P, q, n, on, tasks, {}, act, 0), NEW next \in BOOLEAN,
         next = TRUE =>
           \/ on = TRUE
           \/ \E s \in Overlapped(P) : \E b \in overlappingBookings(s, P) : b.start = n + 1
  PROVE  WatchesAt(P, q, n + 1, next, tasks, {}, act, 0)
  <1> SUFFICES ASSUME NEW s \in Overlapped(P), Cooled(s, P)
               PROVE  /\ s.stop > n + 1 => After(q, 0, Later(s)) \/ s.stop \in tasks
                      /\ s.stop <= n + 1 /\ n + 1 < fanOffTime(s, P) /\ next =>
                           \/ After(q, 0, Later(s)) \/ After(q, 0, Resume(s))
                           \/ s.stop \in tasks \/ act # NoCooldown \/ Used(P, n + 1)
    BY DEF WatchesAt
  <1>1. /\ s \in P.slots /\ s.start \in Nat /\ s.stop \in Nat /\ s.start < s.stop
        /\ fanOffTime(s, P) \in Nat
    BY PlanFacts
  <1>2. /\ s.stop > n => After(q, 0, Later(s)) \/ s.stop \in tasks
        /\ s.stop <= n /\ n < fanOffTime(s, P) /\ on =>
             \/ After(q, 0, Later(s)) \/ After(q, 0, Resume(s))
             \/ s.stop \in tasks \/ act # NoCooldown \/ Used(P, n)
    <2>1. ~ (0 > 0)
      OBVIOUS
    <2> QED
      BY <2>1 DEF WatchesAt
  <1>3. CASE s.stop > n
    <2>1. n + 1 \in Nat
      OBVIOUS
    <2> QED
      BY <1>2, <1>3
  <1>4. CASE ~ (s.stop > n)
    <2>1. s.stop <= n /\ ~ (s.stop > n + 1)
      BY <1>1, <1>4
    <2>2. ASSUME \E r \in Overlapped(P) : \E b \in overlappingBookings(r, P) : b.start = n + 1
          PROVE  Used(P, n + 1)
      <3>1. PICK r \in Overlapped(P) : \E b \in overlappingBookings(r, P) : b.start = n + 1
        BY <2>2
      <3>2. PICK b \in overlappingBookings(r, P) : b.start = n + 1
        BY <3>1
      <3>3. /\ r \in P.slots /\ r.stop \in Nat /\ b.start < r.stop
            /\ fanOffTime(r, P) \in Nat /\ r.stop <= fanOffTime(r, P)
        BY PlanFacts
      <3>4. b.start <= n + 1 /\ n + 1 < fanOffTime(r, P) /\ n + 1 < r.stop
        BY <3>2, <3>3
      <3> QED
        BY <3>3, <3>4 DEF Used, InSession
    <2>3. ASSUME Used(P, n), n + 1 < fanOffTime(s, P) PROVE Used(P, n + 1)
      <3>1. PICK r \in P.slots : InSession(r, P, n) /\ n < r.stop
        BY <2>3 DEF Used
      <3>2. PICK b \in overlappingBookings(r, P) : b.start <= n /\ n < fanOffTime(r, P)
        BY <3>1 DEF InSession
      <3>3. /\ r.start \in Nat /\ r.stop \in Nat /\ r.start < r.stop /\ b.start \in Nat
            /\ fanOffTime(r, P) \in Nat /\ r.stop <= fanOffTime(r, P)
            /\ r = s \/ r.stop <= s.start \/ s.stop <= r.start
        BY <1>1, PlanFacts
      <3>4. s.stop <= r.start
        BY <1>1, <2>1, <3>1, <3>3
      <3>5. fanOffTime(s, P) <= r.start
        BY <1>1, <3>4, PlanFacts
      <3>6. n + 1 < r.stop
        BY <1>1, <2>3, <3>3, <3>5
      <3>7. b.start <= n + 1 /\ n + 1 < fanOffTime(r, P)
        BY <3>2, <3>3, <3>6
      <3> QED
        BY <3>6, <3>7 DEF Used, InSession
    <2>4. n + 1 < fanOffTime(s, P) => n < fanOffTime(s, P)
      BY <1>1
    <2> QED
      BY <1>2, <2>1, <2>2, <2>3, <2>4
  <1> QED
    BY <1>3, <1>4

\* The clock: the schedule switches the fan, once what this instant started is over.
LEMMA FanTick ==
  ASSUME NEW P, PlanOK(P), Apart(P), NEW t \in Nat, NEW n \in Nat, t <= n,
         NEW q \in Seq(Jobs), NEW on \in BOOLEAN, NEW sch, FanEntered(P, t, q, sch),
         NEW tasks, \A e \in tasks : e \in Nat /\ e > n,
         NEW act \in CooldownType \cup {NoCooldown}, NEW mon, act # NoCooldown => mon, NEW w,
         FanOK(P, t, q, n, on, 0, tasks, {}, act, mon, w),
         NEW next, Turned(sch, n, on, next)
  PROVE  FanOK(P, t, q, n + 1, next, 0, tasks, {}, act, FALSE, w)
  <1>1. SUFFICES ASSUME ~ LateIn(q, "fan", n + 1)
                 PROVE  FanOK(P, t, q, n + 1, next, 0, tasks, {}, act, FALSE, w)
    BY DEF FanOK
  <1>2. ~ LateIn(q, "fan", n)
    <2> SUFFICES ASSUME LateIn(q, "fan", n) PROVE FALSE
      OBVIOUS
    <2>1. PICK k \in DOMAIN q : q[k].op = "create" /\ q[k].entry.switch = "fan" /\ q[k].entry.at <= n
      BY DEF LateIn
    <2>2. q[k].entry \in FanEntries(P, t)
      BY <2>1 DEF FanEntered, FanTodo, FanCallOK
    <2>3. q[k].entry.at <= n + 1
      BY <2>1, <2>2, FanEntriesOK
    <2> QED
      BY <1>1, <2>1, <2>3 DEF LateIn
  <1>3. /\ Rests(P, t, n, on) /\ Serves(P, t, q, n, on, 0)
        /\ \/ After(q, 0, Cancel)
           \/ /\ CoolsAt(P, t, n, tasks, {}, act, mon)
              /\ w => WatchesAt(P, q, n, on, tasks, {}, act, 0)
    BY <1>2 DEF FanOK
  <1>4. /\ next \in BOOLEAN
        /\ next = TRUE =>
             \/ on = TRUE /\ \A s \in Overlapped(P) : fanOffTime(s, P) # n + 1
             \/ \E s \in Overlapped(P) : \E b \in overlappingBookings(s, P) : b.start = n + 1
        /\ next = FALSE =>
             \/ on = FALSE /\ \A s \in Overlapped(P) : \A p \in Parts(s, P) : p.start # n + 1
             \/ \E s \in Overlapped(P) : fanOffTime(s, P) = n + 1
    BY <1>1, FanDue
  <1>5. Rests(P, t, n + 1, next)
    <2>1. CASE next = TRUE
      BY <1>3, <1>4, <2>1, TickRests
    <2>2. CASE next = FALSE
      BY <2>2 DEF Rests
    <2> QED
      BY <1>4, <2>1, <2>2
  <1>6. Serves(P, t, q, n + 1, next, 0)
    <2> SUFFICES ASSUME Owed(P, t, n + 1), ~ After(q, 0, Set("fan")) PROVE next = TRUE
      BY DEF Serves
    <2>1. Owed(P, t, n) => on = TRUE
      BY <1>3 DEF Serves
    <2>2. /\ on = TRUE \/ \E s \in Overlapped(P) : \E p \in Parts(s, P) : p.start = n + 1
          /\ \A s \in Overlapped(P) : fanOffTime(s, P) # n + 1
      BY <2>1, TickServes
    <2> QED
      BY <1>4, <2>2
  <1>7. CoolsAt(P, t, n, tasks, {}, act, mon) => CoolsAt(P, t, n + 1, tasks, {}, act, FALSE)
    <2> SUFFICES ASSUME CoolsAt(P, t, n, tasks, {}, act, mon)
                 PROVE  CoolsAt(P, t, n + 1, tasks, {}, act, FALSE)
      OBVIOUS
    <2>1. ASSUME NEW e \in tasks PROVE IsEnd(P, t, e) /\ (e <= n + 1 => NoneSince(P, e, n + 1))
      <3>1. IsEnd(P, t, e)
        BY DEF CoolsAt
      <3>2. e <= n + 1 => e = n + 1
        OBVIOUS
      <3> QED
        BY <3>1, <3>2, TickNoneSince
    <2>2. ASSUME act # NoCooldown
          PROVE  /\ IsEnd(P, t, act.slotEndedAt) /\ act.slotEndedAt <= n + 1
                 /\ NoneSince(P, act.slotEndedAt, n + 1)
      <3>1. /\ IsEnd(P, t, act.slotEndedAt) /\ act.slotEndedAt <= n
            /\ NoneSince(P, act.slotEndedAt, n) /\ ~ Taken(P, n)
        BY <2>2 DEF CoolsAt
      <3>2. act.slotEndedAt \in Nat
        BY <2>2 DEF CooldownType
      <3>3. act.slotEndedAt <= n + 1
        BY <3>1, <3>2
      <3> QED
        BY <3>1, <3>3, TickNoneSince
    <2> QED
      BY <2>1, <2>2 DEF CoolsAt
  <1>8. WatchesAt(P, q, n, on, tasks, {}, act, 0) =>
          WatchesAt(P, q, n + 1, next, tasks, {}, act, 0)
    BY <1>4, TickWatches
  <1> QED
    BY <1>3, <1>5, <1>6, <1>7, <1>8 DEF FanOK

\* The plan is applied: its calls are to come, and a fan that it does not ask for has lost
\* its account.
LEMMA FanBegin ==
  ASSUME NEW P, PlanOK(P), Apart(P), NEW t \in Nat, NEW on, Rests(P, t, t, on),
         NEW sch, \A e \in sch : e.switch # "fan",
         NEW off, NEW tasks, NEW st, NEW act, NEW mon, NEW w
  PROVE  /\ FanEntered(P, t, ApplyCalls(P, t), sch)
         /\ FanOK(P, t, ApplyCalls(P, t), t, on, off, tasks, st, act, mon, w)
  <1>1. PICK q : q = ApplyCalls(P, t)
    OBVIOUS
  <1>2. q \in Seq(Jobs) /\ FanTodo(q, P, t) /\ FanWhole(q, 0, P, t) /\ After(q, 0, Cancel)
    BY <1>1, ApplyCallsOK DEF Cancel
  <1>3. FanEntered(P, t, q, sch)
    BY <1>2 DEF FanEntered, FanWhole
  <1>4. FanOK(P, t, q, t, on, off, tasks, st, act, mon, w)
    <2> SUFFICES ASSUME ~ LateIn(q, "fan", t) PROVE Serves(P, t, q, t, on, off)
      BY <1>2 DEF FanOK
    <2> QED
      BY <1>2, OwedAfterCancel DEF Serves
  <1> QED
    BY <1>1, <1>3, <1>4

LEMMA FanEnteredTail ==
  ASSUME NEW P, PlanOK(P), Apart(P), NEW t \in Nat, NEW q \in Seq(Jobs), q # <<>>, NEW sch,
         FanEntered(P, t, q, sch)
  PROVE  /\ Head(q).op # "create" \/ Head(q).entry.switch # "fan" =>
              FanEntered(P, t, Tail(q), sch)
         /\ \A e : Head(q) = CreateOf(e) => FanEntered(P, t, Tail(q), sch \cup {e})
  <1>1. FanTodo(Tail(q), P, t)
    BY TailTodo DEF FanEntered
  <1>2. \A c : c # Head(q) /\ After(q, 0, c) => After(Tail(q), 0, c)
    BY TailOK
  <1>3. ASSUME Head(q).op # "create" \/ Head(q).entry.switch # "fan"
        PROVE  FanEntered(P, t, Tail(q), sch)
    <2>1. \A e \in FanEntries(P, t) : CreateOf(e) # Head(q)
      BY <1>3, FanEntriesOK DEF CreateOf
    <2> QED
      BY <1>1, <1>2, <2>1 DEF FanEntered
  <1>4. ASSUME NEW e, Head(q) = CreateOf(e) PROVE FanEntered(P, t, Tail(q), sch \cup {e})
    <2>1. Head(q).op = "create" /\ Head(q).entry = e /\ \A d : CreateOf(d) = Head(q) => d = e
      BY <1>4 DEF CreateOf
    <2>2. e.switch = "fan" => e \in FanEntries(P, t)
      <3>1. 1 \in DOMAIN q /\ q[1] = Head(q)
        BY TailOK
      <3> QED
        BY <2>1, <3>1 DEF FanEntered, FanTodo, FanCallOK
    <2>3. \A d \in FanEntries(P, t) : d = e \/ d \in sch \/ After(Tail(q), 0, CreateOf(d))
      BY <1>2, <2>1 DEF FanEntered
    <2> QED
      BY <1>1, <2>2, <2>3 DEF FanEntered
  <1> QED
    BY <1>3, <1>4

LEMMA FanForgets ==
  ASSUME NEW P, NEW t, NEW q, NEW n, NEW on, NEW off, NEW tasks, NEW st, NEW act, NEW mon,
         NEW w, NEW w2, w2 => w, FanOK(P, t, q, n, on, off, tasks, st, act, mon, w)
  PROVE  FanOK(P, t, q, n, on, off, tasks, st, act, mon, w2)
  BY DEF FanOK

-----------------------------------------------------------------------------
(* The fan serves the plan. *)

\* the daemon has the plan P, and no call of a cooldown has failed since
Watched(P) == hist.watched /\ currentPlan = P

\* the fan is right for the plan P since t
FanState(P, t) ==
  /\ FanEntered(P, t, job.todo, schedule)
  /\ FanOK(P, t, job.todo, now, fan, cooldownOff, fanCooldownTasks, starting,
           activeFanCooldown, monitored, Watched(P))

FanServed == Serving /\ hist.fan /\ Apart(ThePlan) => \E t \in 0..now : FanState(ThePlan, t)

\* Each step keeps the fan right for the plan, as the lemmas above say of each call, or it
\* is no longer accountable to it.
LEMMA FanStays ==
  ASSUME Types, Shape, [Next]_vars, ~ BeginApply, Serving, Serving', hist'.fan, hist.fan,
         NEW P, P = ThePlan, PlanOK(P), Apart(P), NEW t \in Nat, t <= now, FanState(P, t)
  PROVE  FanState(P, t)'
  <1>0. /\ job.todo \in Seq(Jobs) /\ now \in Nat /\ fan \in BOOLEAN /\ cooldownOff \in Nat
        /\ fanCooldownTasks \subseteq Nat /\ starting \subseteq Nat
        /\ activeFanCooldown \in CooldownType \cup {NoCooldown}
    BY DEF Types, JobType
  <1>1. /\ FanEntered(P, t, job.todo, schedule) /\ FanTodo(job.todo, P, t)
        /\ FanOK(P, t, job.todo, now, fan, cooldownOff, fanCooldownTasks, starting,
                 activeFanCooldown, monitored, Watched(P))
    BY DEF FanState, FanEntered
  <1>2. ASSUME job'.todo = job.todo, UNCHANGED <<now, fan, schedule, fanCooldownTasks, cooldown,
                 monitored>>, Watched(P)' => Watched(P)
        PROVE  FanState(P, t)'
    <2>1. FanOK(P, t, job.todo, now, fan, cooldownOff, fanCooldownTasks, starting,
                activeFanCooldown, monitored, Watched(P)')
      BY <1>1, <1>2, FanForgets
    <2> QED
      BY <1>1, <1>2, <2>1 DEF FanState, cooldown
  <1>3. CASE applyOperationalPlan \/ clearAllSchedulesAndScripts
    <2>1. ~ Stage("calls")' /\ hist'.plan = NoPlan
      BY <1>3 DEF applyOperationalPlan, clearAllSchedulesAndScripts, Stage, IdleJob, Types,
        JobType, HistType, Shape, JobShape
    <2> QED
      BY <2>1 DEF Serving
  <1>4. CASE EndApply
    <2>1. job'.todo = job.todo
      BY <1>4, JobIdle DEF EndApply
    <2>2. Watched(P)' = Watched(P)
      BY <1>4 DEF EndApply, Watched, Types, HistType
    <2> QED
      BY <1>2, <1>4, <2>1, <2>2 DEF EndApply, device, timers
  <1>5. CASE SetOn
    <2>1. /\ job.todo # <<>> /\ Head1 = Head(job.todo) /\ Head1 \in Jobs /\ Head1.op = "set"
          /\ UNCHANGED <<now, schedule, fanCooldownTasks, cooldown, monitored, currentPlan>>
      BY <1>5, NextCall DEF SetOn, timers
    <2>2. Head1 = Set("lights") \/ Head1 = Set("fan")
      BY <2>1, JobKinds
    <2>3. hist'.watched => hist.watched
      <3>1. Head1.switch \in {"lights", "fan"}
        BY <2>2 DEF Set
      <3>2. UNCHANGED hist \/ Forfeit(Head1.switch)
        BY <1>5 DEF SetOn
      <3> QED
        BY <3>1, <3>2, ForfeitOK
    <2>4. Watched(P)' => Watched(P)
      BY <2>1, <2>3 DEF Watched
    <2>5. FanEntered(P, t, Tail(job.todo), schedule)
      BY <1>0, <1>1, <2>1, FanEnteredTail
    <2>6. Done \/ job'.todo = job.todo
      BY <1>5 DEF SetOn, Types, JobType
    <2>7. job'.todo = Tail(job.todo) \/ job'.todo = job.todo
      BY <2>1, <2>6, JobDone
    <2>8. CASE Head1 = Set("lights")
      <3>1. Head1.switch = "lights" /\ Head1 # Set("fan")
        BY <2>8 DEF Set
      <3>2. UNCHANGED fan
        BY <1>5, <3>1 DEF SetOn, Switched
      <3>3. CASE job'.todo = Tail(job.todo)
        <4>1. FanOK(P, t, Tail(job.todo), now, fan, cooldownOff, fanCooldownTasks, starting,
                    activeFanCooldown, monitored, Watched(P))
          BY <1>0, <1>1, <2>1, <3>1, FanTail
        <4>2. FanOK(P, t, Tail(job.todo), now, fan, cooldownOff, fanCooldownTasks, starting,
                    activeFanCooldown, monitored, Watched(P)')
          BY <2>4, <4>1, FanForgets
        <4> QED
          BY <2>1, <2>5, <3>2, <3>3, <4>2 DEF FanState, cooldown
      <3> QED
        BY <1>2, <2>1, <2>4, <2>7, <3>2, <3>3
    <2>9. CASE Head1 = Set("fan")
      <3>1. Head1.switch = "fan"
        BY <2>9 DEF Set
      <3>2. cooldownOff = 0
        <4>1. ~ Forfeit("fan")
          BY ForfeitOK
        <4>2. ~ Crossing("fan")
          BY <1>5, <3>1, <4>1 DEF SetOn
        <4> QED
          BY <1>0, <4>2 DEF Crossing
      <3>3. /\ FanOK(P, t, Tail(job.todo), now, TRUE, 0, fanCooldownTasks, starting,
                     activeFanCooldown, monitored, Watched(P))
            /\ FanOK(P, t, job.todo, now, TRUE, 0, fanCooldownTasks, starting,
                     activeFanCooldown, monitored, Watched(P))
        BY <1>0, <1>1, <2>1, <2>9, <3>2, FanSet
      <3>4. /\ FanOK(P, t, Tail(job.todo), now, TRUE, 0, fanCooldownTasks, starting,
                     activeFanCooldown, monitored, Watched(P)')
            /\ FanOK(P, t, job.todo, now, TRUE, 0, fanCooldownTasks, starting,
                     activeFanCooldown, monitored, Watched(P)')
        BY <2>4, <3>3, FanForgets
      <3>5. CASE fan' = TRUE
        BY <1>1, <2>1, <2>5, <2>7, <3>2, <3>4, <3>5 DEF FanState, cooldown
      <3>6. CASE UNCHANGED fan /\ job'.todo = job.todo
        BY <1>2, <2>1, <2>4, <3>6
      <3>7. \/ fan' = TRUE
            \/ UNCHANGED fan /\ job'.todo = job.todo
        <4>1. ~ Forfeit("fan")
          BY ForfeitOK
        <4>2. CASE Answered /\ Switched(Head1.switch, TRUE) /\ Done
          BY <3>1, <4>2 DEF Switched
        <4>3. CASE /\ UNCHANGED <<lights, fan>> \/ Switched(Head1.switch, TRUE)
                   /\ IF LastTry THEN Done ELSE job' = [job EXCEPT !.tries = @ - 1]
                   /\ IF LastTry \/ Crossing(Head1.switch) THEN Forfeit(Head1.switch)
                      ELSE UNCHANGED hist
          <5>1. job'.todo = job.todo
            BY <3>1, <4>1, <4>3 DEF Types, JobType
          <5>2. fan' = TRUE \/ UNCHANGED fan
            BY <3>1, <4>3 DEF Switched
          <5> QED
            BY <5>1, <5>2
        <4> QED
          BY <1>5, <4>2, <4>3 DEF SetOn
      <3> QED
        BY <3>5, <3>6, <3>7
    <2> QED
      BY <2>2, <2>8, <2>9
  <1>6. CASE scheduleSwitch
    <2>1. /\ job.todo # <<>> /\ Head1 = Head(job.todo) /\ Head1 \in Jobs /\ Head1.op = "create"
          /\ UNCHANGED <<now, fan, fanCooldownTasks, cooldown, monitored, currentPlan>>
          /\ Stage("calls")
      BY <1>6, NextCall DEF scheduleSwitch, timers, Stage
    <2>2. PICK e \in Entries : Head1 = CreateOf(e)
      BY <2>1, JobKinds
    <2>3. Head1.entry = e /\ Head1 # Set("fan")
      BY <2>1, <2>2 DEF CreateOf, Set
    <2>4. CASE Done /\ schedule' = schedule \cup {e}
               /\ IF e.at <= now THEN Forfeit(e.switch) ELSE UNCHANGED hist
      <3>1. e.switch = "fan" => ~ (e.at <= now)
        BY <2>4, ForfeitOK
      <3>2. hist'.watched => hist.watched
        BY <2>4, ForfeitOK DEF Entries
      <3>3. Watched(P)' => Watched(P)
        BY <2>1, <3>2 DEF Watched
      <3>4. FanEntered(P, t, Tail(job.todo), schedule \cup {e})
        BY <1>0, <1>1, <2>1, <2>2, FanEnteredTail
      <3>5. FanOK(P, t, Tail(job.todo), now, fan, cooldownOff, fanCooldownTasks, starting,
                  activeFanCooldown, monitored, Watched(P))
        BY <1>0, <1>1, <2>1, <2>3, <3>1, FanTail
      <3>6. FanOK(P, t, Tail(job.todo), now, fan, cooldownOff, fanCooldownTasks, starting,
                  activeFanCooldown, monitored, Watched(P)')
        BY <3>3, <3>5, FanForgets
      <3>7. job'.todo = Tail(job.todo)
        BY <2>1, <2>4, JobDone
      <3> QED
        BY <2>1, <2>4, <3>4, <3>6, <3>7 DEF FanState, cooldown
    <2>5. CASE GivesUp /\ UNCHANGED hist
      BY <2>1, <2>5, GivenUp DEF Shape
    <2> QED
      BY <1>6, <2>3, <2>4, <2>5 DEF scheduleSwitch
  <1>7. CASE scheduleLightsBlink
    <2>1. /\ job.todo # <<>> /\ Head1 = Head(job.todo) /\ Head1 \in Jobs /\ Head1.op = "blinks"
          /\ UNCHANGED <<now, fan, schedule, fanCooldownTasks, cooldown, monitored, currentPlan, hist>>
          /\ job'.todo = Tail(job.todo)
      BY <1>7, NextCall, JobDone DEF scheduleLightsBlink, device
    <2>2. Head1 # Set("fan") /\ Watched(P)' = Watched(P)
      BY <2>1 DEF Set, Watched
    <2>3. FanEntered(P, t, Tail(job.todo), schedule)
      BY <1>0, <1>1, <2>1, FanEnteredTail
    <2>4. FanOK(P, t, Tail(job.todo), now, fan, cooldownOff, fanCooldownTasks, starting,
                activeFanCooldown, monitored, Watched(P))
      BY <1>0, <1>1, <2>1, <2>2, FanTail
    <2> QED
      BY <2>1, <2>2, <2>3, <2>4 DEF FanState, cooldown
  <1>8. CASE cancelFanCooldowns
    <2>1. /\ job.todo # <<>> /\ Head1 = Head(job.todo) /\ Head1 \in Jobs
          /\ Head1.op = "cancelFanCooldowns" /\ job'.todo = Tail(job.todo)
          /\ UNCHANGED <<now, fan, schedule, starting, cooldownOff, monitored>>
          /\ fanCooldownTasks' = {} /\ activeFanCooldown' = NoCooldown
      BY <1>8, NextCall, JobDone DEF cancelFanCooldowns, CooldownsCancelled, device
    <2>2. Head1 = Cancel
      BY <2>1, JobKinds DEF Cancel
    <2>3. starting = {}
      BY <1>8 DEF cancelFanCooldowns, Types, HistType
    <2>4. FanEntered(P, t, Tail(job.todo), schedule)
      BY <1>0, <1>1, <2>1, FanEnteredTail
    <2>5. FanOK(P, t, Tail(job.todo), now, fan, cooldownOff, {}, {}, NoCooldown, monitored,
                Watched(P)')
      BY <1>0, <1>1, <2>1, <2>2, FanCancel
    <2> QED
      BY <2>1, <2>3, <2>4, <2>5 DEF FanState
  <1>9. CASE scheduleFanCooldown
    <2>1. /\ job.todo # <<>> /\ Head1 = Head(job.todo) /\ Head1 \in Jobs /\ Head1.op = "later"
          /\ UNCHANGED <<now, fan, schedule, cooldown, monitored, currentPlan, hist>>
          /\ job'.todo = Tail(job.todo) /\ fanCooldownTasks' = fanCooldownTasks \cup {Head1.end}
      BY <1>9, NextCall, JobDone DEF scheduleFanCooldown, device
    <2>2. Head1 = [op |-> "later", end |-> Head1.end] /\ Watched(P)' = Watched(P)
      BY <2>1, JobKinds DEF Watched
    <2>3. FanEntered(P, t, Tail(job.todo), schedule)
      BY <1>0, <1>1, <2>1, FanEnteredTail
    <2>4. FanOK(P, t, Tail(job.todo), now, fan, cooldownOff, fanCooldownTasks \cup {Head1.end},
                starting, activeFanCooldown, monitored, Watched(P))
      BY <1>0, <1>1, <2>1, <2>2, FanLater
    <2> QED
      BY <2>1, <2>2, <2>3, <2>4 DEF FanState, cooldown
  <1>10. CASE ResumeFanCooldown
    <2>1. /\ job.todo # <<>> /\ Head1 = Head(job.todo) /\ Head1 \in Jobs /\ Head1.op = "resume"
          /\ UNCHANGED <<now, fan, schedule, fanCooldownTasks, starting, cooldownOff, monitored,
                         currentPlan, hist>>
          /\ Stage("calls")
      BY <1>10, NextCall DEF ResumeFanCooldown, device, timers, Stage
    <2>2. /\ Head1 = [op |-> "resume", end |-> Head1.end] /\ Head1.end \in Nat
          /\ Watched(P)' = Watched(P)
      BY <2>1, JobKinds DEF Watched
    <2>3. CASE Done /\ activeFanCooldown' = IF fan THEN newFanCooldown(Head1.end) ELSE activeFanCooldown
      <3>1. FanEntered(P, t, Tail(job.todo), schedule)
        BY <1>0, <1>1, <2>1, FanEnteredTail
      <3>2. FanOK(P, t, Tail(job.todo), now, fan, cooldownOff, fanCooldownTasks, starting,
                  IF fan THEN newFanCooldown(Head1.end) ELSE activeFanCooldown, monitored,
                  Watched(P))
        BY <1>0, <1>1, <2>1, <2>2, FanResume
      <3>3. job'.todo = Tail(job.todo)
        BY <2>1, <2>3, JobDone
      <3> QED
        BY <2>1, <2>2, <2>3, <3>1, <3>2, <3>3 DEF FanState
    <2>4. CASE GivesUp
      BY <2>1, <2>4, GivenUp DEF Shape
    <2> QED
      BY <1>10, <2>3, <2>4 DEF ResumeFanCooldown
  <1>11. CASE FanCooldownDue
    <2>1. PICK x \in fanCooldownTasks :
            /\ x <= now /\ fanCooldownTasks' = fanCooldownTasks \ {x}
            /\ starting' = starting \cup {x}
      BY <1>11 DEF FanCooldownDue
    <2>2. /\ UNCHANGED <<now, fan, schedule, job, activeFanCooldown, cooldownOff, monitored>>
          /\ Watched(P)' = Watched(P)
      BY <1>11 DEF FanCooldownDue, device, Watched
    <2>3. FanOK(P, t, job.todo, now, fan, cooldownOff, fanCooldownTasks \ {x}, starting \cup {x},
                activeFanCooldown, monitored, Watched(P))
      BY <1>0, <1>1, <2>1, FanStart
    <2> QED
      BY <1>1, <2>1, <2>2, <2>3 DEF FanState
  <1>12. CASE startFanCooldown
    <2>1. PICK x \in starting :
            /\ starting' = starting \ {x}
            /\ \/ /\ UNCHANGED hist
                  /\ activeFanCooldown' = IF fan THEN newFanCooldown(x) ELSE activeFanCooldown
               \/ UNCHANGED activeFanCooldown /\ Forfeit("watched")
      BY <1>12 DEF startFanCooldown
    <2>2. UNCHANGED <<now, fan, schedule, job, fanCooldownTasks, cooldownOff, monitored, currentPlan>>
      BY <1>12 DEF startFanCooldown, device, timers
    <2>3. \/ /\ activeFanCooldown' = IF fan THEN newFanCooldown(x) ELSE activeFanCooldown
             /\ Watched(P)' = Watched(P)
          \/ activeFanCooldown' = activeFanCooldown /\ Watched(P)' = FALSE
      <3>1. Forfeit("watched") => Watched(P)' = FALSE
        BY ForfeitOK DEF Watched
      <3>2. UNCHANGED hist => Watched(P)' = Watched(P)
        BY <2>2 DEF Watched
      <3> QED
        BY <2>1, <3>1, <3>2
    <2>4. FanOK(P, t, job.todo, now, fan, cooldownOff, fanCooldownTasks, starting \ {x},
                activeFanCooldown', monitored, Watched(P)')
      <3>1. PICK st, act, w : st = starting /\ act = activeFanCooldown /\ w = Watched(P)
        OBVIOUS
      <3>2. FanOK(P, t, job.todo, now, fan, cooldownOff, fanCooldownTasks, st, act, monitored, w)
        BY <1>1, <3>1
      <3>3. x \in st /\ st \subseteq Nat
        BY <1>0, <2>1, <3>1
      <3>4. /\ fan = TRUE => FanOK(P, t, job.todo, now, fan, cooldownOff, fanCooldownTasks, st \ {x},
                                  newFanCooldown(x), monitored, w)
            /\ fan = FALSE => FanOK(P, t, job.todo, now, fan, cooldownOff, fanCooldownTasks,
                                   st \ {x}, act, monitored, w)
            /\ FanOK(P, t, job.todo, now, fan, cooldownOff, fanCooldownTasks, st \ {x}, act,
                     monitored, FALSE)
        BY <1>0, <3>2, <3>3, FanStarted
      <3>5. fan = TRUE \/ fan = FALSE
        BY <1>0
      <3> QED
        BY <2>3, <3>1, <3>4, <3>5
    <2> QED
      BY <1>1, <2>1, <2>2, <2>4 DEF FanState
  <1>13. CASE updateFanCooldown
    <2>1. /\ UNCHANGED <<now, fan, schedule, job, fanCooldownTasks, starting>> /\ monitored' = TRUE
          /\ Watched(P)' = Watched(P)
      BY <1>13 DEF updateFanCooldown, device, timers, Watched, cooldown
    <2>2. CASE activeFanCooldown = NoCooldown
      <3>1. UNCHANGED <<activeFanCooldown, cooldownOff>>
        BY <1>13, <2>2 DEF updateFanCooldown, cooldown
      <3>2. FanOK(P, t, job.todo, now, fan, cooldownOff, fanCooldownTasks, starting,
                  activeFanCooldown, TRUE, Watched(P))
        BY <1>1, <2>2 DEF FanOK, CoolsAt
      <3> QED
        BY <1>1, <2>1, <3>1, <3>2 DEF FanState
    <2>3. CASE activeFanCooldown # NoCooldown
      <3>1. PICK reading \in Temps \cup {NoReading} :
              LET state == withReading(activeFanCooldown, now, reading)
                  over == Stops(state, now, saunaHeaterShouldBeOn)
              IN /\ activeFanCooldown' = IF over THEN NoCooldown ELSE state
                 /\ cooldownOff' = IF over THEN MaxTries ELSE cooldownOff
        BY <1>13, <2>3 DEF updateFanCooldown
      <3>2. PICK state : state = withReading(activeFanCooldown, now, reading)
        OBVIOUS
      <3>3. state # NoCooldown /\ state.slotEndedAt = activeFanCooldown.slotEndedAt
        BY <1>0, <2>3, <3>2, withReadingOK
      <3>4. /\ \A tries \in Nat \ {0} :
                 FanOK(P, t, job.todo, now, fan, tries, fanCooldownTasks, starting, NoCooldown,
                       TRUE, Watched(P))
            /\ (~ \E s \in P.slots : In(s, now)) =>
                 FanOK(P, t, job.todo, now, fan, cooldownOff, fanCooldownTasks, starting, state,
                       TRUE, Watched(P))
        BY <1>0, <1>1, <2>3, <3>3, FanMonitor
      <3>5. CASE Stops(state, now, saunaHeaterShouldBeOn)
        <4>1. activeFanCooldown' = NoCooldown /\ cooldownOff' = MaxTries
          BY <3>1, <3>2, <3>5
        <4>2. MaxTries \in Nat \ {0}
          BY FansAssumption
        <4> QED
          BY <1>1, <2>1, <3>4, <4>1, <4>2 DEF FanState
      <3>6. CASE ~ Stops(state, now, saunaHeaterShouldBeOn)
        <4>1. activeFanCooldown' = state /\ cooldownOff' = cooldownOff
          BY <3>1, <3>2, <3>6
        <4>2. currentPlan = P
          BY <2>3 DEF Serving, ThePlan, Shape, PlanShape, Stage
        <4>3. ~ \E s \in P.slots : In(s, now)
          BY <3>6, <4>2 DEF Stops, saunaHeaterShouldBeOn
        <4> QED
          BY <1>1, <2>1, <3>4, <4>1, <4>3 DEF FanState
      <3> QED
        BY <3>5, <3>6
    <2> QED
      BY <2>2, <2>3
  <1>14. CASE CooldownSetOff
    <2>1. /\ UNCHANGED <<now, schedule, job, fanCooldownTasks, starting, activeFanCooldown, monitored,
                         currentPlan>>
          /\ cooldownOff > 0
      BY <1>14 DEF CooldownSetOff, timers
    <2>2. /\ FanOK(P, t, job.todo, now, FALSE, 0, fanCooldownTasks, starting, activeFanCooldown,
                   monitored, Watched(P))
          /\ \A on2 \in {fan, FALSE} : \A w2 : (w2 => Watched(P) /\ cooldownOff # 1) =>
               FanOK(P, t, job.todo, now, on2, cooldownOff - 1, fanCooldownTasks, starting,
                     activeFanCooldown, monitored, w2)
      BY <1>0, <1>1, <2>1, FanSetOff
    <2>3. CASE fan' = FALSE /\ cooldownOff' = 0 /\ UNCHANGED hist
      <3>1. Watched(P)' = Watched(P)
        BY <2>1, <2>3 DEF Watched
      <3> QED
        BY <1>1, <2>1, <2>2, <2>3, <3>1 DEF FanState
    <2>4. CASE /\ fan' \in {fan, FALSE} /\ cooldownOff' = cooldownOff - 1
               /\ IF cooldownOff = 1 THEN Forfeit("watched") ELSE UNCHANGED hist
      <3>1. Watched(P)' => Watched(P) /\ cooldownOff # 1
        BY <2>1, <2>4, ForfeitOK DEF Watched
      <3> QED
        BY <1>1, <2>1, <2>2, <2>4, <3>1 DEF FanState
    <2> QED
      BY <1>14, <2>3, <2>4 DEF CooldownSetOff
  <1>15. CASE LightsBlinkDue \/ UNCHANGED vars
    <2>1. Watched(P)' = Watched(P)
      BY <1>15 DEF LightsBlinkDue, vars, Watched
    <2> QED
      BY <1>2, <1>15, <2>1 DEF LightsBlinkDue, vars, device, timers
  <1>16. CASE blinkSwitch
    <2>1. UNCHANGED <<now, fan, schedule, job, fanCooldownTasks, cooldown, monitored, currentPlan>>
      BY <1>16 DEF blinkSwitch, timers
    <2>2. hist'.watched => hist.watched
      BY <1>16, ForfeitOK DEF blinkSwitch
    <2> QED
      BY <1>2, <2>1, <2>2 DEF Watched
  <1>17. CASE ByHand
    <2>1. /\ UNCHANGED <<now, schedule, job, fanCooldownTasks, cooldown, monitored, currentPlan>>
          /\ \E switch \in {"lights", "fan"}, on \in BOOLEAN :
               Switched(switch, on) /\ Forfeit(switch)
      BY <1>17 DEF ByHand, timers
    <2>2. PICK switch \in {"lights", "fan"} :
            \E on \in BOOLEAN : Switched(switch, on) /\ Forfeit(switch)
      BY <2>1
    <2>3. PICK on \in BOOLEAN : Switched(switch, on) /\ Forfeit(switch)
      BY <2>2
    <2>4. switch # "fan" /\ (hist'.watched => hist.watched)
      BY <2>3, ForfeitOK
    <2>5. UNCHANGED fan
      BY <2>2, <2>3, <2>4 DEF Switched
    <2> QED
      BY <1>2, <2>1, <2>4, <2>5 DEF Watched
  <1>18. CASE Restart
    <2>1. /\ UNCHANGED <<now, fan, schedule, monitored>> /\ currentPlan' = NoPlan
          /\ fanCooldownTasks' = {} /\ starting' = {} /\ activeFanCooldown' = NoCooldown
          /\ cooldownOff' = 0 /\ job'.todo = <<>> /\ job'.stage = "idle" /\ hist'.plan = hist.plan
      BY <1>18 DEF Restart, device, IdleJob, Types, HistType
    <2>2. hist.plan # NoPlan /\ ~ Stage("calls")
      BY <2>1 DEF Serving, Stage, Shape, JobShape
    <2>3. P # NoPlan /\ job.todo = <<>>
      BY <2>2 DEF ThePlan, Shape, JobShape, Stage
    <2>4. Watched(P)' = FALSE
      BY <2>1, <2>3 DEF Watched
    <2>5. \A c : ~ After(<<>>, 0, c)
      BY DEF After
    <2>6. FanOK(P, t, <<>>, now, fan, 0, {}, {}, NoCooldown, monitored, FALSE)
      <3>1. ~ LateIn(<<>>, "fan", now)
        BY DEF LateIn
      <3>2. Rests(P, t, now, fan) /\ Serves(P, t, <<>>, now, fan, cooldownOff)
        BY <1>1, <2>3, <3>1 DEF FanOK
      <3>3. Serves(P, t, <<>>, now, fan, 0)
        BY <2>5, <3>2 DEF Serves
      <3>4. CoolsAt(P, t, now, {}, {}, NoCooldown, monitored)
        BY DEF CoolsAt
      <3> QED
        BY <3>2, <3>3, <3>4 DEF FanOK
    <2> QED
      BY <1>1, <2>1, <2>3, <2>4, <2>6 DEF FanState
  <1>19. CASE Tick
    <2>1. /\ now' = now + 1 /\ UNCHANGED <<schedule, job, fanCooldownTasks, cooldown>>
          /\ monitored' = FALSE /\ starting = {} /\ cooldownOff = 0
          /\ activeFanCooldown # NoCooldown => monitored
          /\ \A e \in fanCooldownTasks : e > now
          /\ Watched(P)' = Watched(P)
      BY <1>19 DEF Tick, InstantOver, timers, Watched
    <2>2. Turned(schedule, now, fan, fan')
      BY <1>19 DEF Tick, Fires, Turned, Due
    <2>3. FanOK(P, t, job.todo, now, fan, 0, fanCooldownTasks, {}, activeFanCooldown, monitored,
                Watched(P))
      BY <1>1, <2>1
    <2>4. \A e \in fanCooldownTasks : e \in Nat /\ e > now
      BY <1>0, <2>1
    <2>5. FanOK(P, t, job.todo, now + 1, fan', 0, fanCooldownTasks, {}, activeFanCooldown, FALSE,
                Watched(P))
      BY <1>0, <1>1, <2>1, <2>2, <2>3, <2>4, FanTick
    <2> QED
      BY <1>1, <2>1, <2>5 DEF FanState, cooldown
  <1> QED
    BY <1>3, <1>4, <1>5, <1>6, <1>7, <1>8, <1>9, <1>10, <1>11, <1>12, <1>13, <1>14, <1>15,
      <1>16, <1>17, <1>18, <1>19 DEF Next, Apply

LEMMA FanServedNext ==
  Types /\ Shape /\ FanServed /\ [Next]_vars => FanServed'
  <1> SUFFICES ASSUME Types, Shape, FanServed, [Next]_vars, Serving', hist'.fan, Apart(ThePlan)'
               PROVE  \E t \in 0..now' : FanState(ThePlan, t)'
    BY DEF FanServed
  <1>0. /\ \A P \in Plans \cup {NoPlan} : PlanOK(P)
        /\ Apart(ThePlan')
    BY PlansOK DEF Apart
  <1>1. CASE BeginApply
    <2>1. PICK t : t = now
      OBVIOUS
    <2>2. PICK P : P = currentPlan
      OBVIOUS
    <2>9. ThePlan' = P
      BY <1>1, <2>2 DEF BeginApply, ThePlan, Stage, Types, JobType
    <2>3. /\ t \in Nat /\ PlanOK(P) /\ Apart(P) /\ fan \in BOOLEAN /\ hist.fan
          /\ \A e \in schedule : e.switch # "fan"
      BY <1>0, <1>1, <2>1, <2>2, <2>9, HistNext DEF Types, Shape, ClearShape, BeginApply, Stage
    <2>4. Rests(P, t, t, fan)
      BY <1>1, <2>1, <2>2 DEF BeginApply, Types, HistType, Rests
    <2>5. PICK q : q = ApplyCalls(P, t)
      OBVIOUS
    <2>6. /\ FanEntered(P, t, q, schedule)
          /\ FanOK(P, t, q, t, fan, cooldownOff, fanCooldownTasks, starting, activeFanCooldown,
                   monitored, Watched(P)')
      BY <2>3, <2>4, <2>5, FanBegin
    <2>7. /\ job'.todo = q /\ job'.stage = "calls"
          /\ UNCHANGED <<now, fan, schedule, currentPlan, fanCooldownTasks, cooldown, monitored>>
      BY <1>1, <2>1, <2>2, <2>5 DEF BeginApply, device, timers, Types, JobType
    <2>8. FanState(ThePlan, t)'
      BY <2>1, <2>2, <2>6, <2>7 DEF FanState, ThePlan, Stage, cooldown
    <2> QED
      BY <2>1, <2>3, <2>7, <2>8
  <1>2. CASE ~ BeginApply
    <2>1. Serving /\ ThePlan' = ThePlan
      BY <1>2, PlanStays DEF Shape
    <2>2. hist.fan
      BY HistNext
    <2>3. PICK t \in 0..now : FanState(ThePlan, t)
      BY <1>0, <2>1, <2>2 DEF FanServed
    <2>4. PICK P : P = ThePlan
      OBVIOUS
    <2>5. PlanOK(P) /\ Apart(P) /\ t \in Nat /\ t <= now
      BY <1>0, <2>1, <2>4 DEF Types, ThePlan, HistType
    <2>6. FanState(P, t)'
      BY <1>2, <2>1, <2>2, <2>3, <2>4, <2>5, FanStays
    <2>7. now' = now \/ now' = now + 1
      BY ClockNext
    <2>8. t \in 0..now'
      BY <2>3, <2>7 DEF Types
    <2> QED
      BY <2>1, <2>4, <2>6, <2>8
  <1> QED
    BY <1>1, <1>2

LEMMA FanServedAlways == Spec => []FanServed
  <1>1. Init => FanServed
    BY DEF Init, FanServed, Serving, Stage, IdleJob, Accounted
  <1>2. Inv /\ FanServed /\ [Next]_vars => FanServed'
    BY FanServedNext DEF Inv
  <1> QED
    BY <1>1, <1>2, InvAlways, PTL DEF Spec

\* What is known of the fan when the plan is applied and nothing is under way.
LEMMA FanSettled ==
  ASSUME Inv, FanServed, Settled, hist.fan, Apart(hist.plan)
  PROVE  \E t \in 0..now :
           /\ \A e \in schedule : e.switch = "fan" => e \in FanEntries(hist.plan, t)
           /\ Rests(hist.plan, t, now, fan) /\ (Owed(hist.plan, t, now) => fan)
           /\ Watched(hist.plan) =>
                \A s \in Overlapped(hist.plan) :
                  s.stop <= now /\ now < fanOffTime(s, hist.plan) /\ fan =>
                    activeFanCooldown # NoCooldown \/ Used(hist.plan, now)
  <1>1. /\ Serving /\ ThePlan = hist.plan /\ job.todo = <<>> /\ starting = {} /\ cooldownOff = 0
        /\ \A e \in fanCooldownTasks : e > now
    BY DEF Settled, Serving, ThePlan, Stage, Inv, Shape, JobShape, InstantOver
  <1>2. PICK t \in 0..now : FanState(ThePlan, t)
    BY <1>1 DEF FanServed
  <1>3. PICK P : P = hist.plan
    OBVIOUS
  <1>4. PlanOK(P) /\ Apart(P)
    BY <1>3, PlansOK DEF Inv, Types, HistType
  <1>5. /\ FanEntered(P, t, <<>>, schedule)
        /\ FanOK(P, t, <<>>, now, fan, 0, fanCooldownTasks, {}, activeFanCooldown, monitored,
                 Watched(P))
    BY <1>1, <1>2, <1>3 DEF FanState
  <1>6. (\A c : ~ After(<<>>, 0, c)) /\ ~ LateIn(<<>>, "fan", now)
    BY DEF After, LateIn
  <1>7. /\ Rests(P, t, now, fan) /\ Serves(P, t, <<>>, now, fan, 0)
        /\ Watched(P) => WatchesAt(P, <<>>, now, fan, fanCooldownTasks, {}, activeFanCooldown, 0)
    BY <1>5, <1>6 DEF FanOK
  <1>8. Owed(P, t, now) => fan
    BY <1>6, <1>7 DEF Serves
  <1>9. ASSUME Watched(P), NEW s \in Overlapped(P), s.stop <= now, now < fanOffTime(s, P), fan
        PROVE  activeFanCooldown # NoCooldown \/ Used(P, now)
    <2>1. s.stop \in Nat /\ fanOffTime(s, P) \in Nat
      BY <1>4, PlanFacts
    <2>2. Cooled(s, P)
      BY <1>9, <2>1 DEF Cooled, Inv, Types
    <2>3. s.stop \notin fanCooldownTasks
      BY <1>1, <1>9, <2>1 DEF Inv, Types
    <2>4. ~ (0 > 0)
      OBVIOUS
    <2> QED
      BY <1>6, <1>7, <1>9, <2>2, <2>3, <2>4 DEF WatchesAt
  <1> QED
    BY <1>3, <1>5, <1>7, <1>8, <1>9 DEF FanEntered

\* Applied plan by plan, and however calls, timers and the schedule interleave, the fan runs
\* in the bookings of the first slot, and of each later one if they begin after it does: neither
\* a cooldown of an earlier slot or plan (cancelFanCooldowns, updateFanCooldown) nor the cap of
\* one (applyLightsFanSchedule) switches it off before the slot ends.
THEOREM TheFanServesBookings == Spec => []FanServesBookings
  <1>1. Inv /\ FanServed => FanServesBookings
    <2> SUFFICES ASSUME Inv, FanServed, Settled, hist.fan, Apart(hist.plan),
                        NEW s \in hist.plan.slots, Handed(s, hist.plan),
                        NEW b \in overlappingBookings(s, hist.plan), b.start <= now, now < s.stop,
                        In(b, now) \/ Entry("fan", b.start, TRUE) \in schedule
                 PROVE  fan
      BY DEF FanServesBookings
    <2>1. PICK t \in 0..now :
            /\ \A e \in schedule : e.switch = "fan" => e \in FanEntries(hist.plan, t)
            /\ Owed(hist.plan, t, now) => fan
      BY FanSettled
    <2>2. PlanOK(hist.plan)
      BY PlansOK DEF Inv, Types, HistType
    <2>3. b.start \in Nat /\ b.stop \in Nat /\ b.start < b.stop /\ t \in Nat /\ t <= now /\ now \in Nat
      BY <2>1, <2>2, PlanFacts DEF Inv, Types
    <2>4. b.stop > t
      <3>1. CASE In(b, now)
        BY <2>3, <3>1 DEF In
      <3>2. CASE Entry("fan", b.start, TRUE) \in schedule
        <4>1. Entry("fan", b.start, TRUE).switch = "fan" /\ Entry("fan", b.start, TRUE).at = b.start
          BY DEF Entry
        <4>2. Entry("fan", b.start, TRUE) \in FanEntries(hist.plan, t)
          BY <2>1, <3>2, <4>1
        <4>3. b.start > t
          BY <2>2, <2>3, <4>1, <4>2, FanEntriesOK
        <4> QED
          BY <2>3, <4>3
      <3> QED
        BY <3>1, <3>2
    <2> QED
      BY <2>1, <2>4 DEF Owed
  <1> QED
    BY <1>1, InvAlways, FanServedAlways, PTL

\* Outside of the sessions of the plan and their time to cool down the fan is off, whatever
\* became of the cooldown: the calls of applyLightsFanSchedule see to it with the device alone.
THEOREM TheFanRests == Spec => []FanRests
  <1>1. Inv /\ FanServed => FanRests
    BY FanSettled DEF FanRests, Rests
  <1> QED
    BY <1>1, InvAlways, FanServedAlways, PTL

\* A fan that runs on after its slot is one that the daemon watches: the timers, the starts
\* that await the status and the cooldown under way leave no gap between them, whatever the
\* plan found under way and whatever it cancelled.
THEOREM TheCooldownIsWatched == Spec => []CooldownIsWatched
  <1>1. Inv /\ FanServed => CooldownIsWatched
    <2> SUFFICES ASSUME Inv, FanServed, Settled, hist.fan, hist.watched, fan, Apart(currentPlan),
                        Within(currentPlan), currentPlan # NoPlan, activeFanCooldown = NoCooldown
                 PROVE  \E s \in currentPlan.slots : InSession(s, currentPlan, now) /\ now < s.stop
      BY DEF CooldownIsWatched
    <2>1. currentPlan = hist.plan
      BY DEF Settled, Inv, Shape, PlanShape
    <2>2. PICK t \in 0..now :
            /\ Rests(hist.plan, t, now, fan)
            /\ Watched(hist.plan) =>
                 \A s \in Overlapped(hist.plan) :
                   s.stop <= now /\ now < fanOffTime(s, hist.plan) /\ fan =>
                     activeFanCooldown # NoCooldown \/ Used(hist.plan, now)
      BY <2>1, FanSettled
    <2>3. PICK s \in currentPlan.slots : InSession(s, currentPlan, now)
      BY <2>1, <2>2 DEF Rests
    <2>4. s \in Overlapped(currentPlan) /\ now < fanOffTime(s, currentPlan)
      BY <2>3 DEF InSession, Overlapped
    <2>5. s.stop \in Nat /\ now \in Nat
      BY <2>3, PlansOK DEF Inv, Types, PlanOK, Period
    <2>6. CASE s.stop <= now
      BY <2>1, <2>2, <2>4, <2>6 DEF Watched, Used
    <2>7. CASE ~ (s.stop <= now)
      <3>1. now < s.stop
        BY <2>5, <2>7
      <3> QED
        BY <2>3, <3>1
    <2> QED
      BY <2>6, <2>7
  <1> QED
    BY <1>1, InvAlways, FanServedAlways, PTL

=============================================================================
