------------------------------ MODULE DriversProofs ------------------------------
(***************************************************************************)
(* Proofs about Drivers, for any configurations, plans and outputs: the    *)
(* files of results have one header, a sweep over the data structures      *)
(* keeps what it has measured; the queue benchmark, for any number of      *)
(* items and threads and any capacity, loses no item and pops none twice;  *)
(* the driver of the databases, for any plan, leaves the rows of each run  *)
(* that it counts as done in the file, whole, and counts right; and a run  *)
(* of YCSB measures on its own load and shows what it measured.            *)
(*                                                                         *)
(* The first part is about FoldSeq, the sum of a row's latency; then come  *)
(* the file, the sweep, the queue, the lists of which a plan is made, the  *)
(* plan, the threads that work it off, and the scripts of YCSB.            *)
(***************************************************************************)
EXTENDS Drivers, SequenceTheorems, FiniteSetTheorems, WellFoundedInduction, TLAPS

(***************************************************************************)
(* Sums.                                                                   *)
(***************************************************************************)
\* The function by which FoldSeq adds up f, on the sets of its places, and those
\* that do what it shall do on the sets of up to m places.
Pick(s) == CHOOSE i \in s : TRUE
Adds(f, g) == [s \in SUBSET (DOMAIN f) |-> IF s = {} THEN 0 ELSE f[Pick(s)] + g[s \ {Pick(s)}]]
Adder(f) == CHOOSE g : g = Adds(f, g)
Adders(f, m) ==
  {g \in [SUBSET (DOMAIN f) -> Nat] :
     \A s \in SUBSET (DOMAIN f) : Cardinality(s) <= m => g[s] = Adds(f, g)[s]}
Counts(f) ==
  /\ f = [i \in DOMAIN f |-> f[i]] /\ IsFiniteSet(DOMAIN f)
  /\ \A i \in DOMAIN f : f[i] \in Nat

\* A set of numbers that is not empty has a least one.
LEMMA LeastNat ==
  ASSUME NEW S, S \subseteq Nat, S # {}
  PROVE  \E n \in S : \A m \in S : n <= m
<1> DEFINE R == OpToRel(<, Nat)
<1>1. IsWellFoundedOn(R, Nat)
  BY NatLessThanWellFounded
<1>2. ASSUME NEW m \in Nat, NEW n \in Nat, m < n PROVE <<m, n>> \in R
  BY <1>2 DEF R, OpToRel
<1> HIDE DEF R
<1>3. PICK n \in S : \A m \in S : ~ (<<m, n>> \in R)
  BY <1>1, WFMin
<1>4. ASSUME NEW m \in S PROVE n <= m
  <2>1. ~(m < n)
    BY <1>2, <1>3
  <2>q. QED
    BY <2>1
<1>q. QED
  BY <1>4

\* A set without the place that is picked has one place less.
LEMMA OneLess ==
  ASSUME NEW f, Counts(f), NEW s \in SUBSET (DOMAIN f), s # {}
  PROVE  /\ Pick(s) \in s /\ f[Pick(s)] \in Nat
         /\ s \ {Pick(s)} \in SUBSET (DOMAIN f)
         /\ IsFiniteSet(s) /\ Cardinality(s) \in Nat
         /\ Cardinality(s \ {Pick(s)}) = Cardinality(s) - 1
<1>1. Pick(s) \in s
  BY DEF Pick
<1>2. IsFiniteSet(s)
  BY FS_Subset DEF Counts
<1>3. Cardinality(s) \in Nat /\ Cardinality(s \ {Pick(s)}) = Cardinality(s) - 1
  BY <1>1, <1>2, FS_CardinalityType, FS_RemoveElement
<1>q. QED
  BY <1>1, <1>2, <1>3 DEF Counts

\* There is a function that adds up the sets of up to m places.
LEMMA AddersExist ==
  ASSUME NEW f, Counts(f), NEW m \in Nat
  PROVE  Adders(f, m) # {}
<1> DEFINE B == {k \in Nat : Adders(f, k) = {}}
           D == SUBSET (DOMAIN f)
<1>1. SUFFICES ASSUME B # {} PROVE FALSE
  OBVIOUS
<1>2. PICK n \in B : \A k \in B : n <= k
  BY <1>1, LeastNat
<1>3. n \in Nat /\ Adders(f, n) = {}
  OBVIOUS
<1>4. CASE n = 0
  <2> DEFINE g == [s \in D |-> 0]
  <2>1. ASSUME NEW s \in D, Cardinality(s) <= 0 PROVE s = {}
    BY <2>1, OneLess, FS_EmptySet, FS_CardinalityType, FS_Subset DEF Counts
  <2>2. g \in Adders(f, 0)
    <3>1. \A s \in D : Cardinality(s) <= 0 => g[s] = Adds(f, g)[s]
      BY <2>1 DEF Adds
    <3>q. QED
      BY <3>1 DEF Adders
  <2>q. QED
    BY <1>3, <1>4, <2>2
<1>5. CASE n # 0
  <2>1. n - 1 \in Nat /\ ~(n <= n - 1)
    BY <1>3, <1>5
  <2>2. Adders(f, n - 1) # {}
    BY <1>2, <2>1
  <2>3. PICK h \in Adders(f, n - 1) : TRUE
    BY <2>2
  <2>4. h \in [D -> Nat] /\ \A s \in D : Cardinality(s) <= n - 1 => h[s] = Adds(f, h)[s]
    BY <2>3 DEF Adders
  <2> DEFINE g == [s \in D |-> IF Cardinality(s) = n THEN f[Pick(s)] + h[s \ {Pick(s)}] ELSE h[s]]
  <2>5. ASSUME NEW s \in D, Cardinality(s) = n PROVE s # {}
    BY <1>5, <2>5, FS_EmptySet
  <2>6. ASSUME NEW s \in D PROVE g[s] \in Nat
    <3>1. CASE Cardinality(s) = n
      <4>1. f[Pick(s)] \in Nat /\ h[s \ {Pick(s)}] \in Nat
        BY <2>4, <2>5, <3>1, OneLess
      <4>q. QED
        BY <3>1, <4>1
    <3>q. QED
      BY <2>4, <3>1
  <2>7. ASSUME NEW s \in D, Cardinality(s) <= n PROVE g[s] = Adds(f, g)[s]
    <3>1. CASE s = {}
      <4>1. Cardinality(s) = 0
        BY <3>1, FS_EmptySet
      <4>2. h[s] = 0
        <5>1. Cardinality(s) <= n - 1
          BY <2>1, <4>1
        <5>2. h[s] = Adds(f, h)[s]
          BY <2>4, <5>1
        <5>q. QED
          BY <3>1, <5>2 DEF Adds
      <4>3. g[s] = 0
        BY <1>5, <4>1, <4>2
      <4>q. QED
        BY <3>1, <4>3 DEF Adds
    <3>2. CASE s # {}
      <4>1. /\ s \ {Pick(s)} \in D /\ Cardinality(s) \in Nat
            /\ Cardinality(s \ {Pick(s)}) = Cardinality(s) - 1
        BY <3>2, OneLess
      <4>2. Cardinality(s \ {Pick(s)}) # n
        BY <1>3, <2>7, <4>1
      <4>3. g[s \ {Pick(s)}] = h[s \ {Pick(s)}]
        BY <4>1, <4>2
      <4>4. g[s] = f[Pick(s)] + h[s \ {Pick(s)}]
        <5>1. CASE Cardinality(s) = n
          BY <5>1
        <5>2. CASE Cardinality(s) # n
          <6>1. Cardinality(s) <= n - 1
            BY <1>3, <2>7, <4>1, <5>2
          <6>2. h[s] = Adds(f, h)[s]
            BY <2>4, <6>1
          <6>q. QED
            BY <3>2, <5>2, <6>2 DEF Adds
        <5>q. QED
          BY <5>1, <5>2
      <4>q. QED
        BY <3>2, <4>3, <4>4 DEF Adds
    <3>q. QED
      BY <3>1, <3>2
  <2>8. g \in [D -> Nat]
    BY <2>6
  <2> HIDE DEF g
  <2>9. g \in Adders(f, n)
    BY <2>7, <2>8 DEF Adders
  <2>q. QED
    BY <1>3, <2>9
<1>q. QED
  BY <1>4, <1>5

\* So Adder does what it is defined to do.
LEMMA AdderIs ==
  ASSUME NEW f, Counts(f)
  PROVE  /\ Adder(f) = Adds(f, Adder(f))
         /\ \A s \in SUBSET (DOMAIN f) : Adder(f)[s] \in Nat
<1> DEFINE n == Cardinality(DOMAIN f)
<1>1. n \in Nat
  BY FS_CardinalityType DEF Counts
<1>2. PICK g \in Adders(f, n) : TRUE
  BY <1>1, AddersExist
<1>3. ASSUME NEW s \in SUBSET (DOMAIN f) PROVE Cardinality(s) <= n
  BY FS_Subset DEF Counts
<1>4. g \in [SUBSET (DOMAIN f) -> Nat] /\ \A s \in SUBSET (DOMAIN f) : g[s] = Adds(f, g)[s]
  BY <1>2, <1>3 DEF Adders
<1>5. g = Adds(f, g)
  BY <1>4 DEF Adds
<1>6. Adder(f) = Adds(f, Adder(f))
  BY <1>5 DEF Adder
<1> DEFINE a == Adder(f)
           B == {k \in Nat : \E s \in SUBSET (DOMAIN f) : Cardinality(s) = k /\ a[s] \notin Nat}
<1>7. \A s \in SUBSET (DOMAIN f) : a[s] = IF s = {} THEN 0 ELSE f[Pick(s)] + a[s \ {Pick(s)}]
  <2>1. ASSUME NEW s \in SUBSET (DOMAIN f)
        PROVE  Adds(f, a)[s] = IF s = {} THEN 0 ELSE f[Pick(s)] + a[s \ {Pick(s)}]
    BY DEF Adds
  <2>q. QED
    BY <1>6, <2>1
<1> HIDE DEF a
<1>8. ASSUME B # {} PROVE FALSE
  <2>1. PICK k \in B : \A j \in B : k <= j
    BY <1>8, LeastNat
  <2>2. PICK s \in SUBSET (DOMAIN f) : Cardinality(s) = k /\ a[s] \notin Nat
    BY <2>1
  <2>3. s # {}
    BY <1>7, <2>2
  <2>4. /\ s \ {Pick(s)} \in SUBSET (DOMAIN f) /\ f[Pick(s)] \in Nat /\ k \in Nat
        /\ Cardinality(s \ {Pick(s)}) = k - 1 /\ Cardinality(s \ {Pick(s)}) \in Nat
    BY <2>2, <2>3, OneLess, FS_CardinalityType, FS_Subset DEF Counts
  <2>5. a[s \ {Pick(s)}] \notin Nat
    <3>1. a[s] = f[Pick(s)] + a[s \ {Pick(s)}]
      BY <1>7, <2>3
    <3>2. \A i, j \in Nat : i + j \in Nat
      OBVIOUS
    <3>q. QED
      BY <2>2, <2>4, <3>1, <3>2
  <2>6. k - 1 \in B
    BY <2>4, <2>5
  <2>q. QED
    BY <2>1, <2>4, <2>6
<1>9. \A s \in SUBSET (DOMAIN f) : a[s] \in Nat
  <2>1. ASSUME NEW s \in SUBSET (DOMAIN f) PROVE Cardinality(s) \in Nat
    BY FS_CardinalityType, FS_Subset DEF Counts
  <2>q. QED
    BY <1>8, <2>1
<1>q. QED
  BY <1>6, <1>9 DEF a

\* The sum of a sequence of counts is its Adder at all places.
LEMMA SumUnfolds ==
  ASSUME NEW f
  PROVE  SumOf(f) = Adder(f)[DOMAIN f]
BY Zenon DEF SumOf, FoldSeq, FoldFunction, FoldFunctionOnSet, MapThenFoldSet, Adder, Adds, Pick

\* An average of what was counted is not below what is below all.
LEMMA MulMono ==
  ASSUME NEW lo \in Nat, NEW hi \in Nat, lo <= hi, NEW c \in Nat
  PROVE  lo * c <= hi * c /\ lo * c \in Nat /\ hi * c \in Nat
OBVIOUS

\* A sum of products lies between the sum of the counts taken lo and hi times.
LEMMA Averages ==
  ASSUME NEW c, NEW w, Counts(c), Counts(w), DOMAIN w = DOMAIN c,
         NEW lo \in Nat, NEW hi \in Nat,
         \A i \in DOMAIN c : lo * c[i] <= w[i] /\ w[i] <= hi * c[i]
  PROVE  /\ SumOf(c) \in Nat /\ SumOf(w) \in Nat
         /\ lo * SumOf(c) <= SumOf(w) /\ SumOf(w) <= hi * SumOf(c)
<1> DEFINE D == SUBSET (DOMAIN c)
           a == Adder(c)
           b == Adder(w)
           B == {k \in Nat : \E s \in D :
                   Cardinality(s) = k /\ ~(lo * a[s] <= b[s] /\ b[s] <= hi * a[s])}
<1>1. \A s \in D : a[s] \in Nat /\ a[s] = IF s = {} THEN 0 ELSE c[Pick(s)] + a[s \ {Pick(s)}]
  <2>1. a = Adds(c, a) /\ \A s \in D : a[s] \in Nat
    BY AdderIs
  <2> HIDE DEF a
  <2>2. ASSUME NEW s \in D
        PROVE  Adds(c, a)[s] = IF s = {} THEN 0 ELSE c[Pick(s)] + a[s \ {Pick(s)}]
    BY DEF Adds
  <2>q. QED
    BY <2>1, <2>2
<1>2. \A s \in D : b[s] \in Nat /\ b[s] = IF s = {} THEN 0 ELSE w[Pick(s)] + b[s \ {Pick(s)}]
  <2>1. b = Adds(w, b) /\ \A s \in D : b[s] \in Nat
    BY AdderIs
  <2> HIDE DEF b
  <2>2. ASSUME NEW s \in D
        PROVE  Adds(w, b)[s] = IF s = {} THEN 0 ELSE w[Pick(s)] + b[s \ {Pick(s)}]
    BY DEF Adds
  <2>q. QED
    BY <2>1, <2>2
<1>3. SumOf(c) = a[DOMAIN c] /\ SumOf(w) = b[DOMAIN c]
  BY SumUnfolds
<1> HIDE DEF a, b
<1>4. ASSUME B # {} PROVE FALSE
  <2>1. PICK k \in B : \A j \in B : k <= j
    BY <1>4, LeastNat
  <2>2. PICK s \in D : Cardinality(s) = k /\ ~(lo * a[s] <= b[s] /\ b[s] <= hi * a[s])
    BY <2>1
  <2>3. s # {}
    <3>1. ASSUME s = {} PROVE a[s] = 0 /\ b[s] = 0
      BY <1>1, <1>2, <3>1
    <3>2. lo * 0 <= 0 /\ 0 <= hi * 0
      OBVIOUS
    <3>q. QED
      BY <2>2, <3>1, <3>2
  <2>4. PICK i, r : i = Pick(s) /\ r = s \ {Pick(s)}
    OBVIOUS
  <2>5. /\ i \in DOMAIN c /\ c[i] \in Nat /\ w[i] \in Nat /\ r \in D /\ k \in Nat
        /\ Cardinality(r) = k - 1 /\ k - 1 \in Nat
    <3>1. i \in s /\ r \in D /\ Cardinality(r) = k - 1 /\ k \in Nat
      BY <2>2, <2>3, <2>4, OneLess
    <3>2. Cardinality(r) \in Nat
      BY <3>1, FS_CardinalityType, FS_Subset DEF Counts
    <3>q. QED
      BY <3>1, <3>2 DEF Counts
  <2>6. lo * a[r] <= b[r] /\ b[r] <= hi * a[r]
    <3>1. k - 1 \notin B
      BY <2>1, <2>5
    <3>q. QED
      BY <2>5, <3>1
  <2>7. a[s] = c[i] + a[r] /\ b[s] = w[i] + b[r] /\ a[r] \in Nat /\ b[r] \in Nat
    BY <1>1, <1>2, <2>3, <2>4, <2>5
  <2>8. lo * c[i] <= w[i] /\ w[i] <= hi * c[i]
    BY <2>5
  <2>9. lo * (c[i] + a[r]) = lo * c[i] + lo * a[r] /\ hi * (c[i] + a[r]) = hi * c[i] + hi * a[r]
    BY <2>5, <2>7
  <2>10. lo * c[i] \in Nat /\ lo * a[r] \in Nat /\ hi * c[i] \in Nat /\ hi * a[r] \in Nat
    BY <2>5, <2>7
  <2>11. lo * a[s] <= b[s] /\ b[s] <= hi * a[s]
    BY <2>5, <2>6, <2>7, <2>8, <2>9, <2>10
  <2>q. QED
    BY <2>2, <2>11
<1>5. DOMAIN c \in D /\ Cardinality(DOMAIN c) \in Nat
  BY FS_CardinalityType DEF Counts
<1>q. QED
  BY <1>1, <1>2, <1>3, <1>4, <1>5

\* Max of a set with a bound, and Min.
LEMMA MaxIs ==
  ASSUME NEW S, S \subseteq Nat, S # {}, NEW b \in Nat, \A y \in S : y <= b
  PROVE  Max(S) \in S /\ \A y \in S : y <= Max(S)
<1> DEFINE T == {n \in Nat : \A y \in S : y <= n}
<1>1. PICK n \in T : \A m \in T : n <= m
  <2>1. b \in T
    OBVIOUS
  <2>q. QED
    BY <2>1, LeastNat
<1>2. n \in S
  <2>1. SUFFICES ASSUME n \notin S PROVE FALSE
    OBVIOUS
  <2>2. n # 0
    <3>1. PICK y \in S : y \in Nat /\ y <= n
      BY <1>1
    <3>q. QED
      BY <2>1, <3>1
  <2>3. ASSUME NEW y \in S PROVE y <= n - 1
    <3>1. n \in Nat /\ y \in Nat /\ y <= n /\ y # n
      BY <1>1, <2>1
    <3>q. QED
      BY <3>1
  <2>4. n - 1 \in T
    BY <1>1, <2>2, <2>3
  <2>q. QED
    BY <1>1, <2>4
<1>3. \A y \in S : n >= y
  BY <1>1
<1>4. Max(S) \in S /\ \A y \in S : Max(S) >= y
  BY <1>2, <1>3 DEF Max
<1>q. QED
  BY <1>4

\* The same for Min.
LEMMA MinIs ==
  ASSUME NEW S, S \subseteq Nat, S # {}
  PROVE  Min(S) \in S /\ \A y \in S : Min(S) <= y
BY LeastNat DEF Min

\* The values of a sequence of numbers are bounded.
LEMMA Bounded ==
  ASSUME NEW n \in Nat, NEW v, \A i \in 1 .. n : v[i] \in Nat
  PROVE  \E b \in Nat : \A i \in 1 .. n : v[i] <= b
<1> DEFINE B == {m \in 0 .. n : ~\E b \in Nat : \A i \in 1 .. m : v[i] <= b}
<1>1. ASSUME B # {} PROVE FALSE
  <2>0. B \subseteq Nat
    OBVIOUS
  <2>1. PICK m \in B : \A k \in B : m <= k
    BY <1>1, <2>0, LeastNat
  <2>2. m # 0
    <3>1. \A i \in 1 .. 0 : v[i] <= 0
      OBVIOUS
    <3>q. QED
      BY <2>1, <3>1
  <2>3. m - 1 \in 0 .. n /\ ~(m <= m - 1) /\ v[m] \in Nat
    BY <2>1, <2>2
  <2>4. PICK b \in Nat : \A i \in 1 .. m - 1 : v[i] <= b
    BY <2>1, <2>3
  <2>5. \A i \in 1 .. m : v[i] <= b + v[m]
    <3>1. ASSUME NEW i \in 1 .. m PROVE v[i] <= b + v[m]
      <4>1. CASE i = m
        BY <2>3, <4>1
      <4>2. CASE i # m
        <5>1. i \in 1 .. m - 1 /\ v[i] \in Nat
          BY <2>1, <4>2
        <5>q. QED
          BY <2>3, <2>4, <5>1
      <4>q. QED
        BY <4>1, <4>2
    <3>q. QED
      BY <3>1
  <2>6. b + v[m] \in Nat
    BY <2>3
  <2>q. QED
    BY <2>1, <2>5, <2>6
<1>2. n \in 0 .. n /\ n \notin B
  BY <1>1
<1>q. QED
  BY <1>2

\* The latency of a row lies between the averages of the status line it is from,
\* which no summary comes before.
LEMMA LatencyBetween ==
  ASSUME NEW log \in Logs, NEW l, l = calculate_weighted_average_latency(log),
         l # NoLatency, l # <<0, 1>>
  PROVE  Explains(log, l)
<1> DEFINE Q == [count : Nat, avg : Nat]
           L == [kind : {"status", "run", "other"}, ops : Seq(Q)]
<1> HIDE DEF Q, L
<1>a. log \in Seq(L)
  BY StructAssumption DEF Q, L
<1>b. /\ log = [k \in DOMAIN log |-> log[k]] /\ DOMAIN log = 1 .. Len(log) /\ Len(log) \in Nat
      /\ \A k \in DOMAIN log : log[k] \in L
  BY <1>a
<1>c. \A k \in DOMAIN log : log[k].ops \in Seq(Q)
  BY <1>b DEF L
<1> DEFINE runs == {i \in DOMAIN log : log[i].kind = "run"}
           status == {i \in DOMAIN log : log[i].kind = "status" /\ \A j \in runs : i < j}
           k == Max(status)
           ops == log[k].ops
           c == [i \in DOMAIN ops |-> ops[i].count]
           w == [i \in DOMAIN ops |-> ops[i].count * ops[i].avg]
           P == {j \in DOMAIN ops : ops[j].count > 0}
           A == {ops[i].avg : i \in P}
<1>1. status # {} /\ SumOf(c) # 0 /\ l = <<SumOf(w), SumOf(c)>>
  BY DEF calculate_weighted_average_latency
<1>2. k \in status
  <2>1. status \subseteq Nat /\ \A y \in status : y <= Len(log)
    BY <1>b
  <2> HIDE DEF status
  <2>q. QED
    BY <1>1, <1>b, <2>1, MaxIs
<1> HIDE DEF k
<1>3. /\ k \in DOMAIN log /\ log[k].kind = "status" /\ \A j \in 1 .. k : log[j].kind # "run"
  <2>1. k \in DOMAIN log /\ log[k].kind = "status" /\ \A j \in runs : k < j
    BY <1>2
  <2>2. ASSUME NEW j \in 1 .. k, log[j].kind = "run" PROVE FALSE
    <3>0. k \in Nat /\ j \in Nat /\ j <= k /\ j \in DOMAIN log
      BY <1>b, <2>1
    <3>1. j \in runs
      BY <2>2, <3>0
    <3> HIDE DEF runs
    <3>2. k < j
      BY <2>1, <3>1
    <3>q. QED
      BY <3>0, <3>2
  <2>q. QED
    BY <2>1, <2>2
<1>4. /\ Len(ops) \in Nat /\ DOMAIN ops = 1 .. Len(ops)
      /\ \A i \in DOMAIN ops : ops[i].count \in Nat /\ ops[i].avg \in Nat
  <2>1. ops \in Seq(Q)
    BY <1>3, <1>c
  <2> HIDE DEF ops
  <2>2. Len(ops) \in Nat /\ DOMAIN ops = 1 .. Len(ops) /\ \A i \in DOMAIN ops : ops[i] \in Q
    BY <2>1
  <2>q. QED
    BY <2>2 DEF Q
<1> HIDE DEF ops
<1>5. IsFiniteSet(DOMAIN ops)
  <2>0. 1 \in Int /\ Len(ops) \in Int
    BY <1>4
  <2>1. IsFiniteSet(1 .. Len(ops))
    BY <2>0, FS_Interval
  <2>q. QED
    BY <1>4, <2>1
<1>6. Counts(c) /\ Counts(w) /\ DOMAIN c = DOMAIN ops /\ DOMAIN w = DOMAIN ops
  <2>1. \A i \in DOMAIN ops : ops[i].count * ops[i].avg \in Nat
    BY <1>4
  <2>q. QED
    BY <1>4, <1>5, <2>1 DEF Counts
<1>7. ASSUME P = {} PROVE FALSE
  <2>1. \A i \in DOMAIN ops : c[i] = 0 /\ 0 * c[i] <= w[i] /\ w[i] <= 0 * c[i]
    BY <1>4, <1>7
  <2> HIDE DEF c, w
  <2>2. \A i \in DOMAIN c : 0 * c[i] <= c[i] /\ c[i] <= 0 * c[i]
    BY <1>6, <2>1
  <2>3. SumOf(c) \in Nat /\ SumOf(c) <= 0 * SumOf(c)
    BY <1>6, <2>2, Averages
  <2>q. QED
    BY <1>1, <2>3
<1>8. /\ Least(ops) \in Nat /\ Most(ops) \in Nat
      /\ \A i \in P : Least(ops) <= ops[i].avg /\ ops[i].avg <= Most(ops)
  <2>1. A # {} /\ A \subseteq Nat
    BY <1>4, <1>7
  <2> DEFINE v == [i \in 1 .. Len(ops) |-> ops[i].avg]
  <2>2. PICK b \in Nat : \A i \in 1 .. Len(ops) : v[i] <= b
    <3>1. \A i \in 1 .. Len(ops) : v[i] \in Nat
      BY <1>4
    <3> HIDE DEF v
    <3>q. QED
      BY <1>4, <3>1, Bounded
  <2>3. \A y \in A : y <= b
    BY <1>4, <2>2
  <2>4. \A i \in P : ops[i].avg \in A
    OBVIOUS
  <2>5. Least(ops) = Min(A) /\ Most(ops) = Max(A)
    BY DEF Least, Most
  <2> HIDE DEF A, P
  <2>6. Min(A) \in A /\ \A y \in A : Min(A) <= y
    BY <2>1, MinIs
  <2>7. Max(A) \in A /\ \A y \in A : y <= Max(A)
    BY <2>1, <2>3, MaxIs
  <2>q. QED
    BY <2>1, <2>4, <2>5, <2>6, <2>7
<1> HIDE DEF A
<1>9. PICK lo, hi : lo = Least(ops) /\ hi = Most(ops)
  OBVIOUS
<1>10. ASSUME NEW i \in DOMAIN ops PROVE lo * c[i] <= w[i] /\ w[i] <= hi * c[i]
  <2>1. CASE ops[i].count = 0
    BY <1>4, <1>8, <1>9, <2>1
  <2>2. CASE ops[i].count # 0
    <3>1. i \in P
      BY <1>4, <2>2
    <3>2. lo <= ops[i].avg /\ ops[i].avg <= hi /\ lo \in Nat /\ hi \in Nat
      BY <1>8, <1>9, <3>1
    <3>3. lo * ops[i].count <= ops[i].avg * ops[i].count
      BY <1>4, <3>2, MulMono
    <3>4. ops[i].avg * ops[i].count <= hi * ops[i].count
      BY <1>4, <3>2, MulMono
    <3>5. w[i] = ops[i].avg * ops[i].count /\ c[i] = ops[i].count
      BY <1>4
    <3>q. QED
      BY <3>3, <3>4, <3>5
  <2>q. QED
    BY <2>1, <2>2
<1> HIDE DEF c, w, P
<1>11. lo * SumOf(c) <= SumOf(w) /\ SumOf(w) <= hi * SumOf(c)
  BY <1>6, <1>8, <1>9, <1>10, Averages
<1>12. l[1] = SumOf(w) /\ l[2] = SumOf(c)
  BY <1>1
<1>q. QED
  BY <1>3, <1>9, <1>11, <1>12 DEF Explains, ops
-----------------------------------------------------------------------------
(***************************************************************************)
(* The file of results.                                                    *)
(***************************************************************************)
Entries(s) == {s[k] : k \in DOMAIN s}
Headed(s) == s # << >> /\ s[1] = Header /\ \A k \in DOMAIN s : s[k] = Header => k = 1
Bare(s) == s \in Seq(Entries(s)) /\ \A k \in DOMAIN s : s[k] # Header

\* What is on the disk, and what will be on it.
FileInv ==
  /\ exists \in BOOLEAN /\ cut \in BOOLEAN
  /\ table \in Seq(Entries(table)) /\ buffer \in Seq(Entries(buffer))
  /\ ~exists => table = << >> /\ buffer = << >> /\ ~cut
  /\ exists /\ ~cut => Headed(table \o buffer)

\* Who writes to it, and that nothing else writes a header.
Closed == sb = "off" /\ mainThread \notin {"opened", "running"}
UseInv ==
  /\ driver # "structures" => sb = "off"
  /\ driver # "dbms" => mainThread = "off"
  /\ sb \in {"off", "loop"}
  /\ IF Closed THEN buffer = << >> ELSE exists
  /\ sweep \in Nat /\ (sb = "loop" => sweep # 0)
  /\ invocation \in Nat /\ (mainThread \in {"opened", "running"} => invocation # 0)
  /\ Bare(pending)
  /\ out = [q \in Queues |-> out[q]] /\ \A q \in Queues : Bare(out[q])

\* A sequence is one of its own entries.
LEMMA OwnEntries ==
  ASSUME NEW S, NEW s \in Seq(S)
  PROVE  s \in Seq(Entries(s)) /\ Len(s) \in Nat /\ DOMAIN s = 1 .. Len(s)
<1>1. Len(s) \in Nat /\ DOMAIN s = 1 .. Len(s) /\ s = [k \in 1 .. Len(s) |-> s[k]]
  OBVIOUS
<1>2. \A k \in 1 .. Len(s) : s[k] \in Entries(s)
  BY <1>1 DEF Entries
<1>3. s \in [1 .. Len(s) -> Entries(s)]
  BY <1>1, <1>2
<1>q. QED
  BY <1>1, <1>3

\* One sequence behind the other.
LEMMA Joined ==
  ASSUME NEW s, NEW m, s \in Seq(Entries(s)), m \in Seq(Entries(m))
  PROVE  /\ s \o m \in Seq(Entries(s \o m))
         /\ Len(s \o m) = Len(s) + Len(m) /\ DOMAIN (s \o m) = 1 .. Len(s) + Len(m)
         /\ Len(s) \in Nat /\ Len(m) \in Nat /\ DOMAIN s = 1 .. Len(s) /\ DOMAIN m = 1 .. Len(m)
         /\ \A k \in 1 .. Len(s) : (s \o m)[k] = s[k]
         /\ \A k \in 1 .. Len(m) : (s \o m)[Len(s) + k] = m[k]
         /\ \A k \in 1 .. Len(s) + Len(m) : k > Len(s) => (s \o m)[k] = m[k - Len(s)]
<1> DEFINE S == Entries(s) \union Entries(m)
<1>1. s \in Seq(S) /\ m \in Seq(S)
  <2>1. /\ Len(s) \in Nat /\ DOMAIN s = 1 .. Len(s) /\ s = [k \in 1 .. Len(s) |-> s[k]]
        /\ Len(m) \in Nat /\ DOMAIN m = 1 .. Len(m) /\ m = [k \in 1 .. Len(m) |-> m[k]]
    OBVIOUS
  <2>2. (\A k \in 1 .. Len(s) : s[k] \in S) /\ (\A k \in 1 .. Len(m) : m[k] \in S)
    BY <2>1 DEF Entries
  <2>3. s \in [1 .. Len(s) -> S] /\ m \in [1 .. Len(m) -> S]
    BY <2>1, <2>2
  <2>q. QED
    BY <2>1, <2>3
<1> HIDE DEF S
<1>2. s \o m \in Seq(S)
  BY <1>1
<1>3. s \o m \in Seq(Entries(s \o m))
  BY <1>2, OwnEntries
<1>4. /\ Len(s \o m) = Len(s) + Len(m)
      /\ \A k \in 1 .. Len(s) + Len(m) : (s \o m)[k] = IF k <= Len(s) THEN s[k] ELSE m[k - Len(s)]
  BY <1>1
<1>5. Len(s) \in Nat /\ Len(m) \in Nat /\ DOMAIN s = 1 .. Len(s) /\ DOMAIN m = 1 .. Len(m)
  BY <1>1
<1>6. DOMAIN (s \o m) = 1 .. Len(s) + Len(m)
  BY <1>2, <1>4
<1>7. ASSUME NEW k \in 1 .. Len(m) PROVE (s \o m)[Len(s) + k] = m[k]
  <2>1. Len(s) + k \in 1 .. Len(s) + Len(m) /\ ~(Len(s) + k <= Len(s)) /\ Len(s) + k - Len(s) = k
    BY <1>5
  <2>q. QED
    BY <1>4, <2>1
<1>8. ASSUME NEW k \in 1 .. Len(s) PROVE (s \o m)[k] = s[k]
  BY <1>4, <1>5
<1>9. ASSUME NEW k \in 1 .. Len(s) + Len(m), k > Len(s) PROVE (s \o m)[k] = m[k - Len(s)]
  <2>1. ~(k <= Len(s))
    BY <1>5, <1>9
  <2>q. QED
    BY <1>4, <2>1
<1>q. QED
  BY <1>3, <1>4, <1>5, <1>6, <1>7, <1>8, <1>9

\* A headed sequence stays one when lines without a header come behind.
LEMMA StaysHeaded ==
  ASSUME NEW s, NEW m, s \in Seq(Entries(s)), Bare(m), Headed(s)
  PROVE  Headed(s \o m)
<1> DEFINE t == s \o m
<1>1. m \in Seq(Entries(m)) /\ \A k \in DOMAIN m : m[k] # Header
  BY DEF Bare
<1>2. s # << >> /\ s[1] = Header /\ \A k \in DOMAIN s : s[k] = Header => k = 1
  BY DEF Headed
<1>3. /\ Len(t) = Len(s) + Len(m) /\ DOMAIN t = 1 .. Len(s) + Len(m)
      /\ Len(s) \in Nat /\ Len(m) \in Nat /\ DOMAIN s = 1 .. Len(s) /\ DOMAIN m = 1 .. Len(m)
      /\ \A k \in 1 .. Len(s) : t[k] = s[k]
      /\ \A k \in 1 .. Len(s) + Len(m) : k > Len(s) => t[k] = m[k - Len(s)]
      /\ t \in Seq(Entries(t))
  BY <1>1, Joined
<1> HIDE DEF t
<1>4. Len(s) >= 1
  BY <1>2, <1>3
<1>5. t # << >> /\ t[1] = Header
  BY <1>2, <1>3, <1>4
<1>6. ASSUME NEW k \in DOMAIN t, t[k] = Header PROVE k = 1
  <2>1. CASE k <= Len(s)
    BY <1>2, <1>3, <1>6, <2>1
  <2>2. CASE k > Len(s)
    <3>1. k - Len(s) \in DOMAIN m /\ t[k] = m[k - Len(s)]
      BY <1>3, <2>2
    <3>q. QED
      BY <1>1, <1>6, <3>1
  <2>q. QED
    BY <1>3, <2>1, <2>2
<1>q. QED
  BY <1>5, <1>6 DEF Headed, t

\* The sequences of one line and of none.
LEMMA ShortSeqs ==
  /\ << >> \in Seq(Entries(<< >>)) /\ Bare(<< >>) /\ Entries(<< >>) = {}
  /\ \A x : <<x>> \in Seq(Entries(<<x>>)) /\ Entries(<<x>>) = {x} /\ (x # Header => Bare(<<x>>))
  /\ Headed(<<Header>>)
<1>1. \A x : <<x>> \in Seq({x}) /\ DOMAIN <<x>> = {1} /\ <<x>>[1] = x
  OBVIOUS
<1>2. \A x : Entries(<<x>>) = {x}
  BY <1>1 DEF Entries
<1>3. Entries(<< >>) = {} /\ DOMAIN << >> = {} /\ << >> \in Seq({})
  BY DEF Entries
<1>q. QED
  BY <1>1, <1>2, <1>3 DEF Bare, Headed

\* Opening a file that is closed: with a header in front of it, if it is new.
LEMMA OpenKeeps ==
  ASSUME FileInv, buffer = << >>, NEW append \in BOOLEAN,
         OpenFile(append, IF append /\ exists THEN << >> ELSE <<Header>>)
  PROVE  FileInv' /\ exists'
<1>1. << >> \o <<Header>> = <<Header>> /\ \A S : \A s \in Seq(S) : s \o << >> = s
  OBVIOUS
<1>2. table' \in Seq(Entries(table)') /\ buffer' \in Seq(Entries(buffer)')
  <2>1. \/ table' = table \/ table' = << >>
    BY DEF OpenFile
  <2>2. \/ buffer' = << >> \/ buffer' = <<Header>>
    BY DEF OpenFile
  <2>3. table' \in Seq(Entries(table'))
    BY <2>1, ShortSeqs DEF FileInv
  <2>4. buffer' \in Seq(Entries(buffer'))
    BY <2>2, ShortSeqs
  <2>q. QED
    BY <2>3, <2>4 DEF Entries
<1>3. exists' = TRUE /\ cut' \in BOOLEAN
  BY DEF OpenFile, FileInv
<1>4. ASSUME ~cut' PROVE Headed(table' \o buffer')
  <2>1. CASE append /\ exists
    <3>1. ~cut /\ table' = table /\ buffer' = << >>
      BY <1>4, <2>1 DEF OpenFile, FileInv
    <3>2. table \o << >> = table
      BY <1>1 DEF FileInv
    <3>q. QED
      BY <2>1, <3>1, <3>2 DEF FileInv
  <2>2. CASE append /\ ~exists
    <3>1. table' = << >> /\ buffer' = <<Header>>
      BY <2>2 DEF OpenFile, FileInv
    <3>q. QED
      BY <1>1, <3>1, ShortSeqs
  <2>3. CASE ~append
    <3>1. table' = << >> /\ buffer' = <<Header>>
      BY <2>3 DEF OpenFile
    <3>q. QED
      BY <1>1, <3>1, ShortSeqs
  <2>q. QED
    BY <2>1, <2>2, <2>3
<1>q. QED
  BY <1>2, <1>3, <1>4 DEF FileInv, Headed

\* Flushing the buffer and more lines.
LEMMA FlushKeeps ==
  ASSUME FileInv, exists, NEW more, Bare(more), Flush(more)
  PROVE  FileInv' /\ exists' /\ buffer' = << >>
<1> DEFINE s == table \o buffer
           t == s \o more
<1>1. more \in Seq(Entries(more))
  BY DEF Bare
<1>2. s \in Seq(Entries(s))
  BY Joined DEF FileInv
<1>3. exists /\ ~cut => Headed(s)
  BY DEF FileInv
<1>4. table' = t /\ buffer' = << >> /\ exists' = exists /\ cut' = cut
  BY DEF Flush
<1> HIDE DEF s
<1>5. t \in Seq(Entries(t))
  BY <1>1, <1>2, Joined
<1>6. ~cut => Headed(t)
  BY <1>2, <1>3, StaysHeaded
<1> HIDE DEF t
<1>7. t \o << >> = t
  BY <1>5
<1>8. table' \in Seq(Entries(table)') /\ buffer' \in Seq(Entries(buffer)')
  BY <1>4, <1>5, ShortSeqs DEF Entries
<1>9. ~cut' => Headed(table' \o buffer')
  BY <1>4, <1>6, <1>7
<1>q. QED
  BY <1>4, <1>8, <1>9 DEF FileInv, Headed

\* Losing the buffer: if the header was in it, nothing is on the disk.
LEMMA LoseKeeps ==
  ASSUME FileInv, exists, LoseBuffer
  PROVE  FileInv' /\ exists' /\ buffer' = << >>
<1>1. table' = table /\ buffer' = << >> /\ exists' = exists /\ cut' \in BOOLEAN
  BY DEF LoseBuffer, FileInv
<1>2. ASSUME ~cut' PROVE Headed(table)
  <2>1. ~cut /\ ~(Header \in Range(buffer)) /\ Headed(table \o buffer)
    BY <1>2 DEF LoseBuffer, FileInv
  <2> DEFINE t == table \o buffer
  <2>2. /\ Len(t) = Len(table) + Len(buffer) /\ DOMAIN t = 1 .. Len(table) + Len(buffer)
        /\ Len(table) \in Nat /\ Len(buffer) \in Nat
        /\ DOMAIN table = 1 .. Len(table) /\ DOMAIN buffer = 1 .. Len(buffer)
        /\ \A k \in 1 .. Len(table) : t[k] = table[k]
        /\ \A k \in 1 .. Len(table) + Len(buffer) : k > Len(table) => t[k] = buffer[k - Len(table)]
        /\ t \in Seq(Entries(t))
    BY Joined DEF FileInv
  <2>3. t # << >> /\ t[1] = Header /\ \A k \in DOMAIN t : t[k] = Header => k = 1
    BY <2>1 DEF Headed
  <2> HIDE DEF t
  <2>4. Len(t) >= 1
    BY <2>2, <2>3
  <2>5. ASSUME Len(table) = 0 PROVE FALSE
    <3>1. t[1] = buffer[1] /\ 1 \in DOMAIN buffer
      BY <2>2, <2>4, <2>5
    <3>q. QED
      BY <2>1, <2>3, <3>1 DEF Range
  <2>6. 1 \in DOMAIN table /\ \A k \in DOMAIN table : k \in DOMAIN t /\ t[k] = table[k]
    BY <2>2, <2>5
  <2>7. table # << >>
    BY <2>2, <2>5
  <2>q. QED
    BY <2>3, <2>6, <2>7 DEF Headed
<1>3. table \o << >> = table
  BY DEF FileInv
<1>4. ~cut' => Headed(table' \o buffer')
  BY <1>1, <1>2, <1>3
<1>5. table' \in Seq(Entries(table)') /\ buffer' \in Seq(Entries(buffer)')
  BY <1>1, ShortSeqs DEF FileInv, Entries
<1>q. QED
  BY <1>1, <1>4, <1>5 DEF FileInv, Headed

\* One line more in the buffer.
LEMMA WriteKeeps ==
  ASSUME FileInv, exists, NEW row, row # Header, buffer' = Append(buffer, row),
         UNCHANGED <<exists, table, cut>>
  PROVE  FileInv' /\ exists'
<1>1. Bare(<<row>>) /\ <<row>> \in Seq(Entries(<<row>>))
  BY ShortSeqs
<1>2. buffer' = buffer \o <<row>>
  BY DEF FileInv
<1>3. buffer' \in Seq(Entries(buffer)')
  <2>1. buffer \o <<row>> \in Seq(Entries(buffer \o <<row>>))
    BY <1>1, Joined DEF FileInv
  <2>q. QED
    BY <1>2, <2>1 DEF Entries
<1>4. table \o buffer \in Seq(Entries(table \o buffer))
  BY Joined DEF FileInv
<1>5. table \o (buffer \o <<row>>) = (table \o buffer) \o <<row>>
  <2> DEFINE S == Entries(table) \union Entries(buffer) \union {row}
  <2>1. table \in Seq(S) /\ buffer \in Seq(S) /\ <<row>> \in Seq(S)
    BY DEF FileInv
  <2> HIDE DEF S
  <2>q. QED
    BY <2>1, ConcatAssociative
<1>6. ~cut' => Headed(table' \o buffer')
  <2>1. ASSUME ~cut' PROVE Headed(table \o buffer)
    BY <2>1 DEF FileInv
  <2> DEFINE s == table \o buffer
  <2> HIDE DEF s
  <2>2. ASSUME Headed(s), s \in Seq(Entries(s)) PROVE Headed(s \o <<row>>)
    BY <1>1, <2>2, StaysHeaded
  <2>q. QED
    BY <1>2, <1>4, <1>5, <2>1, <2>2 DEF s
<1>q. QED
  BY <1>3, <1>6 DEF FileInv, Headed, Entries
-----------------------------------------------------------------------------
(***************************************************************************)
(* A sweep over the data structures.                                       *)
(***************************************************************************)
Same(a, b) == a.sweep = b.sweep /\ a.conf = b.conf /\ a.rep = b.rep

\* What was measured is in the file, but for the row in hand; each row was
\* measured once, is none of what is left to do, and has its output.
SweepInv ==
  /\ Rows = measured \ Entries(pending)
  /\ pending = << >> \/ (sb = "loop" /\ \E row \in measured : pending = <<row>>)
  /\ \A row \in measured :
       /\ row.sweep \in 1 .. sweep
       /\ Traced(row)
       /\ sb = "loop" /\ row.sweep = sweep => <<row.conf, row.rep>> \notin todo
  /\ \A a, b \in measured : Same(a, b) => a = b
  /\ \A job \in todo : job = <<job[1], job[2]>>
  /\ buffer = << >> \/ buffer = <<Header>>
  /\ IsFiniteSet(Rows) /\ Len(table) + Len(buffer) <= Cardinality(Rows) + 1

\* The rows of a file that is closed again: none, or those it had and more.
LEMMA RowsOf ==
  /\ Rows = Entries(table) \ {Header}
  /\ \A s : Range(s) = Entries(s)
BY DEF Rows, Entries, Range

\* The lines of two sequences.
LEMMA JoinedEntries ==
  ASSUME NEW s, NEW m, s \in Seq(Entries(s)), m \in Seq(Entries(m))
  PROVE  Entries(s \o m) = Entries(s) \union Entries(m)
<1> DEFINE t == s \o m
<1>1. /\ DOMAIN t = 1 .. Len(s) + Len(m)
      /\ Len(s) \in Nat /\ Len(m) \in Nat /\ DOMAIN s = 1 .. Len(s) /\ DOMAIN m = 1 .. Len(m)
      /\ \A k \in 1 .. Len(s) : t[k] = s[k]
      /\ \A k \in 1 .. Len(m) : t[Len(s) + k] = m[k]
      /\ \A k \in 1 .. Len(s) + Len(m) : k > Len(s) => t[k] = m[k - Len(s)]
  BY Joined
<1> HIDE DEF t
<1>2. ASSUME NEW k \in DOMAIN t PROVE t[k] \in Entries(s) \union Entries(m)
  <2>1. CASE k <= Len(s)
    BY <1>1, <2>1 DEF Entries
  <2>2. CASE k > Len(s)
    <3>1. k - Len(s) \in DOMAIN m
      BY <1>1, <2>2
    <3>q. QED
      BY <1>1, <2>2, <3>1 DEF Entries
  <2>q. QED
    BY <1>1, <2>1, <2>2
<1>3. ASSUME NEW k \in DOMAIN s PROVE s[k] \in Entries(t)
  <2>1. k \in DOMAIN t /\ t[k] = s[k]
    BY <1>1
  <2>q. QED
    BY <2>1 DEF Entries
<1>4. ASSUME NEW k \in DOMAIN m PROVE m[k] \in Entries(t)
  <2>1. Len(s) + k \in DOMAIN t /\ t[Len(s) + k] = m[k]
    BY <1>1
  <2>q. QED
    BY <2>1 DEF Entries
<1>5. \A x : x \in Entries(t) <=> x \in Entries(s) \union Entries(m)
  BY <1>2, <1>3, <1>4 DEF Entries
<1>q. QED
  BY <1>5 DEF t

\* What a row of a measurement is.
LEMMA RowIs ==
  ASSUME NEW conf, NEW rep, NEW nb_ops, NEW latency, NEW row,
         row = Row(conf, rep, nb_ops, latency)
  PROVE  /\ row.sweep = sweep /\ row.conf = conf /\ row.rep = rep
         /\ row.nb_ops = nb_ops /\ row.latency = latency
         /\ sweep # 0 => row # Header
BY DEF Row, Header

\* A measurement explains the latency that is made of its output.
LEMMA OutputExplains ==
  ASSUME NEW conf, NEW nb_ops, NEW printed \in Outputs(conf), NEW l,
         l = format_output(conf, nb_ops, printed), l # NoLatency, l # <<0, 1>>,
         conf.type_bench = "ycsb"
  PROVE  Explains(printed.log, l)
<1>1. l = calculate_weighted_average_latency(printed.log)
  BY DEF format_output
<1>2. CASE debug
  <2>1. printed.log = << >>
    BY <1>2 DEF Outputs
  <2>2. calculate_weighted_average_latency(<< >>) = NoLatency
    BY DEF calculate_weighted_average_latency
  <2>q. QED
    BY <1>1, <2>1, <2>2
<1>3. CASE ~debug
  <2>1. printed.log \in Logs
    BY <1>3 DEF Outputs
  <2>q. QED
    BY <1>1, <2>1, LatencyBetween
<1>q. QED
  BY <1>2, <1>3

\* A new run of the driver opens the file.
LEMMA PrepareKeeps ==
  ASSUME FileInv, UseInv, SweepInv, Closed, prepare
  PROVE  SweepInv'
<1>1. /\ pending = << >> /\ buffer = << >>
      /\ Entries(<< >>) = {} /\ Entries(<<Header>>) = {Header}
      /\ Len(<< >>) = 0 /\ Len(<<Header>>) = 1
  BY ShortSeqs DEF SweepInv, Closed, UseInv
<1>2. PICK args \in ArgSets, append \in BOOLEAN :
        /\ todo' = make_confs(args) \X (0 .. Reps - 1)
        /\ OpenFile(append, IF append /\ exists THEN << >> ELSE <<Header>>)
        /\ measured' = IF append THEN measured ELSE {}
  BY DEF prepare
<1>3. pending' = pending /\ raw' = raw /\ sweep' = sweep + 1 /\ sweep \in Nat
  BY DEF prepare, UseInv
<1>4. Rows = measured /\ measured' \subseteq measured
  BY <1>1, <1>2 DEF SweepInv
<1>5. \A row \in measured' : row.sweep \in 1 .. sweep /\ Traced(row)
  BY <1>4 DEF SweepInv
<1>6. \A row \in measured' : row.sweep \in 1 .. sweep' /\ row.sweep # sweep'
  BY <1>3, <1>5
<1>7. \A row : Traced(row)' <=> Traced(row)
  BY <1>3 DEF Traced
<1>8. \A job \in todo' : job = <<job[1], job[2]>>
  BY <1>2
<1>9. Rows' = measured'
  <2>1. CASE append
    BY <1>2, <1>4, <2>1 DEF OpenFile, Rows
  <2>2. CASE ~append
    BY <1>2, <2>2 DEF OpenFile, Rows
  <2>q. QED
    BY <2>1, <2>2
<1>10. buffer' = << >> \/ buffer' = <<Header>>
  BY <1>2 DEF OpenFile
<1>11. IsFiniteSet(Rows') /\ Len(table') + Len(buffer') <= Cardinality(Rows') + 1
  <2>0. Len(table) \in Nat /\ Cardinality(Rows) \in Nat /\ IsFiniteSet(Rows)
        /\ Len(table) <= Cardinality(Rows) + 1
    BY <1>1, FS_CardinalityType, OwnEntries DEF SweepInv, FileInv
  <2>1. CASE append /\ exists
    <3>1. table' = table /\ buffer' = << >> /\ Rows' = Rows
      BY <1>2, <1>4, <1>9, <2>1 DEF OpenFile
    <3>q. QED
      BY <1>1, <2>0, <3>1
  <2>2. CASE append /\ ~exists
    <3>1. table' = << >> /\ buffer' = <<Header>> /\ Rows' = Rows
      BY <1>2, <1>4, <1>9, <2>2 DEF OpenFile, FileInv
    <3>q. QED
      BY <1>1, <2>0, <3>1
  <2>3. CASE ~append
    <3>1. table' = << >> /\ buffer' = <<Header>> /\ Rows' = {}
      BY <1>2, <1>9, <2>3 DEF OpenFile
    <3>q. QED
      BY <1>1, <3>1, FS_EmptySet
  <2>q. QED
    BY <2>1, <2>2, <2>3
<1>12. \A a, b \in measured' : Same(a, b) => a = b
  BY <1>4 DEF SweepInv
<1>13. Entries(pending)' = {}
  BY <1>1, <1>3 DEF Entries
<1>q. QED
  BY <1>1, <1>3, <1>5, <1>6, <1>7, <1>8, <1>9, <1>10, <1>11, <1>12, <1>13 DEF SweepInv, Same

\* A measurement.
LEMMA ExecuteKeeps ==
  ASSUME FileInv, UseInv, SweepInv, execute
  PROVE  SweepInv' /\ Bare(pending')
<1>1. PICK next \in todo :
        LET conf == next[1]
            rep == next[2]
            nb_ops == get_conf(conf)
        IN  /\ todo' = todo \ {next}
            /\ IF nb_ops = Untuned THEN UNCHANGED <<raw, pending, measured>>
               ELSE \E printed \in Outputs(conf) :
                      LET latency == format_output(conf, nb_ops, printed)
                          row == Row(conf, rep, nb_ops, latency)
                      IN  /\ raw' = raw \union {[sweep |-> sweep, conf |-> conf, rep |-> rep,
                                                 command |-> get_command(conf, nb_ops),
                                                 output |-> printed]}
                          /\ pending' = IF latency = NoLatency THEN << >> ELSE <<row>>
                          /\ measured' = measured \union Range(pending')
  BY DEF execute
<1>2. /\ sb = "loop" /\ pending = << >> /\ sb' = sb /\ sweep' = sweep /\ sweep \in Nat \ {0}
      /\ table' = table /\ buffer' = buffer
  BY DEF execute, file, UseInv
<1>3. Entries(<< >>) = {} /\ Rows = measured /\ Rows' = Rows
  BY <1>2, ShortSeqs DEF SweepInv, Rows
<1>4. todo' \subseteq todo /\ next \notin todo' /\ next = <<next[1], next[2]>>
  BY <1>1 DEF SweepInv
<1>5. CASE measured' = measured /\ pending' = << >> /\ raw \subseteq raw'
  <2>1. \A row : Traced(row) => Traced(row)'
    BY <1>5 DEF Traced
  <2>2. \A row \in measured' :
          /\ row.sweep \in 1 .. sweep /\ Traced(row)'
          /\ row.sweep = sweep => <<row.conf, row.rep>> \notin todo'
    BY <1>2, <1>4, <1>5, <2>1 DEF SweepInv
  <2>3. Entries(pending)' = {}
    BY <1>3, <1>5 DEF Entries
  <2>4. \A job \in todo' : job = <<job[1], job[2]>>
    BY <1>4 DEF SweepInv
  <2>5. SweepInv'
    BY <1>2, <1>3, <1>5, <2>2, <2>3, <2>4 DEF SweepInv, Same
  <2>q. QED
    BY <1>5, <2>5, ShortSeqs
<1>6. CASE get_conf(next[1]) = Untuned
  BY <1>1, <1>2, <1>5, <1>6
<1>7. CASE get_conf(next[1]) # Untuned
  <2>1. PICK conf, rep, nb_ops : conf = next[1] /\ rep = next[2] /\ nb_ops = get_conf(conf)
    OBVIOUS
  <2>2. PICK printed \in Outputs(conf) :
          LET latency == format_output(conf, nb_ops, printed)
              row == Row(conf, rep, nb_ops, latency)
          IN  /\ raw' = raw \union {[sweep |-> sweep, conf |-> conf, rep |-> rep,
                                     command |-> get_command(conf, nb_ops), output |-> printed]}
              /\ pending' = IF latency = NoLatency THEN << >> ELSE <<row>>
              /\ measured' = measured \union Range(pending')
    BY <1>1, <1>7, <2>1
  <2>3. PICK latency, row : /\ latency = format_output(conf, nb_ops, printed)
                            /\ row = Row(conf, rep, nb_ops, latency)
    OBVIOUS
  <2>4. /\ pending' = IF latency = NoLatency THEN << >> ELSE <<row>>
        /\ measured' = measured \union Entries(pending')
        /\ raw \subseteq raw'
    BY <2>2, <2>3, RowsOf
  <2>5. CASE latency = NoLatency
    BY <1>3, <1>5, <2>4, <2>5
  <2>6. CASE latency # NoLatency
    <3>1. pending' = <<row>> /\ measured' = measured \union {row} /\ Entries(pending') = {row}
      BY <2>4, <2>6, ShortSeqs
    <3>2. /\ row.sweep = sweep /\ row.conf = conf /\ row.rep = rep
          /\ row.nb_ops = nb_ops /\ row.latency = latency /\ row # Header
      BY <1>2, <2>3, RowIs
    <3>3. PICK entry : entry = [sweep |-> sweep, conf |-> conf, rep |-> rep,
                                command |-> get_command(conf, nb_ops), output |-> printed]
      OBVIOUS
    <3>4. /\ entry \in raw' /\ entry.sweep = sweep /\ entry.conf = conf /\ entry.rep = rep
          /\ entry.command.nb_ops = nb_ops /\ entry.output = printed
      BY <2>2, <3>3 DEF get_command
    <3>5. conf.type_bench = "ycsb" /\ latency # <<0, 1>> => Explains(printed.log, latency)
      BY <2>3, <2>6, OutputExplains
    <3>6. Traced(row)'
      <4>1. \E e \in raw' :
              /\ e.sweep = row.sweep /\ e.conf = row.conf /\ e.rep = row.rep
              /\ e.command.nb_ops = row.nb_ops
              /\ row.conf.type_bench = "ycsb" /\ row.latency # <<0, 1>> =>
                   Explains(e.output.log, row.latency)
        BY <3>2, <3>4, <3>5
      <4>q. QED
        BY <4>1 DEF Traced
    <3>7. \A r \in measured : Traced(r)'
      BY <2>4 DEF Traced, SweepInv
    <3>8. next = <<row.conf, row.rep>> /\ next \in todo
      BY <1>4, <2>1, <3>2
    <3>9. ASSUME NEW r \in measured, Same(r, row) PROVE FALSE
      BY <1>2, <3>2, <3>8, <3>9 DEF SweepInv, Same
    <3>10. \A r \in measured' :
             /\ r.sweep \in 1 .. sweep /\ Traced(r)'
             /\ r.sweep = sweep => <<r.conf, r.rep>> \notin todo'
      <4>1. ASSUME NEW r \in measured
            PROVE  /\ r.sweep \in 1 .. sweep /\ Traced(r)'
                   /\ r.sweep = sweep => <<r.conf, r.rep>> \notin todo'
        BY <1>2, <1>4, <3>7, <4>1 DEF SweepInv
      <4>2. /\ row.sweep \in 1 .. sweep /\ Traced(row)'
            /\ row.sweep = sweep => <<row.conf, row.rep>> \notin todo'
        BY <1>2, <1>4, <3>2, <3>6, <3>8
      <4>q. QED
        BY <3>1, <4>1, <4>2
    <3>11. \A a, b \in measured' : Same(a, b) => a = b
      BY <3>1, <3>9 DEF SweepInv, Same
    <3>12. row \notin measured
      BY <3>9 DEF Same
    <3>13. Rows' = measured' \ Entries(pending)'
      BY <1>3, <3>1, <3>12 DEF Entries
    <3>14. \A job \in todo' : job = <<job[1], job[2]>>
      BY <1>4 DEF SweepInv
    <3>15. SweepInv'
      BY <1>2, <1>3, <3>1, <3>10, <3>11, <3>13, <3>14 DEF SweepInv, Same
    <3>q. QED
      BY <3>1, <3>2, <3>15, ShortSeqs
  <2>q. QED
    BY <2>5, <2>6
<1>q. QED
  BY <1>6, <1>7

\* The rows after a flush.
LEMMA FlushedRows ==
  ASSUME FileInv, SweepInv, NEW more, more \in Seq(Entries(more)), Flush(more)
  PROVE  /\ Rows' = Rows \union (Entries(more) \ {Header})
         /\ buffer' = << >> /\ Len(table') = Len(table) + Len(buffer) + Len(more)
<1>1. /\ table \in Seq(Entries(table)) /\ buffer \in Seq(Entries(buffer))
      /\ Entries(buffer) \subseteq {Header}
  BY ShortSeqs DEF FileInv, SweepInv
<1>2. PICK s : s = table \o buffer
  OBVIOUS
<1>3. /\ s \in Seq(Entries(s)) /\ Len(s) = Len(table) + Len(buffer)
      /\ Entries(s) = Entries(table) \union Entries(buffer)
  BY <1>1, <1>2, Joined, JoinedEntries
<1>4. table' = s \o more /\ buffer' = << >>
  BY <1>2 DEF Flush
<1>5. /\ Entries(s \o more) = Entries(s) \union Entries(more)
      /\ Len(s \o more) = Len(s) + Len(more)
  BY <1>3, Joined, JoinedEntries
<1>6. Rows' = Entries(table') \ {Header}
  BY DEF Rows, Entries
<1>7. Rows' = Rows \union (Entries(more) \ {Header})
  BY <1>1, <1>3, <1>4, <1>5, <1>6, RowsOf
<1>q. QED
  BY <1>3, <1>4, <1>5, <1>7

\* A row is no header.
LEMMA NoHeaders ==
  ASSUME SweepInv, NEW row \in measured
  PROVE  row # Header
<1>1. row.sweep \in 1 .. sweep
  BY DEF SweepInv
<1>2. Header.sweep = 0
  BY DEF Header
<1>q. QED
  BY <1>1, <1>2

\* A row goes to the disk.
LEMMA SaveRowKeeps ==
  ASSUME FileInv, UseInv, SweepInv, SaveRow
  PROVE  SweepInv'
<1>1. PICK row \in measured : pending = <<row>>
  BY DEF SweepInv, SaveRow
<1>2. /\ pending' = << >> /\ sb' = sb /\ todo' = todo /\ sweep' = sweep /\ raw' = raw
      /\ measured' = measured /\ Flush(<<row>>)
  BY <1>1 DEF SaveRow
<1>3. /\ <<row>> \in Seq(Entries(<<row>>)) /\ Entries(<<row>>) = {row} /\ Len(<<row>>) = 1
      /\ Entries(<< >>) = {} /\ Len(<< >>) = 0
  BY ShortSeqs
<1>4. row # Header
  BY NoHeaders
<1>5. /\ Rows' = Rows \union {row} /\ buffer' = << >>
      /\ Len(table') = Len(table) + Len(buffer) + 1
  BY <1>2, <1>3, <1>4, FlushedRows
<1>6. Rows = measured \ {row}
  BY <1>1, <1>3 DEF SweepInv
<1>7. Rows' = measured' \ Entries(pending)'
  <2>1. Entries(pending)' = {}
    BY <1>2, <1>3 DEF Entries
  <2>q. QED
    BY <1>2, <1>5, <1>6, <2>1
<1>8. IsFiniteSet(Rows') /\ Len(table') + Len(buffer') <= Cardinality(Rows') + 1
  <2>1. /\ IsFiniteSet(Rows) /\ Cardinality(Rows) \in Nat
        /\ Len(table) \in Nat /\ Len(buffer) \in Nat
        /\ Len(table) + Len(buffer) <= Cardinality(Rows) + 1
    BY FS_CardinalityType, OwnEntries DEF SweepInv, FileInv
  <2>2. row \notin Rows
    BY <1>6
  <2>3. /\ IsFiniteSet(Rows \union {row})
        /\ Cardinality(Rows \union {row}) = Cardinality(Rows) + 1
    BY <2>1, <2>2, FS_AddElement
  <2>4. IsFiniteSet(Rows') /\ Cardinality(Rows') = Cardinality(Rows) + 1
    BY <1>5, <2>3
  <2>5. Len(buffer') = 0
    BY <1>3, <1>5
  <2>q. QED
    BY <1>5, <2>1, <2>4, <2>5
<1>9. \A r : Traced(r)' <=> Traced(r)
  BY <1>2 DEF Traced
<1>10. \A r \in measured' : /\ r.sweep \in 1 .. sweep' /\ Traced(r)'
                            /\ sb' = "loop" /\ r.sweep = sweep' => <<r.conf, r.rep>> \notin todo'
  BY <1>2, <1>9 DEF SweepInv
<1>11. (\A a, b \in measured' : Same(a, b)' => a = b) /\ \A job \in todo' : job = <<job[1], job[2]>>
  BY <1>2 DEF SweepInv, Same
<1>q. QED
  BY <1>2, <1>5, <1>7, <1>8, <1>10, <1>11 DEF SweepInv

\* The driver ends.
LEMMA EndSweepKeeps ==
  ASSUME FileInv, UseInv, SweepInv, EndSweep
  PROVE  SweepInv'
<1>1. /\ pending = << >> /\ pending' = pending /\ sb' = "off" /\ todo' = todo /\ sweep' = sweep
      /\ raw' = raw /\ measured' = measured /\ Flush(<< >>)
  BY DEF EndSweep
<1>2. << >> \in Seq(Entries(<< >>)) /\ Entries(<< >>) = {} /\ Len(<< >>) = 0
  BY ShortSeqs
<1>3. Len(table) \in Nat /\ Len(buffer) \in Nat
  BY OwnEntries DEF FileInv
<1>4. Rows' = Rows /\ buffer' = << >> /\ Len(table') = Len(table) + Len(buffer) /\ Len(buffer') = 0
  BY <1>1, <1>2, <1>3, FlushedRows
<1>5. Rows' = measured' \ Entries(pending)'
  BY <1>1, <1>4 DEF SweepInv, Entries
<1>6. IsFiniteSet(Rows') /\ Len(table') + Len(buffer') <= Cardinality(Rows') + 1
  BY <1>3, <1>4 DEF SweepInv
<1>7. \A r : Traced(r)' <=> Traced(r)
  BY <1>1 DEF Traced
<1>8. \A r \in measured' : r.sweep \in 1 .. sweep' /\ Traced(r)' /\ sb' # "loop"
  BY <1>1, <1>7 DEF SweepInv
<1>9. (\A a, b \in measured' : Same(a, b)' => a = b) /\ \A job \in todo' : job = <<job[1], job[2]>>
  BY <1>1 DEF SweepInv, Same
<1>q. QED
  BY <1>1, <1>4, <1>5, <1>6, <1>8, <1>9 DEF SweepInv

\* The driver is killed: the row in hand is lost, and nothing else.
LEMMA KillSweepKeeps ==
  ASSUME FileInv, UseInv, SweepInv, KillSweep
  PROVE  SweepInv'
<1>1. /\ pending' = << >> /\ sb' = "off" /\ todo' = {} /\ sweep' = sweep /\ raw' = raw
      /\ measured' = measured \ Entries(pending) /\ table' = table /\ buffer' = << >>
  BY RowsOf DEF KillSweep, LoseBuffer
<1>2. Entries(<< >>) = {} /\ Len(<< >>) = 0
  BY ShortSeqs
<1>3. Rows' = Rows /\ Rows' = measured' /\ Entries(pending)' = {}
  BY <1>1, <1>2 DEF SweepInv, Rows, Entries
<1>4. IsFiniteSet(Rows') /\ Len(table') + Len(buffer') <= Cardinality(Rows') + 1
  <2>1. /\ IsFiniteSet(Rows) /\ Cardinality(Rows) \in Nat
        /\ Len(table) \in Nat /\ Len(buffer) \in Nat
        /\ Len(table) + Len(buffer) <= Cardinality(Rows) + 1
    BY FS_CardinalityType, OwnEntries DEF SweepInv, FileInv
  <2>2. Len(buffer') = 0 /\ Len(table') = Len(table) /\ Cardinality(Rows') = Cardinality(Rows)
    BY <1>1, <1>2, <1>3
  <2>q. QED
    BY <1>3, <2>1, <2>2
<1>5. \A r : Traced(r)' <=> Traced(r)
  BY <1>1 DEF Traced
<1>6. \A r \in measured' : r.sweep \in 1 .. sweep' /\ Traced(r)' /\ sb' # "loop"
  BY <1>1, <1>5 DEF SweepInv
<1>7. \A a, b \in measured' : Same(a, b)' => a = b
  BY <1>1 DEF SweepInv, Same
<1>q. QED
  BY <1>1, <1>3, <1>4, <1>6, <1>7 DEF SweepInv
-----------------------------------------------------------------------------
(***************************************************************************)
(* The steps.                                                              *)
(***************************************************************************)
\* A file that nobody touches.
LEMMA FileRests ==
  ASSUME UNCHANGED file
  PROVE  (FileInv => FileInv') /\ exists' = exists /\ buffer' = buffer /\ table' = table
BY DEF file, FileInv, Headed, Entries

\* The steps of the driver of the data structures.
LEMMA StructKeeps ==
  ASSUME FileInv, UseInv, SweepInv, StructNext, driver = "structures",
         UNCHANGED <<driver, benchVars>>
  PROVE  FileInv' /\ UseInv' /\ SweepInv'
<1>1. /\ mainThread = "off" /\ mainThread' = "off" /\ driver' = "structures"
      /\ out' = out /\ invocation' = invocation
  BY DEF UseInv, benchVars, threadVars
<1>2. /\ invocation \in Nat /\ sweep \in Nat /\ Bare(pending)
      /\ out = [q \in Queues |-> out[q]] /\ \A q \in Queues : Bare(out[q])
  BY DEF UseInv
<1>3. ASSUME FileInv', Bare(pending'), sb' \in {"off", "loop"}, sweep' \in Nat,
             sb' = "loop" => exists' /\ sweep' # 0, sb' = "off" => buffer' = << >>
      PROVE  FileInv' /\ UseInv'
  <2>1. Closed' <=> sb' = "off"
    BY <1>1 DEF Closed
  <2>2. IF Closed' THEN buffer' = << >> ELSE exists'
    BY <1>3, <2>1
  <2>3. out' = [q \in Queues |-> out'[q]] /\ \A q \in Queues : Bare(out[q])'
    BY <1>1, <1>2 DEF Bare, Entries
  <2>4. Bare(pending)'
    BY <1>3 DEF Bare, Entries
  <2>q. QED
    BY <1>1, <1>2, <1>3, <2>2, <2>3, <2>4 DEF UseInv
<1>4. CASE prepare
  <2>1. Closed /\ buffer = << >>
    BY <1>1, <1>4 DEF Closed, prepare, UseInv
  <2>2. PICK append \in BOOLEAN : OpenFile(append, IF append /\ exists THEN << >> ELSE <<Header>>)
    BY <1>4 DEF prepare
  <2>3. FileInv' /\ exists'
    BY <2>1, <2>2, OpenKeeps
  <2>4. pending' = pending /\ sb' = "loop" /\ sweep' = sweep + 1
    BY <1>4 DEF prepare
  <2>5. SweepInv'
    BY <1>4, <2>1, PrepareKeeps
  <2>q. QED
    BY <1>2, <1>3, <2>3, <2>4, <2>5
<1>5. sb = "loop" => exists /\ sweep # 0
  BY DEF UseInv, Closed
<1>6. CASE execute
  <2>1. SweepInv' /\ Bare(pending')
    BY <1>6, ExecuteKeeps
  <2>2. UNCHANGED file /\ sb = "loop" /\ sb' = "loop" /\ sweep' = sweep
    BY <1>6 DEF execute
  <2>3. FileInv' /\ exists'
    BY <1>5, <2>2, FileRests
  <2>q. QED
    BY <1>2, <1>3, <1>5, <2>1, <2>2, <2>3
<1>7. CASE SaveRow
  <2>1. Flush(pending) /\ sb = "loop" /\ sb' = "loop" /\ pending' = << >> /\ sweep' = sweep
    BY <1>7 DEF SaveRow
  <2>2. FileInv' /\ exists'
    BY <1>2, <1>5, <2>1, FlushKeeps
  <2>3. SweepInv'
    BY <1>7, SaveRowKeeps
  <2>q. QED
    BY <1>2, <1>3, <1>5, <2>1, <2>2, <2>3, ShortSeqs
<1>8. CASE EndSweep
  <2>1. Flush(<< >>) /\ sb = "loop" /\ sb' = "off" /\ pending' = << >> /\ sweep' = sweep
    BY <1>8 DEF EndSweep
  <2>2. FileInv' /\ exists' /\ buffer' = << >>
    BY <1>5, <2>1, FlushKeeps, ShortSeqs
  <2>3. SweepInv'
    BY <1>8, EndSweepKeeps
  <2>q. QED
    BY <1>2, <1>3, <2>1, <2>2, <2>3, ShortSeqs
<1>9. CASE KillSweep
  <2>1. LoseBuffer /\ sb = "loop" /\ sb' = "off" /\ pending' = << >> /\ sweep' = sweep
    BY <1>9 DEF KillSweep
  <2>2. FileInv' /\ exists' /\ buffer' = << >>
    BY <1>5, <2>1, LoseKeeps
  <2>3. SweepInv'
    BY <1>9, KillSweepKeeps
  <2>q. QED
    BY <1>2, <1>3, <2>1, <2>2, <2>3, ShortSeqs
<1>q. QED
  BY <1>4, <1>6, <1>7, <1>8, <1>9 DEF StructNext, StructStep

\* The rows of a run of the databases are no headers, and neither is the rest of them.
LEMMA RowsBare ==
  ASSUME NEW n \in Nat, NEW s, s # 0, NEW job
  PROVE  Bare([i \in 1 .. n |-> [sweep |-> s, job |-> job, row |-> i]])
<1> DEFINE lines == [i \in 1 .. n |-> [sweep |-> s, job |-> job, row |-> i]]
<1>1. lines \in Seq({lines[i] : i \in 1 .. n}) /\ DOMAIN lines = 1 .. n
  OBVIOUS
<1>2. ASSUME NEW i \in 1 .. n PROVE lines[i] # Header
  <2>1. lines[i].sweep = s /\ Header.sweep = 0
    BY DEF Header
  <2>q. QED
    BY <2>1
<1>q. QED
  BY <1>1, <1>2 DEF Bare, Entries

\* The first of such lines, and the rest.
LEMMA RestBare ==
  ASSUME NEW s, Bare(s), s # << >>
  PROVE  Head(s) # Header /\ Bare(Tail(s))
<1>1. s \in Seq(Entries(s)) /\ \A k \in DOMAIN s : s[k] # Header
  BY DEF Bare
<1>2. Len(s) \in Nat \ {0} /\ DOMAIN s = 1 .. Len(s) /\ Head(s) = s[1]
  BY <1>1, EmptySeq, LenProperties
<1>3. /\ Tail(s) \in Seq(Entries(s)) /\ Len(Tail(s)) = Len(s) - 1
      /\ \A i \in 1 .. Len(Tail(s)) : Tail(s)[i] = s[i + 1]
  BY <1>1, HeadTailProperties
<1>4. Tail(s) \in Seq(Entries(Tail(s))) /\ DOMAIN Tail(s) = 1 .. Len(Tail(s))
  BY <1>3, OwnEntries
<1>5. ASSUME NEW i \in DOMAIN Tail(s) PROVE Tail(s)[i] # Header
  <2>1. i + 1 \in DOMAIN s /\ Tail(s)[i] = s[i + 1]
    BY <1>2, <1>3, <1>4
  <2>q. QED
    BY <1>1, <2>1
<1>q. QED
  BY <1>1, <1>2, <1>4, <1>5 DEF Bare

\* The steps of the driver of the databases.
LEMMA BenchKeeps ==
  ASSUME FileInv, UseInv, BenchNext, driver = "dbms", UNCHANGED <<driver, structVars>>
  PROVE  FileInv' /\ UseInv'
<1> DEFINE AtWork == {"opened", "running"}
           Outs == out' = [q \in Queues |-> out'[q]] /\ \A q \in Queues : Bare(out'[q])
<1>1. /\ sb = "off" /\ sb' = "off" /\ driver' = "dbms" /\ pending' = pending /\ sweep' = sweep
      /\ sweep \in Nat /\ Bare(pending) /\ invocation \in Nat
  BY DEF UseInv, structVars
<1>2. /\ out = [q \in Queues |-> out[q]] /\ \A q \in Queues : Bare(out[q])
      /\ mainThread \in AtWork => exists /\ invocation # 0
      /\ mainThread \notin AtWork => buffer = << >>
  BY <1>1 DEF UseInv, Closed
<1>3. ASSUME FileInv', Outs, invocation' \in Nat,
             mainThread' \in AtWork => exists' /\ invocation' # 0,
             mainThread' \notin AtWork => buffer' = << >>
      PROVE  FileInv' /\ UseInv'
  <2>1. Closed' <=> mainThread' \notin AtWork
    BY <1>1 DEF Closed
  <2>2. IF Closed' THEN buffer' = << >> ELSE exists'
    BY <1>3, <2>1
  <2>3. out' = [q \in Queues |-> out'[q]] /\ \A q \in Queues : Bare(out[q])'
    BY <1>3 DEF Bare, Entries
  <2>4. Bare(pending)'
    BY <1>1 DEF Bare, Entries
  <2>q. QED
    BY <1>1, <1>3, <2>2, <2>3, <2>4 DEF UseInv
<1>4. ASSUME NEW q \in Queues, NEW s, Bare(s), out' = [out EXCEPT ![q] = s] PROVE Outs
  <2>1. out' = [r \in Queues |-> IF r = q THEN s ELSE out[r]]
    BY <1>2, <1>4
  <2>2. \A r \in Queues : out'[r] = s \/ out'[r] = out[r]
    BY <2>1
  <2>3. out' = [r \in Queues |-> out'[r]]
    BY <2>1
  <2>q. QED
    BY <1>2, <1>4, <2>2, <2>3
<1>5. out' = out => Outs
  BY <1>2
<1>6. out' = Nothing => Outs
  BY ShortSeqs DEF Nothing
<1> HIDE DEF Outs
<1>7. CASE StartBench
  <2>1. mainThread \notin AtWork /\ buffer = << >>
    BY <1>2, <1>7 DEF StartBench
  <2>2. /\ out' = Nothing /\ mainThread' = "opened" /\ invocation' = invocation + 1
        /\ \E append \in BOOLEAN :
             OpenFile(append, IF append /\ exists THEN << >> ELSE <<Header>>)
    BY <1>7 DEF StartBench
  <2>3. FileInv' /\ exists'
    BY <2>1, <2>2, OpenKeeps
  <2>4. invocation' \in Nat /\ invocation' # 0
    BY <1>1, <2>2
  <2>q. QED
    BY <1>3, <1>6, <2>2, <2>3, <2>4
<1>8. ASSUME Flush(<< >>), mainThread \in AtWork, mainThread' # "opened",
             out' \in {out, Nothing}, invocation' = invocation
      PROVE  FileInv' /\ UseInv'
  <2>1. FileInv' /\ exists' /\ buffer' = << >>
    BY <1>2, <1>8, FlushKeeps, ShortSeqs
  <2>q. QED
    BY <1>1, <1>2, <1>3, <1>5, <1>6, <1>8, <2>1
<1>9. CASE WriteHeader \/ Completed \/ KeyboardInterrupt
  BY <1>8, <1>9 DEF WriteHeader, Completed, KeyboardInterrupt, ThreadsDie, threadVars
<1>10. CASE KillBench
  <2>1. /\ LoseBuffer /\ out' = Nothing /\ mainThread \in AtWork /\ mainThread' = "killed"
        /\ invocation' = invocation
    BY <1>10 DEF KillBench, ThreadsDie
  <2>2. FileInv' /\ exists' /\ buffer' = << >>
    BY <1>2, <2>1, LoseKeeps
  <2>q. QED
    BY <1>1, <1>3, <1>6, <2>1, <2>2
<1>11. ASSUME NEW q \in Queues, RaiseInMain(q) \/ Record(q) PROVE FileInv' /\ UseInv'
  BY <1>8, <1>11 DEF RaiseInMain, Record, Works, ThreadsDie
<1>12. ASSUME UNCHANGED <<file, mainThread, invocation>>, Outs PROVE FileInv' /\ UseInv'
  <2>1. FileInv' /\ exists' = exists /\ buffer' = buffer
    BY <1>12, FileRests
  <2>q. QED
    BY <1>1, <1>2, <1>3, <1>12, <2>1
<1>13. ASSUME NEW q \in Queues, Announce(q) \/ Acquire(q) \/ WriteStatus(q)
       PROVE  FileInv' /\ UseInv'
  BY <1>5, <1>12, <1>13 DEF Announce, Acquire, WriteStatus
<1>14. ASSUME NEW q \in Queues, execute_run(q) PROVE FileInv' /\ UseInv'
  <2>1. PICK outcome \in Outcomes :
          out' = [out EXCEPT ![q] = [i \in 1 .. outcome.rows |->
                    [sweep |-> invocation, job |-> Head(queues[q]), row |-> i]]]
    BY <1>14 DEF execute_run
  <2>2. outcome.rows \in Nat /\ invocation # 0 /\ UNCHANGED <<file, mainThread, invocation>>
    BY <1>2, <1>14, BenchAssumption DEF execute_run, Works
  <2>3. PICK s : s = [i \in 1 .. outcome.rows |->
                    [sweep |-> invocation, job |-> Head(queues[q]), row |-> i]]
    OBVIOUS
  <2>4. Bare(s)
    BY <2>2, <2>3, RowsBare
  <2>q. QED
    BY <1>4, <1>12, <2>1, <2>2, <2>3, <2>4
<1>15. ASSUME NEW q \in Queues, WriteRow(q) PROVE FileInv' /\ UseInv'
  <2>1. /\ mainThread = "running" /\ out[q] # << >> /\ buffer' = Append(buffer, Head(out[q]))
        /\ out' = [out EXCEPT ![q] = Tail(out[q])]
        /\ UNCHANGED <<exists, table, cut, mainThread, invocation>>
    BY <1>15 DEF WriteRow, Works
  <2>2. Head(out[q]) # Header /\ Bare(Tail(out[q])) /\ exists /\ invocation # 0
    BY <1>2, <2>1, RestBare
  <2>3. FileInv' /\ exists'
    BY <2>1, <2>2, WriteKeeps
  <2>4. Outs
    BY <1>4, <2>1, <2>2
  <2>q. QED
    BY <1>1, <1>3, <2>1, <2>2, <2>3, <2>4
<1>16. ASSUME NEW q \in Queues, Raise(q) PROVE FileInv' /\ UseInv'
  <2>1. out' = [out EXCEPT ![q] = << >>] /\ UNCHANGED <<file, mainThread, invocation>>
    BY <1>16 DEF Raise
  <2>q. QED
    BY <1>4, <1>12, <2>1, ShortSeqs
<1>q. QED
  BY <1>7, <1>9, <1>10, <1>11, <1>13, <1>14, <1>15, <1>16 DEF BenchNext, run_queue
-----------------------------------------------------------------------------
\* The inductive invariant of the drivers.
DriversInv == FileInv /\ UseInv /\ (driver = "structures" => SweepInv)

\* A state in which nothing was done satisfies it.
LEMMA DriversStart ==
  ASSUME Init
  PROVE  DriversInv
<1>1. FileInv
  BY ShortSeqs DEF Init, FileInit, FileInv
<1>2. UseInv
  <2>1. out = Nothing /\ pending = << >> /\ sb = "off" /\ mainThread = "off" /\ buffer = << >>
        /\ sweep = 0 /\ invocation = 0
    BY DEF Init, FileInit, StructInit, BenchInit
  <2>q. QED
    BY <2>1, ShortSeqs DEF UseInv, Closed, Nothing
<1>3. SweepInv
  <2>1. /\ table = << >> /\ buffer = << >> /\ measured = {} /\ todo = {} /\ pending = << >>
    BY DEF Init, FileInit, StructInit
  <2>2. Rows = {} /\ Len(table) = 0 /\ Len(buffer) = 0
    BY <2>1, ShortSeqs, RowsOf
  <2>3. IsFiniteSet(Rows) /\ Cardinality(Rows) = 0
    BY <2>2, FS_EmptySet
  <2>q. QED
    BY <2>1, <2>2, <2>3, ShortSeqs DEF SweepInv
<1>q. QED
  BY <1>1, <1>2, <1>3 DEF DriversInv

\* Every step keeps it.
LEMMA DriversKeep ==
  ASSUME DriversInv, [Next]_vars
  PROVE  DriversInv'
<1>1. ASSUME UNCHANGED <<driver, file, structVars, mainThread, out, invocation>>
      PROVE  DriversInv'
  <2>1. FileInv'
    BY <1>1, FileRests DEF DriversInv
  <2>2. /\ exists' = exists /\ buffer' = buffer /\ table' = table /\ driver' = driver
        /\ sb' = sb /\ mainThread' = mainThread /\ out' = out /\ invocation' = invocation
        /\ pending' = pending /\ sweep' = sweep
        /\ todo' = todo /\ raw' = raw /\ measured' = measured
    BY <1>1 DEF file, structVars
  <2>3. UseInv'
    BY <2>2 DEF DriversInv, UseInv, Closed, Bare, Entries
  <2>4. SweepInv => SweepInv'
    BY <2>2 DEF SweepInv, Rows, Entries, Traced, Same
  <2>q. QED
    BY <2>1, <2>2, <2>3, <2>4 DEF DriversInv
<1>2. CASE MeasureStructures
  <2>1. StructNext /\ driver = "structures" /\ UNCHANGED <<driver, benchVars>>
    BY <1>2 DEF MeasureStructures
  <2>q. QED
    BY <2>1, StructKeeps DEF DriversInv
<1>3. CASE MeasureDatabases
  <2>1. BenchNext /\ driver = "dbms" /\ UNCHANGED <<driver, structVars>>
    BY <1>3 DEF MeasureDatabases
  <2>q. QED
    BY <2>1, BenchKeeps DEF DriversInv
<1>4. CASE MeasureYcsb \/ MeasureQueue \/ Finished \/ UNCHANGED vars
  BY <1>1, <1>4 DEF MeasureYcsb, MeasureQueue, Finished, vars, benchVars, threadVars
<1>q. QED
  BY <1>2, <1>3, <1>4 DEF Next

\* It holds in every state.
THEOREM DriversInvariant == Spec => []DriversInv
BY DriversStart, DriversKeep, PTL DEF Spec

\* Whatever the runs with and without --append do, and wherever a driver is
\* killed: the file of results starts with its header and holds no other, unless
\* a kill has cut the header off (execute_bench.py:288-298,
\* run_benchmarks.py:420-434).
THEOREM HeaderOnce == Spec => []OneHeader
<1>1. ASSUME DriversInv PROVE OneHeader
  <2>1. FileInv
    BY <1>1 DEF DriversInv
  <2>2. ASSUME table # << >>, ~cut
        PROVE  table[1] = Header /\ \A k \in DOMAIN table : table[k] = Header => k = 1
    <3> DEFINE t == table \o buffer
    <3>1. Headed(t)
      BY <2>1, <2>2 DEF FileInv
    <3>2. /\ DOMAIN t = 1 .. Len(table) + Len(buffer) /\ Len(table) \in Nat /\ Len(buffer) \in Nat
          /\ DOMAIN table = 1 .. Len(table) /\ \A k \in 1 .. Len(table) : t[k] = table[k]
      BY <2>1, Joined DEF FileInv
    <3>3. Len(table) # 0
      BY <2>1, <2>2, EmptySeq DEF FileInv
    <3>4. t[1] = Header /\ \A k \in DOMAIN t : t[k] = Header => k = 1
      BY <3>1 DEF Headed
    <3> HIDE DEF t
    <3>5. 1 \in DOMAIN table /\ \A k \in DOMAIN table : k \in DOMAIN t /\ t[k] = table[k]
      BY <3>2, <3>3
    <3>q. QED
      BY <3>4, <3>5
  <2>q. QED
    BY <2>1, <2>2 DEF OneHeader, FileInv
<1>q. QED
  BY <1>1, DriversInvariant, PTL

\* Nothing that a sweep has measured is lost but the row in hand, whatever kills
\* it; no row is there twice, and each can be traced to the raw file
\* (execute_bench.py:41-69, 194-207, 294-298).
THEOREM MeasuredIsKept == Spec => []SweepKept
<1>1. ASSUME DriversInv PROVE SweepKept
  <2>1. SUFFICES ASSUME driver = "structures"
        PROVE /\ RowsFromRaw
              /\ Rows = measured \ Range(pending)
              /\ Len(table) <= Cardinality(Rows) + 1
              /\ \A a, b \in Rows : a.sweep = b.sweep /\ a.conf = b.conf /\ a.rep = b.rep => a = b
    BY DEF SweepKept
  <2>2. SweepInv /\ FileInv
    BY <1>1, <2>1 DEF DriversInv
  <2>3. Rows = measured \ Range(pending) /\ Rows \subseteq measured
    BY <2>2, RowsOf DEF SweepInv
  <2>4. RowsFromRaw
    BY <2>2, <2>3 DEF SweepInv, RowsFromRaw
  <2>5. Len(table) <= Cardinality(Rows) + 1
    <3>1. Len(table) \in Nat /\ Len(buffer) \in Nat /\ Cardinality(Rows) \in Nat
      BY <2>2, OwnEntries, FS_CardinalityType DEF SweepInv, FileInv
    <3>q. QED
      BY <2>2, <3>1 DEF SweepInv
  <2>6. \A a, b \in Rows : a.sweep = b.sweep /\ a.conf = b.conf /\ a.rep = b.rep => a = b
    BY <2>2, <2>3 DEF SweepInv, Same
  <2>q. QED
    BY <2>3, <2>4, <2>5, <2>6
<1>q. QED
  BY <1>1, DriversInvariant, PTL
-----------------------------------------------------------------------------
(***************************************************************************)
(* The queue benchmark.                                                    *)
(***************************************************************************)
\* The number of items of a producer is a natural number.
LEMMA IterationsNat == Iterations \in Nat
  BY QueueAssumption DEF Iterations

\* What is in the queue after an item was appended.
LEMMA AppendedQueue ==
  ASSUME NEW q \in Seq(Item), NEW e \in Item
  PROVE  /\ Append(q, e) \in Seq(Item)
         /\ DOMAIN Append(q, e) = 1 .. Len(q) + 1
         /\ Len(Append(q, e)) = Len(q) + 1
         /\ DOMAIN q = 1 .. Len(q)
         /\ \A k \in 1 .. Len(q) : Append(q, e)[k] = q[k]
         /\ Append(q, e)[Len(q) + 1] = e
  BY AppendProperties, LenProperties

\* What is in the queue after its first item was removed.
LEMMA PoppedQueue ==
  ASSUME NEW q \in Seq(Item), q # << >>
  PROVE  /\ Head(q) \in Item /\ Head(q) = q[1]
         /\ Tail(q) \in Seq(Item)
         /\ Len(q) \in Nat \ {0}
         /\ Len(Tail(q)) = Len(q) - 1
         /\ DOMAIN q = 1 .. Len(q)
         /\ DOMAIN Tail(q) = 1 .. Len(q) - 1
         /\ \A k \in 1 .. Len(q) - 1 : Tail(q)[k] = q[k + 1]
  <1>1. Len(q) \in Nat \ {0} /\ DOMAIN q = 1 .. Len(q)
    BY EmptySeq, LenProperties
  <1>2. /\ Head(q) \in Item
        /\ Tail(q) \in Seq(Item)
        /\ Len(Tail(q)) = Len(q) - 1
        /\ \A i \in 1 .. Len(Tail(q)) : Tail(q)[i] = q[i + 1]
    BY HeadTailProperties
  <1>3. DOMAIN Tail(q) = 1 .. Len(Tail(q))
    BY <1>2, LenProperties
  <1>4. Head(q) = q[1]
    OBVIOUS
  <1> QED BY <1>1, <1>2, <1>3, <1>4

(* The steps that change the queue. *)

\* A push keeps what NothingLost says.
LEMMA PushKeeps ==
  ASSUME IInv, NEW p \in Thread, Push(p)
  PROVE  TypeOK' /\ NothingLost'
  <1> USE IterationsNat
  <1>0. PICK e : e = <<p, produced[p]>>
    OBVIOUS
  <1>1. e \in Item
    BY <1>0 DEF IInv, TypeOK, StageInv, Push, Item
  <1>2. queue \in Seq(Item) /\ queue' = Append(queue, e) /\ Len(queue) < Capacity
    BY <1>0 DEF IInv, TypeOK, Push
  <1>3. /\ queue' \in Seq(Item)
        /\ DOMAIN queue' = 1 .. Len(queue) + 1
        /\ Len(queue') = Len(queue) + 1
        /\ DOMAIN queue = 1 .. Len(queue)
        /\ \A k \in 1 .. Len(queue) : queue'[k] = queue[k]
        /\ queue'[Len(queue) + 1] = e
    BY <1>1, <1>2, AppendedQueue
  <1>4. Len(queue) \in Nat
    BY <1>2, LenProperties
  <1>5. TypeOK'
    BY <1>2, <1>3, <1>4, QueueAssumption DEF IInv, TypeOK, Push
  <1>6. ~Pushed(e) /\ Pushed(e)'
    BY <1>0 DEF Pushed, Push, IInv, TypeOK
  <1>7. ASSUME NEW i \in Item, i # e
        PROVE  Pushed(i)' <=> Pushed(i)
    BY <1>0, <1>7 DEF Pushed, Push, IInv, TypeOK, Item
  <1>8. ASSUME NEW i \in Item
        PROVE  Queued(i)' <=> Queued(i) \/ i = e
    BY <1>3, <1>4 DEF Queued
  <1>9. ~Queued(e)
    BY <1>1, <1>6 DEF IInv, NothingLost
  <1>10. \A j, k \in DOMAIN queue' : queue'[j] = queue'[k] => j = k
    <2> SUFFICES ASSUME NEW j \in DOMAIN queue', NEW k \in DOMAIN queue',
                        queue'[j] = queue'[k]
                 PROVE  j = k
      OBVIOUS
    <2>1. \A l \in 1 .. Len(queue) : queue[l] # e
      BY <1>3, <1>9 DEF Queued
    <2>2. \A l, m \in 1 .. Len(queue) : queue[l] = queue[m] => l = m
      BY <1>3 DEF IInv, NothingLost
    <2> QED BY <1>3, <1>4, <2>1, <2>2
  <1>11. ASSUME NEW i \in Item
         PROVE  /\ Queued(i)' => Pushed(i)'
                /\ taken'[i] = IF Pushed(i)' /\ ~Queued(i)' THEN 1 ELSE 0
    <2>1. taken' = taken
      BY DEF Push
    <2>2. /\ Queued(i) => Pushed(i)
          /\ taken[i] = IF Pushed(i) /\ ~Queued(i) THEN 1 ELSE 0
      BY DEF IInv, NothingLost
    <2>3. CASE i = e
      BY <1>6, <1>8, <2>1, <2>2, <2>3
    <2>4. CASE i # e
      BY <1>7, <1>8, <2>1, <2>2, <2>4
    <2> QED BY <2>3, <2>4
  <1>12. NothingLost'
    BY <1>10, <1>11 DEF NothingLost
  <1> QED BY <1>5, <1>12

\* So does a pop.
LEMMA PopKeeps ==
  ASSUME IInv, NEW c \in Thread, Pop(c)
  PROVE  TypeOK' /\ NothingLost'
  <1> USE IterationsNat
  <1>0. PICK e : e = Head(queue)
    OBVIOUS
  <1>1. queue \in Seq(Item) /\ queue # << >> /\ queue' = Tail(queue)
    BY DEF IInv, TypeOK, Pop
  <1>2. /\ e \in Item /\ e = queue[1]
        /\ queue' \in Seq(Item)
        /\ Len(queue) \in Nat \ {0}
        /\ Len(queue') = Len(queue) - 1
        /\ DOMAIN queue = 1 .. Len(queue)
        /\ DOMAIN queue' = 1 .. Len(queue) - 1
        /\ \A k \in 1 .. Len(queue) - 1 : queue'[k] = queue[k + 1]
    BY <1>0, <1>1, PoppedQueue
  <1>3. taken' = [taken EXCEPT ![e] = @ + 1]
    BY <1>0 DEF Pop
  <1>4. taken \in [Item -> Nat]
    BY DEF IInv, TypeOK
  <1>5. TypeOK'
    <2>1. queue' \in Seq(Item) /\ Len(queue') <= Capacity
      BY <1>2, QueueAssumption DEF IInv, TypeOK
    <2>2. taken' \in [Item -> Nat]
      <3>1. taken' = [i \in Item |-> IF i = e THEN taken[e] + 1 ELSE taken[i]]
        BY <1>3, <1>4
      <3>2. taken[e] + 1 \in Nat /\ \A i \in Item : taken[i] \in Nat
        BY <1>2, <1>4
      <3> QED BY <3>1, <3>2
    <2>3. consumed' \in [Thread -> Nat]
      BY DEF IInv, TypeOK, Pop
    <2>4. /\ done' = done /\ producer' = producer /\ produced' = produced
          /\ consumer' = consumer /\ main' = main
      BY DEF Pop
    <2> QED BY <2>1, <2>2, <2>3, <2>4 DEF IInv, TypeOK
  <1>6. \A j, k \in 1 .. Len(queue) : queue[j] = queue[k] => j = k
    BY <1>2 DEF IInv, NothingLost
  <1>7. \A j, k \in DOMAIN queue' : queue'[j] = queue'[k] => j = k
    BY <1>2, <1>6
  <1>8. Queued(e) /\ ~Queued(e)'
    BY <1>2, <1>6 DEF Queued
  <1>9. ASSUME NEW i \in Item, i # e
        PROVE  Queued(i)' <=> Queued(i)
    <2>1. ASSUME NEW k \in 1 .. Len(queue), queue[k] = i
          PROVE  Queued(i)'
      <3>1. k - 1 \in 1 .. Len(queue) - 1
        BY <1>2, <1>9, <2>1
      <3>2. queue'[k - 1] = i
        BY <1>2, <2>1, <3>1
      <3> QED BY <1>2, <3>1, <3>2 DEF Queued
    <2>2. ASSUME NEW k \in 1 .. Len(queue) - 1, queue'[k] = i
          PROVE  Queued(i)
      <3>1. k + 1 \in 1 .. Len(queue) /\ queue[k + 1] = i
        BY <1>2, <2>2
      <3> QED BY <1>2, <3>1 DEF Queued
    <2> QED BY <1>2, <2>1, <2>2 DEF Queued
  <1>10. \A i \in Item : Pushed(i)' <=> Pushed(i)
    BY DEF Pushed, Pop
  <1>11. ASSUME NEW i \in Item
         PROVE  /\ Queued(i)' => Pushed(i)'
                /\ taken'[i] = IF Pushed(i)' /\ ~Queued(i)' THEN 1 ELSE 0
    <2>1. /\ Queued(i) => Pushed(i)
          /\ taken[i] = IF Pushed(i) /\ ~Queued(i) THEN 1 ELSE 0
      BY DEF IInv, NothingLost
    <2>2. CASE i = e
      BY <1>3, <1>4, <1>8, <1>10, <2>1, <2>2
    <2>3. CASE i # e
      BY <1>3, <1>4, <1>9, <1>10, <2>1, <2>3
    <2> QED BY <2>2, <2>3
  <1>12. NothingLost'
    BY <1>7, <1>11 DEF NothingLost
  <1> QED BY <1>5, <1>12

(* The other steps leave the queue alone. *)

\* What a step keeps that changes neither the queue nor what was pushed.
LEMMA SameQueueKeeps ==
  ASSUME NothingLost, UNCHANGED <<queue, taken>>,
         \A i \in Item : Pushed(i)' <=> Pushed(i)
  PROVE  NothingLost'
  <1>1. \A i \in Item : Queued(i)' <=> Queued(i)
    BY DEF Queued
  <1> QED BY <1>1 DEF NothingLost

\* Every step of a producer keeps types and items.
LEMMA ProducerKeeps ==
  ASSUME IInv, NEW p \in Thread, Producer(p)
  PROVE  TypeOK' /\ NothingLost'
  <1> USE IterationsNat
  <1>1. CASE Count(p)
    <2>1. TypeOK'
      BY <1>1 DEF IInv, TypeOK, Count
    <2>2. \A i \in Item : Pushed(i)' <=> Pushed(i)
      BY <1>1 DEF Count, IInv, TypeOK, Pushed, Item
    <2> QED BY <1>1, <2>1, <2>2, SameQueueKeeps DEF Count, IInv
  <1>2. CASE Push(p)
    BY <1>2, PushKeeps
  <1>3. CASE ProducerEnds(p)
    <2>1. TypeOK'
      BY <1>3 DEF IInv, TypeOK, ProducerEnds
    <2>2. \A i \in Item : Pushed(i)' <=> Pushed(i)
      BY <1>3 DEF ProducerEnds, IInv, TypeOK, Pushed, Item
    <2> QED BY <1>3, <2>1, <2>2, SameQueueKeeps DEF ProducerEnds, IInv
  <1> QED BY <1>1, <1>2, <1>3 DEF Producer

\* So does every step of a consumer.
LEMMA ConsumerKeeps ==
  ASSUME IInv, NEW c \in Thread, Consumer(c)
  PROVE  TypeOK' /\ NothingLost'
  <1>1. CASE LoadDone(c) \/ PopFails(c)
    <2>1. TypeOK'
      BY <1>1 DEF IInv, TypeOK, LoadDone, PopFails
    <2>2. \A i \in Item : Pushed(i)' <=> Pushed(i)
      BY <1>1 DEF LoadDone, PopFails, Pushed
    <2> QED BY <1>1, <2>1, <2>2, SameQueueKeeps DEF LoadDone, PopFails, IInv
  <1>2. CASE Pop(c)
    BY <1>2, PopKeeps
  <1> QED BY <1>1, <1>2 DEF Consumer

\* And every step of main, and a stutter.
LEMMA MainKeeps ==
  ASSUME IInv, Main \/ UNCHANGED queueVars
  PROVE  TypeOK' /\ NothingLost'
  <1>1. TypeOK'
    BY DEF IInv, TypeOK, Main, JoinProducers, SetDone, JoinConsumers, queueVars
  <1>2. UNCHANGED <<queue, taken>> /\ \A i \in Item : Pushed(i)' <=> Pushed(i)
    BY DEF Main, JoinProducers, SetDone, JoinConsumers, queueVars, Pushed
  <1> QED BY <1>1, <1>2, SameQueueKeeps DEF IInv

\* The stages stay in step.  A consumer has ended only after done, when every
\* producer has ended, so that nothing is pushed into the empty queue.
LEMMA StageKept ==
  ASSUME IInv, [QueueNext]_queueVars
  PROVE  StageInv'
  <1> USE IterationsNat
  <1> USE DEF IInv, TypeOK, StageInv
  <1>1. ASSUME NEW p \in Thread, Count(p)
        PROVE  StageInv'
    BY <1>1 DEF Count
  <1>2. ASSUME NEW p \in Thread, Push(p)
        PROVE  StageInv'
    BY <1>2 DEF Push
  <1>3. ASSUME NEW p \in Thread, ProducerEnds(p)
        PROVE  StageInv'
    BY <1>3 DEF ProducerEnds
  <1>4. ASSUME NEW c \in Thread, LoadDone(c)
        PROVE  StageInv'
    BY <1>4 DEF LoadDone
  <1>5. ASSUME NEW c \in Thread, Pop(c)
        PROVE  StageInv'
    BY <1>5 DEF Pop
  <1>6. ASSUME NEW c \in Thread, PopFails(c)
        PROVE  StageInv'
    BY <1>6 DEF PopFails
  <1>7. CASE Main \/ UNCHANGED queueVars
    BY <1>7 DEF Main, JoinProducers, SetDone, JoinConsumers, queueVars
  <1> QED BY <1>1, <1>2, <1>3, <1>4, <1>5, <1>6, <1>7
          DEF QueueNext, Producer, Consumer, Ended

\* The inductive invariant: types, items and stages.
THEOREM Invariance == QueueSpec => []IInv
  <1>1. QueueInit => IInv
    <2> SUFFICES ASSUME QueueInit PROVE IInv
      OBVIOUS
    <2>1. queue \in Seq(Item) /\ Len(queue) = 0 /\ DOMAIN queue = {}
      BY EmptySeq, LenProperties DEF QueueInit
    <2>2. TypeOK
      <3>1. Len(queue) <= Capacity
        BY <2>1, QueueAssumption
      <3>2. produced \in [Thread -> 0 .. Iterations]
        BY IterationsNat DEF QueueInit
      <3>3. consumed \in [Thread -> Nat] /\ taken \in [Item -> Nat]
        BY DEF QueueInit
      <3> QED BY <2>1, <3>1, <3>2, <3>3 DEF QueueInit, TypeOK
    <2>3. \A i \in Item : ~Queued(i) /\ ~Pushed(i)
      BY <2>1, IterationsNat DEF QueueInit, Queued, Pushed, Item
    <2>4. NothingLost
      BY <2>1, <2>3 DEF QueueInit, NothingLost
    <2>5. StageInv
      BY DEF QueueInit, StageInv
    <2> QED BY <2>2, <2>4, <2>5 DEF IInv
  <1>2. IInv /\ [QueueNext]_queueVars => IInv'
    <2> SUFFICES ASSUME IInv, [QueueNext]_queueVars PROVE IInv'
      OBVIOUS
    <2>1. TypeOK' /\ NothingLost'
      BY ProducerKeeps, ConsumerKeeps, MainKeeps DEF QueueNext, Ended
    <2> QED BY <2>1, StageKept DEF IInv
  <1> QED BY <1>1, <1>2, PTL DEF QueueSpec

\* Whatever the drivers do, the queue benchmark in them takes its own steps.
LEMMA QueueRuns == Spec => QueueSpec
  <1>1. Init => QueueInit
    BY DEF Init
  <1>2. [Next]_vars => [QueueNext]_queueVars
    <2> SUFFICES ASSUME [Next]_vars PROVE [QueueNext]_queueVars
      OBVIOUS
    <2>1. CASE MeasureStructures \/ MeasureDatabases \/ MeasureYcsb
      BY <2>1 DEF MeasureStructures, MeasureDatabases, MeasureYcsb
    <2>2. CASE MeasureQueue
      BY <2>2 DEF MeasureQueue
    <2>3. CASE Finished \/ UNCHANGED vars
      BY <2>3 DEF Finished, vars
    <2> QED BY <2>1, <2>2, <2>3 DEF Next
  <1> QED BY <1>1, <1>2, PTL DEF Spec, QueueSpec

\* Types, and a queue within its capacity.
THEOREM TypeCorrect == Spec => []TypeOK
  BY Invariance, QueueRuns, PTL DEF IInv

\* The lock-free hand-over loses no item and repeats none: full queues and racing
\* pops included (queue_bench/main.cpp:28-47).
THEOREM ItemsOnce == Spec => []NothingLost
  BY Invariance, QueueRuns, PTL DEF IInv

\* No consumer leaves early, although done and the queue are read at different
\* times, and at the end every item was popped once (queue_bench/main.cpp:37-47).
THEOREM AllConsumed == Spec => []Complete
  <1>1. IInv => Complete
    <2> SUFFICES ASSUME IInv PROVE Complete
      OBVIOUS
    <2>1. ASSUME NEW c \in Thread, consumer[c] = "ended"
          PROVE  queue = << >> /\ \A p \in Thread : producer[p] = "ended"
      BY <2>1 DEF IInv, StageInv
    <2>2. ASSUME main = "ended", NEW i \in Item
          PROVE  taken[i] = 1
      <3>1. 1 \in Thread
        BY QueueAssumption DEF Thread
      <3>2. queue = << >> /\ \A p \in Thread : producer[p] = "ended"
        BY <2>1, <2>2, <3>1 DEF IInv, StageInv
      <3>3. ~Queued(i)
        BY <3>2, EmptySeq, LenProperties DEF Queued
      <3>4. Pushed(i)
        BY <3>2, IterationsNat DEF IInv, StageInv, Pushed, Item
      <3> QED BY <3>3, <3>4 DEF IInv, NothingLost
    <2> QED BY <2>1, <2>2 DEF Complete
  <1> QED BY <1>1, Invariance, QueueRuns, PTL
-----------------------------------------------------------------------------
(***************************************************************************)
(* Lists of runs: what Only, Once and FlattenSeq keep.                     *)
(***************************************************************************)
Distinct(s) == s \in Seq(Entries(s)) /\ IsInjective(s)

\* Induction up to a bound, over the set of the numbers for which it holds.
LEMMA Induct ==
  ASSUME NEW n \in Nat, NEW T, 0 \in T, \A k \in 1 .. n : k - 1 \in T => k \in T
  PROVE  \A k \in 0 .. n : k \in T
<1> DEFINE B == {k \in 0 .. n : k \notin T}
<1>1. SUFFICES ASSUME B # {} PROVE FALSE
  OBVIOUS
<1>2. PICK m \in B : \A k \in B : m <= k
  <2>1. B \subseteq Nat
    OBVIOUS
  <2> HIDE DEF B
  <2>q. QED
    BY <1>1, <2>1, LeastNat
<1>3. m \in 1 .. n /\ m \notin T
  BY <1>2
<1>4. m - 1 \in 0 .. n /\ ~(m <= m - 1)
  BY <1>3
<1>5. m - 1 \in T
  BY <1>2, <1>4
<1>q. QED
  BY <1>3, <1>5

\* A function that is defined by recursion up to a bound, and that there is one.
Solves(f, n, V, base, h) ==
  f \in [0 .. n -> V] /\ f[0] = base /\ \A k \in 1 .. n : f[k] = h[<<k, f[k - 1]>>]

LEMMA Recursion ==
  ASSUME NEW n \in Nat, NEW V, NEW base \in V, NEW h \in [(1 .. n) \X V -> V]
  PROVE  \E f : Solves(f, n, V, base, h)
<1> DEFINE Fits(m) == {f \in [0 .. m -> V] :
                         f[0] = base /\ \A k \in 1 .. m : f[k] = h[<<k, f[k - 1]>>]}
           T == {m \in 0 .. n : Fits(m) # {}}
<1>1. 0 \in T
  <2>1. [k \in 0 .. 0 |-> base] \in Fits(0)
    OBVIOUS
  <2>q. QED
    BY <2>1
<1>2. ASSUME NEW m \in 1 .. n, m - 1 \in T PROVE m \in T
  <2>1. PICK f \in Fits(m - 1) : TRUE
    BY <1>2
  <2>2. /\ f \in [0 .. m - 1 -> V] /\ f[0] = base
        /\ \A k \in 1 .. m - 1 : f[k] = h[<<k, f[k - 1]>>]
    BY <2>1
  <2> DEFINE g == [k \in 0 .. m |-> IF k = m THEN h[<<m, f[m - 1]>>] ELSE f[k]]
  <2>3. m - 1 \in 0 .. m - 1 /\ \A k \in 0 .. m : k # m => k \in 0 .. m - 1
    OBVIOUS
  <2>4. h[<<m, f[m - 1]>>] \in V
    BY <2>2, <2>3
  <2>5. g \in [0 .. m -> V]
    BY <2>2, <2>3, <2>4
  <2>6. g[0] = base
    BY <2>2
  <2>7. ASSUME NEW k \in 1 .. m PROVE g[k] = h[<<k, g[k - 1]>>]
    <3>1. k - 1 \in 0 .. m /\ k - 1 # m
      OBVIOUS
    <3>2. g[k - 1] = f[k - 1]
      BY <3>1
    <3>3. CASE k = m
      <4>1. g[k] = h[<<m, f[m - 1]>>] /\ f[m - 1] = g[k - 1]
        BY <3>2, <3>3
      <4> HIDE DEF g
      <4>q. QED
        BY <3>3, <4>1
    <3>4. CASE k # m
      <4>1. k \in 1 .. m - 1 /\ g[k] = f[k]
        BY <3>4
      <4>q. QED
        BY <2>2, <3>2, <4>1
    <3>q. QED
      BY <3>3, <3>4
  <2> HIDE DEF g
  <2>8. g \in Fits(m)
    BY <2>5, <2>6, <2>7
  <2> HIDE DEF Fits
  <2>q. QED
    BY <2>8
<1> HIDE DEF T
<1>3. n \in T
  BY <1>1, <1>2, Induct
<1>4. Fits(n) # {}
  BY <1>3 DEF T
<1>5. PICK f \in Fits(n) : TRUE
  BY <1>4
<1>6. Solves(f, n, V, base, h)
  BY <1>5 DEF Solves
<1>q. QED
  BY <1>6

\* A sequence with one more entry.
LEMMA Appended ==
  ASSUME NEW s, s \in Seq(Entries(s)), NEW x
  PROVE  /\ Append(s, x) \in Seq(Entries(Append(s, x)))
         /\ Len(Append(s, x)) = Len(s) + 1 /\ Len(s) \in Nat /\ DOMAIN s = 1 .. Len(s)
         /\ DOMAIN Append(s, x) = 1 .. Len(s) + 1
         /\ \A k \in 1 .. Len(s) : Append(s, x)[k] = s[k]
         /\ Append(s, x)[Len(s) + 1] = x
         /\ Entries(Append(s, x)) = Entries(s) \union {x}
         /\ Distinct(s) /\ x \notin Entries(s) => Distinct(Append(s, x))
<1> DEFINE t == Append(s, x)
           S == Entries(s) \union {x}
<1>1. s \in Seq(S) /\ Len(s) \in Nat /\ DOMAIN s = 1 .. Len(s)
  <2>1. s \in [1 .. Len(s) -> Entries(s)] /\ Len(s) \in Nat
    OBVIOUS
  <2>2. s \in [1 .. Len(s) -> S]
    BY <2>1
  <2>q. QED
    BY <2>1, <2>2
<1>2. x \in S
  OBVIOUS
<1> HIDE DEF S
<1>3. /\ t \in Seq(S) /\ Len(t) = Len(s) + 1
      /\ (\A k \in 1 .. Len(s) : t[k] = s[k]) /\ t[Len(s) + 1] = x
  BY <1>1, <1>2, AppendProperties
<1>4. t \in Seq(Entries(t)) /\ DOMAIN t = 1 .. Len(s) + 1
  BY <1>3, OwnEntries
<1> HIDE DEF t
<1>5. Entries(t) = Entries(s) \union {x}
  <2>1. ASSUME NEW k \in 1 .. Len(s) + 1 PROVE t[k] \in Entries(s) \union {x}
    <3>1. CASE k \in 1 .. Len(s)
      BY <1>1, <1>3, <3>1 DEF Entries
    <3>2. CASE k = Len(s) + 1
      BY <1>3, <3>2
    <3>q. QED
      BY <1>1, <3>1, <3>2
  <2>2. x \in Entries(t)
    <3>1. Len(s) + 1 \in DOMAIN t
      BY <1>1, <1>4
    <3>q. QED
      BY <1>3, <3>1 DEF Entries
  <2>3. ASSUME NEW k \in DOMAIN s PROVE s[k] \in Entries(t)
    <3>1. k \in DOMAIN t /\ t[k] = s[k]
      BY <1>1, <1>3, <1>4
    <3>q. QED
      BY <3>1 DEF Entries
  <2>4. \A y : y \in Entries(t) => y \in Entries(s) \union {x}
    BY <1>4, <2>1 DEF Entries
  <2>5. \A y : y \in Entries(s) => y \in Entries(t)
    BY <2>3 DEF Entries
  <2>q. QED
    BY <2>2, <2>4, <2>5
<1>6. ASSUME Distinct(s), x \notin Entries(s) PROVE Distinct(t)
  <2>1. \A k \in DOMAIN s : s[k] # x
    BY <1>6 DEF Entries
  <2>2. ASSUME NEW a \in DOMAIN t, NEW b \in DOMAIN t, t[a] = t[b] PROVE a = b
    <3>1. (a \in DOMAIN s \/ a = Len(s) + 1) /\ (b \in DOMAIN s \/ b = Len(s) + 1)
      BY <1>1, <1>4
    <3>2. CASE a \in DOMAIN s /\ b \in DOMAIN s
      <4>1. s[a] = s[b]
        BY <1>1, <1>3, <2>2, <3>2
      <4>q. QED
        BY <1>6, <3>2, <4>1 DEF Distinct, IsInjective
    <3>3. CASE a \in DOMAIN s /\ b = Len(s) + 1
      BY <1>1, <1>3, <2>1, <2>2, <3>3
    <3>4. CASE a = Len(s) + 1 /\ b \in DOMAIN s
      BY <1>1, <1>3, <2>1, <2>2, <3>4
    <3>q. QED
      BY <3>1, <3>2, <3>3, <3>4
  <2>q. QED
    BY <1>4, <2>2 DEF Distinct, IsInjective
<1>q. QED
  BY <1>1, <1>3, <1>4, <1>5, <1>6 DEF t

\* Only goes through a sequence entry by entry.
KeptBy(g, s, S) ==
  /\ g \in [0 .. Len(s) -> Seq(Entries(s))]
  /\ g[0] = << >> /\ Only(s, S) = g[Len(s)]
  /\ \A k \in 1 .. Len(s) : g[k] = IF s[k] \in S THEN Append(g[k - 1], s[k]) ELSE g[k - 1]

LEMMA OnlyIs ==
  ASSUME NEW s, s \in Seq(Entries(s)), NEW S
  PROVE  \E g : KeptBy(g, s, S)
<1> DEFINE n == Len(s)
           V == Seq(Entries(s))
           h == [p \in (1 .. n) \X V |-> IF s[p[1]] \in S THEN Append(p[2], s[p[1]]) ELSE p[2]]
           Kept(g) == [k \in 0 .. n |-> IF k = 0 THEN << >>
                         ELSE IF s[k] \in S THEN Append(g[k - 1], s[k]) ELSE g[k - 1]]
<1>1. n \in Nat /\ << >> \in V /\ \A k \in 1 .. n : s[k] \in Entries(s)
  OBVIOUS
<1>2. ASSUME NEW k \in 1 .. n, NEW v \in V PROVE Append(v, s[k]) \in V
  BY <1>1
<1> HIDE DEF n, V
<1>3. h \in [(1 .. n) \X V -> V]
  BY <1>2
<1>4. PICK f : Solves(f, n, V, << >>, h)
  <2> HIDE DEF h
  <2>q. QED
    BY <1>1, <1>3, Recursion
<1>5. ASSUME NEW k \in 1 .. n
      PROVE  f[k] = IF s[k] \in S THEN Append(f[k - 1], s[k]) ELSE f[k - 1]
  <2>1. k - 1 \in 0 .. n
    BY <1>1
  <2>2. <<k, f[k - 1]>> \in (1 .. n) \X V
    BY <1>4, <2>1 DEF Solves
  <2>3. h[<<k, f[k - 1]>>] = IF s[k] \in S THEN Append(f[k - 1], s[k]) ELSE f[k - 1]
    BY <2>2
  <2>q. QED
    BY <1>4, <2>3 DEF Solves
<1> HIDE DEF h
<1>6. f = Kept(f)
  <2>1. f = [k \in 0 .. n |-> f[k]] /\ f[0] = << >>
    BY <1>4 DEF Solves
  <2>2. \A k \in 0 .. n : k # 0 => k \in 1 .. n
    BY <1>1
  <2>3. \A k \in 0 .. n : f[k] = IF k = 0 THEN << >>
                    ELSE IF s[k] \in S THEN Append(f[k - 1], s[k]) ELSE f[k - 1]
    BY <1>5, <2>1, <2>2
  <2>q. QED
    BY <2>1, <2>3
<1>7. PICK g : g = CHOOSE kept : kept = Kept(kept)
  OBVIOUS
<1>8. g = Kept(g) /\ Only(s, S) = g[n]
  BY <1>6, <1>7, Zenon DEF Only, n
<1>9. g[0] = << >> /\ \A k \in 1 .. n :
        g[k] = IF s[k] \in S THEN Append(g[k - 1], s[k]) ELSE g[k - 1]
  <2>1. 0 \in 0 .. n /\ \A k \in 1 .. n : k \in 0 .. n /\ k # 0
    BY <1>1
  <2>q. QED
    BY <1>8, <2>1
<1>10. \A k \in 0 .. n : k \in {i \in 0 .. n : g[i] \in V}
  <2> DEFINE T == {i \in 0 .. n : g[i] \in V}
  <2>1. 0 \in T
    BY <1>1, <1>9
  <2>2. ASSUME NEW k \in 1 .. n, k - 1 \in T PROVE k \in T
    BY <1>2, <1>9, <2>2
  <2> HIDE DEF T
  <2>3. \A k \in 0 .. n : k \in T
    BY <1>1, <2>1, <2>2, Induct
  <2>q. QED
    BY <2>3 DEF T
<1>11. g \in [0 .. n -> V]
  BY <1>8, <1>10
<1>q. QED
  BY <1>8, <1>9, <1>11 DEF n, V, KeptBy

\* Two sequences that have each entry once, and none in common, in one.
LEMMA BothDistinct ==
  ASSUME NEW s, NEW m, Distinct(s), Distinct(m), Entries(s) \cap Entries(m) = {}
  PROVE  Distinct(s \o m)
<1> DEFINE t == s \o m
<1>1. /\ t \in Seq(Entries(t)) /\ DOMAIN t = 1 .. Len(s) + Len(m)
      /\ Len(s) \in Nat /\ Len(m) \in Nat /\ DOMAIN s = 1 .. Len(s) /\ DOMAIN m = 1 .. Len(m)
      /\ \A k \in 1 .. Len(s) : t[k] = s[k]
      /\ \A k \in 1 .. Len(s) + Len(m) : k > Len(s) => t[k] = m[k - Len(s)]
  BY Joined DEF Distinct
<1> HIDE DEF t
<1>2. ASSUME NEW a \in DOMAIN t PROVE \/ a \in DOMAIN s /\ t[a] = s[a]
                                      \/ a - Len(s) \in DOMAIN m /\ t[a] = m[a - Len(s)]
  BY <1>1
<1>3. \A a \in DOMAIN s, b \in DOMAIN m : s[a] # m[b]
  BY DEF Entries
<1>4. ASSUME NEW a \in DOMAIN t, NEW b \in DOMAIN t, t[a] = t[b] PROVE a = b
  <2>1. CASE a \in DOMAIN s /\ t[a] = s[a] /\ b \in DOMAIN s /\ t[b] = s[b]
    BY <1>4, <2>1 DEF Distinct, IsInjective
  <2>2. CASE /\ a - Len(s) \in DOMAIN m /\ t[a] = m[a - Len(s)]
             /\ b - Len(s) \in DOMAIN m /\ t[b] = m[b - Len(s)]
    <3>1. a - Len(s) = b - Len(s)
      BY <1>4, <2>2 DEF Distinct, IsInjective
    <3>q. QED
      BY <1>1, <3>1
  <2>q. QED
    BY <1>2, <1>3, <1>4, <2>1, <2>2
<1>q. QED
  BY <1>1, <1>4 DEF Distinct, IsInjective, t

\* A sequence that has each entry once has as many entries as places.
LEMMA DistinctLen ==
  ASSUME NEW s, Distinct(s)
  PROVE  IsFiniteSet(Entries(s)) /\ Cardinality(Entries(s)) = Len(s) /\ Len(s) \in Nat
<1>1. Len(s) \in Nat /\ DOMAIN s = 1 .. Len(s) /\ s \in [1 .. Len(s) -> Entries(s)]
  BY OwnEntries DEF Distinct
<1>2. s \in Bijection(1 .. Len(s), Entries(s))
  BY <1>1 DEF Distinct, IsInjective, Bijection, Injection, Surjection, Entries
<1>3. IsFiniteSet(1 .. Len(s)) /\ Cardinality(1 .. Len(s)) = Len(s)
  BY <1>1, FS_Interval
<1>4. ExistsBijection(1 .. Len(s), Entries(s))
  BY <1>2 DEF ExistsBijection
<1>q. QED
  BY <1>1, <1>3, <1>4, FS_Bijection

\* The entries of a sequence up to a place, and one more.
LEMMA OneMore ==
  ASSUME NEW s, s \in Seq(Entries(s)), NEW k \in 1 .. Len(s)
  PROVE  /\ {s[i] : i \in 1 .. k} = {s[i] : i \in 1 .. k - 1} \union {s[k]}
         /\ IsInjective(s) => s[k] \notin {s[i] : i \in 1 .. k - 1}
<1>1. Len(s) \in Nat /\ DOMAIN s = 1 .. Len(s)
  BY OwnEntries
<1>2. \A i : i \in 1 .. k <=> i \in 1 .. k - 1 \/ i = k
  BY <1>1
<1>3. ASSUME IsInjective(s), NEW i \in 1 .. k - 1 PROVE s[i] # s[k]
  <2>1. i \in DOMAIN s /\ k \in DOMAIN s /\ i # k
    BY <1>1
  <2>q. QED
    BY <1>3, <2>1 DEF IsInjective
<1>4. \A x : x \in {s[i] : i \in 1 .. k} <=> x \in {s[i] : i \in 1 .. k - 1} \/ x = s[k]
  BY <1>2
<1>q. QED
  BY <1>3, <1>4

\* Only has what the sequence and the set have, and has it once if the sequence does.
LEMMA OnlyKeeps ==
  ASSUME NEW s, s \in Seq(Entries(s)), NEW S
  PROVE  /\ Only(s, S) \in Seq(Entries(Only(s, S)))
         /\ Entries(Only(s, S)) = Entries(s) \cap S
         /\ Distinct(s) => Distinct(Only(s, S))
<1>0. PICK g : KeptBy(g, s, S)
  BY OnlyIs
<1>1. /\ g \in [0 .. Len(s) -> Seq(Entries(s))]
      /\ g[0] = << >> /\ Only(s, S) = g[Len(s)]
      /\ \A k \in 1 .. Len(s) :
           g[k] = IF s[k] \in S THEN Append(g[k - 1], s[k]) ELSE g[k - 1]
  BY <1>0 DEF KeptBy
<1>2. Len(s) \in Nat /\ DOMAIN s = 1 .. Len(s)
  BY OwnEntries
<1> DEFINE n == Len(s)
           Up(k) == {s[i] : i \in 1 .. k}
           T == {k \in 0 .. n : /\ Entries(g[k]) = Up(k) \cap S
                                /\ Distinct(s) => Distinct(g[k])}
<1> HIDE DEF n
<1>3. 0 \in T
  <2>1. Up(0) = {} /\ Distinct(<< >>)
    BY ShortSeqs DEF Distinct, IsInjective
  <2>q. QED
    BY <1>1, <1>2, <2>1, ShortSeqs DEF n
<1>4. ASSUME NEW k \in 1 .. n, k - 1 \in T PROVE k \in T
  <2>1. /\ Entries(g[k - 1]) = Up(k - 1) \cap S /\ (Distinct(s) => Distinct(g[k - 1]))
        /\ k - 1 \in 0 .. n /\ k \in 1 .. Len(s) /\ k \in 0 .. n
    BY <1>2, <1>4 DEF n
  <2>2. Up(k) = Up(k - 1) \union {s[k]} /\ (IsInjective(s) => s[k] \notin Up(k - 1))
    BY <2>1, OneMore
  <2> HIDE DEF Up
  <2>3. g[k - 1] \in Seq(Entries(g[k - 1]))
    BY <1>1, <2>1, OwnEntries DEF n
  <2>4. CASE s[k] \in S
    <3>1. g[k] = Append(g[k - 1], s[k])
      BY <1>1, <2>1, <2>4
    <3>2. Entries(g[k]) = Entries(g[k - 1]) \union {s[k]}
      BY <2>3, <3>1, Appended
    <3>3. Entries(g[k]) = Up(k) \cap S
      BY <2>1, <2>2, <2>4, <3>2
    <3>4. Distinct(s) => s[k] \notin Entries(g[k - 1])
      BY <2>1, <2>2 DEF Distinct
    <3>5. Distinct(s) => Distinct(g[k])
      BY <2>1, <2>3, <3>1, <3>4, Appended
    <3>q. QED
      BY <2>1, <3>3, <3>5
  <2>5. CASE s[k] \notin S
    <3>1. g[k] = g[k - 1]
      BY <1>1, <2>1, <2>5
    <3>q. QED
      BY <2>1, <2>2, <2>5, <3>1
  <2>q. QED
    BY <2>4, <2>5
<1>5. n \in 0 .. n /\ Up(n) = Entries(s)
  BY <1>2 DEF Entries, n
<1> HIDE DEF T
<1>6. n \in T
  BY <1>2, <1>3, <1>4, <1>5, Induct DEF n
<1>7. Entries(g[n]) = Entries(s) \cap S /\ (Distinct(s) => Distinct(g[n]))
  BY <1>5, <1>6 DEF T
<1>8. g[n] \in Seq(Entries(g[n]))
  BY <1>1, <1>5, OwnEntries DEF n
<1>q. QED
  BY <1>1, <1>7, <1>8 DEF n

\* If what it keeps stands next to each other, it is that part of the sequence.
Stands(s, S, a, m) == \A i \in DOMAIN s : s[i] \in S <=> i \in a + 1 .. a + m
IsPart(p, s, a, m) == p \in Seq(Entries(s)) /\ Len(p) = m /\ \A i \in 1 .. m : p[i] = s[a + i]

LEMMA OnlyPart ==
  ASSUME NEW s, s \in Seq(Entries(s)), NEW S, NEW a \in Nat, NEW m \in Nat, a + m <= Len(s),
         Stands(s, S, a, m)
  PROVE  IsPart(Only(s, S), s, a, m)
<1>0. PICK g : KeptBy(g, s, S)
  BY OnlyIs
<1>1. /\ g \in [0 .. Len(s) -> Seq(Entries(s))]
      /\ g[0] = << >> /\ Only(s, S) = g[Len(s)]
      /\ \A k \in 1 .. Len(s) :
           g[k] = IF s[k] \in S THEN Append(g[k - 1], s[k]) ELSE g[k - 1]
  BY <1>0 DEF KeptBy
<1>2. Len(s) \in Nat /\ DOMAIN s = 1 .. Len(s)
  BY OwnEntries
<1> DEFINE n == Len(s)
           Had(k) == IF k <= a THEN 0 ELSE IF k <= a + m THEN k - a ELSE m
           T == {k \in 0 .. n : Len(g[k]) = Had(k) /\ \A i \in 1 .. Had(k) : g[k][i] = s[a + i]}
<1> HIDE DEF n
<1>3. n \in Nat /\ a + m <= n
  BY <1>2 DEF n
<1>4. 0 \in T
  <2>1. Had(0) = 0 /\ Len(<< >>) = 0
    OBVIOUS
  <2>q. QED
    BY <1>1, <1>3, <2>1
<1>5. ASSUME NEW k \in 1 .. n, k - 1 \in T PROVE k \in T
  <2>1. /\ Len(g[k - 1]) = Had(k - 1) /\ \A i \in 1 .. Had(k - 1) : g[k - 1][i] = s[a + i]
        /\ k - 1 \in 0 .. n /\ k \in 1 .. Len(s) /\ k \in 0 .. n
    BY <1>2, <1>5 DEF n
  <2>2. g[k - 1] \in Seq(Entries(g[k - 1])) /\ (s[k] \in S <=> k \in a + 1 .. a + m)
    BY <1>1, <1>2, <2>1, OwnEntries DEF n, Stands
  <2>3. CASE s[k] \in S
    <3>1. g[k] = Append(g[k - 1], s[k])
      BY <1>1, <2>1, <2>3
    <3>2. k \in a + 1 .. a + m
      BY <2>2, <2>3
    <3>3. Had(k - 1) = k - 1 - a /\ Had(k) = k - a
      BY <1>3, <3>2
    <3>4. k - 1 - a \in Nat /\ k - a = k - 1 - a + 1
      BY <1>3, <3>2
    <3>5. /\ Len(g[k]) = k - a /\ g[k][k - a] = s[k]
          /\ \A i \in 1 .. k - 1 - a : g[k][i] = g[k - 1][i]
      <4>1. /\ Len(g[k]) = Len(g[k - 1]) + 1 /\ g[k][Len(g[k - 1]) + 1] = s[k]
            /\ \A i \in 1 .. Len(g[k - 1]) : g[k][i] = g[k - 1][i]
        BY <2>2, <3>1, Appended
      <4>2. Len(g[k - 1]) = k - 1 - a
        BY <2>1, <3>3
      <4>q. QED
        BY <3>4, <4>1, <4>2
    <3>6. ASSUME NEW i \in 1 .. Had(k) PROVE g[k][i] = s[a + i]
      <4>1. i \in 1 .. k - 1 - a \/ (i = k - a /\ a + i = k)
        BY <1>3, <3>2, <3>3
      <4>q. QED
        BY <2>1, <3>3, <3>5, <4>1
    <3>q. QED
      BY <2>1, <3>3, <3>5, <3>6
  <2>4. CASE s[k] \notin S
    <3>1. g[k] = g[k - 1]
      BY <1>1, <2>1, <2>4
    <3>2. ~(k \in a + 1 .. a + m)
      BY <2>2, <2>4
    <3>3. Had(k) = Had(k - 1)
      BY <1>3, <3>2
    <3> HIDE DEF Had
    <3>q. QED
      BY <2>1, <3>1, <3>3
  <2>q. QED
    BY <2>3, <2>4
<1>6. Had(n) = m
  BY <1>3
<1>7. n \in T
  <2> HIDE DEF T
  <2>1. \A k \in 0 .. n : k \in T
    BY <1>3, <1>4, <1>5, Induct
  <2>q. QED
    BY <1>3, <2>1
<1>8. Len(g[n]) = m /\ \A i \in 1 .. m : g[n][i] = s[a + i]
  BY <1>6, <1>7 DEF T
<1>9. n \in 0 .. n /\ g[n] \in Seq(Entries(s))
  BY <1>1, <1>3 DEF n
<1>q. QED
  BY <1>1, <1>8, <1>9 DEF n, IsPart

\* Once has the same entries, each of them once.
LEMMA OnceKeeps ==
  ASSUME NEW s, s \in Seq(Entries(s))
  PROVE  Distinct(Once(s)) /\ Entries(Once(s)) = Entries(s)
<1> DEFINE n == Len(s)
           V == Seq(Entries(s))
           h == [p \in (1 .. n) \X V |->
                   IF s[p[1]] \in Range(p[2]) THEN p[2] ELSE Append(p[2], s[p[1]])]
           Seen(g) == [k \in 0 .. n |-> IF k = 0 THEN << >>
                         ELSE IF s[k] \in Range(g[k - 1]) THEN g[k - 1]
                         ELSE Append(g[k - 1], s[k])]
           Up(k) == {s[i] : i \in 1 .. k}
<1>1. n \in Nat /\ << >> \in V /\ \A k \in 1 .. n : s[k] \in Entries(s)
  OBVIOUS
<1>2. ASSUME NEW k \in 1 .. n, NEW v \in V PROVE Append(v, s[k]) \in V
  BY <1>1
<1>3. \A v \in V : v \in Seq(Entries(v))
  BY OwnEntries
<1>4. \A k \in 1 .. n : Up(k) = Up(k - 1) \union {s[k]}
  BY OneMore
<1>5. Up(0) = {} /\ Up(n) = Entries(s)
  BY OwnEntries DEF Entries
<1> HIDE DEF n, V
<1>6. h \in [(1 .. n) \X V -> V]
  BY <1>2
<1>7. PICK f : Solves(f, n, V, << >>, h)
  <2> HIDE DEF h
  <2>q. QED
    BY <1>1, <1>6, Recursion
<1>8. ASSUME NEW k \in 1 .. n
      PROVE  f[k] = IF s[k] \in Range(f[k - 1]) THEN f[k - 1] ELSE Append(f[k - 1], s[k])
  <2>1. k - 1 \in 0 .. n
    BY <1>1
  <2>2. <<k, f[k - 1]>> \in (1 .. n) \X V
    BY <1>7, <2>1 DEF Solves
  <2>3. h[<<k, f[k - 1]>>] =
          IF s[k] \in Range(f[k - 1]) THEN f[k - 1] ELSE Append(f[k - 1], s[k])
    BY <2>2
  <2>q. QED
    BY <1>7, <2>3 DEF Solves
<1> HIDE DEF h
<1>9. f = Seen(f)
  <2>1. f = [k \in 0 .. n |-> f[k]] /\ f[0] = << >>
    BY <1>7 DEF Solves
  <2>2. \A k \in 0 .. n : k # 0 => k \in 1 .. n
    BY <1>1
  <2>3. \A k \in 0 .. n : f[k] = IF k = 0 THEN << >>
                    ELSE IF s[k] \in Range(f[k - 1]) THEN f[k - 1] ELSE Append(f[k - 1], s[k])
    BY <1>8, <2>1, <2>2
  <2>q. QED
    BY <2>1, <2>3
<1>10. PICK g : g = CHOOSE seen : seen = Seen(seen)
  OBVIOUS
<1>11. g = Seen(g) /\ Once(s) = g[n]
  BY <1>9, <1>10, Zenon DEF Once, n
<1>12. g[0] = << >> /\ \A k \in 1 .. n :
         g[k] = IF s[k] \in Range(g[k - 1]) THEN g[k - 1] ELSE Append(g[k - 1], s[k])
  <2>1. 0 \in 0 .. n /\ \A k \in 1 .. n : k \in 0 .. n /\ k # 0
    BY <1>1
  <2>q. QED
    BY <1>11, <2>1
<1> DEFINE T == {k \in 0 .. n : g[k] \in V /\ Distinct(g[k]) /\ Entries(g[k]) = Up(k)}
<1>13. 0 \in T
  <2>1. Distinct(<< >>) /\ Entries(<< >>) = {}
    BY ShortSeqs DEF Distinct, IsInjective
  <2>q. QED
    BY <1>1, <1>12, <2>1
<1>14. ASSUME NEW k \in 1 .. n, k - 1 \in T PROVE k \in T
  <2>1. g[k - 1] \in V /\ Distinct(g[k - 1]) /\ Entries(g[k - 1]) = Up(k - 1) /\ k \in 0 .. n
    BY <1>1, <1>14
  <2>0. Up(k) = Up(k - 1) \union {s[k]}
    BY <1>4
  <2> HIDE DEF Up
  <2>2. Range(g[k - 1]) = Up(k - 1)
    BY <2>1, RowsOf
  <2>3. CASE s[k] \in Range(g[k - 1])
    <3>1. g[k] = g[k - 1]
      BY <1>12, <2>3
    <3>2. Up(k) = Up(k - 1)
      BY <2>0, <2>2, <2>3
    <3>q. QED
      BY <2>1, <3>1, <3>2
  <2>4. CASE s[k] \notin Range(g[k - 1])
    <3>1. g[k] = Append(g[k - 1], s[k])
      BY <1>12, <2>4
    <3>2. g[k] \in V
      BY <1>2, <2>1, <3>1
    <3>3. Distinct(g[k]) /\ Entries(g[k]) = Up(k - 1) \union {s[k]}
      BY <1>3, <2>1, <2>2, <2>4, <3>1, Appended
    <3>q. QED
      BY <2>0, <2>1, <3>2, <3>3
  <2>q. QED
    BY <2>3, <2>4
<1> HIDE DEF T
<1>15. n \in T
  <2>1. \A k \in 0 .. n : k \in T
    BY <1>1, <1>13, <1>14, Induct
  <2>q. QED
    BY <1>1, <2>1
<1>q. QED
  BY <1>5, <1>11, <1>15 DEF T

\* What FlattenSeq does step by step.
FlatBy(g, ss, n) ==
  /\ g \in [0 .. n -> Seq(UNION {Entries(ss[i]) : i \in 1 .. n})]
  /\ g[0] = << >> /\ FlattenSeq(ss) = g[n]
  /\ \A k \in 1 .. n : g[k] = g[k - 1] \o ss[k]

LEMMA FlatIs ==
  ASSUME NEW n \in Nat, NEW ss, ss = [i \in 1 .. n |-> ss[i]],
         \A i \in 1 .. n : ss[i] \in Seq(Entries(ss[i]))
  PROVE  \E g : FlatBy(g, ss, n)
<1> DEFINE S == UNION {Entries(ss[i]) : i \in 1 .. n}
           V == Seq(S)
<1>1. Len(ss) = n
  BY SMTT(30)
<1>2. << >> \in V /\ \A k \in 1 .. n : ss[k] \in V
  <2>1. ASSUME NEW k \in 1 .. n PROVE ss[k] \in V
    <3>1. Entries(ss[k]) \subseteq S
      OBVIOUS
    <3>q. QED
      BY <3>1, SeqMonotonic
  <2>q. QED
    BY <2>1
<1>3. \A u, v \in V : u \o v \in V
  BY ConcatProperties
<1>4. CASE n = 0
  <2> DEFINE g == [k \in 0 .. 0 |-> << >>]
  <2>1. FlattenSeq(ss) = ss /\ ss = << >>
    BY <1>1, <1>4 DEF FlattenSeq
  <2>2. g \in [0 .. 0 -> V] /\ g[0] = << >> /\ \A k : k \notin 1 .. 0
    BY <1>2
  <2>q. QED
    BY <1>4, <2>1, <2>2 DEF FlatBy
<1>5. CASE n # 0
  <2> DEFINE h == [p \in (1 .. n) \X V |-> IF p[1] = 1 THEN ss[1] ELSE p[2] \o ss[p[1]]]
             Flat(g) == [k \in 1 .. n |-> IF k = 1 THEN ss[k] ELSE g[k - 1] \o ss[k]]
  <2> HIDE DEF V
  <2>1. 1 \in 1 .. n
    BY <1>5
  <2>2. h \in [(1 .. n) \X V -> V]
    BY <1>2, <1>3, <2>1
  <2>3. PICK f : Solves(f, n, V, << >>, h)
    <3> HIDE DEF h
    <3>q. QED
      BY <1>2, <2>2, Recursion
  <2>4. ASSUME NEW k \in 1 .. n PROVE f[k] = IF k = 1 THEN ss[k] ELSE f[k - 1] \o ss[k]
    <3>1. k - 1 \in 0 .. n
      OBVIOUS
    <3>2. <<k, f[k - 1]>> \in (1 .. n) \X V
      BY <2>3, <3>1 DEF Solves
    <3>3. h[<<k, f[k - 1]>>] = IF k = 1 THEN ss[k] ELSE f[k - 1] \o ss[k]
      BY <3>2
    <3>q. QED
      BY <2>3, <3>3 DEF Solves
  <2> HIDE DEF h
  <2> DEFINE e == [k \in 1 .. n |-> f[k]]
  <2>5. e = Flat(e)
    <3>1. \A k \in 1 .. n : k # 1 => k - 1 \in 1 .. n
      OBVIOUS
    <3>q. QED
      BY <2>4, <3>1
  <2>6. PICK g : g = CHOOSE flatten : flatten = Flat(flatten)
    OBVIOUS
  <2> HIDE DEF e
  <2>7. g = Flat(g)
    BY <2>5, <2>6, Zenon
  <2>8. FlattenSeq(ss) = g[n]
    BY <1>1, <1>5, <2>6, Zenon DEF FlattenSeq
  <2>9. \A k \in 1 .. n : g[k] = IF k = 1 THEN ss[k] ELSE g[k - 1] \o ss[k]
    BY <2>7
  <2> DEFINE T == {0} \union {k \in 1 .. n : g[k] = f[k]}
  <2>10. ASSUME NEW k \in 1 .. n, k - 1 \in T PROVE k \in T
    BY <2>4, <2>9, <2>10
  <2>11. \A k \in 1 .. n : g[k] = f[k]
    <3> HIDE DEF T
    <3>1. 0 \in T
      BY DEF T
    <3>2. \A k \in 0 .. n : k \in T
      BY <2>10, <3>1, Induct
    <3>q. QED
      BY <3>2 DEF T
  <2>12. ASSUME NEW k \in 1 .. n PROVE f[k] = f[k - 1] \o ss[k]
    <3>1. << >> \o ss[k] = ss[k]
      OBVIOUS
    <3>2. f[0] = << >>
      BY <2>3 DEF Solves
    <3>3. f[k] = IF k = 1 THEN ss[k] ELSE f[k - 1] \o ss[k]
      BY <2>4
    <3>4. CASE k = 1
      <4>1. f[k - 1] = << >> /\ f[k] = ss[k]
        BY <3>2, <3>3, <3>4
      <4>q. QED
        BY <3>1, <4>1
    <3>5. CASE k # 1
      BY <3>3, <3>5
    <3>q. QED
      BY <3>4, <3>5
  <2>13. f \in [0 .. n -> V] /\ f[0] = << >> /\ FlattenSeq(ss) = f[n]
    BY <1>5, <2>3, <2>8, <2>11 DEF Solves
  <2>q. QED
    BY <2>12, <2>13 DEF FlatBy, V
<1>q. QED
  BY <1>4, <1>5

\* A sequence of sequences in one: its entries, and when each is there once.
LEMMA FlatKeeps ==
  ASSUME NEW n \in Nat, NEW ss, ss = [i \in 1 .. n |-> ss[i]],
         \A i \in 1 .. n : ss[i] \in Seq(Entries(ss[i]))
  PROVE  LET flat == FlattenSeq(ss)
         IN  /\ flat \in Seq(Entries(flat))
             /\ Entries(flat) = UNION {Entries(ss[i]) : i \in 1 .. n}
             /\ /\ \A i \in 1 .. n : Distinct(ss[i])
                /\ \A i, j \in 1 .. n : i # j => Entries(ss[i]) \cap Entries(ss[j]) = {}
                => Distinct(flat)
<1> DEFINE Up(k) == UNION {Entries(ss[i]) : i \in 1 .. k}
           Parts == /\ \A i \in 1 .. n : Distinct(ss[i])
                    /\ \A i, j \in 1 .. n : i # j => Entries(ss[i]) \cap Entries(ss[j]) = {}
<1>1. Up(0) = {} /\ \A k \in 1 .. n : Up(k) = Up(k - 1) \union Entries(ss[k])
  <2>1. ASSUME NEW k \in 1 .. n, NEW x
        PROVE  x \in Up(k) <=> x \in Up(k - 1) \/ x \in Entries(ss[k])
    <3>1. \A i : i \in 1 .. k <=> i \in 1 .. k - 1 \/ i = k
      OBVIOUS
    <3>q. QED
      BY <3>1
  <2>2. ASSUME NEW k \in 1 .. n PROVE Up(k) = Up(k - 1) \union Entries(ss[k])
    BY <2>1
  <2>3. 1 .. 0 = {}
    OBVIOUS
  <2>q. QED
    BY <2>2, <2>3
<1>2. Parts => \A k \in 1 .. n : Up(k - 1) \cap Entries(ss[k]) = {}
  <2>1. ASSUME Parts, NEW k \in 1 .. n, NEW i \in 1 .. k - 1
        PROVE  Entries(ss[i]) \cap Entries(ss[k]) = {}
    <3>1. i \in 1 .. n /\ i # k
      OBVIOUS
    <3>q. QED
      BY <2>1, <3>1
  <2>q. QED
    BY <2>1
<1>3. PICK g : FlatBy(g, ss, n)
  BY FlatIs
<1>4. g[0] = << >> /\ FlattenSeq(ss) = g[n] /\ \A k \in 1 .. n : g[k] = g[k - 1] \o ss[k]
  BY <1>3 DEF FlatBy
<1> DEFINE FlatTo(v, k) == /\ v \in Seq(Entries(v)) /\ Entries(v) = Up(k)
                           /\ Parts => Distinct(v)
           T == {k \in 0 .. n : FlatTo(g[k], k)}
<1>5. 0 \in T
  <2>1. << >> \in Seq(Entries(<< >>)) /\ Entries(<< >>) = {}
    BY ShortSeqs
  <2>2. Distinct(<< >>)
    BY <2>1 DEF Distinct, IsInjective
  <2>3. g[0] = << >> /\ Up(0) = {}
    BY <1>1, <1>4
  <2> HIDE DEF Up, Parts
  <2>4. FlatTo(g[0], 0)
    BY <2>1, <2>2, <2>3
  <2>q. QED
    BY <2>4
<1>6. ASSUME NEW k \in 1 .. n, k - 1 \in T PROVE k \in T
  <2>1. /\ ss[k] \in Seq(Entries(ss[k])) /\ Up(k) = Up(k - 1) \union Entries(ss[k])
        /\ Parts => Distinct(ss[k]) /\ Up(k - 1) \cap Entries(ss[k]) = {}
    BY <1>1, <1>2
  <2> HIDE DEF Up, Parts
  <2>2. g[k] = g[k - 1] \o ss[k] /\ FlatTo(g[k - 1], k - 1)
    BY <1>4, <1>6
  <2>3. /\ g[k] \in Seq(Entries(g[k])) /\ Entries(g[k]) = Up(k - 1) \union Entries(ss[k])
    BY <2>1, <2>2, Joined, JoinedEntries
  <2>4. Parts => Distinct(g[k])
    BY <2>1, <2>2, BothDistinct
  <2>5. Entries(g[k]) = Up(k)
    BY <2>1, <2>3
  <2>6. FlatTo(g[k], k)
    BY <2>3, <2>4, <2>5
  <2>q. QED
    BY <2>6
<1>7. n \in T
  <2> HIDE DEF T
  <2>1. \A k \in 0 .. n : k \in T
    BY <1>5, <1>6, Induct
  <2>q. QED
    BY <2>1
<1>q. QED
  BY <1>4, <1>7

-----------------------------------------------------------------------------
(***************************************************************************)
(* The plan of the database benchmarks.                                    *)
(***************************************************************************)
\* The points of a sweep, made of a list: a sequence, and one point for each place.
LEMMA Listed ==
  ASSUME NEW s, IsList(s)
  PROVE  s \in Seq(Entries(s)) /\ Len(s) \in Nat /\ DOMAIN s = 1 .. Len(s)
<1>1. s \in Seq(Entries(s))
  BY RowsOf DEF IsList
<1>q. QED
  BY <1>1, OwnEntries

\* A sequence that is made place by place.
LEMMA Made ==
  ASSUME NEW n \in Nat, NEW s, s = [k \in 1 .. n |-> s[k]]
  PROVE  s \in Seq(Entries(s)) /\ Len(s) = n /\ DOMAIN s = 1 .. n
<1>1. s \in Seq({s[k] : k \in 1 .. n}) /\ DOMAIN s = 1 .. n
  BY SMTT(30)
<1>2. Len(s) = n
  BY <1>1
<1>q. QED
  BY <1>1, <1>2, OwnEntries

\* The runs of a sweep: each once, and of the database.
LEMMA SweepDistinct ==
  ASSUME NEW spec \in Range(DbSpecs)
  PROVE  LET runs == build_sweep_runs(spec)
         IN  Distinct(runs) /\ \A run \in Entries(runs) : run.db = spec.db
<1> DEFINE Threads(host) ==
             [k \in DOMAIN host.threads |->
                Point(spec, host.name, spec.ws_pivot, {host.threads[k]}, "na")]
           Sizes(host) ==
             [k \in DOMAIN host.ws_values |->
                Point(spec, host.name, host.ws_values[k], {host.thread_pivot}, "na")]
           Of1(host) == Threads(host) \o Sizes(host)
           ss == [h \in DOMAIN spec.hosts |-> Of1(spec.hosts[h])]
           n == Len(spec.hosts)
<1>1. n \in Nat /\ DOMAIN spec.hosts = 1 .. n
  BY TablesAssumption, Listed
<1>2. ASSUME NEW h \in DOMAIN spec.hosts
      PROVE  ss[h] \in Seq(Entries(ss[h])) /\ \A run \in Entries(ss[h]) : run.db = spec.db
  <2>1. PICK host : host = spec.hosts[h]
    OBVIOUS
  <2>2. host \in Range(spec.hosts)
    BY <2>1 DEF Range
  <2>3. IsList(host.threads) /\ IsList(host.ws_values)
    BY <2>2, TablesAssumption
  <2>4. /\ Len(host.threads) \in Nat /\ DOMAIN host.threads = 1 .. Len(host.threads)
        /\ Len(host.ws_values) \in Nat /\ DOMAIN host.ws_values = 1 .. Len(host.ws_values)
    BY <2>3, Listed
  <2> DEFINE a == Threads(host)
             b == Sizes(host)
  <2>5. \A k \in DOMAIN a : a[k].db = spec.db
    BY DEF Point
  <2>6. \A k \in DOMAIN b : b[k].db = spec.db
    BY DEF Point
  <2>7. a = [k \in 1 .. Len(host.threads) |-> a[k]] /\ b = [k \in 1 .. Len(host.ws_values) |-> b[k]]
    BY <2>4
  <2>8. ss[h] = a \o b
    BY <2>1
  <2> HIDE DEF a, b
  <2>9. a \in Seq(Entries(a)) /\ b \in Seq(Entries(b))
    BY <2>4, <2>7, Made
  <2>10. a \o b \in Seq(Entries(a \o b)) /\ Entries(a \o b) = Entries(a) \union Entries(b)
    BY <2>9, Joined, JoinedEntries
  <2>11. (\A run \in Entries(a) : run.db = spec.db) /\ (\A run \in Entries(b) : run.db = spec.db)
    BY <2>5, <2>6 DEF Entries
  <2>q. QED
    BY <2>8, <2>10, <2>11
<1>3. build_sweep_runs(spec) = Once(FlattenSeq(ss))
  BY DEF build_sweep_runs
<1>4. ss = [h \in 1 .. n |-> ss[h]]
  BY <1>1
<1> HIDE DEF ss, n
<1> DEFINE flat == FlattenSeq(ss)
<1>5. flat \in Seq(Entries(flat)) /\ Entries(flat) = UNION {Entries(ss[h]) : h \in 1 .. n}
  BY <1>1, <1>2, <1>4, FlatKeeps
<1> HIDE DEF flat
<1>6. Distinct(Once(flat)) /\ Entries(Once(flat)) = Entries(flat)
  BY <1>5, OnceKeeps
<1>7. \A run \in Entries(flat) : run.db = spec.db
  BY <1>1, <1>2, <1>5
<1>q. QED
  BY <1>3, <1>6, <1>7 DEF flat

\* The runs of YCSB: each once, as hosts, sizes and persistences are.
LEMMA YcsbDistinct ==
  ASSUME NEW spec \in Range(DbSpecs)
  PROVE  LET runs == build_ycsb_runs(spec)
         IN  Distinct(runs) /\ \A run \in Entries(runs) : run.db = spec.db
<1> DEFINE Of1(host, persistence) ==
             [k \in DOMAIN host.ws_values |->
                Point(spec, host.name, host.ws_values[k],
                      IF host.ws_values[k] = spec.ws_pivot THEN Range(host.threads)
                      ELSE {host.thread_pivot}, persistence)]
           Part(p) == [h \in DOMAIN spec.hosts |-> Of1(spec.hosts[h], spec.persistence[p])]
           ss == [p \in DOMAIN spec.persistence |-> FlattenSeq(Part(p))]
           n == Len(spec.hosts)
           m == Len(spec.persistence)
<1>1. n \in Nat /\ DOMAIN spec.hosts = 1 .. n /\ m \in Nat /\ DOMAIN spec.persistence = 1 .. m
  BY TablesAssumption, Listed
<1>2. ASSUME NEW p \in DOMAIN spec.persistence, NEW h \in DOMAIN spec.hosts
      PROVE  /\ Distinct(Part(p)[h])
             /\ \A run \in Entries(Part(p)[h]) :
                  /\ run.db = spec.db /\ run.host = spec.hosts[h].name
                  /\ run.persistence = spec.persistence[p]
  <2>1. PICK host : host = spec.hosts[h]
    OBVIOUS
  <2>2. host \in Range(spec.hosts)
    BY <2>1 DEF Range
  <2>3. IsList(host.ws_values) /\ IsInjective(host.ws_values)
    BY <2>2, TablesAssumption
  <2>4. Len(host.ws_values) \in Nat /\ DOMAIN host.ws_values = 1 .. Len(host.ws_values)
    BY <2>3, Listed
  <2> DEFINE a == Of1(host, spec.persistence[p])
  <2>5. ASSUME NEW k \in DOMAIN a
        PROVE  /\ a[k].db = spec.db /\ a[k].host = host.name
               /\ a[k].persistence = spec.persistence[p] /\ a[k].ws = host.ws_values[k]
    BY DEF Point
  <2>6. Part(p)[h] = a
    BY <2>1
  <2>7. a = [k \in 1 .. Len(host.ws_values) |-> a[k]] /\ DOMAIN a = DOMAIN host.ws_values
    BY <2>4
  <2> HIDE DEF a
  <2>8. a \in Seq(Entries(a))
    BY <2>4, <2>7, Made
  <2>9. IsInjective(a)
    <3>1. ASSUME NEW i \in DOMAIN a, NEW j \in DOMAIN a, a[i] = a[j] PROVE i = j
      <4>1. host.ws_values[i] = host.ws_values[j]
        BY <2>5, <3>1
      <4>q. QED
        BY <2>3, <2>7, <4>1 DEF IsInjective
    <3>q. QED
      BY <3>1 DEF IsInjective
  <2>10. Distinct(a)
    BY <2>8, <2>9 DEF Distinct
  <2>11. \A run \in Entries(a) : /\ run.db = spec.db /\ run.host = host.name
                                  /\ run.persistence = spec.persistence[p]
    BY <2>5 DEF Entries
  <2>q. QED
    BY <2>1, <2>6, <2>10, <2>11
<1>3. ASSUME NEW p \in DOMAIN spec.persistence
      PROVE  /\ Distinct(ss[p])
             /\ \A run \in Entries(ss[p]) :
                  run.db = spec.db /\ run.persistence = spec.persistence[p]
  <2> DEFINE part == Part(p)
  <2>1. ss[p] = FlattenSeq(part) /\ part = [h \in 1 .. n |-> part[h]]
    BY <1>1
  <2>2. ASSUME NEW h \in 1 .. n
        PROVE  /\ Distinct(part[h])
               /\ \A run \in Entries(part[h]) :
                    /\ run.db = spec.db /\ run.host = spec.hosts[h].name
                    /\ run.persistence = spec.persistence[p]
    BY <1>1, <1>2
  <2> HIDE DEF part, ss, n
  <2>3. \A h \in 1 .. n : part[h] \in Seq(Entries(part[h])) /\ Distinct(part[h])
    BY <2>2 DEF Distinct
  <2>4. ASSUME NEW g \in 1 .. n, NEW h \in 1 .. n, g # h
        PROVE  Entries(part[g]) \cap Entries(part[h]) = {}
    <3>1. spec.hosts[g].name # spec.hosts[h].name
      BY <1>1, <2>4, TablesAssumption
    <3>q. QED
      BY <2>2, <3>1
  <2> DEFINE flat == FlattenSeq(part)
  <2>5. Distinct(flat) /\ Entries(flat) = UNION {Entries(part[h]) : h \in 1 .. n}
    BY <1>1, <2>1, <2>3, <2>4, FlatKeeps
  <2>q. QED
    BY <2>1, <2>2, <2>5
<1>4. build_ycsb_runs(spec) = FlattenSeq(ss)
  BY DEF build_ycsb_runs
<1>5. ss = [p \in 1 .. m |-> ss[p]]
  BY <1>1
<1> HIDE DEF ss, m
<1>6. ASSUME NEW p \in 1 .. m, NEW q \in 1 .. m, p # q PROVE Entries(ss[p]) \cap Entries(ss[q]) = {}
  <2>1. spec.persistence[p] # spec.persistence[q]
    BY <1>1, <1>6, TablesAssumption DEF IsInjective
  <2>q. QED
    BY <1>1, <1>3, <2>1
<1>7. \A p \in 1 .. m : ss[p] \in Seq(Entries(ss[p])) /\ Distinct(ss[p])
  BY <1>1, <1>3 DEF Distinct
<1> DEFINE flat == FlattenSeq(ss)
<1>8. Distinct(flat) /\ Entries(flat) = UNION {Entries(ss[p]) : p \in 1 .. m}
  BY <1>1, <1>5, <1>6, <1>7, FlatKeeps
<1>q. QED
  BY <1>1, <1>3, <1>4, <1>8

\* All runs of a database, whatever the arguments.
LEMMA RunsDistinct ==
  ASSUME NEW spec \in Range(DbSpecs), NEW full
  PROVE  LET runs == build_runs(spec, full)
         IN  Distinct(runs) /\ \A run \in Entries(runs) : run.db = spec.db
<1>1. CASE full /\ spec.kind = "ycsb"
  <2>1. build_runs(spec, full) = build_ycsb_runs(spec)
    BY <1>1 DEF build_runs
  <2>q. QED
    BY <2>1, YcsbDistinct
<1>2. CASE full /\ spec.kind = "sweep"
  <2>1. build_runs(spec, full) = build_sweep_runs(spec)
    BY <1>2 DEF build_runs
  <2>q. QED
    BY <2>1, SweepDistinct
<1>3. CASE ~(full /\ spec.kind = "ycsb") /\ ~(full /\ spec.kind = "sweep")
  <2>1. build_runs(spec, full) = <<build_baseline_run(spec)>>
    BY <1>3 DEF build_runs
  <2>2. \A x : Distinct(<<x>>)
    <3>1. \A x : DOMAIN <<x>> = {1}
      OBVIOUS
    <3>2. \A x : IsInjective(<<x>>)
      BY <3>1 DEF IsInjective
    <3>q. QED
      BY <3>2, ShortSeqs DEF Distinct
  <2>3. build_baseline_run(spec).db = spec.db
    BY DEF build_baseline_run
  <2>q. QED
    BY <2>1, <2>2, <2>3, ShortSeqs
<1>q. QED
  BY <1>1, <1>2, <1>3

\* The repetitions of some runs.
LEMMA RepsDistinct ==
  ASSUME NEW runs, Distinct(runs)
  PROVE  LET jobs == FlattenSeq([rep \in 1 .. Repetitions |->
                       [k \in DOMAIN runs |-> [rep |-> rep, run |-> runs[k]]]])
         IN  Distinct(jobs) /\ \A job \in Entries(jobs) : job.run \in Entries(runs)
<1> DEFINE ss == [rep \in 1 .. Repetitions |->
                    [k \in DOMAIN runs |-> [rep |-> rep, run |-> runs[k]]]]
<1>1. Repetitions \in Nat
  BY BenchAssumption
<1>2. Len(runs) \in Nat /\ DOMAIN runs = 1 .. Len(runs)
  BY OwnEntries DEF Distinct
<1>3. ASSUME NEW rep \in 1 .. Repetitions
      PROVE  /\ Distinct(ss[rep])
             /\ \A job \in Entries(ss[rep]) : job.rep = rep /\ job.run \in Entries(runs)
  <2> DEFINE a == [k \in DOMAIN runs |-> [rep |-> rep, run |-> runs[k]]]
  <2>1. ss[rep] = a
    OBVIOUS
  <2>2. \A k \in DOMAIN a : a[k].rep = rep /\ a[k].run = runs[k]
    OBVIOUS
  <2>3. a = [k \in 1 .. Len(runs) |-> a[k]] /\ DOMAIN a = DOMAIN runs
    BY <1>2
  <2> HIDE DEF a
  <2>4. a \in Seq(Entries(a))
    BY <1>2, <2>3, Made
  <2>5. IsInjective(a)
    BY <2>2, <2>3 DEF IsInjective, Distinct
  <2>6. Distinct(a)
    BY <2>4, <2>5 DEF Distinct
  <2>7. \A job \in Entries(a) : job.rep = rep /\ job.run \in Entries(runs)
    BY <2>2, <2>3 DEF Entries
  <2>q. QED
    BY <2>1, <2>6, <2>7
<1>4. ss = [rep \in 1 .. Repetitions |-> ss[rep]]
  OBVIOUS
<1> HIDE DEF ss
<1>5. \A rep \in 1 .. Repetitions : ss[rep] \in Seq(Entries(ss[rep])) /\ Distinct(ss[rep])
  BY <1>3 DEF Distinct
<1>6. \A a, b \in 1 .. Repetitions : a # b => Entries(ss[a]) \cap Entries(ss[b]) = {}
  BY <1>3
<1> DEFINE flat == FlattenSeq(ss)
<1>7. Distinct(flat) /\ Entries(flat) = UNION {Entries(ss[rep]) : rep \in 1 .. Repetitions}
  BY <1>1, <1>4, <1>5, <1>6, FlatKeeps
<1>8. \A job \in Entries(flat) : job.run \in Entries(runs)
  BY <1>3, <1>7
<1>q. QED
  BY <1>7, <1>8 DEF ss

\* No plan has a job twice.
LEMMA JobsDistinct ==
  ASSUME NEW args
  PROVE  Distinct(Jobs(args))
<1> DEFINE Picked(d) == Chosen(build_runs(DbSpecs[d], args.full), args)
           Part(d) == FlattenSeq([rep \in 1 .. Repetitions |->
                        [k \in DOMAIN Picked(d) |-> [rep |-> rep, run |-> Picked(d)[k]]]])
           ss == [d \in DOMAIN DbSpecs |-> Part(d)]
           n == Len(DbSpecs)
<1>1. n \in Nat /\ DOMAIN DbSpecs = 1 .. n
  BY TablesAssumption, Listed
<1>2. ASSUME NEW d \in DOMAIN DbSpecs
      PROVE  Distinct(Picked(d)) /\ \A run \in Entries(Picked(d)) : run.db = DbSpecs[d].db
  <2> DEFINE all == build_runs(DbSpecs[d], args.full)
             S == {run \in Range(all) :
                     /\ args.host = "any" \/ run.host = args.host
                     /\ \/ args.persistence = "any"
                        \/ run.kind = "ycsb" /\ run.persistence = args.persistence}
  <2>1. DbSpecs[d] \in Range(DbSpecs)
    BY DEF Range
  <2>2. Distinct(all) /\ \A run \in Entries(all) : run.db = DbSpecs[d].db
    BY <2>1, RunsDistinct
  <2>3. Picked(d) = Only(all, S)
    BY DEF Chosen
  <2> HIDE DEF all, S
  <2>4. Entries(Only(all, S)) = Entries(all) \cap S /\ Distinct(Only(all, S))
    BY <2>2, OnlyKeeps DEF Distinct
  <2>q. QED
    BY <2>2, <2>3, <2>4
<1> HIDE DEF Picked
<1>3. ASSUME NEW d \in DOMAIN DbSpecs
      PROVE  Distinct(ss[d]) /\ \A job \in Entries(ss[d]) : job.run.db = DbSpecs[d].db
  <2>1. Distinct(Part(d)) /\ \A job \in Entries(Part(d)) : job.run \in Entries(Picked(d))
    BY <1>2, RepsDistinct
  <2>q. QED
    BY <1>2, <2>1
<1>4. Jobs(args) = FlattenSeq(ss)
  BY DEF Jobs, Picked
<1>5. ss = [d \in 1 .. n |-> ss[d]]
  BY <1>1
<1> HIDE DEF ss, n
<1>6. ASSUME NEW d \in 1 .. n, NEW e \in 1 .. n, d # e PROVE Entries(ss[d]) \cap Entries(ss[e]) = {}
  <2>1. DbSpecs[d].db # DbSpecs[e].db
    BY <1>1, <1>6, TablesAssumption
  <2>q. QED
    BY <1>1, <1>3, <2>1
<1>7. \A d \in 1 .. n : ss[d] \in Seq(Entries(ss[d])) /\ Distinct(ss[d])
  BY <1>1, <1>3 DEF Distinct
<1> DEFINE flat == FlattenSeq(ss)
<1>8. Distinct(flat)
  BY <1>1, <1>5, <1>6, <1>7, FlatKeeps
<1>q. QED
  BY <1>4, <1>8
-----------------------------------------------------------------------------
(***************************************************************************)
(* The threads that work the plan off.                                     *)
(***************************************************************************)
Active == mainThread \in {"opened", "running", "completed"}
Mine == {e \in recorded : e.sweep = invocation}
DoneJobs == {e.job : e \in Mine}

\* The plan is what is done and what is left in the queues, no run twice; who has
\* a run in hand has it at the head of its queue.
PlanInv ==
  /\ invocation \in Nat /\ sequential \in BOOLEAN
  /\ mainThread \in {"off", "opened", "running", "completed", "crashed", "interrupted", "killed"}
  /\ queues = [q \in Queues |-> queues[q]] /\ pc = [q \in Queues |-> pc[q]]
  /\ \A q \in Queues :
       /\ pc[q] \in {"none", "next", "execute", "record", "write", "status", "ended", "dead"}
       /\ pc[q] \in {"write", "status"} => lock = q
  /\ lock \in Queues \union {Nobody} /\ (lock # Nobody => pc[lock] \in {"write", "status"})
  /\ \A e \in recorded : e = [sweep |-> e.sweep, job |-> e.job] /\ e.sweep \in 1 .. invocation
  /\ ~Active => queues = Nothing /\ state = NotStarted /\ lock = Nobody

QueuesInv ==
  /\ invocation # 0
  /\ Distinct(planned) /\ \A q \in Queues : Distinct(queues[q])
  /\ \A q, r \in Queues : q # r => Entries(queues[q]) \cap Entries(queues[r]) = {}
  /\ \A q \in Queues : Entries(queues[q]) \cap DoneJobs = {}
  /\ Entries(planned) = DoneJobs \union Entries(queues["eliza"]) \union Entries(queues["ace"])
  /\ state = [done |-> state.done, warnings |-> state.warnings, total |-> state.total]
  /\ IsFiniteSet(Mine) /\ state.done = Cardinality(Mine) /\ state.total = Len(planned)
  /\ state.done + Len(queues["eliza"]) + Len(queues["ace"]) = state.total
  /\ ~sequential => \A q \in Queues : \A job \in Entries(queues[q]) : HostQueue(job.run) = q

ActiveInv ==
  /\ QueuesInv
  /\ \A q \in Queues :
       /\ pc[q] # "none"
       /\ pc[q] \in {"execute", "record", "write"} => queues[q] # << >>
       /\ pc[q] = "ended" => queues[q] = << >>
       /\ pc[q] = "dead" => ~sequential
  /\ sequential => pc["ace"] = "ended"
  /\ mainThread = "completed" => \A q \in Queues : pc[q] \in {"ended", "dead"}

RunLines(entry) == [sweep : {entry.sweep}, job : {entry.job}, row : Nat]
\* From its place a on, a sequence has n lines of a run, and no others of it.
Has(s, entry, a, n) == \A k \in DOMAIN s : s[k] \in RunLines(entry) <=> k \in a + 1 .. a + n
Whole(entry) ==
  \E outcome \in Outcomes, a \in 0 .. Len(table) :
    a + outcome.rows <= Len(table) /\ Has(Everything, entry, a, outcome.rows)
Loose(line) ==
  /\ line # Header /\ line.sweep = invocation
  /\ [sweep |-> line.sweep, job |-> line.job] \notin recorded

\* The rows in the hands of a thread are of its run; those that it has written
\* and those that it has still to write are all that the run has given.
InHand(q) ==
  LET entry == [sweep |-> invocation, job |-> Head(queues[q])]
  IN  /\ pc[q] \in {"record", "write"} => Entries(out[q]) \subseteq RunLines(entry)
      /\ pc[q] = "record" => \E outcome \in Outcomes : Len(out[q]) = outcome.rows
      /\ pc[q] = "write" =>
           \E outcome \in Outcomes, a \in 0 .. Len(Everything) :
             /\ Len(Everything) - a + Len(out[q]) = outcome.rows
             /\ Has(Everything, entry, a, Len(Everything) - a)

\* A run that is done has all its rows in the file, and next to each other; the
\* others have only what the thread that writes, or died when it did, has left.
FileOfRuns ==
  /\ \A line \in Entries(Everything) :
       \/ line = Header
       \/ /\ line \in RunLines([sweep |-> line.sweep, job |-> line.job])
          /\ line.sweep \in 1 .. invocation
  /\ \A entry \in recorded : Whole(entry)

Threads ==
  /\ \A line \in Entries(Everything) : Loose(line) =>
       \E q \in Queues :
         pc[q] \in {"write", "dead"} /\ queues[q] # << >> /\ line.job = Head(queues[q])
  /\ \A q \in Queues : InHand(q)

Leftovers ==
  \A l, m \in Entries(Everything) :
    Loose(l) /\ Loose(m) /\ HostQueue(l.job.run) = HostQueue(m.job.run) => l.job = m.job

RunsInv ==
  /\ PlanInv /\ (Active => ActiveInv)
  /\ driver = "dbms" => FileOfRuns /\ IF Active THEN Threads ELSE Leftovers

\* Without its head, a sequence that has each entry once has all others.
LEMMA Popped ==
  ASSUME NEW s, Distinct(s), s # << >>
  PROVE  /\ Distinct(Tail(s)) /\ Head(s) \in Entries(s)
         /\ Entries(Tail(s)) = Entries(s) \ {Head(s)}
         /\ Len(Tail(s)) = Len(s) - 1 /\ Len(s) \in Nat \ {0}
<1>1. s \in Seq(Entries(s)) /\ IsInjective(s)
  BY DEF Distinct
<1>2. Len(s) \in Nat \ {0} /\ DOMAIN s = 1 .. Len(s) /\ Head(s) = s[1]
  BY <1>1, EmptySeq, LenProperties
<1> DEFINE t == Tail(s)
<1>3. /\ t \in Seq(Entries(s)) /\ Len(t) = Len(s) - 1
      /\ \A i \in 1 .. Len(t) : t[i] = s[i + 1]
  BY <1>1, HeadTailProperties
<1> HIDE DEF t
<1>4. t \in Seq(Entries(t)) /\ DOMAIN t = 1 .. Len(t)
  BY <1>3, OwnEntries
<1>5. \A i \in DOMAIN t : i + 1 \in DOMAIN s /\ i + 1 # 1 /\ t[i] = s[i + 1]
  BY <1>2, <1>3, <1>4
<1>6. \A k \in DOMAIN s : k # 1 => k - 1 \in DOMAIN t /\ s[k] = t[k - 1]
  BY <1>2, <1>3, <1>4
<1>7. 1 \in DOMAIN s /\ \A k \in DOMAIN s : s[k] = s[1] => k = 1
  BY <1>1, <1>2 DEF IsInjective
<1>8. IsInjective(t)
  <2>1. ASSUME NEW i \in DOMAIN t, NEW j \in DOMAIN t, t[i] = t[j] PROVE i = j
    <3>1. i + 1 = j + 1
      BY <1>1, <1>5, <2>1 DEF IsInjective
    <3>q. QED
      BY <1>4, <3>1
  <2>q. QED
    BY <2>1 DEF IsInjective
<1>9. ASSUME NEW x PROVE x \in Entries(t) <=> x \in Entries(s) /\ x # s[1]
  <2>1. ASSUME x \in Entries(t) PROVE x \in Entries(s) /\ x # s[1]
    <3>1. PICK i \in DOMAIN t : x = t[i]
      BY <2>1 DEF Entries
    <3>q. QED
      BY <1>5, <1>7, <3>1 DEF Entries
  <2>2. ASSUME x \in Entries(s), x # s[1] PROVE x \in Entries(t)
    <3>1. PICK k \in DOMAIN s : x = s[k]
      BY <2>2 DEF Entries
    <3>q. QED
      BY <1>6, <2>2, <3>1 DEF Entries
  <2>q. QED
    BY <2>1, <2>2
<1>10. s[1] \in Entries(s)
  BY <1>7 DEF Entries
<1>q. QED
  BY <1>2, <1>3, <1>4, <1>8, <1>9, <1>10 DEF Distinct, t

\* While no run is recorded, the queues stay what they are.
LEMMA RestQueues ==
  ASSUME QueuesInv, UNCHANGED <<sequential, queues, state, invocation, recorded, planned>>
  PROVE  QueuesInv'
<1>1. Mine' = Mine /\ DoneJobs' = DoneJobs
  BY DEF Mine, DoneJobs
<1>2. \A q \in Queues : Entries(queues[q])' = Entries(queues[q])
  BY DEF Entries
<1>3. Distinct(planned)' /\ \A q \in Queues : Distinct(queues[q])'
  <2>1. Distinct(planned) /\ \A q \in Queues : Distinct(queues[q])
    BY DEF QueuesInv
  <2>2. Distinct(planned)'
    BY <2>1 DEF Distinct, Entries
  <2>3. ASSUME NEW q \in Queues PROVE Distinct(queues[q])'
    BY <2>1 DEF Distinct, Entries
  <2>q. QED
    BY <2>2, <2>3
<1>4. Entries(planned)' = Entries(planned) /\ Entries(queues["eliza"])' = Entries(queues["eliza"])
      /\ Entries(queues["ace"])' = Entries(queues["ace"])
  BY DEF Entries
<1>q. QED
  BY <1>1, <1>2, <1>3, <1>4 DEF QueuesInv

\* A thread goes on, dies or ends, and nothing else changes but the lock.
LEMMA MovePlan ==
  ASSUME PlanInv, ActiveInv, mainThread = "running",
         UNCHANGED <<mainThread, sequential, queues, state, invocation, recorded, planned>>,
         NEW q \in Queues, pc[q] # "ended",
         NEW p \in {"next", "execute", "record", "write", "ended", "dead"},
         pc' = [pc EXCEPT ![q] = p],
         p \in {"execute", "record", "write"} => queues[q] # << >>,
         p = "ended" => queues[q] = << >>, p = "dead" => ~sequential,
         lock' \in Queues \union {Nobody}, p = "write" => lock' = q,
         \A r \in Queues : r # q /\ pc[r] \in {"write", "status"} => lock' = r,
         lock' = q => p = "write",
         lock' \notin {q, Nobody} => pc[lock'] \in {"write", "status"}
  PROVE  PlanInv' /\ ActiveInv'
<1>1. pc' = [r \in Queues |-> IF r = q THEN p ELSE pc[r]]
  BY DEF PlanInv
<1>2. \A r \in Queues : pc'[r] = IF r = q THEN p ELSE pc[r]
  BY <1>1
<1>3. pc' = [r \in Queues |-> pc'[r]]
  BY <1>1
<1>4. Active /\ Active'
  BY DEF Active
<1>5. lock' # Nobody => pc'[lock'] \in {"write", "status"}
  BY <1>2
<1>6. PlanInv'
  <2>1. \A r \in Queues :
          /\ pc'[r] \in {"none", "next", "execute", "record", "write", "status", "ended", "dead"}
          /\ pc'[r] \in {"write", "status"} => lock' = r
    BY <1>2 DEF PlanInv
  <2>q. QED
    BY <1>3, <1>4, <1>5, <2>1 DEF PlanInv
<1>7. QueuesInv'
  BY RestQueues DEF ActiveInv
<1>8. \A r \in Queues :
        /\ pc'[r] # "none"
        /\ pc'[r] \in {"execute", "record", "write"} => queues[r] # << >>
        /\ pc'[r] = "ended" => queues[r] = << >>
        /\ pc'[r] = "dead" => ~sequential
  BY <1>2 DEF ActiveInv
<1>9. sequential => pc'["ace"] = "ended"
  <2>1. "ace" \in Queues
    BY DEF Queues
  <2>q. QED
    BY <1>2, <2>1 DEF ActiveInv
<1>10. ActiveInv'
  BY <1>7, <1>8, <1>9 DEF ActiveInv
<1>q. QED
  BY <1>6, <1>10

\* A run that is recorded leaves its queue for the runs that are done.
LEMMA RecordPlan ==
  ASSUME PlanInv, ActiveInv, NEW q \in Queues, Record(q)
  PROVE  PlanInv' /\ ActiveInv'
<1> DEFINE job == Head(queues[q])
           entry == [sweep |-> invocation, job |-> job]
<1>1. /\ mainThread = "running" /\ pc[q] = "write"
      /\ state' = [state EXCEPT !.done = @ + 1, !.warnings = @ + IF ok[q] THEN 0 ELSE 1]
      /\ recorded' = recorded \union {entry}
      /\ queues' = [queues EXCEPT ![q] = Tail(@)] /\ pc' = [pc EXCEPT ![q] = "status"]
      /\ UNCHANGED <<lock, mainThread, sequential, invocation, planned>>
  BY DEF Record, Works
<1>2. Active /\ Active'
  BY <1>1 DEF Active
<1>3. /\ \A r \in Queues : pc'[r] = IF r = q THEN "status" ELSE pc[r]
      /\ \A r \in Queues : queues'[r] = IF r = q THEN Tail(queues[q]) ELSE queues[r]
      /\ pc' = [r \in Queues |-> pc'[r]] /\ queues' = [r \in Queues |-> queues'[r]]
  <2>1. /\ pc' = [r \in Queues |-> IF r = q THEN "status" ELSE pc[r]]
        /\ queues' = [r \in Queues |-> IF r = q THEN Tail(queues[q]) ELSE queues[r]]
    BY <1>1 DEF PlanInv
  <2>q. QED
    BY <2>1
<1>4. lock = q /\ \A r \in Queues : r # q => pc[r] \notin {"write", "status"}
  BY <1>1 DEF PlanInv
<1>5. /\ Distinct(queues[q]) /\ queues[q] # << >>
      /\ \A r \in Queues : r # q => Entries(queues[r]) \cap Entries(queues[q]) = {}
      /\ \A r \in Queues : Entries(queues[r]) \cap DoneJobs = {}
      /\ \A r \in Queues : Distinct(queues[r])
  BY <1>1 DEF ActiveInv, QueuesInv
<1>6. /\ Distinct(Tail(queues[q])) /\ job \in Entries(queues[q])
      /\ Entries(Tail(queues[q])) = Entries(queues[q]) \ {job}
      /\ Len(Tail(queues[q])) = Len(queues[q]) - 1 /\ Len(queues[q]) \in Nat \ {0}
  BY <1>5, Popped
<1> HIDE DEF job
<1>7. job \notin DoneJobs /\ \A r \in Queues : r # q => job \notin Entries(queues[r])
  BY <1>5, <1>6
<1>8. entry.sweep = invocation /\ entry.job = job
  OBVIOUS
<1>9. Mine' = Mine \union {entry} /\ entry \notin Mine
  <2>1. entry \notin Mine
    BY <1>7, <1>8 DEF DoneJobs
  <2>2. \A e : e \in Mine' <=> e \in Mine \/ e = entry
    BY <1>1, <1>8 DEF Mine
  <2>q. QED
    BY <2>1, <2>2
<1>10. \A j : j \in DoneJobs' <=> j \in DoneJobs \/ j = job
  BY <1>8, <1>9 DEF DoneJobs
<1>11. \A r \in Queues : Entries(queues'[r]) =
         IF r = q THEN Entries(queues[q]) \ {job} ELSE Entries(queues[r])
  BY <1>3, <1>6
<1>12. invocation \in Nat \ {0}
  BY DEF PlanInv, ActiveInv, QueuesInv
<1>13. PlanInv'
  <2>1. \A e \in recorded' : e = [sweep |-> e.sweep, job |-> e.job] /\ e.sweep \in 1 .. invocation
    <3>1. invocation \in 1 .. invocation
      BY <1>12
    <3>q. QED
      BY <1>1, <1>8, <3>1 DEF PlanInv
  <2>2. \A r \in Queues :
          /\ pc'[r] \in {"none", "next", "execute", "record", "write", "status", "ended", "dead"}
          /\ pc'[r] \in {"write", "status"} => lock' = r
    BY <1>1, <1>3, <1>4 DEF PlanInv
  <2>3. lock' \in Queues /\ pc'[lock'] \in {"write", "status"}
    BY <1>1, <1>3, <1>4
  <2>q. QED
    BY <1>1, <1>2, <1>3, <2>1, <2>2, <2>3 DEF PlanInv
<1>14. \A r \in Queues :
         /\ Distinct(queues'[r]) /\ Entries(queues'[r]) \cap DoneJobs' = {}
         /\ \A s \in Queues : r # s => Entries(queues'[r]) \cap Entries(queues'[s]) = {}
  <2>1. \A r \in Queues : Distinct(queues'[r])
    BY <1>3, <1>5, <1>6
  <2>2. \A r \in Queues : Entries(queues'[r]) \cap DoneJobs' = {}
    BY <1>5, <1>7, <1>10, <1>11
  <2>3. \A r, s \in Queues : r # s => Entries(queues[r]) \cap Entries(queues[s]) = {}
    BY DEF ActiveInv, QueuesInv
  <2>4. ASSUME NEW r \in Queues, NEW s \in Queues, r # s
        PROVE  Entries(queues'[r]) \cap Entries(queues'[s]) = {}
    BY <1>11, <2>3, <2>4
  <2>q. QED
    BY <2>1, <2>2, <2>4
<1>15. q = "eliza" \/ q = "ace"
  BY DEF Queues
<1>16. "eliza" \in Queues /\ "ace" \in Queues /\ "eliza" # "ace"
  BY DEF Queues
<1>17. Entries(planned) =
         DoneJobs' \union Entries(queues'["eliza"]) \union Entries(queues'["ace"])
  <2>1. Entries(planned) = DoneJobs \union Entries(queues["eliza"]) \union Entries(queues["ace"])
    BY DEF ActiveInv, QueuesInv
  <2>2. CASE q = "eliza"
    BY <1>6, <1>10, <1>11, <1>16, <2>1, <2>2
  <2>3. CASE q = "ace"
    BY <1>6, <1>10, <1>11, <1>16, <2>1, <2>3
  <2>q. QED
    BY <1>15, <2>2, <2>3
<1>18. /\ state' = [done |-> state'.done, warnings |-> state'.warnings, total |-> state'.total]
       /\ state'.done = state.done + 1 /\ state'.total = state.total
  <2>1. state = [done |-> state.done, warnings |-> state.warnings, total |-> state.total]
    BY DEF ActiveInv, QueuesInv
  <2>2. PICK w : w = state.warnings + IF ok[q] THEN 0 ELSE 1
    OBVIOUS
  <2>3. state' = [done |-> state.done + 1, warnings |-> w, total |-> state.total]
    BY <1>1, <2>1, <2>2
  <2>q. QED
    BY <2>3
<1>19. IsFiniteSet(Mine') /\ state'.done = Cardinality(Mine')
  <2>1. IsFiniteSet(Mine) /\ state.done = Cardinality(Mine)
    BY DEF ActiveInv, QueuesInv
  <2>2. PICK mine : mine = Mine
    OBVIOUS
  <2>3. Mine' = mine \union {entry}
    BY <1>9, <2>2
  <2> HIDE DEF entry
  <2>4. IsFiniteSet(mine \union {entry}) /\ Cardinality(mine \union {entry}) = Cardinality(mine) + 1
    BY <1>9, <2>1, <2>2, FS_AddElement
  <2>q. QED
    BY <1>18, <2>1, <2>2, <2>3, <2>4
<1>20. state'.done + Len(queues'["eliza"]) + Len(queues'["ace"]) = state'.total
  <2>1. \A r \in Queues : Len(queues[r]) \in Nat
    BY <1>5, DistinctLen
  <2>2. /\ state.done + Len(queues["eliza"]) + Len(queues["ace"]) = state.total
        /\ IsFiniteSet(Mine) /\ state.done = Cardinality(Mine)
    BY DEF ActiveInv, QueuesInv
  <2>3. state.done \in Nat
    BY <2>2, FS_CardinalityType
  <2>4. \A r \in Queues : Len(queues'[r]) = IF r = q THEN Len(queues[r]) - 1 ELSE Len(queues[r])
    BY <1>3, <1>6
  <2>5. CASE q = "eliza"
    <3>1. /\ Len(queues'["eliza"]) = Len(queues["eliza"]) - 1
          /\ Len(queues'["ace"]) = Len(queues["ace"])
      BY <1>16, <2>4, <2>5
    <3>2. Len(queues["eliza"]) \in Nat /\ Len(queues["ace"]) \in Nat
      BY <1>16, <2>1
    <3>3. state'.done = state.done + 1 /\ state'.total = state.total
      BY <1>18
    <3>4. state.done + Len(queues["eliza"]) + Len(queues["ace"]) = state.total
      BY <2>2
    <3>5. PICK d \in Nat, m \in Nat, n \in Nat :
            d = state.done /\ m = Len(queues["eliza"]) /\ n = Len(queues["ace"])
      BY <2>3, <3>2
    <3>6. /\ state'.done = d + 1 /\ state'.total = d + m + n
          /\ Len(queues'["eliza"]) = m - 1 /\ Len(queues'["ace"]) = n
      BY <3>1, <3>3, <3>4, <3>5
    <3>7. d + 1 + (m - 1) + n = d + m + n
      OBVIOUS
    <3>q. QED
      BY <3>6, <3>7
  <2>6. CASE q = "ace"
    <3>1. /\ Len(queues'["ace"]) = Len(queues["ace"]) - 1
          /\ Len(queues'["eliza"]) = Len(queues["eliza"])
      BY <1>16, <2>4, <2>6
    <3>2. Len(queues["eliza"]) \in Nat /\ Len(queues["ace"]) \in Nat
      BY <1>16, <2>1
    <3>3. state'.done = state.done + 1 /\ state'.total = state.total
      BY <1>18
    <3>4. state.done + Len(queues["eliza"]) + Len(queues["ace"]) = state.total
      BY <2>2
    <3>5. PICK d \in Nat, m \in Nat, n \in Nat :
            d = state.done /\ m = Len(queues["eliza"]) /\ n = Len(queues["ace"])
      BY <2>3, <3>2
    <3>6. /\ state'.done = d + 1 /\ state'.total = d + m + n
          /\ Len(queues'["eliza"]) = m /\ Len(queues'["ace"]) = n - 1
      BY <3>1, <3>3, <3>4, <3>5
    <3>7. d + 1 + m + (n - 1) = d + m + n
      OBVIOUS
    <3>q. QED
      BY <3>6, <3>7
  <2>q. QED
    BY <1>15, <2>5, <2>6
<1>21. \A r \in Queues :
         /\ pc'[r] # "none"
         /\ pc'[r] \in {"execute", "record", "write"} => queues'[r] # << >>
         /\ pc'[r] = "ended" => queues'[r] = << >>
         /\ pc'[r] = "dead" => ~sequential
  BY <1>3 DEF ActiveInv
<1>26. ~sequential => \A r \in Queues : \A j \in Entries(queues'[r]) : HostQueue(j.run) = r
  BY <1>11 DEF ActiveInv, QueuesInv
<1>22. sequential => pc'["ace"] = "ended"
  BY <1>1, <1>3, <1>16 DEF ActiveInv
<1>23. Distinct(planned) /\ state'.total = Len(planned)
  BY <1>18 DEF ActiveInv, QueuesInv
<1>24. Distinct(planned)' /\ Entries(planned)' = Entries(planned)
  BY <1>1, <1>23 DEF Distinct, Entries
<1>25. ActiveInv'
  <2>1. QueuesInv'
    BY <1>1, <1>12, <1>14, <1>17, <1>18, <1>19, <1>20, <1>26, <1>23, <1>24
       DEF QueuesInv, Distinct, Entries
  <2>q. QED
    BY <1>1, <1>21, <1>22, <2>1 DEF ActiveInv
<1>q. QED
  BY <1>13, <1>25

\* A new plan is distributed over the queues.
LEMMA StartPlan ==
  ASSUME PlanInv, Active => ActiveInv, StartBench
  PROVE  PlanInv' /\ ActiveInv' /\ Mine' = {}
<1>1. PICK args \in Plans, append \in BOOLEAN, seq \in BOOLEAN :
        LET jobs == Jobs(args)
            On(q) == Only(jobs, {job \in Range(jobs) : HostQueue(job.run) = q})
        IN  /\ jobs # << >>
            /\ planned' = jobs /\ sequential' = seq
            /\ queues' = IF seq THEN [q \in Queues |-> IF q = "eliza"
                                        THEN On("eliza") \o On("ace") ELSE << >>]
                         ELSE [q \in Queues |-> On(q)]
            /\ pc' = [q \in Queues |-> IF seq /\ q = "ace" THEN "ended" ELSE "next"]
            /\ state' = [done |-> 0, warnings |-> 0, total |-> Len(jobs)]
            /\ OpenFile(append, IF append /\ exists THEN << >> ELSE <<Header>>)
            /\ recorded' = IF append THEN recorded ELSE {}
  BY Zenon DEF StartBench
<1>2. /\ mainThread \notin {"opened", "running"} /\ mainThread' = "opened"
      /\ invocation' = invocation + 1 /\ lock' = lock
  BY DEF StartBench
<1> DEFINE jobs == Jobs(args)
           On(q) == Only(jobs, {job \in Range(jobs) : HostQueue(job.run) = q})
<1>3. Distinct(jobs)
  BY JobsDistinct
<1>4. /\ planned' = jobs /\ sequential' = seq
      /\ queues' = IF seq THEN [q \in Queues |-> IF q = "eliza"
                                  THEN On("eliza") \o On("ace") ELSE << >>]
                   ELSE [q \in Queues |-> On(q)]
      /\ pc' = [q \in Queues |-> IF seq /\ q = "ace" THEN "ended" ELSE "next"]
      /\ state' = [done |-> 0, warnings |-> 0, total |-> Len(jobs)]
      /\ recorded' = IF append THEN recorded ELSE {}
  BY <1>1
<1> HIDE DEF jobs
<1>5. ASSUME NEW q \in Queues
      PROVE  /\ Distinct(On(q))
             /\ Entries(On(q)) = {job \in Entries(jobs) : HostQueue(job.run) = q}
  <2> DEFINE S == {job \in Range(jobs) : HostQueue(job.run) = q}
  <2>1. jobs \in Seq(Entries(jobs)) /\ Range(jobs) = Entries(jobs)
    BY <1>3, RowsOf DEF Distinct
  <2>2. Entries(jobs) \cap S = {job \in Entries(jobs) : HostQueue(job.run) = q}
    BY <2>1
  <2>3. On(q) = Only(jobs, S)
    OBVIOUS
  <2> HIDE DEF S, On
  <2>q. QED
    BY <1>3, <2>1, <2>2, <2>3, OnlyKeeps
<1> HIDE DEF On
<1> DEFINE e == On("eliza")
           a == On("ace")
<1>6. "eliza" \in Queues /\ "ace" \in Queues /\ "eliza" # "ace" /\ Queues = {"eliza", "ace"}
  BY DEF Queues
<1>7. /\ Distinct(e) /\ Distinct(a) /\ Entries(e) \cap Entries(a) = {}
      /\ Entries(jobs) = Entries(e) \union Entries(a)
  <2>1. \A run : HostQueue(run) \in Queues
    BY DEF HostQueue, Queues
  <2>q. QED
    BY <1>5, <1>6, <2>1
<1>8. /\ Len(jobs) = Len(e) + Len(a) /\ Len(e) \in Nat /\ Len(a) \in Nat
  <2>1. /\ IsFiniteSet(Entries(e)) /\ Cardinality(Entries(e)) = Len(e) /\ Len(e) \in Nat
        /\ IsFiniteSet(Entries(a)) /\ Cardinality(Entries(a)) = Len(a) /\ Len(a) \in Nat
        /\ Cardinality(Entries(jobs)) = Len(jobs)
    BY <1>3, <1>7, DistinctLen
  <2>2. Cardinality(Entries(e) \union Entries(a)) = Len(e) + Len(a) - Cardinality({})
    BY <1>7, <2>1, FS_Union
  <2>3. Cardinality({}) = 0
    BY FS_EmptySet
  <2>q. QED
    BY <1>7, <2>1, <2>2, <2>3
<1>9. /\ Distinct(e \o a) /\ Entries(e \o a) = Entries(jobs) /\ Len(e \o a) = Len(jobs)
  <2>1. e \in Seq(Entries(e)) /\ a \in Seq(Entries(a))
    BY <1>7 DEF Distinct
  <2>q. QED
    BY <1>7, <1>8, <2>1, BothDistinct, Joined, JoinedEntries
<1>10. /\ queues' = [q \in Queues |-> queues'[q]] /\ pc' = [q \in Queues |-> pc'[q]]
       /\ queues'["eliza"] = IF seq THEN e \o a ELSE e
       /\ queues'["ace"] = IF seq THEN << >> ELSE a
       /\ pc'["eliza"] = "next" /\ pc'["ace"] = IF seq THEN "ended" ELSE "next"
  BY <1>4, <1>6
<1>11. Distinct(<< >>) /\ Entries(<< >>) = {} /\ Len(<< >>) = 0
  BY ShortSeqs DEF Distinct, IsInjective
<1>12. lock = Nobody
  <2>1. CASE Active
    <3>1. \A q \in Queues : pc[q] \notin {"write", "status"}
      BY <1>2, <2>1 DEF ActiveInv, Active
    <3>q. QED
      BY <3>1 DEF PlanInv
  <2>2. CASE ~Active
    BY <2>2 DEF PlanInv
  <2>q. QED
    BY <2>1, <2>2
<1>13. invocation \in Nat /\ invocation' \in Nat /\ invocation' # 0
  BY <1>2 DEF PlanInv
<1>14. \A f \in recorded' : f = [sweep |-> f.sweep, job |-> f.job] /\ f.sweep \in 1 .. invocation
  BY <1>4 DEF PlanInv
<1>15. Mine' = {} /\ DoneJobs' = {}
  <2>1. \A f \in recorded' : f.sweep # invocation'
    BY <1>2, <1>13, <1>14
  <2>q. QED
    BY <2>1 DEF Mine, DoneJobs
<1>16. IsFiniteSet(Mine') /\ Cardinality(Mine') = 0
  BY <1>15, FS_EmptySet
<1> HIDE DEF e, a
<1>17. PlanInv'
  <2>1. \A f \in recorded' : f = [sweep |-> f.sweep, job |-> f.job] /\ f.sweep \in 1 .. invocation'
    BY <1>2, <1>13, <1>14
  <2>2. \A q \in Queues : pc'[q] \in {"next", "ended"}
    BY <1>6, <1>10
  <2>3. Active'
    BY <1>2 DEF Active
  <2>4. sequential' \in BOOLEAN
    BY <1>4
  <2>q. QED
    BY <1>2, <1>10, <1>12, <1>13, <2>1, <2>2, <2>3, <2>4 DEF PlanInv
<1>18. ActiveInv'
  <2>1. \A q \in Queues :
          /\ Distinct(queues'[q]) /\ Entries(queues'[q]) \cap DoneJobs' = {}
          /\ \A r \in Queues : q # r => Entries(queues'[q]) \cap Entries(queues'[r]) = {}
    BY <1>6, <1>7, <1>9, <1>10, <1>11, <1>15
  <2>2. Entries(jobs) = DoneJobs' \union Entries(queues'["eliza"]) \union Entries(queues'["ace"])
    BY <1>7, <1>9, <1>10, <1>11, <1>15
  <2>3. /\ state' = [done |-> state'.done, warnings |-> state'.warnings, total |-> state'.total]
        /\ state'.done = 0 /\ state'.total = Len(jobs)
    BY <1>4
  <2>4. state'.done + Len(queues'["eliza"]) + Len(queues'["ace"]) = state'.total
    BY <1>8, <1>9, <1>10, <1>11, <2>3
  <2>5. \A q \in Queues :
          /\ pc'[q] \notin {"none", "dead"}
          /\ pc'[q] \in {"execute", "record", "write"} => queues'[q] # << >>
          /\ pc'[q] = "ended" => queues'[q] = << >>
    BY <1>6, <1>10
  <2>6. ~seq => \A q \in Queues : \A job \in Entries(queues'[q]) : HostQueue(job.run) = q
    BY <1>5, <1>6, <1>10 DEF e, a
  <2>7. Distinct(planned)' /\ Entries(planned)' = Entries(jobs) /\ planned' = jobs
    BY <1>3, <1>4 DEF Distinct, Entries
  <2>q. QED
    <3>1. QueuesInv'
      BY <1>4, <1>13, <1>16, <2>1, <2>2, <2>3, <2>4, <2>6, <2>7 DEF QueuesInv, Distinct, Entries
    <3>q. QED
      BY <1>2, <1>4, <1>10, <2>5, <3>1 DEF ActiveInv
<1>q. QED
  BY <1>15, <1>17, <1>18

\* Every step of the driver keeps the plan.
LEMMA PlanKeeps ==
  ASSUME PlanInv, Active => ActiveInv, BenchNext
  PROVE  PlanInv' /\ (Active' => ActiveInv')
<1>1. CASE StartBench
  BY <1>1, StartPlan
<1>2. ASSUME ThreadsDie, mainThread' \in {"crashed", "interrupted", "killed"},
             UNCHANGED <<sequential, invocation, planned>>
      PROVE  PlanInv' /\ ~Active'
  <2>1. ~Active'
    BY <1>2 DEF Active
  <2>2. /\ queues' = [q \in Queues |-> queues'[q]] /\ pc' = [q \in Queues |-> pc'[q]]
        /\ \A q \in Queues : pc'[q] = "none"
    BY <1>2 DEF ThreadsDie, Nothing
  <2>q. QED
    BY <1>2, <2>1, <2>2 DEF PlanInv, ThreadsDie
<1>3. CASE KeyboardInterrupt \/ KillBench
  BY <1>2, <1>3 DEF KeyboardInterrupt, KillBench
<1>4. ASSUME UNCHANGED <<sequential, threadVars, invocation, planned>>, Active,
             mainThread' = "running" \/ (/\ mainThread' = "completed"
                                        /\ \A q \in Queues : pc[q] \in {"ended", "dead"})
      PROVE  PlanInv' /\ ActiveInv'
  <2>1. Active'
    BY <1>4 DEF Active
  <2>2. /\ UNCHANGED <<sequential, queues, pc, lock, state, recorded, invocation, planned>>
        /\ PlanInv /\ ActiveInv
    BY <1>4 DEF threadVars
  <2>3. PlanInv'
    BY <1>4, <2>1, <2>2 DEF PlanInv
  <2>4. ActiveInv'
    BY <1>4, <2>2, RestQueues DEF ActiveInv
  <2>q. QED
    BY <2>3, <2>4
<1>5. CASE WriteHeader \/ Completed
  BY <1>4, <1>5 DEF WriteHeader, Completed, Active
<1>6. ASSUME NEW q \in Queues, RaiseInMain(q) PROVE PlanInv' /\ ~Active'
  BY <1>2, <1>6 DEF RaiseInMain
<1>7. ASSUME mainThread = "running" PROVE Active /\ ActiveInv
  BY <1>7 DEF Active
<1>8. ASSUME NEW q \in Queues, Announce(q) PROVE PlanInv' /\ ActiveInv'
  <2>1. /\ mainThread = "running" /\ pc[q] = "next" /\ lock = Nobody
        /\ pc' = [pc EXCEPT ![q] = IF queues[q] = << >> THEN "ended" ELSE "execute"]
        /\ UNCHANGED <<mainThread, sequential, queues, state, invocation, recorded, planned, lock>>
    BY <1>8 DEF Announce, Works
  <2>2. \A r \in Queues : pc[r] \notin {"write", "status"}
    BY <2>1 DEF PlanInv, Queues, Nobody
  <2>3. PICK p : p = IF queues[q] = << >> THEN "ended" ELSE "execute"
    OBVIOUS
  <2>q. QED
    BY <1>7, <2>1, <2>2, <2>3, MovePlan DEF Queues, Nobody
<1>9. ASSUME NEW q \in Queues, execute_run(q) PROVE PlanInv' /\ ActiveInv'
  <2>1. /\ mainThread = "running" /\ pc[q] = "execute" /\ pc' = [pc EXCEPT ![q] = "record"]
        /\ UNCHANGED <<mainThread, sequential, queues, state, invocation, recorded, planned, lock>>
    BY <1>9 DEF execute_run, Works
  <2>2. /\ queues[q] # << >> /\ lock # q
        /\ \A r \in Queues : pc[r] \in {"write", "status"} => lock = r
    BY <1>7, <2>1 DEF PlanInv, ActiveInv, Queues, Nobody
  <2>3. lock \in Queues \union {Nobody} /\ (lock # Nobody => pc[lock] \in {"write", "status"})
    BY DEF PlanInv
  <2>q. QED
    BY <1>7, <2>1, <2>2, <2>3, MovePlan
<1>10. ASSUME NEW q \in Queues, Acquire(q) PROVE PlanInv' /\ ActiveInv'
  <2>1. /\ mainThread = "running" /\ pc[q] = "record" /\ pc' = [pc EXCEPT ![q] = "write"]
        /\ lock = Nobody /\ lock' = q
        /\ UNCHANGED <<mainThread, sequential, queues, state, invocation, recorded, planned>>
    BY <1>10 DEF Acquire, Works
  <2>2. queues[q] # << >> /\ \A r \in Queues : pc[r] \notin {"write", "status"}
    BY <1>7, <2>1 DEF PlanInv, ActiveInv, Queues, Nobody
  <2>q. QED
    BY <1>7, <2>1, <2>2, MovePlan
<1>11. ASSUME NEW q \in Queues, WriteRow(q) PROVE PlanInv' /\ ActiveInv'
  <2>1. /\ mainThread = "running" /\ mainThread' = "running"
        /\ UNCHANGED <<mainThread, sequential, queues, pc, lock, state, recorded, invocation,
                       planned>>
    BY <1>11 DEF WriteRow, Works
  <2>2. Active /\ Active'
    BY <2>1 DEF Active
  <2>3. PlanInv'
    BY <2>1, <2>2 DEF PlanInv
  <2>4. ActiveInv'
    BY <2>1, <2>2, RestQueues DEF ActiveInv
  <2>q. QED
    BY <2>3, <2>4
<1>12. ASSUME NEW q \in Queues, Record(q) PROVE PlanInv' /\ ActiveInv'
  <2>1. mainThread = "running"
    BY <1>12 DEF Record, Works
  <2>q. QED
    BY <1>7, <1>12, <2>1, RecordPlan
<1>13. ASSUME NEW q \in Queues, Raise(q) PROVE PlanInv' /\ ActiveInv'
  <2>1. /\ mainThread = "running" /\ ~sequential /\ pc[q] # "ended"
        /\ pc' = [pc EXCEPT ![q] = "dead"] /\ lock' = IF lock = q THEN Nobody ELSE lock
        /\ UNCHANGED <<mainThread, sequential, queues, state, invocation, recorded, planned>>
    BY <1>13 DEF Raise, MayRaise
  <2>2. \A r \in Queues : pc[r] \in {"write", "status"} => lock = r
    BY <1>7, <2>1 DEF PlanInv, ActiveInv
  <2>3. lock \in Queues \union {Nobody} /\ (lock # Nobody => pc[lock] \in {"write", "status"})
    BY DEF PlanInv
  <2>4. q # Nobody
    BY DEF Queues, Nobody
  <2>q. QED
    BY <1>7, <2>1, <2>2, <2>3, <2>4, MovePlan
<1>14. ASSUME NEW q \in Queues, WriteStatus(q) PROVE PlanInv' /\ ActiveInv'
  <2>1. /\ mainThread = "running" /\ pc[q] = "status" /\ pc' = [pc EXCEPT ![q] = "next"]
        /\ lock' = Nobody
        /\ UNCHANGED <<mainThread, sequential, queues, state, invocation, recorded, planned>>
    BY <1>14 DEF WriteStatus, Works
  <2>2. \A r \in Queues : r # q => pc[r] \notin {"write", "status"}
    BY <2>1 DEF PlanInv
  <2>3. q # Nobody
    BY DEF Queues, Nobody
  <2>q. QED
    BY <1>7, <2>1, <2>2, <2>3, MovePlan
<1>q. QED
  BY <1>1, <1>3, <1>5, <1>6, <1>8, <1>9, <1>10, <1>11, <1>12, <1>13, <1>14
     DEF BenchNext, run_queue
-----------------------------------------------------------------------------
\* Lines and the runs they are of.
LEMMA LineOf ==
  ASSUME NEW entry
  PROVE  /\ \A line \in RunLines(entry) : line.sweep = entry.sweep /\ line.job = entry.job
         /\ entry.sweep # 0 => Header \notin RunLines(entry)
         /\ \A line, other : line \in RunLines(other) =>
              (line \in RunLines(entry) <=> other.sweep = entry.sweep /\ other.job = entry.job)
<1>1. \A line \in RunLines(entry) : line.sweep = entry.sweep /\ line.job = entry.job
  BY DEF RunLines
<1>2. Header.sweep = 0
  BY DEF Header
<1>3. ASSUME NEW line, NEW other, line \in RunLines(other)
      PROVE  line \in RunLines(entry) <=> other.sweep = entry.sweep /\ other.job = entry.job
  BY <1>3 DEF RunLines
<1>q. QED
  BY <1>1, <1>2, <1>3

\* One more line, of the run or of another, behind the lines of a run.
LEMMA HasMore ==
  ASSUME NEW s, s \in Seq(Entries(s)), NEW entry, NEW a \in Nat, NEW n \in Nat,
         a + n <= Len(s), Has(s, entry, a, n), NEW x
  PROVE  /\ x \notin RunLines(entry) => Has(Append(s, x), entry, a, n)
         /\ x \in RunLines(entry) /\ a + n = Len(s) => Has(Append(s, x), entry, a, n + 1)
<1> DEFINE t == Append(s, x)
<1>1. /\ Len(s) \in Nat /\ DOMAIN s = 1 .. Len(s) /\ DOMAIN t = 1 .. Len(s) + 1
      /\ \A k \in 1 .. Len(s) : t[k] = s[k]
      /\ t[Len(s) + 1] = x
  BY Appended
<1> HIDE DEF t
<1>2. \A k \in 1 .. Len(s) : t[k] \in RunLines(entry) <=> k \in a + 1 .. a + n
  BY <1>1 DEF Has
<1>3. \A k \in DOMAIN t : k \in 1 .. Len(s) \/ k = Len(s) + 1
  BY <1>1
<1>4. ASSUME x \notin RunLines(entry) PROVE Has(t, entry, a, n)
  <2>1. Len(s) + 1 \notin a + 1 .. a + n
    BY <1>1
  <2>q. QED
    BY <1>1, <1>2, <1>3, <1>4, <2>1 DEF Has
<1>5. ASSUME x \in RunLines(entry), a + n = Len(s) PROVE Has(t, entry, a, n + 1)
  <2>1. Len(s) + 1 \in a + 1 .. a + (n + 1)
    BY <1>1, <1>5
  <2>2. \A k \in 1 .. Len(s) : k \in a + 1 .. a + n <=> k \in a + 1 .. a + (n + 1)
    BY <1>1, <1>5
  <2>q. QED
    BY <1>1, <1>2, <1>3, <1>5, <2>1, <2>2 DEF Has
<1>q. QED
  BY <1>4, <1>5 DEF t

\* The lines of a run, if what comes behind them is cut off.
LEMMA HasPrefix ==
  ASSUME NEW s, NEW m, s \in Seq(Entries(s)), m \in Seq(Entries(m)), NEW entry,
         NEW a, NEW n, Has(s \o m, entry, a, n)
  PROVE  Has(s, entry, a, n)
<1> DEFINE t == s \o m
<1>1. /\ DOMAIN t = 1 .. Len(s) + Len(m) /\ DOMAIN s = 1 .. Len(s)
      /\ Len(s) \in Nat /\ Len(m) \in Nat /\ \A k \in 1 .. Len(s) : t[k] = s[k]
  BY Joined
<1> HIDE DEF t
<1>2. \A k \in DOMAIN t : t[k] \in RunLines(entry) <=> k \in a + 1 .. a + n
  BY DEF Has, t
<1>3. \A k \in DOMAIN s : k \in DOMAIN t /\ t[k] = s[k]
  BY <1>1
<1>q. QED
  BY <1>2, <1>3 DEF Has

\* A line behind what is not flushed is a line behind everything.
LEMMA Behind ==
  ASSUME NEW s, NEW m, s \in Seq(Entries(s)), m \in Seq(Entries(m)), NEW x
  PROVE  s \o Append(m, x) = Append(s \o m, x)
<1> DEFINE S == Entries(s) \union Entries(m) \union {x}
<1>1. s \in Seq(S) /\ m \in Seq(S) /\ x \in S
  <2>1. s \in Seq(S)
    BY SeqMonotonic
  <2>2. m \in Seq(S)
    BY SeqMonotonic
  <2>q. QED
    BY <2>1, <2>2
<1> HIDE DEF S
<1>2. s \o m \in Seq(S) /\ <<x>> \in Seq(S)
  BY <1>1, ConcatProperties
<1>3. Append(m, x) = m \o <<x>> /\ Append(s \o m, x) = (s \o m) \o <<x>>
  BY <1>1, <1>2, AppendIsConcat
<1>4. (s \o m) \o <<x>> = s \o (m \o <<x>>)
  BY <1>1, <1>2, ConcatAssociative
<1>q. QED
  BY <1>3, <1>4

\* What all the lines are, before and after they are flushed.
LEMMA AllLines ==
  ASSUME FileInv
  PROVE  /\ Everything \in Seq(Entries(Everything)) /\ Len(Everything) \in Nat
         /\ DOMAIN Everything = 1 .. Len(Everything)
         /\ Len(table) \in Nat /\ Len(table) <= Len(Everything)
         /\ Entries(Everything) = Entries(table) \union Entries(buffer)
         /\ buffer = << >> => Everything = table
         /\ Flush(<< >>) => /\ Everything' = Everything /\ table' = Everything
<1>1. table \in Seq(Entries(table)) /\ buffer \in Seq(Entries(buffer))
  BY DEF FileInv
<1>2. /\ table \o buffer \in Seq(Entries(table \o buffer))
      /\ Len(table \o buffer) = Len(table) + Len(buffer)
      /\ Len(table) \in Nat /\ Len(buffer) \in Nat
      /\ Entries(table \o buffer) = Entries(table) \union Entries(buffer)
  BY <1>1, Joined, JoinedEntries
<1>3. \A S : \A s \in Seq(S) : s \o << >> = s
  OBVIOUS
<1>4. PICK all : all = table \o buffer
  OBVIOUS
<1>5. all \o << >> = all /\ table \o << >> = table /\ DOMAIN all = 1 .. Len(all)
  BY <1>1, <1>2, <1>3, <1>4
<1>6. Flush(<< >>) => table' = all /\ buffer' = << >>
  BY <1>4, <1>5 DEF Flush
<1>7. Flush(<< >>) => Everything' = all /\ table' = all
  BY <1>5, <1>6 DEF Everything
<1>q. QED
  BY <1>1, <1>2, <1>4, <1>5, <1>7 DEF Everything

\* What is in the file stays what it is when nothing is written or recorded.
LEMMA RestFile ==
  ASSUME FileInv, FileOfRuns, UNCHANGED <<recorded, invocation>>,
         Everything' = Everything, Len(table) <= Len(table'), Len(table') \in Nat
  PROVE  FileOfRuns'
<1>1. \A line \in Entries(Everything)' :
        \/ line = Header
        \/ /\ line \in RunLines([sweep |-> line.sweep, job |-> line.job])
           /\ line.sweep \in 1 .. invocation'
  BY DEF FileOfRuns, Entries
<1>2. ASSUME NEW entry \in recorded PROVE Whole(entry)'
  <2>1. PICK outcome \in Outcomes, a \in 0 .. Len(table) :
          a + outcome.rows <= Len(table) /\ Has(Everything, entry, a, outcome.rows)
    BY DEF FileOfRuns, Whole
  <2>2. Has(Everything', entry, a, outcome.rows)
    BY <2>1
  <2>3. outcome.rows \in Nat /\ Len(table) \in Nat
    BY AllLines, BenchAssumption
  <2>4. a \in 0 .. Len(table') /\ a + outcome.rows <= Len(table')
    BY <2>1, <2>3
  <2>q. QED
    BY <2>2, <2>4 DEF Whole, Has
<1>q. QED
  BY <1>1, <1>2 DEF FileOfRuns

\* The leftovers are what the threads have left.
LEMMA WhoLeft ==
  ASSUME PlanInv, ActiveInv, Threads
  PROVE  Leftovers
<1>1. SUFFICES ASSUME NEW l \in Entries(Everything), NEW m \in Entries(Everything),
                      Loose(l), Loose(m), HostQueue(l.job.run) = HostQueue(m.job.run)
               PROVE  l.job = m.job
  BY DEF Leftovers
<1>2. PICK q \in Queues :
        pc[q] \in {"write", "dead"} /\ queues[q] # << >> /\ l.job = Head(queues[q])
  BY <1>1 DEF Threads
<1>3. PICK r \in Queues :
        pc[r] \in {"write", "dead"} /\ queues[r] # << >> /\ m.job = Head(queues[r])
  BY <1>1 DEF Threads
<1>4. \A p \in Queues : Distinct(queues[p])
  BY DEF ActiveInv, QueuesInv
<1>5. l.job \in Entries(queues[q]) /\ m.job \in Entries(queues[r])
  BY <1>2, <1>3, <1>4, Popped
<1>6. CASE sequential
  <2>1. pc["ace"] = "ended"
    BY <1>6 DEF ActiveInv
  <2>2. q = "eliza" /\ r = "eliza"
    BY <1>2, <1>3, <2>1 DEF Queues
  <2>q. QED
    BY <1>2, <1>3, <2>2
<1>7. CASE ~sequential
  <2>1. HostQueue(l.job.run) = q /\ HostQueue(m.job.run) = r
    BY <1>5, <1>7 DEF ActiveInv, QueuesInv
  <2>q. QED
    BY <1>1, <1>2, <1>3, <2>1
<1>q. QED
  BY <1>6, <1>7

\* They stay when the threads have died, if nothing but unflushed lines is lost.
LEMMA RestLeft ==
  ASSUME Leftovers, UNCHANGED <<recorded, invocation>>,
         NEW S, S = Entries(Everything), Entries(Everything)' \subseteq S
  PROVE  Leftovers'
<1>1. \A line : Loose(line)' <=> Loose(line)
  BY DEF Loose
<1>2. \A l, m \in S :
        Loose(l) /\ Loose(m) /\ HostQueue(l.job.run) = HostQueue(m.job.run) => l.job = m.job
  BY DEF Leftovers
<1>q. QED
  BY <1>1, <1>2 DEF Leftovers

\* A thread goes on and writes nothing.
LEMMA MoveThreads ==
  ASSUME Threads, Everything' = Everything, UNCHANGED <<queues, recorded, invocation>>,
         NEW q \in Queues, \A r \in Queues : r # q => pc'[r] = pc[r] /\ out'[r] = out[r],
         pc[q] \in {"write", "dead"} => pc'[q] \in {"write", "dead"}, InHand(q)'
  PROVE  Threads'
<1>1. \A line : Loose(line)' <=> Loose(line)
  BY DEF Loose
<1>2. Entries(Everything)' = Entries(Everything)
  BY DEF Entries
<1>3. ASSUME NEW r \in Queues PROVE InHand(r)'
  <2>1. CASE r = q
    BY <2>1
  <2>2. CASE r # q
    <3>1. InHand(r) /\ pc'[r] = pc[r] /\ out'[r] = out[r]
      BY <2>2 DEF Threads
    <3>q. QED
      BY <3>1 DEF InHand, Has, Entries
  <2>q. QED
    BY <2>1, <2>2
<1>4. ASSUME NEW line \in Entries(Everything), Loose(line)
      PROVE  \E r \in Queues :
               pc'[r] \in {"write", "dead"} /\ queues[r] # << >> /\ line.job = Head(queues[r])
  <2>1. PICK r \in Queues :
          pc[r] \in {"write", "dead"} /\ queues[r] # << >> /\ line.job = Head(queues[r])
    BY <1>4 DEF Threads
  <2>q. QED
    BY <2>1
<1>q. QED
  BY <1>1, <1>2, <1>3, <1>4 DEF Threads

\* A thread at the head of its queue has a run that is not recorded.
LEMMA NotYet ==
  ASSUME PlanInv, ActiveInv, NEW q \in Queues, queues[q] # << >>
  PROVE  /\ [sweep |-> invocation, job |-> Head(queues[q])] \notin recorded
         /\ Head(queues[q]) \in Entries(queues[q])
         /\ \A r \in Queues : r # q /\ queues[r] # << >> => Head(queues[r]) # Head(queues[q])
<1> DEFINE job == Head(queues[q])
           entry == [sweep |-> invocation, job |-> job]
<1>1. \A r \in Queues : Distinct(queues[r])
  BY DEF ActiveInv, QueuesInv
<1>2. \A r \in Queues : queues[r] # << >> => Head(queues[r]) \in Entries(queues[r])
  BY <1>1, Popped
<1>3. job \notin DoneJobs /\ \A r \in Queues : r # q => job \notin Entries(queues[r])
  BY <1>2 DEF ActiveInv, QueuesInv
<1> HIDE DEF job
<1>4. entry.sweep = invocation /\ entry.job = job
  OBVIOUS
<1>5. entry \notin recorded
  BY <1>3, <1>4 DEF DoneJobs, Mine
<1>q. QED
  BY <1>2, <1>3, <1>5 DEF job

\* A new run of the program finds the lines of the earlier ones, or a new file.
LEMMA StartRuns ==
  ASSUME FileInv, PlanInv, FileOfRuns, StartBench, buffer = << >>, FileInv'
  PROVE  FileOfRuns' /\ Threads'
<1>1. PICK append \in BOOLEAN :
        /\ OpenFile(append, IF append /\ exists THEN << >> ELSE <<Header>>)
        /\ recorded' = IF append THEN recorded ELSE {}
  BY Zenon DEF StartBench
<1>2. invocation' = invocation + 1 /\ invocation \in Nat
  BY DEF StartBench, PlanInv
<1>3. \A q \in Queues : pc'[q] \in {"next", "ended"}
  <2>1. \E seq \in BOOLEAN : pc' = [q \in Queues |-> IF seq /\ q = "ace" THEN "ended" ELSE "next"]
    BY Zenon DEF StartBench
  <2>q. QED
    BY <2>1
<1>4. PICK t : t = table
  OBVIOUS
<1>5. Everything = t /\ t \in Seq(Entries(t)) /\ Len(t) \in Nat
  BY <1>4, AllLines DEF FileInv
<1>6. \/ append /\ Everything' = t /\ table' = t
      \/ append /\ Everything' = Append(t, Header) /\ table' = t
      \/ ~append /\ Everything' = <<Header>> /\ recorded' = {}
  <2>1. << >> \o <<Header>> = <<Header>> /\ t \o << >> = t /\ t \o <<Header>> = Append(t, Header)
    BY <1>5, Behind, ShortSeqs
  <2>2. (table' = IF append THEN t ELSE << >>) /\ buffer' \in {<< >>, <<Header>>}
        /\ (~append => buffer' = <<Header>>)
    BY <1>1, <1>4 DEF OpenFile
  <2>q. QED
    BY <1>1, <2>1, <2>2 DEF Everything
<1>7. \A line \in Entries(t) :
        \/ line = Header
        \/ /\ line \in RunLines([sweep |-> line.sweep, job |-> line.job])
           /\ line.sweep \in 1 .. invocation
  BY <1>5 DEF FileOfRuns
<1>8. \A line \in Entries(Everything') : line \in Entries(t) \/ line = Header
  <2>1. Entries(Append(t, Header)) = Entries(t) \union {Header} /\ Entries(<<Header>>) = {Header}
    BY <1>5, Appended, ShortSeqs
  <2>2. Everything' \in {t, Append(t, Header), <<Header>>}
    BY <1>6
  <2>3. PICK all : all = Everything'
    OBVIOUS
  <2>4. Entries(all) \in {Entries(t), Entries(Append(t, Header)), Entries(<<Header>>)}
    BY <2>2, <2>3
  <2>5. Entries(all) \subseteq Entries(t) \union {Header}
    BY <2>1, <2>4
  <2>q. QED
    BY <2>3, <2>5
<1>9. \A line \in Entries(Everything') :
        \/ line = Header
        \/ /\ line \in RunLines([sweep |-> line.sweep, job |-> line.job])
           /\ line.sweep \in 1 .. invocation
  BY <1>7, <1>8
<1>10. ASSUME NEW entry \in recorded' PROVE Whole(entry)'
  <2>1. append /\ entry \in recorded /\ table' = t
    BY <1>1, <1>6, <1>10
  <2>2. PICK outcome \in Outcomes, a \in 0 .. Len(table) :
          a + outcome.rows <= Len(table) /\ Has(Everything, entry, a, outcome.rows)
    BY <2>1 DEF FileOfRuns, Whole
  <2>3. outcome.rows \in Nat
    BY BenchAssumption
  <2>4. entry.sweep # 0
    BY <1>2, <2>1 DEF PlanInv
  <2>5. Header \notin RunLines(entry)
    BY <2>4, LineOf
  <2>6. Has(Append(t, Header), entry, a, outcome.rows)
    BY <1>4, <1>5, <2>2, <2>3, <2>5, HasMore
  <2>7. Has(Everything', entry, a, outcome.rows)
    BY <1>5, <1>6, <2>1, <2>2, <2>6
  <2>q. QED
    BY <1>4, <2>1, <2>2, <2>7 DEF Whole, Has
<1>11. \A line \in Entries(Everything') : line = Header \/ line.sweep # invocation'
  <2>1. \A n \in 1 .. invocation : n # invocation'
    BY <1>2
  <2>q. QED
    BY <1>9, <2>1
<1>12. \A line \in Entries(Everything') : ~Loose(line)'
  BY <1>11 DEF Loose
<1>13. FileOfRuns'
  <2>1. \A n \in 1 .. invocation : n \in 1 .. invocation'
    BY <1>2
  <2>2. \A line \in Entries(Everything') :
          \/ line = Header
          \/ /\ line \in RunLines([sweep |-> line.sweep, job |-> line.job])
             /\ line.sweep \in 1 .. invocation'
    BY <1>9, <2>1
  <2>q. QED
    BY <1>10, <2>2 DEF FileOfRuns, Entries
<1>14. Threads'
  <2>1. \A q \in Queues : InHand(q)'
    BY <1>3 DEF InHand
  <2>q. QED
    BY <1>12, <2>1 DEF Threads, Entries
<1>q. QED
  BY <1>13, <1>14

\* Who gets the lock finds no line of its run in the file.
LEMMA AcquireRuns ==
  ASSUME FileInv, PlanInv, ActiveInv, FileOfRuns, Threads, NEW q \in Queues, Acquire(q)
  PROVE  Threads'
<1>1. /\ pc[q] = "record" /\ pc' = [pc EXCEPT ![q] = "write"]
      /\ UNCHANGED <<table, buffer, queues, out, invocation, recorded>>
  BY DEF Acquire, Works, file
<1>2. queues[q] # << >>
  BY <1>1 DEF ActiveInv
<1> DEFINE entry == [sweep |-> invocation, job |-> Head(queues[q])]
<1>3. \A r \in Queues : pc'[r] = IF r = q THEN "write" ELSE pc[r]
  <2>1. pc' = [r \in Queues |-> IF r = q THEN "write" ELSE pc[r]]
    BY <1>1 DEF PlanInv
  <2>q. QED
    BY <2>1
<1>4. Everything' = Everything
  BY <1>1 DEF Everything
<1>5. /\ Entries(out[q]) \subseteq RunLines(entry)
      /\ \E outcome \in Outcomes : Len(out[q]) = outcome.rows
  BY <1>1 DEF Threads, InHand
<1>6. ASSUME NEW line \in Entries(Everything), line \in RunLines(entry) PROVE FALSE
  <2>1. line.sweep = invocation /\ line.job = Head(queues[q])
    BY <1>6, LineOf
  <2>2. line # Header
    <3>1. invocation # 0 /\ Header.sweep = 0
      BY DEF ActiveInv, QueuesInv, Header
    <3>q. QED
      BY <2>1, <3>1
  <2>3. Loose(line)
    BY <1>2, <2>1, <2>2, NotYet DEF Loose
  <2>4. PICK r \in Queues :
          pc[r] \in {"write", "dead"} /\ queues[r] # << >> /\ line.job = Head(queues[r])
    BY <1>6, <2>3 DEF Threads
  <2>5. r # q /\ queues[r] # << >>
    BY <1>1, <2>4
  <2>q. QED
    BY <1>2, <2>1, <2>4, <2>5, NotYet
<1>7. PICK all : all = Everything
  OBVIOUS
<1>8. all \in Seq(Entries(all)) /\ Len(all) \in Nat /\ DOMAIN all = 1 .. Len(all)
  BY <1>7, AllLines
<1> HIDE DEF entry
<1>9. Has(all, entry, Len(all), 0)
  <2>1. \A k \in DOMAIN all : all[k] \notin RunLines(entry)
    BY <1>6, <1>7 DEF Entries
  <2>2. \A k \in DOMAIN all : k \notin Len(all) + 1 .. Len(all) + 0
    BY <1>8
  <2>q. QED
    BY <2>1, <2>2 DEF Has
<1>10. PICK outcome \in Outcomes : Len(out[q]) = outcome.rows
  BY <1>5
<1>11. /\ Len(all) \in 0 .. Len(all) /\ Len(all) - Len(all) + Len(out[q]) = outcome.rows
       /\ Has(all, entry, Len(all), Len(all) - Len(all))
  <2>1. Len(all) - Len(all) = 0 /\ outcome.rows \in Nat
    BY <1>8, BenchAssumption
  <2>q. QED
    BY <1>8, <1>9, <1>10, <2>1
<1>12. InHand(q)'
  <2>1. pc'[q] = "write" /\ out' = out /\ Everything' = all /\ queues' = queues
        /\ invocation' = invocation
    BY <1>1, <1>3, <1>4, <1>7
  <2>2. entry = [sweep |-> invocation, job |-> Head(queues[q])]
    BY DEF entry
  <2>q. QED
    BY <1>5, <1>11, <2>1, <2>2 DEF InHand, Has, Entries
<1>q. QED
  BY <1>1, <1>3, <1>4, <1>12, MoveThreads

\* The rows that a thread has in hand are replaced, and only its own.
LEMMA OutThere ==
  ASSUME UseInv, NEW q \in Queues, NEW s, out' = [out EXCEPT ![q] = s]
  PROVE  \A r \in Queues : out'[r] = IF r = q THEN s ELSE out[r]
<1>1. out = [r \in Queues |-> out[r]]
  BY DEF UseInv
<1>2. out' = [r \in Queues |-> IF r = q THEN s ELSE out[r]]
  BY <1>1
<1>q. QED
  BY <1>2

\* What a run has given, as its thread finds it.
LEMMA RunGives ==
  ASSUME UseInv, PlanInv, ActiveInv, Threads, NEW q \in Queues, execute_run(q)
  PROVE  Threads'
<1>1. PICK outcome \in Outcomes :
        out' = [out EXCEPT ![q] = [i \in 1 .. outcome.rows |->
                  [sweep |-> invocation, job |-> Head(queues[q]), row |-> i]]]
  BY DEF execute_run
<1>2. /\ pc[q] = "execute" /\ pc' = [pc EXCEPT ![q] = "record"]
      /\ UNCHANGED <<table, buffer, queues, invocation, recorded>>
  BY DEF execute_run, Works, file
<1>3. outcome.rows \in Nat
  BY BenchAssumption
<1> DEFINE entry == [sweep |-> invocation, job |-> Head(queues[q])]
           lines == [i \in 1 .. outcome.rows |->
                       [sweep |-> invocation, job |-> Head(queues[q]), row |-> i]]
<1>4. Len(lines) = outcome.rows /\ Entries(lines) \subseteq RunLines(entry)
  <2>1. lines = [i \in 1 .. outcome.rows |-> lines[i]] /\ DOMAIN lines = 1 .. outcome.rows
    OBVIOUS
  <2>2. \A i \in DOMAIN lines : lines[i] \in RunLines(entry)
    BY <1>3 DEF RunLines
  <2> HIDE DEF lines, entry
  <2>3. Len(lines) = outcome.rows
    BY <1>3, <2>1, Made
  <2>q. QED
    BY <2>2, <2>3 DEF Entries
<1> HIDE DEF lines
<1>5. /\ \A r \in Queues : pc'[r] = IF r = q THEN "record" ELSE pc[r]
      /\ \A r \in Queues : out'[r] = IF r = q THEN lines ELSE out[r]
  <2>1. pc' = [r \in Queues |-> IF r = q THEN "record" ELSE pc[r]]
    BY <1>2 DEF PlanInv
  <2>2. out' = [out EXCEPT ![q] = lines]
    BY <1>1 DEF lines
  <2>q. QED
    BY <2>1, <2>2, OutThere
<1>6. Everything' = Everything
  BY <1>2 DEF Everything
<1>7. InHand(q)'
  <2>1. /\ pc'[q] = "record" /\ out'[q] = lines /\ queues' = queues /\ invocation' = invocation
    BY <1>2, <1>5
  <2>q. QED
    BY <1>4, <2>1 DEF InHand, Entries
<1>q. QED
  BY <1>2, <1>5, <1>6, <1>7, MoveThreads

\* The next row of a run comes behind the rows of this run, and behind no others.
LEMMA WriteRuns ==
  ASSUME FileInv, UseInv, PlanInv, ActiveInv, FileOfRuns, Threads, NEW q \in Queues, WriteRow(q)
  PROVE  FileOfRuns' /\ Threads'
<1>1. /\ pc[q] = "write" /\ out[q] # << >> /\ buffer' = Append(buffer, Head(out[q]))
      /\ out' = [out EXCEPT ![q] = Tail(@)]
      /\ UNCHANGED <<table, queues, pc, invocation, recorded>>
  BY DEF WriteRow, Works
<1>2. queues[q] # << >>
  BY <1>1 DEF ActiveInv
<1> DEFINE entry == [sweep |-> invocation, job |-> Head(queues[q])]
<1>3. PICK all : all = Everything
  OBVIOUS
<1>4. PICK x : x = Head(out[q])
  OBVIOUS
<1>5. /\ all \in Seq(Entries(all)) /\ Len(all) \in Nat /\ DOMAIN all = 1 .. Len(all)
      /\ Len(table) \in Nat /\ Len(table) <= Len(all)
  BY <1>3, AllLines
<1>6. Everything' = Append(all, x)
  <2>1. table \o Append(buffer, x) = Append(table \o buffer, x)
    BY Behind DEF FileInv
  <2>q. QED
    BY <1>1, <1>3, <1>4, <2>1 DEF Everything
<1>7. /\ out[q] \in Seq(Entries(out[q])) /\ x \in Entries(out[q])
      /\ Len(Tail(out[q])) = Len(out[q]) - 1 /\ Len(out[q]) \in Nat \ {0}
      /\ Entries(Tail(out[q])) \subseteq Entries(out[q])
  <2>1. out[q] \in Seq(Entries(out[q]))
    BY DEF UseInv, Bare
  <2>2. /\ x \in Entries(out[q]) /\ Tail(out[q]) \in Seq(Entries(out[q]))
        /\ Len(Tail(out[q])) = Len(out[q]) - 1
    BY <1>1, <1>4, <2>1, HeadTailProperties
  <2>3. Len(out[q]) \in Nat \ {0}
    BY <1>1, <2>1, EmptySeq
  <2>4. \A k \in DOMAIN Tail(out[q]) : Tail(out[q])[k] \in Entries(out[q])
    BY <2>2, ElementOfSeq, LenProperties
  <2>q. QED
    BY <2>1, <2>2, <2>3, <2>4 DEF Entries
<1>8. Entries(out[q]) \subseteq RunLines(entry)
  BY <1>1 DEF Threads, InHand
<1>9. entry \notin recorded /\ entry.sweep = invocation /\ entry.job = Head(queues[q])
  BY <1>2, NotYet
<1>10. x \in RunLines(entry) /\ x.sweep = invocation /\ x.job = Head(queues[q])
       /\ entry = [sweep |-> x.sweep, job |-> x.job]
  BY <1>7, <1>8, <1>9, LineOf
<1>11. invocation \in 1 .. invocation
  BY DEF PlanInv, ActiveInv, QueuesInv
<1> DEFINE its == Head(queues[q])
<1> HIDE DEF entry
<1>12. Entries(Everything') = Entries(all) \union {x}
  BY <1>5, <1>6, Appended
<1>13. ASSUME NEW e \in recorded PROVE x \notin RunLines(e) /\ Whole(e)'
  <2>1. e = [sweep |-> e.sweep, job |-> e.job]
    BY DEF PlanInv
  <2>2. x \notin RunLines(e)
    <3>1. ~(x.sweep = e.sweep /\ x.job = e.job)
      BY <1>9, <1>10, <2>1
    <3>q. QED
      BY <3>1, LineOf
  <2>3. PICK outcome \in Outcomes, a \in 0 .. Len(table) :
          a + outcome.rows <= Len(table) /\ Has(Everything, e, a, outcome.rows)
    BY DEF FileOfRuns, Whole
  <2>4. outcome.rows \in Nat /\ a \in Nat
    BY <1>5, BenchAssumption
  <2>5. a + outcome.rows <= Len(all)
    BY <1>5, <2>3, <2>4
  <2>6. Has(Append(all, x), e, a, outcome.rows)
    BY <1>3, <1>5, <2>2, <2>3, <2>4, <2>5, HasMore
  <2>q. QED
    BY <1>1, <1>6, <2>2, <2>3, <2>6 DEF Whole, Has
<1>14. FileOfRuns'
  <2>1. \A line \in Entries(Everything') :
          \/ line = Header
          \/ /\ line \in RunLines([sweep |-> line.sweep, job |-> line.job])
             /\ line.sweep \in 1 .. invocation
    BY <1>3, <1>10, <1>11, <1>12 DEF FileOfRuns
  <2>q. QED
    BY <1>1, <1>13, <2>1 DEF FileOfRuns, Entries
<1>15. \A r \in Queues : out'[r] = IF r = q THEN Tail(out[q]) ELSE out[r]
  <2>1. PICK rest : rest = Tail(out[q])
    OBVIOUS
  <2>2. out' = [out EXCEPT ![q] = rest]
    BY <1>1, <2>1
  <2>q. QED
    BY <2>1, <2>2, OutThere
<1>16. ASSUME NEW r \in Queues PROVE InHand(r)'
  <2>1. CASE r = q
    <3>1. PICK outcome \in Outcomes, a \in 0 .. Len(Everything) :
            /\ Len(Everything) - a + Len(out[q]) = outcome.rows
            /\ Has(Everything, entry, a, Len(Everything) - a)
      BY <1>1 DEF Threads, InHand, entry
    <3>2. a \in Nat /\ Len(all) - a \in Nat /\ a + (Len(all) - a) = Len(all) /\ a \in 0 .. Len(all)
      BY <1>3, <1>5
    <3>3. Has(Append(all, x), entry, a, Len(all) - a + 1)
      BY <1>3, <1>5, <1>10, <3>1, <3>2, HasMore
    <3>4. Len(Append(all, x)) = Len(all) + 1
      BY <1>5, Appended
    <3>5. /\ a \in 0 .. Len(all) + 1 /\ Len(all) + 1 - a = Len(all) - a + 1
          /\ Len(all) + 1 - a + Len(Tail(out[q])) = outcome.rows
      <4>1. Len(all) - a + Len(out[q]) = outcome.rows
        BY <1>3, <3>1
      <4>2. PICK n, m, o : n = Len(all) /\ m = Len(out[q]) /\ o = Len(Tail(out[q]))
        OBVIOUS
      <4>3. n \in Nat /\ m \in Nat /\ o = m - 1 /\ a \in Nat /\ n - a \in Nat
            /\ n - a + m = outcome.rows
        BY <1>5, <1>7, <3>2, <4>1, <4>2
      <4>4. a \in 0 .. n + 1 /\ n + 1 - a = n - a + 1 /\ n + 1 - a + o = outcome.rows
        BY <4>3
      <4>q. QED
        BY <4>2, <4>4
    <3>6. /\ pc'[r] = "write" /\ out'[r] = Tail(out[q]) /\ queues' = queues
          /\ invocation' = invocation /\ Everything' = Append(all, x)
          /\ entry = [sweep |-> invocation, job |-> Head(queues[q])]
      BY <1>1, <1>6, <1>15, <2>1 DEF entry
    <3>7. Entries(Tail(out[q])) \subseteq RunLines(entry)
      BY <1>7, <1>8
    <3>8. PICK more : more = Append(all, x)
      OBVIOUS
    <3>9. /\ a \in 0 .. Len(more) /\ Len(more) - a + Len(Tail(out[q])) = outcome.rows
          /\ Has(more, entry, a, Len(more) - a)
      <4>1. Len(more) = Len(all) + 1 /\ Has(more, entry, a, Len(all) - a + 1)
        BY <3>3, <3>4, <3>8
      <4>2. Len(more) - a = Len(all) - a + 1
        BY <3>5, <4>1
      <4>q. QED
        BY <3>5, <4>1, <4>2
    <3>10. PICK rest : rest = Tail(out[q])
      OBVIOUS
    <3>11. /\ pc'[r] = "write" /\ out'[r] = rest /\ Everything' = more
           /\ entry = [sweep |-> invocation', job |-> Head(queues'[r])]
           /\ Entries(rest) \subseteq RunLines(entry)
           /\ Len(more) - a + Len(rest) = outcome.rows
      BY <2>1, <3>6, <3>7, <3>8, <3>9, <3>10
    <3>q. QED
      BY <3>9, <3>11 DEF InHand, Has, Entries
  <2>2. CASE r # q
    <3>1. pc[r] # "write"
      BY <1>1, <2>2 DEF PlanInv
    <3>2. InHand(r) /\ pc'[r] = pc[r] /\ out'[r] = out[r] /\ queues' = queues
          /\ invocation' = invocation
      BY <1>1, <1>15, <2>2 DEF Threads
    <3>q. QED
      BY <3>1, <3>2 DEF InHand, Entries
  <2>q. QED
    BY <2>1, <2>2
<1>17. \A line : Loose(line)' <=> Loose(line)
  BY <1>1 DEF Loose
<1>18. \A line \in Entries(Everything') : Loose(line) =>
         \E r \in Queues :
           pc[r] \in {"write", "dead"} /\ queues[r] # << >> /\ line.job = Head(queues[r])
  <2>1. \A line \in Entries(all) : Loose(line) =>
          \E r \in Queues :
            pc[r] \in {"write", "dead"} /\ queues[r] # << >> /\ line.job = Head(queues[r])
    BY <1>3 DEF Threads
  <2>2. pc[q] \in {"write", "dead"} /\ queues[q] # << >> /\ x.job = Head(queues[q])
    BY <1>1, <1>2, <1>10
  <2>q. QED
    BY <1>12, <2>1, <2>2
<1>19. Threads'
  BY <1>1, <1>16, <1>17, <1>18 DEF Threads, Entries
<1>q. QED
  BY <1>14, <1>19

\* With its last row written a run is whole, and so it is recorded.
LEMMA RecordRuns ==
  ASSUME FileInv, UseInv, PlanInv, ActiveInv, FileOfRuns, Threads, NEW q \in Queues, Record(q)
  PROVE  FileOfRuns' /\ Threads'
<1> DEFINE entry == [sweep |-> invocation, job |-> Head(queues[q])]
<1>1. /\ pc[q] = "write" /\ out[q] = << >> /\ Flush(<< >>)
      /\ recorded' = recorded \union {entry}
      /\ queues' = [queues EXCEPT ![q] = Tail(@)] /\ pc' = [pc EXCEPT ![q] = "status"]
      /\ UNCHANGED <<out, invocation>>
  BY DEF Record, Works
<1>2. PICK all : all = Everything
  OBVIOUS
<1>3. /\ all \in Seq(Entries(all)) /\ Len(all) \in Nat
      /\ Len(table) \in Nat /\ Len(table) <= Len(all)
      /\ Everything' = all /\ table' = all
  BY <1>1, <1>2, AllLines
<1>4. queues[q] # << >>
  BY <1>1 DEF ActiveInv
<1>5. entry \notin recorded /\ entry.sweep = invocation /\ entry.job = Head(queues[q])
  BY <1>4, NotYet
<1>6. PICK outcome \in Outcomes, a \in 0 .. Len(Everything) :
        /\ Len(Everything) - a + Len(out[q]) = outcome.rows
        /\ Has(Everything, entry, a, Len(Everything) - a)
  BY <1>1 DEF Threads, InHand
<1>7. a \in 0 .. Len(all) /\ Len(all) - a = outcome.rows /\ Has(all, entry, a, Len(all) - a)
  <2>1. Len(out[q]) = 0
    BY <1>1
  <2>q. QED
    BY <1>2, <1>3, <1>6, <2>1
<1> HIDE DEF entry
<1>8. a + outcome.rows <= Len(all) /\ Has(all, entry, a, outcome.rows)
  BY <1>3, <1>7
<1>9. ASSUME NEW e \in recorded' PROVE Whole(e)'
  <2>1. CASE e = entry
    BY <1>3, <1>7, <1>8, <2>1 DEF Whole, Has
  <2>2. CASE e \in recorded
    <3>1. PICK o \in Outcomes, b \in 0 .. Len(table) :
            b + o.rows <= Len(table) /\ Has(Everything, e, b, o.rows)
      BY <2>2 DEF FileOfRuns, Whole
    <3>2. o.rows \in Nat
      BY BenchAssumption
    <3>3. b \in 0 .. Len(all) /\ b + o.rows <= Len(all) /\ Has(all, e, b, o.rows)
      BY <1>2, <1>3, <3>1, <3>2
    <3>q. QED
      BY <1>3, <3>3 DEF Whole, Has
  <2>q. QED
    BY <1>1, <2>1, <2>2
<1>10. FileOfRuns'
  BY <1>1, <1>2, <1>3, <1>9 DEF FileOfRuns, Entries
<1>11. /\ \A r \in Queues : pc'[r] = IF r = q THEN "status" ELSE pc[r]
       /\ \A r \in Queues : queues'[r] = IF r = q THEN Tail(queues[q]) ELSE queues[r]
  <2>1. /\ pc' = [r \in Queues |-> IF r = q THEN "status" ELSE pc[r]]
        /\ queues' = [r \in Queues |-> IF r = q THEN Tail(queues[q]) ELSE queues[r]]
    BY <1>1 DEF PlanInv
  <2>q. QED
    BY <2>1
<1>12. ASSUME NEW r \in Queues PROVE InHand(r)'
  <2>1. CASE r = q
    <3>1. pc'[r] = "status"
      BY <1>11, <2>1
    <3>q. QED
      BY <3>1 DEF InHand
  <2>2. CASE r # q
    <3>1. pc[r] # "write"
      BY <1>1, <2>2 DEF PlanInv
    <3>2. InHand(r) /\ pc'[r] = pc[r] /\ out' = out /\ queues'[r] = queues[r]
          /\ invocation' = invocation
      BY <1>1, <1>11, <2>2 DEF Threads
    <3>q. QED
      BY <3>1, <3>2 DEF InHand, Entries
  <2>q. QED
    BY <2>1, <2>2
<1>13. ASSUME NEW line \in Entries(all), Loose(line)'
       PROVE  \E r \in Queues :
                pc'[r] \in {"write", "dead"} /\ queues'[r] # << >> /\ line.job = Head(queues'[r])
  <2>1. Loose(line) /\ [sweep |-> line.sweep, job |-> line.job] # entry /\ line.sweep = invocation
    BY <1>1, <1>13 DEF Loose
  <2>2. PICK r \in Queues :
          pc[r] \in {"write", "dead"} /\ queues[r] # << >> /\ line.job = Head(queues[r])
    BY <1>2, <1>13, <2>1 DEF Threads
  <2>3. r # q
    BY <2>1, <2>2 DEF entry
  <2>q. QED
    BY <1>11, <2>2, <2>3
<1>14. Threads'
  BY <1>3, <1>12, <1>13 DEF Threads, Entries
<1>q. QED
  BY <1>10, <1>14

\* A kill loses unflushed lines, which are of no run that is recorded.
LEMMA LoseRuns ==
  ASSUME FileInv, FileOfRuns, LoseBuffer, UNCHANGED <<recorded, invocation>>
  PROVE  FileOfRuns' /\ Entries(Everything)' \subseteq Entries(Everything)
<1>1. PICK t, b : t = table /\ b = buffer
  OBVIOUS
<1>2. t \in Seq(Entries(t)) /\ b \in Seq(Entries(b)) /\ Everything = t \o b
  BY <1>1 DEF FileInv, Everything
<1>3. table' = t /\ Everything' = t
  <2>1. t \o << >> = t
    BY <1>2
  <2>q. QED
    BY <1>1, <2>1 DEF LoseBuffer, Everything
<1>4. PICK all : all = Everything
  OBVIOUS
<1>5. Entries(all) = Entries(t) \union Entries(b)
  BY <1>2, <1>4, JoinedEntries
<1>6. \A line \in Entries(t) :
        \/ line = Header
        \/ /\ line \in RunLines([sweep |-> line.sweep, job |-> line.job])
           /\ line.sweep \in 1 .. invocation
  BY <1>4, <1>5 DEF FileOfRuns
<1>7. ASSUME NEW entry \in recorded PROVE Whole(entry)'
  <2>1. PICK outcome \in Outcomes, a \in 0 .. Len(table) :
          a + outcome.rows <= Len(table) /\ Has(Everything, entry, a, outcome.rows)
    BY DEF FileOfRuns, Whole
  <2>2. Has(t, entry, a, outcome.rows)
    BY <1>2, <2>1, HasPrefix
  <2>q. QED
    BY <1>1, <1>3, <2>1, <2>2 DEF Whole, Has
<1>8. FileOfRuns'
  BY <1>3, <1>6, <1>7 DEF FileOfRuns, Entries
<1>9. Entries(Everything)' = Entries(t)
  BY <1>3 DEF Entries
<1>q. QED
  BY <1>4, <1>5, <1>8, <1>9

\* Every step keeps it.
LEMMA RunsKeep ==
  ASSUME FileInv, UseInv, RunsInv, driver = "dbms", driver' = driver, BenchNext, FileInv'
  PROVE  RunsInv'
<1>1. PlanInv /\ FileOfRuns /\ (Active => ActiveInv /\ Threads) /\ (~Active => Leftovers)
  BY DEF RunsInv
<1>2. PlanInv' /\ (Active' => ActiveInv')
  BY <1>1, PlanKeeps
<1>3. SUFFICES FileOfRuns' /\ (Active' => Threads') /\ (~Active' => Leftovers')
  BY <1>2 DEF RunsInv
<1>4. Leftovers
  BY <1>1, WhoLeft
<1>5. ASSUME mainThread = "running" PROVE Active /\ ActiveInv /\ Threads
  BY <1>1, <1>5 DEF Active
<1>6. ASSUME mainThread' = "running" PROVE Active'
  BY <1>6 DEF Active
<1>7. ASSUME Flush(<< >>), UNCHANGED <<recorded, invocation>>
      PROVE  FileOfRuns' /\ Everything' = Everything
  BY <1>1, <1>7, AllLines, RestFile
<1>8. ASSUME UNCHANGED <<table, buffer, recorded, invocation>>
      PROVE  FileOfRuns' /\ Everything' = Everything
  <2>1. Everything' = Everything
    BY <1>8 DEF Everything
  <2>2. Len(table) <= Len(table') /\ Len(table') \in Nat
    BY <1>8, AllLines
  <2>q. QED
    BY <1>1, <1>8, <2>1, <2>2, RestFile
<1>9. ASSUME ThreadsDie, mainThread' \in {"crashed", "interrupted", "killed"},
             UNCHANGED invocation, Flush(<< >>) \/ LoseBuffer
      PROVE  FileOfRuns' /\ ~Active' /\ Leftovers'
  <2>1. ~Active' /\ UNCHANGED <<recorded, invocation>>
    BY <1>9 DEF Active, ThreadsDie
  <2>2. PICK S : S = Entries(Everything)
    OBVIOUS
  <2>3. FileOfRuns' /\ Entries(Everything)' \subseteq S
    <3>1. CASE Flush(<< >>)
      <4>1. FileOfRuns' /\ Everything' = Everything
        BY <1>7, <2>1, <3>1
      <4>q. QED
        BY <2>2, <4>1 DEF Entries
    <3>2. CASE LoseBuffer
      BY <1>1, <2>1, <2>2, <3>2, LoseRuns
    <3>q. QED
      BY <1>9, <3>1, <3>2
  <2>q. QED
    BY <1>4, <2>1, <2>2, <2>3, RestLeft
<1>10. CASE StartBench
  <2>1. buffer = << >>
    BY <1>10 DEF StartBench, UseInv, Closed
  <2>2. Active'
    BY <1>10 DEF StartBench, Active
  <2>q. QED
    BY <1>1, <1>10, <2>1, <2>2, StartRuns
<1>11. CASE WriteHeader \/ Completed
  <2>1. Flush(<< >>) /\ UNCHANGED <<threadVars, invocation>> /\ Active /\ Active'
    BY <1>11 DEF WriteHeader, Completed, Active
  <2>2. FileOfRuns' /\ Everything' = Everything
        /\ UNCHANGED <<queues, pc, out, recorded, invocation>> /\ Threads
    BY <1>1, <1>7, <2>1 DEF threadVars
  <2>3. InHand("eliza")'
    <3>1. InHand("eliza")
      BY <2>2 DEF Threads, Queues
    <3>q. QED
      BY <2>2, <3>1 DEF InHand, Has, Entries
  <2>4. Threads'
    BY <2>2, <2>3, MoveThreads DEF Queues
  <2>q. QED
    BY <2>1, <2>2, <2>4
<1>12. CASE KeyboardInterrupt \/ KillBench
  BY <1>9, <1>12 DEF KeyboardInterrupt, KillBench
<1>13. ASSUME NEW q \in Queues, RaiseInMain(q) PROVE FileOfRuns' /\ ~Active' /\ Leftovers'
  BY <1>9, <1>13 DEF RaiseInMain
<1>14. ASSUME NEW q \in Queues, NEW p, p \notin {"record", "write"}, pc[q] # "dead", Active,
              pc[q] = "write" => p = "dead", pc' = [pc EXCEPT ![q] = p],
              \A r \in Queues : r # q => out'[r] = out[r],
              UNCHANGED <<table, buffer, queues, recorded, invocation>>
       PROVE  FileOfRuns' /\ Threads'
  <2>1. pc' = [r \in Queues |-> IF r = q THEN p ELSE pc[r]]
    BY <1>1, <1>14 DEF PlanInv
  <2>2. pc'[q] = p /\ \A r \in Queues : r # q => pc'[r] = pc[r]
    BY <2>1
  <2>3. InHand(q)'
    BY <1>14, <2>2 DEF InHand
  <2>4. FileOfRuns' /\ Everything' = Everything /\ Threads
    BY <1>1, <1>8, <1>14
  <2>q. QED
    BY <1>14, <2>2, <2>3, <2>4, MoveThreads
<1>15. ASSUME NEW q \in Queues, Announce(q) PROVE FileOfRuns' /\ Threads' /\ Active'
  <2>1. /\ mainThread = "running" /\ mainThread' = "running" /\ pc[q] = "next"
        /\ pc' = [pc EXCEPT ![q] = IF queues[q] = << >> THEN "ended" ELSE "execute"]
        /\ UNCHANGED <<table, buffer, queues, out, recorded, invocation>>
    BY <1>15 DEF Announce, Works, file
  <2>2. PICK p : p = IF queues[q] = << >> THEN "ended" ELSE "execute"
    OBVIOUS
  <2>q. QED
    BY <1>5, <1>6, <1>14, <2>1, <2>2
<1>16. ASSUME NEW q \in Queues, Raise(q) PROVE FileOfRuns' /\ Threads' /\ Active'
  <2>1. /\ mainThread = "running" /\ mainThread' = "running" /\ pc[q] # "dead"
        /\ pc' = [pc EXCEPT ![q] = "dead"] /\ out' = [out EXCEPT ![q] = << >>]
        /\ UNCHANGED <<table, buffer, queues, recorded, invocation>>
    BY <1>16 DEF Raise, MayRaise, file
  <2>2. \A r \in Queues : r # q => out'[r] = out[r]
    BY <2>1, OutThere
  <2>3. "dead" \notin {"record", "write"}
    OBVIOUS
  <2>q. QED
    BY <1>5, <1>6, <1>14, <2>1, <2>2, <2>3
<1>17. ASSUME NEW q \in Queues, execute_run(q) \/ Acquire(q)
       PROVE  FileOfRuns' /\ Threads' /\ Active'
  <2>1. /\ mainThread = "running" /\ mainThread' = "running"
        /\ UNCHANGED <<table, buffer, recorded, invocation>>
    BY <1>17 DEF execute_run, Acquire, Works, file
  <2>q. QED
    BY <1>1, <1>5, <1>6, <1>8, <1>17, <2>1, AcquireRuns, RunGives
<1>18. ASSUME NEW q \in Queues, WriteRow(q) \/ Record(q)
       PROVE  FileOfRuns' /\ Threads' /\ Active'
  <2>1. mainThread = "running" /\ mainThread' = "running"
    BY <1>18 DEF WriteRow, Record, Works
  <2>q. QED
    BY <1>1, <1>5, <1>6, <1>18, <2>1, WriteRuns, RecordRuns
<1>19. ASSUME NEW q \in Queues, WriteStatus(q) PROVE FileOfRuns' /\ Threads' /\ Active'
  <2>1. /\ mainThread = "running" /\ mainThread' = "running" /\ pc[q] = "status"
        /\ pc' = [pc EXCEPT ![q] = "next"]
        /\ UNCHANGED <<table, buffer, queues, out, recorded, invocation>>
    BY <1>19 DEF WriteStatus, Works, file
  <2>2. "next" \notin {"record", "write"} /\ pc[q] \notin {"dead", "write"}
    BY <2>1
  <2>q. QED
    BY <1>5, <1>6, <1>14, <2>1, <2>2
<1>q. QED
  BY <1>10, <1>11, <1>12, <1>13, <1>15, <1>16, <1>17, <1>18, <1>19 DEF BenchNext, run_queue

\* At the start nothing is planned, recorded or written.
LEMMA RunsStart ==
  ASSUME Init
  PROVE  RunsInv
<1>1. /\ mainThread = "off" /\ sequential = FALSE /\ queues = Nothing
      /\ pc = [q \in Queues |-> "none"] /\ out = Nothing /\ lock = Nobody /\ state = NotStarted
      /\ invocation = 0 /\ recorded = {} /\ table = << >> /\ buffer = << >>
  BY DEF Init, FileInit, BenchInit
<1>2. ~Active
  BY <1>1 DEF Active
<1>3. PlanInv
  BY <1>1, <1>2 DEF PlanInv, Nothing
<1>4. Entries(Everything) = {}
  <2>1. << >> \o << >> = << >> /\ DOMAIN << >> = {}
    OBVIOUS
  <2>q. QED
    BY <1>1, <2>1 DEF Everything, Entries
<1>5. FileOfRuns /\ Leftovers
  BY <1>1, <1>4 DEF FileOfRuns, Leftovers
<1>q. QED
  BY <1>2, <1>3, <1>5 DEF RunsInv

\* It stays when nothing is done.
LEMMA RunsRest ==
  ASSUME FileInv, RunsInv, UNCHANGED <<driver, benchVars>>,
         driver = "dbms" => UNCHANGED <<table, buffer>>
  PROVE  RunsInv'
<1>1. UNCHANGED <<mainThread, sequential, queues, pc, out, lock, state, recorded, invocation,
                  planned>>
  BY DEF benchVars, threadVars
<1>2. Active' <=> Active
  BY <1>1 DEF Active
<1>3. PlanInv'
  BY <1>1, <1>2 DEF RunsInv, PlanInv
<1>4. Active' => ActiveInv'
  BY <1>1, <1>2, RestQueues DEF RunsInv, ActiveInv
<1>5. ASSUME driver = "dbms" PROVE FileOfRuns' /\ IF Active THEN Threads' ELSE Leftovers'
  <2>1. Everything' = Everything /\ FileOfRuns /\ IF Active THEN Threads ELSE Leftovers
    BY <1>5 DEF Everything, RunsInv
  <2>2. Len(table) <= Len(table') /\ Len(table') \in Nat
    BY <1>5, AllLines
  <2>3. FileOfRuns'
    BY <1>1, <2>1, <2>2, RestFile
  <2>4. ASSUME Threads PROVE Threads'
    <3>1. InHand("eliza")
      BY <2>4 DEF Threads, Queues
    <3>2. InHand("eliza")'
      BY <1>1, <2>1, <3>1 DEF InHand, Has, Entries
    <3>q. QED
      BY <1>1, <2>1, <2>4, <3>2, MoveThreads DEF Queues
  <2>5. ASSUME Leftovers PROVE Leftovers'
    <3>1. PICK S : S = Entries(Everything)
      OBVIOUS
    <3>2. Entries(Everything)' \subseteq S
      BY <2>1, <3>1 DEF Entries
    <3>q. QED
      BY <1>1, <2>5, <3>1, <3>2, RestLeft
  <2>q. QED
    BY <2>1, <2>3, <2>4, <2>5
<1>q. QED
  BY <1>2, <1>3, <1>4, <1>5 DEF RunsInv

\* What the threads have done is what the plan, the queues and the file say, in
\* every state of the driver.
THEOREM RunsInvariant == Spec => []RunsInv
<1>1. Init => RunsInv
  BY RunsStart
<1>2. DriversInv /\ RunsInv /\ [Next]_vars /\ DriversInv' => RunsInv'
  <2>1. SUFFICES ASSUME DriversInv, RunsInv, [Next]_vars, DriversInv' PROVE RunsInv'
    OBVIOUS
  <2>2. FileInv /\ UseInv /\ FileInv'
    BY <2>1 DEF DriversInv
  <2>3. CASE MeasureDatabases
    BY <2>1, <2>2, <2>3, RunsKeep DEF MeasureDatabases
  <2>4. CASE MeasureStructures
    BY <2>1, <2>2, <2>4, RunsRest DEF MeasureStructures
  <2>5. CASE MeasureYcsb \/ MeasureQueue \/ Finished \/ UNCHANGED vars
    <3>1. UNCHANGED <<driver, file, benchVars>>
      BY <2>5 DEF MeasureYcsb, MeasureQueue, Finished, vars
    <3>q. QED
      BY <2>1, <2>2, <3>1, RunsRest DEF file
  <2>q. QED
    BY <2>1, <2>3, <2>4, <2>5 DEF Next
<1>q. QED
  BY <1>1, <1>2, DriversInvariant, PTL DEF Spec

\* What the properties say of a state in which the invariants hold.
LEMMA BenchTypes ==
  ASSUME UseInv, RunsInv
  PROVE  BenchTypeOK
<1>1. PlanInv /\ (Active => QueuesInv)
  BY DEF RunsInv, ActiveInv
<1>2. state.done + Len(queues["eliza"]) + Len(queues["ace"]) = state.total
  <2>1. CASE Active
    BY <1>1, <2>1 DEF QueuesInv
  <2>2. CASE ~Active
    <3>1. /\ queues["eliza"] = << >> /\ queues["ace"] = << >>
          /\ state.done = 0 /\ state.total = 0
      BY <1>1, <2>2 DEF PlanInv, Nothing, NotStarted, Queues
    <3>q. QED
      BY <3>1
  <2>q. QED
    BY <2>1, <2>2
<1>3. mainThread \notin {"opened", "running"} /\ driver = "dbms" => buffer = << >>
  BY DEF UseInv, Closed
<1>4. lock # Nobody => pc[lock] \in {"write", "status"}
  BY <1>1 DEF PlanInv
<1>q. QED
  BY <1>1, <1>2, <1>3, <1>4 DEF BenchTypeOK, PlanInv

\* A run that is whole is a part of the file.
LEMMA WholeIsPart ==
  ASSUME FileInv, NEW entry, Whole(entry)
  PROVE  /\ \E outcome \in Outcomes : Len(Of(entry)) = outcome.rows
         /\ \E k \in 0 .. Len(table) - Len(Of(entry)) :
              Of(entry) = SubSeq(table, k + 1, k + Len(Of(entry)))
<1>1. PICK outcome \in Outcomes, a \in 0 .. Len(table) :
        a + outcome.rows <= Len(table) /\ Has(Everything, entry, a, outcome.rows)
  BY DEF Whole
<1>2. PICK t, b, all, n : t = table /\ b = buffer /\ all = Everything /\ n = outcome.rows
  OBVIOUS
<1>3. /\ t \in Seq(Entries(t)) /\ b \in Seq(Entries(b)) /\ all = t \o b /\ all \in Seq(Entries(all))
      /\ Len(all) \in Nat /\ Len(t) \in Nat /\ Len(t) <= Len(all) /\ DOMAIN all = 1 .. Len(all)
  BY <1>2, AllLines DEF FileInv, Everything
<1>4. /\ n \in Nat /\ a \in Nat /\ a + n <= Len(t) /\ a + n <= Len(all)
  <2>1. n \in Nat
    BY <1>2, BenchAssumption
  <2>q. QED
    BY <1>1, <1>2, <1>3, <2>1
<1>5. PICK S, lines : S = RunLines(entry) /\ lines = Only(all, S)
  OBVIOUS
<1>6. Stands(all, S, a, n)
  BY <1>1, <1>2, <1>5 DEF Has, Stands
<1>7. Of(entry) = lines
  BY <1>2, <1>5 DEF Of, RunLines
<1>8. /\ lines \in Seq(Entries(all)) /\ Len(lines) = n
      /\ \A i \in 1 .. n : lines[i] = all[a + i]
  <2>1. all \in Seq(Entries(all)) /\ a \in Nat /\ n \in Nat /\ a + n <= Len(all)
    BY <1>3, <1>4
  <2>2. IsPart(Only(all, S), all, a, n)
    BY <1>6, <2>1, OnlyPart
  <2>q. QED
    BY <1>5, <2>2 DEF IsPart
<1>9. lines = SubSeq(t, a + 1, a + n)
  <2>1. \A i \in 1 .. Len(t) : t[i] = all[i] /\ t[i] \in Entries(all)
    <3>1. \A i \in 1 .. Len(t) : t[i] = all[i] /\ i \in DOMAIN all
      BY <1>3, Joined
    <3>q. QED
      BY <3>1 DEF Entries
  <2>2. /\ a + 1 \in Int /\ a + n \in Int
        /\ \A i \in a + 1 .. a + n : i \in 1 .. Len(t)
    BY <1>3, <1>4
  <2>3. \A i \in a + 1 .. a + n : t[i] \in Entries(all)
    BY <2>1, <2>2
  <2>4. PICK lo, hi, V : lo = a + 1 /\ hi = a + n /\ V = Entries(all)
    OBVIOUS
  <2>5. lo \in Int /\ hi \in Int /\ \A i \in lo .. hi : t[i] \in V
    BY <2>2, <2>3, <2>4
  <2>6. PICK part : part = SubSeq(t, lo, hi)
    OBVIOUS
  <2>7. /\ part \in Seq(V) /\ Len(part) = IF lo <= hi THEN hi - lo + 1 ELSE 0
        /\ \A i \in 1 .. hi - lo + 1 : part[i] = t[lo + i - 1]
    BY <2>5, <2>6, SubSeqProperties
  <2>8. hi - lo + 1 = n /\ (lo <= hi <=> n # 0) /\ \A i \in 1 .. n : lo + i - 1 = a + i
    BY <1>4, <2>4
  <2>9. Len(part) = n /\ \A i \in 1 .. n : part[i] = t[a + i]
    BY <2>7, <2>8
  <2>10. \A i \in 1 .. n : a + i \in 1 .. Len(t)
    BY <1>3, <1>4
  <2>11. \A i \in 1 .. n : lines[i] = part[i]
    BY <1>8, <2>1, <2>9, <2>10
  <2>q. QED
    BY <1>8, <2>4, <2>6, <2>7, <2>9, <2>11, SeqEqual
<1>10. a \in 0 .. Len(t) - n
  BY <1>3, <1>4
<1>q. QED
  BY <1>2, <1>7, <1>8, <1>9, <1>10

\* A run that is counted as done has left its rows in the file, all of them and
\* next to each other, whatever the other queue, an exception or Ctrl-C did; and
\* of the other runs at most one per queue and invocation has left some of its
\* rows (run_benchmarks.py:443-453).
THEOREM DoneRunsAreWhole == Spec => []DoneRunsWhole
<1>1. DriversInv /\ RunsInv => DoneRunsWhole
  <2>1. SUFFICES ASSUME FileInv, UseInv, RunsInv PROVE DoneRunsWhole
    BY DEF DriversInv
  <2>2. BenchTypeOK
    BY <2>1, BenchTypes
  <2>3. ASSUME driver = "dbms", NEW entry \in recorded
        PROVE  LET lines == Of(entry)
               IN  /\ \E outcome \in Outcomes : Len(lines) = outcome.rows
                   /\ \E k \in 0 .. Len(table) - Len(lines) :
                        lines = SubSeq(table, k + 1, k + Len(lines))
    <3>1. Whole(entry)
      BY <2>1, <2>3 DEF RunsInv, FileOfRuns
    <3>q. QED
      BY <2>1, <3>1, WholeIsPart
  <2>4. ASSUME driver = "dbms", NEW q \in Queues
        PROVE  Cardinality({line.job : line \in
                 {l \in Range(Everything) \ {Header} :
                    /\ l.sweep = invocation /\ HostQueue(l.job.run) = q
                    /\ [sweep |-> l.sweep, job |-> l.job] \notin recorded}}) <= 1
    <3> DEFINE lines == {l \in Range(Everything) \ {Header} :
                           /\ l.sweep = invocation /\ HostQueue(l.job.run) = q
                           /\ [sweep |-> l.sweep, job |-> l.job] \notin recorded}
               jobs == {line.job : line \in lines}
    <3>1. Leftovers
      BY <2>1, <2>4, WhoLeft DEF RunsInv
    <3>2. \A l \in lines : l \in Entries(Everything) /\ Loose(l) /\ HostQueue(l.job.run) = q
      BY RowsOf DEF Loose
    <3> HIDE DEF lines
    <3>3. \A l, m \in lines : l.job = m.job
      BY <3>1, <3>2 DEF Leftovers
    <3>4. jobs = {} \/ \E job : jobs = {job}
      BY <3>3
    <3> HIDE DEF jobs
    <3>5. Cardinality(jobs) \in {0, 1}
      BY <3>4, FS_EmptySet, FS_Singleton
    <3>6. Cardinality(jobs) <= 1
      BY <3>5
    <3>q. QED
      BY <3>6 DEF jobs, lines
  <2>5. ASSUME driver = "dbms", mainThread = "running"
        PROVE  state.done = Cardinality({e \in recorded : e.sweep = invocation})
    BY <2>1, <2>5 DEF RunsInv, Active, ActiveInv, QueuesInv, Mine
  <2>q. QED
    BY <2>2, <2>3, <2>4, <2>5 DEF DoneRunsWhole
<1>q. QED
  BY <1>1, DriversInvariant, RunsInvariant, PTL

\* "Completed: done/total" is honest: it counts the runs of the plan that are in
\* the file, each once and none of another invocation, so the numbers are equal
\* exactly if all are; what is missing was left by a queue whose thread died
\* (BenchScheduler: CompletedIsHonest; run_benchmarks.py:400-423, 443-453, 474), for
\* any tables, plan and number of repetitions.
THEOREM CompletedHonestly == Spec => []CompletedIsHonest
<1>1. RunsInv => CompletedIsHonest
  <2>1. SUFFICES ASSUME RunsInv, driver = "dbms", mainThread = "completed"
                 PROVE  /\ DoneJobs \subseteq Range(planned)
                        /\ state.total = Cardinality(Range(planned))
                        /\ state.done = Cardinality(DoneJobs)
                        /\ state.done = state.total <=> DoneJobs = Range(planned)
                        /\ \A job \in Range(planned) \ DoneJobs :
                             ~sequential /\ \E q \in Queues :
                               HostQueue(job.run) = q /\ pc[q] = "dead"
    BY DEF CompletedIsHonest, DoneJobs, Mine
  <2>2. PlanInv /\ ActiveInv /\ QueuesInv
    BY <2>1 DEF RunsInv, Active, ActiveInv
  <2>3. DoneJobs \subseteq Range(planned)
    BY <2>2, RowsOf DEF QueuesInv
  <2>4. state.total = Cardinality(Range(planned))
    BY <2>2, DistinctLen, RowsOf DEF QueuesInv
  <2>5. state.done = Cardinality(DoneJobs)
    <3> DEFINE f == [e \in Mine |-> e.job]
    <3>1. \A e \in Mine : e = [sweep |-> e.sweep, job |-> e.job] /\ e.sweep = invocation
      BY <2>2 DEF PlanInv, Mine
    <3>2. \A e, g \in Mine : e.job = g.job => e = g
      BY <3>1
    <3>3. f \in Bijection(Mine, DoneJobs)
      BY <3>2 DEF Bijection, Injection, Surjection, IsInjective, DoneJobs
    <3>4. IsFiniteSet(Mine) /\ state.done = Cardinality(Mine)
      BY <2>2 DEF QueuesInv
    <3>5. ExistsBijection(Mine, DoneJobs)
      BY <3>3 DEF ExistsBijection
    <3>q. QED
      BY <3>4, <3>5, FS_Bijection
  <2>6. state.done = state.total <=> DoneJobs = Range(planned)
    <3>1. IsFiniteSet(Range(planned))
      BY <2>2, DistinctLen, RowsOf DEF QueuesInv
    <3>2. Cardinality(Range(planned)) = Cardinality(DoneJobs) => Range(planned) = DoneJobs
      BY <2>3, <3>1, FS_Subset
    <3>q. QED
      BY <2>4, <2>5, <3>2
  <2>7. ASSUME NEW job \in Range(planned), job \notin DoneJobs
        PROVE  ~sequential /\ \E q \in Queues : HostQueue(job.run) = q /\ pc[q] = "dead"
    <3>1. PICK q \in Queues : job \in Entries(queues[q])
      BY <2>2, <2>7, RowsOf DEF QueuesInv, Queues
    <3>2. queues[q] # << >>
      BY <3>1, ShortSeqs
    <3>3. pc[q] = "dead" /\ ~sequential
      BY <2>1, <2>2, <3>2 DEF ActiveInv
    <3>4. HostQueue(job.run) = q
      BY <2>2, <3>1, <3>3 DEF QueuesInv
    <3>q. QED
      BY <3>3, <3>4
  <2>q. QED
    BY <2>3, <2>4, <2>5, <2>6, <2>7
<1>q. QED
  BY <1>1, RunsInvariant, PTL
-----------------------------------------------------------------------------
(***************************************************************************)
(* A run of YCSB.  What may follow what in its scripts.                    *)
(***************************************************************************)
ReadOnly == Range(RO_WORKLOADS)
Inserting == Range(INS_WORKLOADS)
Clear(db) == IF db = "leveldb" THEN "rm" ELSE "flushall"
Opening(db, v) == Do(IF db = "leveldb" THEN "rm" ELSE "reap", v, "all", 0)
Opens(db, d) == d.op = "parse" \/ d = Opening(db, d.variant)
\* The runs after which a variant's script loads again, clears or ends.
IsLast(c) == c.op = "run" /\ (c.w \in Inserting \/ c.w = Last(RO_WORKLOADS))

Command(run, c) ==
  /\ c = Do(c.op, c.variant, c.w, c.t)
  /\ c.op = "parse" \/ c.variant \in Range(run.variants)
  /\ c.op \in IF run.db = "leveldb" THEN {"rm", "load", "mark", "run", "parse"}
              ELSE {"reap", "start", "flushall", "load", "mark", "run", "stop", "parse"}
  /\ c.op \in {"mark", "run"} =>
       c.w \in ReadOnly \union Inserting /\ c.t \in Range(run.thread_set)
  /\ c.op = "load" => c = SharedLoad(c.variant) \/ c.w \in Inserting
Within(db, c, d) ==
  \/ d.op = "run" /\ c = [d EXCEPT !.op = "mark"]
  \/ d.op = "mark" /\ d.w \in ReadOnly
     /\ (c = SharedLoad(d.variant) \/ (c.op = "run" /\ c.w \in ReadOnly))
  \/ d.op = "mark" /\ d.w \in Inserting /\ c = [d EXCEPT !.op = "load"]
  \/ d.op = "load" /\ d.w \in Inserting /\ c = [d EXCEPT !.op = Clear(db)]
  \/ d.op = "load" /\ d.w = "all" /\ c = IF db = "leveldb" THEN Opening(db, d.variant)
                                        ELSE [d EXCEPT !.op = "start"]
  \/ d.op = "start" /\ c = Opening(db, d.variant)
  \/ d.op \in {Clear(db), "stop"} /\ ~Opens(db, d) /\ (c = SharedLoad(d.variant) \/ IsLast(c))
Follows(db, c, d) ==
  \/ Opens(db, d) /\ c.w = "end"
  \/ c.variant = d.variant /\ Within(db, c, d)

Chain(run, s) ==
  /\ Distinct(s) /\ \A k \in DOMAIN s : Command(run, s[k])
  /\ \A k \in 1 .. Len(s) - 1 : Follows(run.db, s[k], s[k + 1])

\* A chain that may come behind any command of A, and leads to one of B.
Path(run, s, A, B) ==
  /\ Chain(run, s)
  /\ s = << >> => A \subseteq B
  /\ s # << >> => s[Len(s)] \in B /\ \A c \in A : Follows(run.db, c, s[1])

\* One path behind the other.
LEMMA PathJoin ==
  ASSUME NEW run, NEW A, NEW B, NEW C, NEW s, NEW m, Path(run, s, A, B), Path(run, m, B, C),
         Entries(s) \cap Entries(m) = {}
  PROVE  Path(run, s \o m, A, C)
<1> DEFINE t == s \o m
<1>1. Distinct(s) /\ Distinct(m) /\ s \in Seq(Entries(s)) /\ m \in Seq(Entries(m))
  BY DEF Path, Chain, Distinct
<1>2. /\ Len(t) = Len(s) + Len(m) /\ DOMAIN t = 1 .. Len(s) + Len(m)
      /\ Len(s) \in Nat /\ Len(m) \in Nat /\ DOMAIN s = 1 .. Len(s) /\ DOMAIN m = 1 .. Len(m)
      /\ \A k \in 1 .. Len(s) : t[k] = s[k]
      /\ \A k \in 1 .. Len(s) + Len(m) : k > Len(s) => t[k] = m[k - Len(s)]
  BY <1>1, Joined
<1>3. Distinct(t)
  BY <1>1, BothDistinct
<1>4. (s = << >> <=> Len(s) = 0) /\ (m = << >> <=> Len(m) = 0) /\ (t = << >> <=> Len(t) = 0)
  BY <1>1, <1>3, EmptySeq DEF Distinct
<1>5. s = << >> => t = m
  BY <1>1
<1>6. m = << >> => t = s
  BY <1>1
<1> HIDE DEF t
<1>7. ASSUME NEW k \in DOMAIN t PROVE Command(run, t[k])
  <2>1. CASE k <= Len(s)
    BY <1>2, <2>1 DEF Path, Chain
  <2>2. CASE k > Len(s)
    <3>1. k - Len(s) \in DOMAIN m
      BY <1>2, <2>2
    <3>q. QED
      BY <1>2, <2>2, <3>1 DEF Path, Chain
  <2>q. QED
    BY <1>2, <2>1, <2>2
<1>8. ASSUME NEW k \in 1 .. Len(t) - 1 PROVE Follows(run.db, t[k], t[k + 1])
  <2>1. CASE k < Len(s)
    <3>1. k \in 1 .. Len(s) - 1 /\ k \in 1 .. Len(s) /\ k + 1 \in 1 .. Len(s)
      BY <1>2, <2>1
    <3>q. QED
      BY <1>2, <3>1 DEF Path, Chain
  <2>2. CASE k = Len(s)
    <3>1. /\ k \in 1 .. Len(s) /\ k + 1 \in 1 .. Len(s) + Len(m) /\ k + 1 > Len(s)
          /\ k + 1 - Len(s) = 1 /\ Len(s) # 0 /\ Len(m) # 0
      BY <1>2, <2>2
    <3>2. t[k] = s[Len(s)] /\ t[k + 1] = m[1]
      BY <1>2, <2>2, <3>1
    <3>3. s[Len(s)] \in B /\ \A c \in B : Follows(run.db, c, m[1])
      BY <1>4, <3>1 DEF Path
    <3>q. QED
      BY <3>2, <3>3
  <2>3. CASE k > Len(s)
    <3>1. /\ k - Len(s) \in 1 .. Len(m) - 1 /\ k + 1 - Len(s) = (k - Len(s)) + 1
          /\ k \in 1 .. Len(s) + Len(m) /\ k + 1 \in 1 .. Len(s) + Len(m) /\ k + 1 > Len(s)
      BY <1>2, <2>3
    <3>2. t[k] = m[k - Len(s)] /\ t[k + 1] = m[(k - Len(s)) + 1]
      BY <1>2, <2>3, <3>1
    <3>3. \A i \in 1 .. Len(m) - 1 : Follows(run.db, m[i], m[i + 1])
      BY DEF Path, Chain
    <3>q. QED
      BY <3>1, <3>2, <3>3
  <2>q. QED
    BY <1>2, <2>1, <2>2, <2>3
<1>9. Chain(run, t)
  BY <1>3, <1>7, <1>8 DEF Chain
<1>10. CASE s = << >> \/ m = << >>
  <2>1. s = << >> => A \subseteq B
    BY DEF Path
  <2>2. m = << >> => B \subseteq C
    BY DEF Path
  <2>3. s = << >> => Path(run, t, A, C)
    BY <1>5, <1>9, <2>1 DEF Path
  <2>4. m = << >> => Path(run, t, A, C)
    BY <1>6, <1>9, <2>2 DEF Path
  <2>q. QED
    BY <1>10, <2>3, <2>4 DEF t
<1>11. CASE s # << >> /\ m # << >>
  <2>1. Len(s) # 0 /\ Len(m) # 0
    BY <1>4, <1>11
  <2>2. /\ 1 \in 1 .. Len(s) /\ Len(t) \in 1 .. Len(s) + Len(m) /\ Len(t) > Len(s)
        /\ Len(t) - Len(s) = Len(m) /\ Len(t) # 0
    BY <1>2, <2>1
  <2>3. t[1] = s[1] /\ t[Len(t)] = m[Len(m)]
    BY <1>2, <2>2
  <2>4. (\A c \in A : Follows(run.db, c, s[1])) /\ m[Len(m)] \in C
    BY <1>11 DEF Path
  <2>5. t # << >>
    BY <1>4, <2>2
  <2>q. QED
    BY <1>9, <2>3, <2>4, <2>5 DEF Path, t
<1>q. QED
  BY <1>10, <1>11

\* Sequences of commands one behind the other, and their commands.
Parts(n, ss) == ss = [i \in 1 .. n |-> ss[i]]
PathsOf(run, n, ss, P) == \A i \in 1 .. n : Path(run, ss[i], P[i - 1], P[i])
Apart(n, ss) == \A i, j \in 1 .. n : i # j => Entries(ss[i]) \cap Entries(ss[j]) = {}
AllOf(n, ss) == UNION {Entries(ss[i]) : i \in 1 .. n}

\* Paths one behind the other, in a sequence of sequences.
LEMMA PathFlat ==
  ASSUME NEW run, NEW n \in Nat, NEW ss, NEW P, NEW flat, flat = FlattenSeq(ss),
         Parts(n, ss), PathsOf(run, n, ss, P), Apart(n, ss)
  PROVE  Path(run, flat, P[0], P[n]) /\ Entries(flat) = AllOf(n, ss)
<1> USE DEF Parts, PathsOf, Apart, AllOf
<1> DEFINE Up(k) == UNION {Entries(ss[i]) : i \in 1 .. k}
<1>1. Up(0) = {} /\ \A k \in 1 .. n : Up(k) = Up(k - 1) \union Entries(ss[k])
  <2>1. ASSUME NEW k \in 1 .. n, NEW x
        PROVE  x \in Up(k) <=> x \in Up(k - 1) \/ x \in Entries(ss[k])
    <3>1. \A i : i \in 1 .. k <=> i \in 1 .. k - 1 \/ i = k
      OBVIOUS
    <3>q. QED
      BY <3>1
  <2>2. ASSUME NEW k \in 1 .. n PROVE Up(k) = Up(k - 1) \union Entries(ss[k])
    BY <2>1
  <2>3. 1 .. 0 = {}
    OBVIOUS
  <2>q. QED
    BY <2>2, <2>3
<1>2. \A k \in 1 .. n : Up(k - 1) \cap Entries(ss[k]) = {}
  <2>1. ASSUME NEW k \in 1 .. n, NEW i \in 1 .. k - 1
        PROVE  Entries(ss[i]) \cap Entries(ss[k]) = {}
    <3>1. i \in 1 .. n /\ i # k
      OBVIOUS
    <3>q. QED
      BY <3>1
  <2>q. QED
    BY <2>1
<1>3. \A i \in 1 .. n : ss[i] \in Seq(Entries(ss[i]))
  BY DEF Path, Chain, Distinct
<1>4. PICK g : FlatBy(g, ss, n)
  BY <1>3, FlatIs
<1>5. g[0] = << >> /\ FlattenSeq(ss) = g[n] /\ \A k \in 1 .. n : g[k] = g[k - 1] \o ss[k]
  BY <1>4 DEF FlatBy
<1> DEFINE FlatTo(v, k) == Path(run, v, P[0], P[k]) /\ Entries(v) = Up(k)
           T == {k \in 0 .. n : FlatTo(g[k], k)}
<1>6. 0 \in T
  <2>1. Distinct(<< >>) /\ Len(<< >>) = 0 /\ Entries(<< >>) = {} /\ DOMAIN << >> = {}
    BY ShortSeqs DEF Distinct, IsInjective
  <2>2. Chain(run, << >>)
    BY <2>1 DEF Chain
  <2>q. QED
    BY <1>1, <1>5, <2>1, <2>2 DEF Path
<1>7. ASSUME NEW k \in 1 .. n, k - 1 \in T PROVE k \in T
  <2>1. Up(k) = Up(k - 1) \union Entries(ss[k]) /\ Up(k - 1) \cap Entries(ss[k]) = {}
    BY <1>1, <1>2
  <2> HIDE DEF Up
  <2>2. g[k] = g[k - 1] \o ss[k] /\ FlatTo(g[k - 1], k - 1)
    BY <1>5, <1>7
  <2>3. PICK a, b : a = g[k - 1] /\ b = ss[k]
    OBVIOUS
  <2>4. /\ Path(run, a, P[0], P[k - 1]) /\ Path(run, b, P[k - 1], P[k])
        /\ Entries(a) \cap Entries(b) = {}
    BY <2>1, <2>2, <2>3
  <2>5. Path(run, a \o b, P[0], P[k])
    BY <2>4, PathJoin
  <2>6. Entries(a \o b) = Up(k - 1) \union Entries(b)
    BY <2>2, <2>3, <2>4, JoinedEntries DEF Path, Chain, Distinct
  <2>7. FlatTo(g[k], k)
    BY <2>1, <2>2, <2>3, <2>5, <2>6
  <2>q. QED
    BY <2>7
<1>8. n \in T
  <2> HIDE DEF T
  <2>1. \A k \in 0 .. n : k \in T
    BY <1>6, <1>7, Induct
  <2>q. QED
    BY <2>1
<1>q. QED
  BY <1>5, <1>8

\* Fewer commands before, more behind.
LEMMA PathWider ==
  ASSUME NEW run, NEW s, NEW A, NEW B, NEW C, NEW D, Path(run, s, A, B),
         C \subseteq A, B \subseteq D
  PROVE  Path(run, s, C, D)
BY DEF Path

\* Paths of one command and of two.
LEMMA PathOne ==
  ASSUME NEW run, NEW c, NEW A, NEW B, Command(run, c), c \in B,
         \A a \in A : Follows(run.db, a, c)
  PROVE  Path(run, <<c>>, A, B) /\ Entries(<<c>>) = {c}
<1>1. /\ <<c>> \in Seq(Entries(<<c>>)) /\ Entries(<<c>>) = {c}
      /\ Len(<<c>>) = 1 /\ DOMAIN <<c>> = {1} /\ <<c>>[1] = c /\ <<c>> # << >>
  BY ShortSeqs
<1>2. Distinct(<<c>>)
  BY <1>1 DEF Distinct, IsInjective
<1>3. \A k : k \notin 1 .. 1 - 1
  OBVIOUS
<1>4. Chain(run, <<c>>)
  BY <1>1, <1>2, <1>3 DEF Chain
<1>q. QED
  BY <1>1, <1>4 DEF Path

\* A path of two commands.
LEMMA PathTwo ==
  ASSUME NEW run, NEW c, NEW d, NEW A, NEW B, Command(run, c), Command(run, d), d \in B, c # d,
         \A a \in A : Follows(run.db, a, c), Follows(run.db, c, d)
  PROVE  Path(run, <<c, d>>, A, B) /\ Entries(<<c, d>>) = {c, d}
<1>1. Path(run, <<c>>, A, {c}) /\ Entries(<<c>>) = {c}
  BY PathOne
<1>2. Path(run, <<d>>, {c}, B) /\ Entries(<<d>>) = {d}
  BY PathOne
<1>3. <<c>> \o <<d>> = <<c, d>>
  <2>1. PICK S : S = {c, d}
    OBVIOUS
  <2>2. <<c>> \in Seq(S) /\ <<d>> \in Seq(S) /\ <<c, d>> \in Seq(S) /\ d \in S
    BY <2>1
  <2>3. Append(<<c>>, d) = <<c, d>>
    <3>1. PICK t : t = Append(<<c>>, d)
      OBVIOUS
    <3>2. t \in Seq(S) /\ Len(t) = 2 /\ t[1] = c /\ t[2] = d
      BY <2>2, <3>1, AppendProperties
    <3>3. PICK u : u = <<c, d>>
      OBVIOUS
    <3>4. u \in Seq(S) /\ Len(u) = 2 /\ u[1] = c /\ u[2] = d
      BY <2>2, <3>3
    <3>5. \A k \in 1 .. 2 : t[k] = u[k]
      BY <3>2, <3>4
    <3>6. t = u
      BY <3>2, <3>4, <3>5, SeqEqual
    <3>q. QED
      BY <3>1, <3>3, <3>6
  <2>4. Append(<<c>>, d) = <<c>> \o <<d>>
    BY <2>2, AppendIsConcat
  <2>q. QED
    BY <2>3, <2>4
<1>4. Path(run, <<c>> \o <<d>>, A, B)
  BY <1>1, <1>2, PathJoin
<1>5. Entries(<<c>> \o <<d>>) = {c} \union {d}
  BY <1>1, <1>2, JoinedEntries DEF Path, Chain, Distinct
<1>q. QED
  BY <1>3, <1>4, <1>5

\* The last entry of parts of equal length.
LEMMA FlatLast ==
  ASSUME NEW n \in Nat, NEW m \in Nat, NEW ss, ss = [i \in 1 .. n |-> ss[i]],
         \A i \in 1 .. n : ss[i] \in Seq(Entries(ss[i])) /\ Len(ss[i]) = m
  PROVE  LET flat == FlattenSeq(ss)
         IN  flat # << >> => n # 0 /\ m # 0 /\ flat[Len(flat)] = ss[n][m]
<1>1. PICK g : FlatBy(g, ss, n)
  BY FlatIs
<1>2. PICK S : S = UNION {Entries(ss[i]) : i \in 1 .. n}
  OBVIOUS
<1>3. /\ g \in [0 .. n -> Seq(S)] /\ g[0] = << >> /\ FlattenSeq(ss) = g[n]
      /\ \A k \in 1 .. n : g[k] = g[k - 1] \o ss[k]
  BY <1>1, <1>2 DEF FlatBy
<1>4. SUFFICES ASSUME g[n] # << >> PROVE n # 0 /\ m # 0 /\ g[n][Len(g[n])] = ss[n][m]
  BY <1>3
<1>5. n # 0
  BY <1>3, <1>4
<1>6. m # 0
  <2>1. SUFFICES ASSUME m = 0 PROVE FALSE
    OBVIOUS
  <2>2. ASSUME NEW i \in 1 .. n PROVE Entries(ss[i]) = {}
    <3>1. DOMAIN ss[i] = 1 .. 0
      BY <2>1
    <3>q. QED
      BY <3>1 DEF Entries
  <2>3. S = {}
    BY <1>2, <2>2
  <2>4. g[n] \in Seq({})
    BY <1>3, <2>3
  <2>q. QED
    BY <1>4, <2>4
<1>7. PICK a, b : a = g[n - 1] /\ b = ss[n]
  OBVIOUS
<1>8. g[n] = a \o b /\ a \in Seq(S) /\ b \in Seq(Entries(b)) /\ Len(b) = m
  <2>1. n \in 1 .. n /\ n - 1 \in 0 .. n
    BY <1>5
  <2>q. QED
    BY <1>3, <1>7, <2>1
<1>9. a \in Seq(Entries(a))
  BY <1>8, OwnEntries
<1>10. /\ Len(a \o b) = Len(a) + m /\ Len(a) \in Nat
       /\ \A k \in 1 .. m : (a \o b)[Len(a) + k] = b[k]
  <2>1. a \in Seq(Entries(a)) /\ b \in Seq(Entries(b))
    BY <1>8, <1>9
  <2>2. Len(a \o b) = Len(a) + Len(b) /\ Len(a) \in Nat
    BY ONLY <2>1, Joined, SMTT(30)
  <2>3. \A k \in 1 .. Len(b) : (a \o b)[Len(a) + k] = b[k]
    BY ONLY <2>1, Joined, SMTT(30)
  <2>4. Len(b) = m
    BY <1>8
  <2>q. QED
    BY <2>2, <2>3, <2>4
<1>11. (a \o b)[Len(a) + m] = b[m]
  BY <1>6, <1>10
<1>q. QED
  BY <1>5, <1>6, <1>7, <1>8, <1>10, <1>11

\* What the tables of the runs are.
LEMMA TablesOf ==
  /\ \A s : EachOnce(s) => /\ Distinct(s) /\ Len(s) \in Nat /\ DOMAIN s = 1 .. Len(s)
                           /\ Range(s) = Entries(s)
  /\ ReadOnly \cap Inserting = {} /\ "all" \notin ReadOnly \union Inserting
  /\ "end" \notin ReadOnly \union Inserting
<1>1. ASSUME NEW s, EachOnce(s)
      PROVE  /\ Distinct(s) /\ Len(s) \in Nat /\ DOMAIN s = 1 .. Len(s) /\ Range(s) = Entries(s)
  <2>1. Range(s) = Entries(s)
    BY RowsOf
  <2>2. Distinct(s)
    BY <1>1, <2>1 DEF EachOnce, Distinct
  <2>q. QED
    BY <2>1, <2>2, OwnEntries DEF Distinct
<1>2. /\ ReadOnly \cap Inserting = {} /\ "all" \notin ReadOnly \union Inserting
      /\ "end" \notin ReadOnly \union Inserting
  BY WorkloadsAssumption DEF ReadOnly, Inserting
<1>q. QED
  BY <1>1, <1>2

\* The runs of some workloads: each once, the last one of the last workload.
LEMMA RunsAre ==
  ASSUME NEW v, NEW ws, NEW ts, EachOnce(ws), EachOnce(ts)
  PROVE  LET runs == Runs(v, ws, ts)
         IN  /\ Distinct(runs)
             /\ \A k \in DOMAIN runs :
                  /\ runs[k] = Do("run", v, runs[k].w, runs[k].t)
                  /\ runs[k].w \in Range(ws) /\ runs[k].t \in Range(ts)
             /\ runs # << >> => runs[Len(runs)].w = Last(ws)
<1> DEFINE Of1(i) == [j \in DOMAIN ts |-> Do("run", v, ws[i], ts[j])]
           ss == [i \in DOMAIN ws |-> Of1(i)]
           n == Len(ws)
           m == Len(ts)
<1>1. /\ n \in Nat /\ DOMAIN ws = 1 .. n /\ m \in Nat /\ DOMAIN ts = 1 .. m
      /\ IsInjective(ws) /\ IsInjective(ts)
  BY TablesOf DEF Distinct
<1>2. ASSUME NEW i \in 1 .. n
      PROVE  /\ Distinct(ss[i]) /\ Len(ss[i]) = m
             /\ \A c \in Entries(ss[i]) :
                  c = Do("run", v, c.w, c.t) /\ c.w = ws[i] /\ c.t \in Range(ts)
             /\ m # 0 => ss[i][m].w = ws[i]
  <2> DEFINE a == Of1(i)
  <2>1. ss[i] = a
    BY <1>1
  <2>2. \A j \in DOMAIN a : /\ a[j] = Do("run", v, a[j].w, a[j].t) /\ a[j].w = ws[i]
                            /\ a[j].t = ts[j] /\ j \in DOMAIN ts
    BY DEF Do
  <2>3. a = [j \in 1 .. m |-> a[j]]
    BY <1>1
  <2> HIDE DEF a, ss, n, m
  <2>4. a \in Seq(Entries(a)) /\ Len(a) = m /\ DOMAIN a = 1 .. m
    BY <1>1, <2>3, Made
  <2>5. ASSUME NEW j \in DOMAIN a, NEW k \in DOMAIN a, a[j] = a[k] PROVE j = k
    <3>1. ts[j] = ts[k] /\ j \in DOMAIN ts /\ k \in DOMAIN ts
      BY <2>2, <2>5
    <3>q. QED
      BY <1>1, <3>1 DEF IsInjective
  <2>6. Distinct(a)
    BY <2>4, <2>5 DEF Distinct, IsInjective
  <2>7. \A c \in Entries(a) : c = Do("run", v, c.w, c.t) /\ c.w = ws[i] /\ c.t \in Range(ts)
    BY <2>2 DEF Entries, Range
  <2>8. m # 0 => a[m].w = ws[i]
    BY <1>1, <2>2, <2>4
  <2>q. QED
    BY <2>1, <2>4, <2>6, <2>7, <2>8
<1>3. ss = [i \in 1 .. n |-> ss[i]] /\ Runs(v, ws, ts) = FlattenSeq(ss)
  BY <1>1 DEF Runs
<1>4. Last(ws) = ws[n]
  BY DEF Last
<1>5. \A i \in 1 .. n : ws[i] \in Range(ws)
  BY <1>1 DEF Range
<1> HIDE DEF ss, n, m
<1>6. \A i \in 1 .. n : ss[i] \in Seq(Entries(ss[i])) /\ Distinct(ss[i])
  BY <1>2 DEF Distinct
<1>7. ASSUME NEW i \in 1 .. n, NEW j \in 1 .. n, i # j
      PROVE  Entries(ss[i]) \cap Entries(ss[j]) = {}
  <2>1. ws[i] # ws[j]
    BY <1>1, <1>7 DEF IsInjective
  <2>q. QED
    BY <1>2, <2>1
<1>8. PICK flat : flat = FlattenSeq(ss)
  OBVIOUS
<1>9. Distinct(flat) /\ Entries(flat) = UNION {Entries(ss[i]) : i \in 1 .. n}
  BY <1>1, <1>3, <1>6, <1>7, <1>8, FlatKeeps
<1>10. \A k \in DOMAIN flat : \E i \in 1 .. n : flat[k] \in Entries(ss[i])
  <2>1. \A k \in DOMAIN flat : flat[k] \in Entries(flat)
    BY DEF Entries
  <2>q. QED
    BY <1>9, <2>1
<1>11. ASSUME NEW k \in DOMAIN flat
       PROVE  /\ flat[k] = Do("run", v, flat[k].w, flat[k].t)
              /\ flat[k].w \in Range(ws) /\ flat[k].t \in Range(ts)
  <2>1. PICK i \in 1 .. n : flat[k] \in Entries(ss[i])
    BY <1>10
  <2>q. QED
    BY <1>2, <1>5, <2>1
<1>12. flat # << >> => flat[Len(flat)].w = Last(ws)
  <2>1. \A i \in 1 .. n : ss[i] \in Seq(Entries(ss[i])) /\ Len(ss[i]) = m
    BY <1>2, <1>6
  <2>2. flat # << >> => n # 0 /\ m # 0 /\ flat[Len(flat)] = ss[n][m]
    BY <1>1, <1>3, <1>8, <2>1, FlatLast
  <2>q. QED
    BY <1>1, <1>2, <1>4, <2>2
<1>q. QED
  BY <1>3, <1>8, <1>9, <1>11, <1>12

\* What ends the shared workloads and those that insert, and what ends a script.
Ends(run, v) ==
  {SharedLoad(v)}
    \union {Do("run", v, w, t) : w \in Inserting \union {Last(RO_WORKLOADS)},
                                 t \in Range(run.thread_set)}
Closings(run) ==
  {Do(op, v, "end", 0) : op \in {"rm", "stop"}, v \in Range(run.variants) \union {"none"}}

\* A run for which there are scripts, and one of its variants.
Serves(run, v) == run \in YcsbRuns /\ v \in Range(run.variants)

\* The path through the workloads that only read.
LEMMA SharedPath ==
  ASSUME NEW run, NEW v, Serves(run, v)
  PROVE  LET s == SharedRuns(v, run.thread_set)
         IN  /\ Path(run, s, {SharedLoad(v)}, Ends(run, v))
             /\ \A c \in Entries(s) : c.variant = v /\ c.w \in ReadOnly
<1> DEFINE runs == Runs(v, RO_WORKLOADS, run.thread_set)
           ss == [k \in DOMAIN runs |-> Marked(runs[k])]
           n == Len(runs)
           P == [k \in 0 .. n |-> IF k = 0 THEN {SharedLoad(v)} ELSE {runs[k]}]
<1>1. EachOnce(RO_WORKLOADS) /\ EachOnce(run.thread_set) /\ run.db \in {"leveldb", "redis"}
  BY WorkloadsAssumption, YcsbAssumption DEF Serves
<1>2. /\ Distinct(runs)
      /\ \A k \in DOMAIN runs :
           /\ runs[k] = Do("run", v, runs[k].w, runs[k].t)
           /\ runs[k].w \in ReadOnly /\ runs[k].t \in Range(run.thread_set)
      /\ runs # << >> => runs[n].w = Last(RO_WORKLOADS)
  BY <1>1, RunsAre DEF ReadOnly
<1> HIDE DEF runs
<1>3. n \in Nat /\ DOMAIN runs = 1 .. n /\ (n # 0 => runs # << >>)
  BY <1>2, OwnEntries DEF Distinct
<1>4. SharedRuns(v, run.thread_set) = FlattenSeq(ss) /\ ss = [k \in 1 .. n |-> ss[k]]
  BY <1>3 DEF SharedRuns, runs
<1>5. ASSUME NEW k \in 1 .. n
      PROVE  /\ Path(run, ss[k], P[k - 1], P[k])
             /\ Entries(ss[k]) = {[runs[k] EXCEPT !.op = "mark"], runs[k]}
  <2>1. PICK c, d, w, t : c = [runs[k] EXCEPT !.op = "mark"] /\ d = runs[k]
                          /\ w = runs[k].w /\ t = runs[k].t
    OBVIOUS
  <2>2. d = Do("run", v, w, t) /\ w \in ReadOnly /\ t \in Range(run.thread_set)
    BY <1>2, <1>3, <2>1
  <2>3. c = Do("mark", v, w, t)
    BY <2>1, <2>2 DEF Do
  <2>4. ss[k] = <<c, d>>
    BY <1>3, <2>1 DEF Marked
  <2>5. Command(run, c) /\ Command(run, d) /\ c # d
    BY <1>1, <2>2, <2>3 DEF Command, Do, Serves
  <2>6. Follows(run.db, c, d)
    BY <2>1, <2>2, <2>3 DEF Follows, Within, Do
  <2>7. ASSUME NEW a \in P[k - 1] PROVE Follows(run.db, a, c)
    <3>1. CASE k = 1
      <4>1. a = SharedLoad(v)
        BY <2>7, <3>1
      <4>q. QED
        BY <2>2, <2>3, <4>1 DEF Follows, Within, SharedLoad, Do
    <3>2. CASE k # 1
      <4>1. k - 1 \in 1 .. n /\ k - 1 \in 0 .. n /\ k - 1 # 0
        BY <1>3, <3>2
      <4>2. a = runs[k - 1]
        BY <2>7, <4>1
      <4>3. a.variant = v /\ a.op = "run" /\ a.w \in ReadOnly
        BY <1>2, <1>3, <4>1, <4>2 DEF Do
      <4>q. QED
        BY <2>2, <2>3, <4>3 DEF Follows, Within, Do
    <3>q. QED
      BY <3>1, <3>2
  <2>8. P[k] = {d}
    BY <1>3, <2>1
  <2> HIDE DEF P, ss
  <2>9. PICK A : A = P[k - 1]
    OBVIOUS
  <2>10. Path(run, <<c, d>>, A, {d}) /\ Entries(<<c, d>>) = {c, d}
    BY <2>5, <2>6, <2>7, <2>9, PathTwo
  <2>q. QED
    BY <2>1, <2>4, <2>8, <2>9, <2>10
<1>6. ASSUME NEW i \in 1 .. n, NEW j \in 1 .. n, i # j
      PROVE  Entries(ss[i]) \cap Entries(ss[j]) = {}
  <2>1. PICK c, d : c = runs[i] /\ d = runs[j]
    OBVIOUS
  <2>2. c # d /\ c = Do("run", v, c.w, c.t) /\ d = Do("run", v, d.w, d.t)
    BY <1>2, <1>3, <1>6, <2>1 DEF Distinct, IsInjective
  <2>3. {[c EXCEPT !.op = "mark"], c} \cap {[d EXCEPT !.op = "mark"], d} = {}
    BY <2>2 DEF Do
  <2>q. QED
    BY <1>5, <2>1, <2>3
<1>7. PICK s : s = FlattenSeq(ss)
  OBVIOUS
<1>8. P[0] = {SharedLoad(v)} /\ P[n] \subseteq Ends(run, v)
  <2>1. 0 \in 0 .. n /\ n \in 0 .. n
    BY <1>3
  <2>2. n # 0 => P[n] = {runs[n]} /\ n \in DOMAIN runs /\ runs[n].w = Last(RO_WORKLOADS)
    BY <1>2, <1>3, <2>1
  <2>3. n # 0 => runs[n] = Do("run", v, Last(RO_WORKLOADS), runs[n].t)
                 /\ runs[n].t \in Range(run.thread_set)
    BY <1>2, <2>2
  <2>4. n # 0 => runs[n] \in Ends(run, v)
    BY <2>3 DEF Ends
  <2>q. QED
    BY <2>1, <2>2, <2>4 DEF Ends
<1> HIDE DEF ss, P
<1>9. Path(run, s, P[0], P[n]) /\ Entries(s) = UNION {Entries(ss[i]) : i \in 1 .. n}
  <2>1. \A i \in 1 .. n : Path(run, ss[i], P[i - 1], P[i])
    BY <1>5
  <2>5. Parts(n, ss) /\ PathsOf(run, n, ss, P) /\ Apart(n, ss) /\ n \in Nat
    BY <1>3, <1>4, <1>6, <2>1 DEF Parts, PathsOf, Apart
  <2>6. Path(run, s, P[0], P[n]) /\ Entries(s) = AllOf(n, ss)
    BY <1>7, <2>5, PathFlat
  <2>q. QED
    BY <2>6 DEF AllOf
<1>10. Path(run, s, {SharedLoad(v)}, Ends(run, v))
  BY <1>8, <1>9, PathWider
<1>11. ASSUME NEW c \in Entries(s) PROVE c.variant = v /\ c.w \in ReadOnly
  <2>1. PICK i \in 1 .. n : c \in {[runs[i] EXCEPT !.op = "mark"], runs[i]}
    BY <1>5, <1>9
  <2>2. runs[i] = Do("run", v, runs[i].w, runs[i].t) /\ runs[i].w \in ReadOnly
    BY <1>2, <1>3
  <2>q. QED
    BY <2>1, <2>2 DEF Do
<1>q. QED
  BY <1>4, <1>7, <1>10, <1>11

\* The path through those that insert.
LEMMA OwnPath ==
  ASSUME NEW run, NEW v, Serves(run, v)
  PROVE  LET s == OwnRuns(v, run.thread_set, Clear(run.db))
         IN  /\ Path(run, s, Ends(run, v), Ends(run, v))
             /\ \A c \in Entries(s) : c.variant = v /\ c.w \in Inserting
<1> DEFINE runs == Runs(v, INS_WORKLOADS, run.thread_set)
           clear == Clear(run.db)
           Own(r) == {[r EXCEPT !.op = clear], [r EXCEPT !.op = "load"],
                      [r EXCEPT !.op = "mark"], r}
           ss == [k \in DOMAIN runs |->
                    <<[runs[k] EXCEPT !.op = clear], [runs[k] EXCEPT !.op = "load"]>>
                      \o Marked(runs[k])]
           n == Len(runs)
           P == [k \in 0 .. n |-> Ends(run, v)]
<1>1. EachOnce(INS_WORKLOADS) /\ EachOnce(run.thread_set) /\ run.db \in {"leveldb", "redis"}
  BY WorkloadsAssumption, YcsbAssumption DEF Serves
<1>2. /\ Distinct(runs)
      /\ \A k \in DOMAIN runs :
           /\ runs[k] = Do("run", v, runs[k].w, runs[k].t)
           /\ runs[k].w \in Inserting /\ runs[k].t \in Range(run.thread_set)
  BY <1>1, RunsAre DEF Inserting
<1> HIDE DEF runs
<1>3. n \in Nat /\ DOMAIN runs = 1 .. n
  BY <1>2, OwnEntries DEF Distinct
<1>4. OwnRuns(v, run.thread_set, clear) = FlattenSeq(ss) /\ ss = [k \in 1 .. n |-> ss[k]]
  BY <1>3 DEF OwnRuns, runs
<1>5. ASSUME NEW k \in 1 .. n
      PROVE  Path(run, ss[k], Ends(run, v), Ends(run, v)) /\ Entries(ss[k]) = Own(runs[k])
  <2>1. PICK a, b, c, d, w, t : /\ a = [runs[k] EXCEPT !.op = clear]
                                /\ b = [runs[k] EXCEPT !.op = "load"]
                                /\ c = [runs[k] EXCEPT !.op = "mark"] /\ d = runs[k]
                                /\ w = runs[k].w /\ t = runs[k].t
    OBVIOUS
  <2>2. d = Do("run", v, w, t) /\ w \in Inserting /\ t \in Range(run.thread_set)
    BY <1>2, <1>3, <2>1
  <2>3. a = Do(clear, v, w, t) /\ b = Do("load", v, w, t) /\ c = Do("mark", v, w, t)
    BY <2>1, <2>2 DEF Do
  <2>4. clear \notin {"load", "mark", "run"} /\ w \notin ReadOnly /\ w \notin {"all", "end"}
    BY <2>2, TablesOf DEF Clear
  <2>5. Command(run, a) /\ Command(run, b) /\ Command(run, c) /\ Command(run, d)
    BY <1>1, <2>2, <2>3 DEF Command, Do, Serves, Clear
  <2>6. a # b /\ a # c /\ a # d /\ b # c /\ b # d /\ c # d
    BY <2>2, <2>3, <2>4 DEF Do
  <2>p. /\ a = [b EXCEPT !.op = clear] /\ b = [c EXCEPT !.op = "load"]
        /\ c = [d EXCEPT !.op = "mark"]
    BY <2>2, <2>3 DEF Do
  <2>v. /\ a.variant = b.variant /\ b.variant = c.variant /\ c.variant = d.variant
        /\ b.op = "load" /\ c.op = "mark" /\ d.op = "run"
        /\ b.w \in Inserting /\ c.w \in Inserting
    BY <2>2, <2>3 DEF Do
  <2>7. Follows(run.db, a, b)
    <3>1. Within(run.db, a, b)
      BY <2>p, <2>v DEF Within
    <3>q. QED
      BY <3>1, <2>v DEF Follows
  <2>8. Follows(run.db, b, c)
    <3>1. Within(run.db, b, c)
      BY <2>p, <2>v DEF Within
    <3>q. QED
      BY <3>1, <2>v DEF Follows
  <2>9. Follows(run.db, c, d)
    <3>1. Within(run.db, c, d)
      BY <2>p, <2>v DEF Within
    <3>q. QED
      BY <3>1, <2>v DEF Follows
  <2>10. ~Opens(run.db, a)
    BY <2>3, <2>4 DEF Opens, Opening, Do, Clear
  <2>11. ASSUME NEW e \in Ends(run, v) PROVE Follows(run.db, e, a)
    <3>1. e.variant = v /\ (e = SharedLoad(v) \/ IsLast(e))
      BY DEF Ends, IsLast, SharedLoad, Do
    <3>2. a.op = Clear(run.db) /\ a.variant = v
      BY <2>3 DEF Do
    <3>q. QED
      BY <2>10, <3>1, <3>2 DEF Follows, Within
  <2>12. d \in Ends(run, v)
    BY <2>2 DEF Ends
  <2>13. Path(run, <<a, b>>, Ends(run, v), {b}) /\ Entries(<<a, b>>) = {a, b}
    BY <2>5, <2>6, <2>7, <2>11, PathTwo
  <2>14. Path(run, <<c, d>>, {b}, Ends(run, v)) /\ Entries(<<c, d>>) = {c, d}
    BY <2>5, <2>6, <2>8, <2>9, <2>12, PathTwo
  <2>15. ss[k] = <<a, b>> \o <<c, d>>
    BY <1>3, <2>1 DEF Marked
  <2> HIDE DEF ss
  <2>16. PICK x, y : x = <<a, b>> /\ y = <<c, d>>
    OBVIOUS
  <2>17. Entries(x) \cap Entries(y) = {}
    BY <2>6, <2>13, <2>14, <2>16
  <2>18. Path(run, x \o y, Ends(run, v), Ends(run, v))
    BY <2>13, <2>14, <2>16, <2>17, PathJoin
  <2>19. Entries(x \o y) = Entries(x) \union Entries(y)
    BY <2>13, <2>14, <2>16, JoinedEntries DEF Path, Chain, Distinct
  <2>q. QED
    BY <2>1, <2>13, <2>14, <2>15, <2>16, <2>18, <2>19
<1>6. ASSUME NEW i \in 1 .. n, NEW j \in 1 .. n, i # j
      PROVE  Entries(ss[i]) \cap Entries(ss[j]) = {}
  <2>1. PICK c, d : c = runs[i] /\ d = runs[j]
    OBVIOUS
  <2>2. c # d /\ c = Do("run", v, c.w, c.t) /\ d = Do("run", v, d.w, d.t)
    BY <1>2, <1>3, <1>6, <2>1 DEF Distinct, IsInjective
  <2>3. c.w # d.w \/ c.t # d.t
    BY <2>2
  <2>4. (\A e \in Own(c) : e.w = c.w /\ e.t = c.t) /\ (\A e \in Own(d) : e.w = d.w /\ e.t = d.t)
    BY <2>2 DEF Do
  <2>5. Entries(ss[i]) = Own(c) /\ Entries(ss[j]) = Own(d)
    BY <1>5, <2>1
  <2> HIDE DEF Own, ss
  <2>q. QED
    BY <2>3, <2>4, <2>5
<1>7. PICK s : s = FlattenSeq(ss)
  OBVIOUS
<1>8. /\ P[0] = Ends(run, v) /\ P[n] = Ends(run, v)
      /\ \A i \in 1 .. n : P[i - 1] = Ends(run, v) /\ P[i] = Ends(run, v)
  BY <1>3
<1> HIDE DEF ss, P
<1>9. \A i \in 1 .. n : Path(run, ss[i], P[i - 1], P[i])
  BY <1>5, <1>8
<1>10. Path(run, s, P[0], P[n]) /\ Entries(s) = UNION {Entries(ss[i]) : i \in 1 .. n}
  <2>1. Parts(n, ss) /\ PathsOf(run, n, ss, P) /\ Apart(n, ss) /\ n \in Nat
    BY <1>3, <1>4, <1>6, <1>9 DEF Parts, PathsOf, Apart
  <2>2. Path(run, s, P[0], P[n]) /\ Entries(s) = AllOf(n, ss)
    BY <1>7, <2>1, PathFlat
  <2>q. QED
    BY <2>2 DEF AllOf
<1>11. ASSUME NEW c \in Entries(s) PROVE c.variant = v /\ c.w \in Inserting
  <2>1. PICK i \in 1 .. n : c \in Own(runs[i])
    BY <1>5, <1>10
  <2>2. runs[i] = Do("run", v, runs[i].w, runs[i].t) /\ runs[i].w \in Inserting
    BY <1>2, <1>3
  <2>q. QED
    BY <2>1, <2>2 DEF Do
<1>q. QED
  BY <1>4, <1>7, <1>8, <1>10, <1>11

\* The path through a script, and through all of them to the parser.
LEMMA ScriptPath ==
  ASSUME NEW run, NEW v, Serves(run, v)
  PROVE  LET s == IF run.db = "leveldb" THEN leveldb_script(v, run.thread_set)
                  ELSE redis_script(v, run.thread_set)
         IN  /\ Path(run, s, Closings(run), Closings(run))
             /\ \A c \in Entries(s) : c.variant = v
<1> DEFINE head == IF run.db = "leveldb" THEN <<Do("rm", v, "all", 0), SharedLoad(v)>>
                   ELSE <<Do("reap", v, "all", 0), Do("start", v, "all", 0), SharedLoad(v)>>
           shared == SharedRuns(v, run.thread_set)
           own == OwnRuns(v, run.thread_set, Clear(run.db))
           last == Do(IF run.db = "leveldb" THEN "rm" ELSE "stop", v, "end", 0)
<1>1. run.db \in {"leveldb", "redis"} /\ run \in YcsbRuns /\ v \in Range(run.variants)
  BY YcsbAssumption DEF Serves
<1>2. /\ Path(run, head, Closings(run), {SharedLoad(v)})
      /\ \A c \in Entries(head) : c.variant = v /\ c.w = "all"
  <2>1. PICK a, b : a = Opening(run.db, v) /\ b = SharedLoad(v)
    OBVIOUS
  <2>2. \A c \in Closings(run) : Follows(run.db, c, a)
    BY <2>1 DEF Closings, Follows, Opens, Opening, Do
  <2>3. Command(run, a) /\ Command(run, b) /\ a # b
    BY <1>1, <2>1 DEF Command, Opening, SharedLoad, Do
  <2>4. CASE run.db = "leveldb"
    <3>1. head = <<a, b>>
      BY <2>1, <2>4 DEF Opening, Do
    <3>2. Follows(run.db, a, b)
      BY <2>1, <2>4 DEF Follows, Within, Opening, SharedLoad, Do
    <3>3. Path(run, <<a, b>>, Closings(run), {b}) /\ Entries(<<a, b>>) = {a, b}
      BY <2>2, <2>3, <3>2, PathTwo
    <3>4. \A c \in {a, b} : c.variant = v /\ c.w = "all"
      BY <2>1 DEF Opening, SharedLoad, Do
    <3>q. QED
      BY <2>1, <3>1, <3>3, <3>4
  <2>5. CASE run.db = "redis"
    <3>1. PICK s : s = Do("start", v, "all", 0)
      OBVIOUS
    <3>2. Command(run, s) /\ a # s /\ b # s
      BY <1>1, <2>1, <2>5, <3>1 DEF Command, Opening, SharedLoad, Do
    <3>3. Follows(run.db, a, s)
      BY <2>1, <2>5, <3>1 DEF Follows, Within, Opening, Do
    <3>4. Follows(run.db, s, b)
      BY <2>1, <2>5, <3>1 DEF Follows, Within, SharedLoad, Do
    <3>5. Path(run, <<a>>, Closings(run), {a}) /\ Entries(<<a>>) = {a}
      BY <2>2, <2>3, PathOne
    <3>6. Path(run, <<s, b>>, {a}, {b}) /\ Entries(<<s, b>>) = {s, b}
      BY <2>3, <3>2, <3>3, <3>4, PathTwo
    <3>7. PICK x, y : x = <<a>> /\ y = <<s, b>>
      OBVIOUS
    <3>8. Path(run, x \o y, Closings(run), {b})
      BY <2>3, <3>2, <3>5, <3>6, <3>7, PathJoin
    <3>9. Entries(x \o y) = {a} \union {s, b}
      BY <3>5, <3>6, <3>7, JoinedEntries DEF Path, Chain, Distinct
    <3>10. head = x \o y
      <4>1. head = <<a, s, b>>
        BY <2>1, <2>5, <3>1 DEF Opening, Do
      <4>2. PICK S : S = {a, s, b}
        OBVIOUS
      <4>3. <<a, s, b>> \in Seq(S) /\ x \in Seq(S) /\ y \in Seq(S) /\ Len(x) = 1 /\ Len(y) = 2
        BY <3>7, <4>2
      <4>4. PICK u, z : u = <<a, s, b>> /\ z = x \o y
        OBVIOUS
      <4>5. u \in Seq(S) /\ z \in Seq(S) /\ Len(u) = 3 /\ Len(z) = 3
        <5>1. z \in Seq(S) /\ Len(z) = Len(x) + Len(y)
          BY <4>3, <4>4, ConcatProperties
        <5>q. QED
          BY <4>3, <4>4, <5>1
      <4>6. z[1] = a /\ z[2] = s /\ z[3] = b
        BY <3>7, <4>3, <4>4
      <4>7. u[1] = a /\ u[2] = s /\ u[3] = b
        BY <4>4
      <4>8. u = z
        BY <4>5, <4>6, <4>7, SeqEqual
      <4>q. QED
        BY <4>1, <4>4, <4>8
    <3>11. \A c \in {a} \union {s, b} : c.variant = v /\ c.w = "all"
      BY <2>1, <3>1 DEF Opening, SharedLoad, Do
    <3>q. QED
      BY <2>1, <3>8, <3>9, <3>10, <3>11
  <2>q. QED
    BY <1>1, <2>4, <2>5
<1>3. /\ Path(run, shared, {SharedLoad(v)}, Ends(run, v))
      /\ \A c \in Entries(shared) : c.variant = v /\ c.w \in ReadOnly
  BY SharedPath
<1>4. /\ Path(run, own, Ends(run, v), Ends(run, v))
      /\ \A c \in Entries(own) : c.variant = v /\ c.w \in Inserting
  BY OwnPath
<1>5. Path(run, <<last>>, Ends(run, v), Closings(run)) /\ Entries(<<last>>) = {last}
  <2>1. PICK d : d = last
    OBVIOUS
  <2>2. Command(run, d)
    BY <1>1, <2>1 DEF Command, Do
  <2>3. d.op \in {Clear(run.db), "stop"} /\ ~Opens(run.db, d) /\ d.variant = v
    BY <1>1, <2>1 DEF Clear, Opens, Opening, Do
  <2>4. ASSUME NEW c \in Ends(run, v) PROVE Follows(run.db, c, d)
    <3>1. c.variant = v /\ (c = SharedLoad(v) \/ IsLast(c))
      BY DEF Ends, IsLast, SharedLoad, Do
    <3>q. QED
      BY <2>3, <3>1 DEF Follows, Within
  <2>5. d \in Closings(run)
    BY <1>1, <2>1 DEF Closings
  <2>q. QED
    BY <2>1, <2>2, <2>4, <2>5, PathOne
<1>6. /\ ReadOnly \cap Inserting = {} /\ "all" \notin ReadOnly \union Inserting
      /\ "end" \notin ReadOnly \union Inserting
  BY TablesOf
<1>7. last.variant = v /\ last.w = "end"
  BY DEF Do
<1>8. PICK a, b, c, d : a = head /\ b = shared /\ c = own /\ d = <<last>>
  OBVIOUS
<1> DEFINE s == IF run.db = "leveldb" THEN leveldb_script(v, run.thread_set)
                ELSE redis_script(v, run.thread_set)
<1>9. s = ((a \o b) \o c) \o d
  BY <1>1, <1>8 DEF leveldb_script, redis_script, Clear
<1> HIDE DEF head, shared, own, last, s
<1>10. /\ a \in Seq(Entries(a)) /\ b \in Seq(Entries(b)) /\ c \in Seq(Entries(c))
       /\ d \in Seq(Entries(d))
  BY <1>2, <1>3, <1>4, <1>5, <1>8 DEF Path, Chain, Distinct
<1>11. /\ \A e \in Entries(a) : e.variant = v /\ e.w = "all"
       /\ \A e \in Entries(b) : e.variant = v /\ e.w \in ReadOnly
       /\ \A e \in Entries(c) : e.variant = v /\ e.w \in Inserting
       /\ \A e \in Entries(d) : e.variant = v /\ e.w = "end"
  BY <1>2, <1>3, <1>4, <1>5, <1>7, <1>8
<1>12. /\ Path(run, a \o b, Closings(run), Ends(run, v))
       /\ Entries(a \o b) = Entries(a) \union Entries(b) /\ a \o b \in Seq(Entries(a \o b))
  <2>1. Entries(a) \cap Entries(b) = {}
    BY <1>6, <1>11
  <2>q. QED
    BY <1>2, <1>3, <1>8, <1>10, <2>1, PathJoin, JoinedEntries, Joined
<1>13. PICK p : p = a \o b
  OBVIOUS
<1>14. /\ Path(run, p \o c, Closings(run), Ends(run, v))
       /\ Entries(p \o c) = Entries(p) \union Entries(c) /\ p \o c \in Seq(Entries(p \o c))
  <2>1. Entries(p) \cap Entries(c) = {}
    BY <1>6, <1>11, <1>12, <1>13
  <2>q. QED
    BY <1>4, <1>8, <1>10, <1>12, <1>13, <2>1, PathJoin, JoinedEntries, Joined
<1>15. PICK q : q = p \o c
  OBVIOUS
<1>16. /\ Path(run, q \o d, Closings(run), Closings(run))
       /\ Entries(q \o d) = Entries(q) \union Entries(d)
  <2>1. Entries(q) \cap Entries(d) = {}
    <3>1. \A e \in Entries(p) : e.w = "all" \/ e.w \in ReadOnly
      BY <1>11, <1>12, <1>13
    <3>2. \A e \in Entries(q) : e.w = "all" \/ e.w \in ReadOnly \/ e.w \in Inserting
      BY <1>11, <1>14, <1>15, <3>1
    <3>3. "all" # "end"
      OBVIOUS
    <3>q. QED
      BY <1>6, <1>11, <3>2, <3>3
  <2>q. QED
    BY <1>5, <1>8, <1>10, <1>14, <1>15, <2>1, PathJoin, JoinedEntries
<1>17. \A e \in Entries(q \o d) : e.variant = v
  BY <1>11, <1>12, <1>13, <1>14, <1>15, <1>16
<1>q. QED
  BY <1>9, <1>13, <1>15, <1>16, <1>17 DEF s

\* What a run executes is a chain that opens with its first server or directory
\* and ends with the parser.
LEMMA MakePath ==
  ASSUME NEW run \in YcsbRuns
  PROVE  LET s == make_exec(run)
         IN  /\ Chain(run, s) /\ s # << >> /\ Opens(run.db, s[1]) /\ s[Len(s)].op = "parse"
<1> DEFINE vs == run.variants
           ss == [i \in DOMAIN vs |->
                    IF run.db = "leveldb" THEN leveldb_script(vs[i], run.thread_set)
                    ELSE redis_script(vs[i], run.thread_set)]
           n == Len(vs)
           P == [k \in 0 .. n |-> Closings(run)]
           parse == Do("parse", "none", "end", 0)
<1>1. n \in Nat /\ DOMAIN vs = 1 .. n /\ IsInjective(vs) /\ "none" \notin Range(vs)
      /\ run.db \in {"leveldb", "redis"}
  BY WorkloadsAssumption, YcsbAssumption, TablesOf DEF Distinct
<1>2. ss = [i \in 1 .. n |-> ss[i]]
  BY <1>1
<1>3. ASSUME NEW i \in 1 .. n
      PROVE  /\ Path(run, ss[i], Closings(run), Closings(run))
             /\ \A c \in Entries(ss[i]) : c.variant = vs[i]
  <2>1. Serves(run, vs[i])
    BY <1>1 DEF Serves, Range
  <2>2. PICK v : v = vs[i]
    OBVIOUS
  <2>3. ss[i] = IF run.db = "leveldb" THEN leveldb_script(v, run.thread_set)
                ELSE redis_script(v, run.thread_set)
    BY <1>1, <2>2
  <2>q. QED
    BY <2>1, <2>2, <2>3, ScriptPath
<1>4. /\ P[0] = Closings(run) /\ P[n] = Closings(run)
      /\ \A i \in 1 .. n : P[i - 1] = Closings(run) /\ P[i] = Closings(run)
  BY <1>1
<1>5. make_exec(run) = FlattenSeq(ss) \o <<parse>>
  BY DEF make_exec
<1> HIDE DEF ss, P
<1>6. ASSUME NEW i \in 1 .. n, NEW j \in 1 .. n, i # j
      PROVE  Entries(ss[i]) \cap Entries(ss[j]) = {}
  <2>1. vs[i] # vs[j]
    BY <1>1, <1>6 DEF IsInjective
  <2>q. QED
    BY <1>3, <2>1
<1>7. PICK f : f = FlattenSeq(ss)
  OBVIOUS
<1>8. \A i \in 1 .. n : Path(run, ss[i], P[i - 1], P[i])
  BY <1>3, <1>4
<1>9. Path(run, f, P[0], P[n]) /\ Entries(f) = UNION {Entries(ss[i]) : i \in 1 .. n}
  <2> HIDE DEF n
  <2>1. n \in Nat
    BY <1>1
  <2>2. \A i, j \in 1 .. n : i # j => Entries(ss[i]) \cap Entries(ss[j]) = {}
    BY <1>6
  <2>5. Parts(n, ss) /\ PathsOf(run, n, ss, P) /\ Apart(n, ss) /\ n \in Nat
    BY <1>2, <1>8, <2>1, <2>2 DEF Parts, PathsOf, Apart
  <2>6. Path(run, f, P[0], P[n]) /\ Entries(f) = AllOf(n, ss)
    BY <1>7, <2>5, PathFlat
  <2>q. QED
    BY <2>6 DEF AllOf
<1>10. Path(run, <<parse>>, Closings(run), {parse}) /\ Entries(<<parse>>) = {parse}
  <2>1. PICK d : d = parse
    OBVIOUS
  <2>2. Command(run, d)
    BY <1>1, <2>1 DEF Command, Do
  <2>3. \A c \in Closings(run) : Follows(run.db, c, d)
    BY <2>1 DEF Closings, Follows, Opens, Do
  <2>q. QED
    BY <2>1, <2>2, <2>3, PathOne
<1>11. PICK y : y = <<parse>>
  OBVIOUS
<1>12. Entries(f) \cap Entries(y) = {}
  <2>1. \A c \in Entries(f) : c.variant \in Range(vs)
    BY <1>1, <1>3, <1>9 DEF Range
  <2>2. parse.variant = "none"
    BY DEF Do
  <2>q. QED
    BY <1>1, <1>10, <1>11, <2>1, <2>2
<1>13. Path(run, f \o y, Closings(run), {parse})
  BY <1>4, <1>9, <1>10, <1>11, <1>12, PathJoin
<1>14. PICK s : s = f \o y
  OBVIOUS
<1>15. Do("rm", "none", "end", 0) \in Closings(run) /\ Do("rm", "none", "end", 0) # parse
  BY DEF Closings, Do
<1>16. PICK c : c = Do("rm", "none", "end", 0)
  OBVIOUS
<1>17. s # << >> /\ s[Len(s)] = parse /\ Chain(run, s) /\ Follows(run.db, c, s[1])
  BY <1>13, <1>14, <1>15, <1>16 DEF Path
<1>18. Opens(run.db, s[1])
  <2>1. Len(s) \in Nat \ {0} /\ DOMAIN s = 1 .. Len(s)
    BY <1>17, EmptySeq, OwnEntries DEF Chain, Distinct
  <2>2. Command(run, s[1])
    BY <1>17, <2>1 DEF Chain
  <2>3. CASE s[1].op = "parse"
    BY <2>3 DEF Opens
  <2>4. CASE s[1].op # "parse"
    <3>1. s[1].variant # "none" /\ c.variant = "none"
      BY <1>1, <1>16, <2>2, <2>4 DEF Command, Do
    <3>q. QED
      BY <1>17, <3>1 DEF Follows
  <2>q. QED
    BY <2>3, <2>4
<1>19. parse.op = "parse"
  BY DEF Do
<1>q. QED
  BY <1>5, <1>7, <1>11, <1>14, <1>17, <1>18, <1>19

\* What is left of a chain.
LEMMA ChainRest ==
  ASSUME NEW run, NEW s, Chain(run, s), NEW k \in DOMAIN s
  PROVE  LET t == SubSeq(s, k, Len(s))
         IN  /\ Chain(run, t) /\ t # << >> /\ t[1] = s[k] /\ t[Len(t)] = s[Len(s)]
             /\ Entries(t) \subseteq Entries(s)
             /\ \A i \in 1 .. k - 1 : s[i] \notin Entries(t)
<1>1. s \in Seq(Entries(s)) /\ Len(s) \in Nat /\ DOMAIN s = 1 .. Len(s)
  BY OwnEntries DEF Chain, Distinct
<1>2. PICK t : t = SubSeq(s, k, Len(s))
  OBVIOUS
<1>3. /\ t \in Seq(Entries(s)) /\ Len(t) = Len(s) - k + 1
      /\ \A i \in 1 .. Len(s) - k + 1 : t[i] = s[k + i - 1]
  BY <1>1, <1>2, SubSeqProperties
<1>4. t \in Seq(Entries(t)) /\ DOMAIN t = 1 .. Len(s) - k + 1
  BY <1>1, <1>3, OwnEntries
<1>5. \A i \in DOMAIN t : k + i - 1 \in DOMAIN s /\ t[i] = s[k + i - 1]
  BY <1>1, <1>3, <1>4
<1>6. ASSUME NEW i \in DOMAIN t, NEW j \in DOMAIN t, t[i] = t[j] PROVE i = j
  <2>1. k + i - 1 = k + j - 1
    BY <1>5, <1>6 DEF Chain, Distinct, IsInjective
  <2>q. QED
    BY <1>1, <1>4, <2>1
<1>7. Distinct(t)
  BY <1>4, <1>6 DEF Distinct, IsInjective
<1>8. \A i \in DOMAIN t : Command(run, t[i])
  BY <1>5 DEF Chain
<1>9. ASSUME NEW i \in 1 .. Len(t) - 1 PROVE Follows(run.db, t[i], t[i + 1])
  <2>1. k \in Nat /\ k >= 1 /\ i \in Nat /\ i >= 1 /\ i <= Len(s) - k
    BY <1>1, <1>3
  <2>2. k + i - 1 \in 1 .. Len(s) - 1 /\ k + (i + 1) - 1 = (k + i - 1) + 1
    BY <1>1, <2>1
  <2>3. i \in DOMAIN t /\ i + 1 \in DOMAIN t
    BY <1>1, <1>4, <2>1
  <2>4. /\ k + i - 1 \in 1 .. Len(s) - 1 /\ k + (i + 1) - 1 = (k + i - 1) + 1
        /\ i \in DOMAIN t /\ i + 1 \in DOMAIN t
    BY <2>2, <2>3
  <2>5. Follows(run.db, s[k + i - 1], s[(k + i - 1) + 1])
    BY <2>4 DEF Chain
  <2>6. t[i] = s[k + i - 1] /\ t[i + 1] = s[(k + i - 1) + 1]
    BY <1>5, <2>4
  <2>q. QED
    BY <2>5, <2>6
<1>10. Chain(run, t)
  BY <1>7, <1>8, <1>9 DEF Chain
<1>11. t # << >> /\ t[1] = s[k] /\ t[Len(t)] = s[Len(s)]
  BY <1>1, <1>3
<1>12. \A e \in Entries(t) : e \in Entries(s)
  BY <1>5 DEF Entries
<1>13. ASSUME NEW i \in 1 .. k - 1, s[i] \in Entries(t) PROVE FALSE
  <2>1. PICK j \in DOMAIN t : s[i] = t[j]
    BY <1>13 DEF Entries
  <2>2. s[i] = s[k + j - 1] /\ k + j - 1 \in DOMAIN s /\ i \in DOMAIN s
    BY <1>1, <1>5, <2>1
  <2>3. i = k + j - 1
    BY <2>2 DEF Chain, Distinct, IsInjective
  <2>q. QED
    BY <1>1, <1>4, <2>3
<1>q. QED
  BY <1>2, <1>10, <1>11, <1>12, <1>13

\* The rest of a chain behind its first command.
LEMMA ChainNext ==
  ASSUME NEW run, NEW s, Chain(run, s), s # << >>, s[Len(s)].op = "parse", s[1].op # "parse"
  PROVE  LET t == Tail(s)
         IN  /\ Chain(run, t) /\ t # << >> /\ t[Len(t)].op = "parse" /\ Head(t) = t[1]
             /\ Command(run, s[1]) /\ Command(run, t[1]) /\ Follows(run.db, s[1], t[1])
             /\ Entries(t) \subseteq Entries(s) /\ s[1] \notin Entries(t)
<1>1. s \in Seq(Entries(s)) /\ Len(s) \in Nat \ {0} /\ DOMAIN s = 1 .. Len(s)
  BY OwnEntries, EmptySeq DEF Chain, Distinct
<1>2. Len(s) # 1
  OBVIOUS
<1>3. 2 \in DOMAIN s /\ 1 \in DOMAIN s /\ 1 \in 1 .. 2 - 1 /\ 1 \in 1 .. Len(s) - 1
  BY <1>1, <1>2
<1>4. PICK t : t = SubSeq(s, 2, Len(s))
  OBVIOUS
<1>5. /\ Chain(run, t) /\ t # << >> /\ t[1] = s[2] /\ t[Len(t)] = s[Len(s)]
      /\ Entries(t) \subseteq Entries(s) /\ \A i \in 1 .. 2 - 1 : s[i] \notin Entries(t)
  BY <1>3, <1>4, ChainRest
<1>6. Tail(s) = t
  <2>1. /\ t \in Seq(Entries(s)) /\ Len(t) = Len(s) - 1
        /\ \A i \in 1 .. Len(s) - 1 : t[i] = s[2 + i - 1]
    BY <1>1, <1>4, SubSeqProperties
  <2>2. /\ Tail(s) \in Seq(Entries(s)) /\ Len(Tail(s)) = Len(s) - 1
        /\ \A i \in 1 .. Len(s) - 1 : Tail(s)[i] = s[i + 1]
    BY <1>1, HeadTailProperties
  <2>3. \A i \in 1 .. Len(s) - 1 : 2 + i - 1 = i + 1
    BY <1>1
  <2>q. QED
    BY <2>1, <2>2, <2>3, SeqEqual
<1>7. Head(t) = t[1]
  BY <1>5 DEF Chain, Distinct
<1>8. Follows(run.db, s[1], s[1 + 1]) /\ Command(run, s[1]) /\ Command(run, s[2])
  BY <1>3 DEF Chain
<1>9. 1 + 1 = 2
  OBVIOUS
<1>q. QED
  BY <1>3, <1>5, <1>6, <1>7, <1>8, <1>9

(***************************************************************************)
(* A run of YCSB.  What its runs find.                                     *)
(***************************************************************************)
\* What holds when a command is next, but where a script opens or has opened
\* beside an orphan: no orphan works on its data, the server is its own or gone,
\* and a run finds its load, unless that has failed.
Datum == [whole : BOOLEAN, grown : BOOLEAN]
Fresh(data) == data.whole /\ ~data.grown
Stock(v) == IF exec.db = "redis" THEN server.data ELSE store[v]
Spoils(d) ==
  IF d.w \in ReadOnly THEN {SharedLoad(d.variant)}
  ELSE {[d EXCEPT !.op = "load"], [d EXCEPT !.op = "flushall"]}
Prepared(d) ==
  \/ exec.db = "redis" /\ server.variant = "none"
  \/ Spoils(d) \cap failed # {}
  \/ Fresh(Stock(d.variant))
Finds(d) ==
  /\ d.op \in {"mark", "run"} => Prepared(d)
  /\ exec.db = "redis" =>
       /\ server.variant \in {d.variant, "none"}
       /\ d.op = "start" => server = NoServer
       /\ d.op = "load" /\ (d.w = "all" \/ [d EXCEPT !.op = "flushall"] \notin failed) =>
            ~server.data.grown
Ready(d) == Opens(exec.db, d) \/ d.variant \in beside \/ (~Shares(d) /\ Finds(d))

Measured(line) ==
  LET run == line.from
  IN  \/ run.variant \in beside
      \/ /\ exec.db = "redis" => line.variant = run.variant
         /\ Spoils(run) \cap failed # {} \/ Fresh(line.data)

Stores ==
  /\ store \in [Variants -> Datum]
  /\ server = [variant |-> server.variant, wedged |-> server.wedged, data |-> server.data]
  /\ server.data \in Datum /\ server.wedged \in BOOLEAN
\* The commands that an orphan has left are those of a script of one variant.
Left(o, run, v) ==
  /\ run.db = o.db /\ \A c \in Entries(o.left) : Command(run, c) /\ c.variant = v
Orphaned(o) ==
  /\ o = [exec |-> o.exec, db |-> o.db, left |-> o.left]
  /\ o.left \in Seq(Entries(o.left)) /\ o.left # << >>
  /\ \E run \in YcsbRuns, v \in Variants : Left(o, run, v)
Scripts ==
  /\ exec \in YcsbRuns /\ Chain(exec, script) /\ script[Len(script)].op = "parse"
  /\ Ready(script[1])
Lines ==
  /\ output \in Seq(Entries(output))
  /\ \A line \in Entries(output) : line.from.op = "run" => Measured(line)
LoadInv ==
  /\ Stores /\ Lines /\ (Executing => Scripts /\ rows = {})
  /\ \A o \in orphans : Orphaned(o)
  /\ \A row \in rows : row.line \in Entries(output)

\* The command at work, and the one that follows it.
Goes(d) ==
  /\ Executing /\ Scripts /\ Now = script[1] /\ Now.op # "parse"
  /\ exec \in YcsbRuns /\ exec.db \in {"leveldb", "redis"}
  /\ Command(exec, Now) /\ Command(exec, d) /\ Follows(exec.db, Now, d)
  /\ Now.variant \in Variants
  /\ Chain(exec, Tail(script)) /\ Tail(script) # << >> /\ d = Tail(script)[1]
  /\ Tail(script)[Len(Tail(script))].op = "parse"
  /\ Entries(Tail(script)) \subseteq Entries(script) /\ Now \in Entries(script)
  /\ Now \notin Entries(Tail(script))

\* Behind a command that is not the parser comes another one.
LEMMA GoesOn ==
  ASSUME Executing, Scripts, ~At("parse")
  PROVE  \E d : Goes(d)
<1>1. /\ exec \in YcsbRuns /\ Chain(exec, script) /\ script[Len(script)].op = "parse"
      /\ script # << >>
  BY DEF Scripts, Executing
<1>2. script \in Seq(Entries(script)) /\ Now = script[1] /\ script[1].op # "parse"
  BY <1>1 DEF Chain, Distinct, At, Executing, Now
<1>3. PICK s, t : s = script /\ t = Tail(s)
  OBVIOUS
<1>4. /\ Chain(exec, t) /\ t # << >> /\ t[Len(t)].op = "parse"
      /\ Command(exec, s[1]) /\ Command(exec, t[1]) /\ Follows(exec.db, s[1], t[1])
      /\ Entries(t) \subseteq Entries(s) /\ s[1] \notin Entries(t)
  BY <1>1, <1>2, <1>3, ChainNext
<1>5. exec.db \in {"leveldb", "redis"}
  BY <1>1, YcsbAssumption
<1>6. s[1].variant \in Variants
  BY <1>1, <1>2, <1>3, <1>4 DEF Command, Variants
<1>7. s[1] \in Entries(s)
  <2>1. Len(script) \in Nat \ {0} /\ DOMAIN script = 1 .. Len(script)
    BY <1>1, <1>2, EmptySeq, OwnEntries
  <2>2. 1 \in DOMAIN script
    BY <2>1
  <2>q. QED
    BY <1>3, <2>2 DEF Entries
<1>8. Goes(t[1])
  BY <1>1, <1>2, <1>3, <1>4, <1>5, <1>6, <1>7 DEF Goes
<1>q. QED
  BY <1>8

\* What comes behind a command, by what it is.
LEMMA FollowsHow ==
  ASSUME NEW run, NEW c, NEW d, Command(run, c), Command(run, d), Follows(run.db, c, d),
         ~(Opens(run.db, d) /\ c.w = "end"), run.db \in {"leveldb", "redis"}
  PROVE  /\ c.variant = d.variant
         /\ c.op \in {"mark", "load", "run", "rm", "reap", "start", "flushall"}
         /\ c.op = "mark" => d.op = "run" /\ c = [d EXCEPT !.op = "mark"]
         /\ c.op = "load" => \/ d.op = "mark" /\ d.w \in ReadOnly /\ c = SharedLoad(d.variant)
                             \/ d.op = "mark" /\ d.w \in Inserting /\ c = [d EXCEPT !.op = "load"]
                             \/ d.op \in {Clear(run.db), "stop"}
         /\ c.op = "run" => \/ d.op = "mark" /\ d.w \in ReadOnly /\ c.w \in ReadOnly
                            \/ d.op \in {Clear(run.db), "stop"} /\ IsLast(c)
         /\ d.op = "run" => c.op = "mark"
         /\ c.op = "rm" => d.op = "load"
         /\ c.op = "reap" => d.op = "start"
         /\ c.op = "start" => d.op = "load" /\ d.w = "all"
         /\ c.op = "flushall" =>
              d.op = "load" /\ d.w \in Inserting /\ c = [d EXCEPT !.op = "flushall"]
<1>1. c = Do(c.op, c.variant, c.w, c.t) /\ d = Do(d.op, d.variant, d.w, d.t)
  BY DEF Command
<1>2. c.variant = d.variant /\ Within(run.db, c, d)
  BY DEF Follows
<1>3. CASE d.op = "run" /\ c = [d EXCEPT !.op = "mark"]
  <2>1. c.op = "mark"
    BY <1>1, <1>3 DEF Do
  <2>q. QED
    BY <1>2, <1>3, <2>1
<1>4. CASE /\ d.op = "mark" /\ d.w \in ReadOnly
           /\ (c = SharedLoad(d.variant) \/ (c.op = "run" /\ c.w \in ReadOnly))
  <2>1. c = SharedLoad(d.variant) => c.op = "load"
    BY DEF SharedLoad, Do
  <2>q. QED
    BY <1>2, <1>4, <2>1
<1>5. CASE d.op = "mark" /\ d.w \in Inserting /\ c = [d EXCEPT !.op = "load"]
  <2>1. c.op = "load"
    BY <1>1, <1>5 DEF Do
  <2>q. QED
    BY <1>2, <1>5, <2>1
<1>6. CASE d.op = "load" /\ d.w \in Inserting /\ c = [d EXCEPT !.op = Clear(run.db)]
  <2>1. c.op = Clear(run.db)
    BY <1>1, <1>6 DEF Do
  <2>q. QED
    BY <1>2, <1>6, <2>1 DEF Clear
<1>7. CASE /\ d.op = "load" /\ d.w = "all"
           /\ c = IF run.db = "leveldb" THEN Opening(run.db, d.variant)
                  ELSE [d EXCEPT !.op = "start"]
  <2>1. c.op \in {"rm", "start"}
    BY <1>1, <1>7 DEF Do, Opening
  <2>q. QED
    BY <1>2, <1>7, <2>1
<1>8. CASE d.op = "start" /\ c = Opening(run.db, d.variant)
  <2>1. run.db # "leveldb"
    BY <1>8 DEF Command
  <2>2. c.op = "reap"
    BY <1>8, <2>1 DEF Opening, Do
  <2>q. QED
    BY <1>2, <1>8, <2>2
<1>9. CASE d.op \in {Clear(run.db), "stop"} /\ (c = SharedLoad(d.variant) \/ IsLast(c))
  <2>1. c.op \in {"load", "run"}
    BY <1>9 DEF SharedLoad, Do, IsLast
  <2>2. c.op = "run" => IsLast(c)
    BY <1>9 DEF SharedLoad, Do
  <2>3. d.op # "run"
    BY <1>9 DEF Clear
  <2>q. QED
    BY <1>2, <1>9, <2>1, <2>2, <2>3
<1>q. QED
  BY <1>2, <1>3, <1>4, <1>5, <1>6, <1>7, <1>8, <1>9 DEF Within

\* What the next command finds is up to the one at work, where no orphan is.
LEMMA StaysApart ==
  ASSUME NEW d, Goes(d), RunScript
  PROVE  /\ UNCHANGED exec /\ beside \subseteq beside'
         /\ Opens(exec.db, d) \/ d.variant \in beside' => Ready(d)'
         /\ ~Opens(exec.db, d) /\ d.variant \notin beside' =>
              /\ Now.variant = d.variant /\ Now.variant \notin beside
              /\ Opens(exec.db, Now) \/ Finds(Now)
              /\ Finds(d)' => Ready(d)'
<1>1. PICK c : c = Now
  OBVIOUS
<1>2. /\ c.op # "parse" /\ Ready(c) /\ exec.db \in {"leveldb", "redis"}
      /\ Command(exec, c) /\ Command(exec, d) /\ Follows(exec.db, c, d)
  BY <1>1 DEF Goes, Scripts
<1>3. UNCHANGED <<exec, orphans>>
  BY <1>1, <1>2 DEF RunScript, Mark, RemoveFiles, Ycsb, Reap, StartServer, FlushAll, StopServer,
     Parse, At, Now, Done
<1>4. \/ c.op \in {"rm", "reap"} /\ Opened
      \/ c.op \notin {"rm", "reap"} /\ UNCHANGED beside
  BY <1>1, <1>2 DEF RunScript, Mark, RemoveFiles, Ycsb, Reap, StartServer, FlushAll, StopServer,
     Parse, At, Now
<1>5. Opens(exec.db, c) => c.op \in {"rm", "reap"} /\ c.w = "all"
  BY <1>2 DEF Opens, Opening, Do
<1>6. /\ beside \subseteq beside'
      /\ Opens(exec.db, c) /\ Shares(c) => c.variant \in beside'
  BY <1>1, <1>4, <1>5 DEF Opened
<1>7. Opens(exec.db, d) \/ d.variant \in beside' => Ready(d)'
  BY <1>3 DEF Ready
<1>8. ASSUME ~Opens(exec.db, d), d.variant \notin beside'
      PROVE  /\ c.variant = d.variant /\ c.variant \notin beside
             /\ Opens(exec.db, c) \/ Finds(c)
             /\ Finds(d)' => Ready(d)'
  <2>1. c.variant = d.variant
    BY <1>2, <1>8, FollowsHow
  <2>2. c.variant \notin beside /\ c.variant \notin beside'
    BY <1>6, <1>8, <2>1
  <2>3. ~Shares(c) /\ (Opens(exec.db, c) \/ Finds(c))
    BY <1>2, <1>6, <2>2 DEF Ready
  <2>4. ~Shares(d)'
    BY <1>3, <2>1, <2>3 DEF Shares
  <2>q. QED
    BY <2>1, <2>2, <2>3, <2>4 DEF Ready
<1>q. QED
  BY <1>1, <1>3, <1>6, <1>7, <1>8

\* What a command leaves of the data that it works on.
LEMMA PutsIs ==
  ASSUME Stores, NEW db, NEW c, c.variant \in Variants, NEW data \in Datum, Puts(db, c, data)
  PROVE  /\ Stores' /\ server'.variant = server.variant /\ server'.wedged = server.wedged
         /\ db = "redis" => server'.data = data /\ UNCHANGED store
         /\ db # "redis" =>
              /\ UNCHANGED server /\ store'[c.variant] = data
              /\ \A w \in Variants : w # c.variant => store'[w] = store[w]
<1>1. CASE db = "redis"
  <2>1. server' = [server EXCEPT !.data = data] /\ store' = store
    BY <1>1 DEF Puts
  <2>2. server' = [variant |-> server.variant, wedged |-> server.wedged, data |-> data]
    BY <2>1 DEF Stores
  <2>q. QED
    BY <1>1, <2>1, <2>2 DEF Stores
<1>2. CASE db # "redis"
  <2>1. PICK v \in Variants : v = c.variant
    OBVIOUS
  <2>2. store' = [store EXCEPT ![v] = data] /\ server' = server
    BY <1>2, <2>1 DEF Puts
  <2>3. store' = [w \in Variants |-> IF w = v THEN data ELSE store[w]]
    BY <2>2 DEF Stores
  <2>4. /\ store' \in [Variants -> Datum] /\ store'[v] = data
        /\ \A w \in Variants : w # v => store'[w] = store[w]
    BY <2>3 DEF Stores
  <2>q. QED
    BY <1>2, <2>1, <2>2, <2>4 DEF Stores
<1>q. QED
  BY <1>1, <1>2

\* What the command at work leaves in the store of its variant.
LEMMA HoldsIs ==
  ASSUME Stores, NEW data \in Datum, NEW v \in Variants, v = Now.variant, Holds(data),
         UNCHANGED exec
  PROVE  /\ Stores' /\ Stock(v)' = data
         /\ server'.variant = server.variant /\ server'.wedged = server.wedged
         /\ exec.db = "redis" => server'.data = data
<1>1. PICK db, c : db = exec.db /\ c = Now
  OBVIOUS
<1>2. c.variant \in Variants /\ c.variant = v /\ Puts(db, c, data)
  BY <1>1 DEF Holds
<1>3. /\ Stores' /\ server'.variant = server.variant /\ server'.wedged = server.wedged
      /\ db = "redis" => server'.data = data
      /\ db # "redis" => store'[c.variant] = data
  BY <1>2, PutsIs
<1>q. QED
  BY <1>1, <1>2, <1>3 DEF Stock

\* The data a command works on are those of its variant.
LEMMA DataIs ==
  ASSUME Stores, NEW v \in Variants, v = Now.variant
  PROVE  Data = Stock(v) /\ Data \in Datum
BY DEF Data, DataOf, Stock, Stores

\* What is ready stays so for a later command on the same data.
LEMMA StaysPrepared ==
  ASSUME NEW c, NEW d, Prepared(c), c.variant = d.variant, Spoils(c) = Spoils(d),
         UNCHANGED exec, failed \subseteq failed', server'.variant \in {server.variant, "none"},
         Fresh(Stock(d.variant)) => Fresh(Stock(d.variant)')
  PROVE  Prepared(d)'
BY DEF Prepared, Spoils

\* The lines of the output stay what they are.
LEMMA LinesStay ==
  ASSUME Lines, UNCHANGED exec, failed \subseteq failed', beside \subseteq beside',
         output' \in Seq(Entries(output')),
         NEW N, Entries(output') = Entries(output) \union N,
         \A line \in N : line.from.op = "run" => Measured(line)'
  PROVE  Lines'
<1>1. PICK o : o = output'
  OBVIOUS
<1>2. Entries(o) = Entries(output) \union N /\ o \in Seq(Entries(o))
  BY <1>1
<1>3. ASSUME NEW line \in Entries(output), line.from.op = "run" PROVE Measured(line)'
  <2>1. Measured(line)
    BY <1>3 DEF Lines
  <2>q. QED
    BY <2>1 DEF Measured
<1>4. \A line \in Entries(o) : line.from.op = "run" => Measured(line)'
  BY <1>2, <1>3
<1>5. Entries(o) = Entries(output)'
  BY <1>1 DEF Entries
<1>q. QED
  BY <1>1, <1>2, <1>4, <1>5 DEF Lines

\* What commands may do that print nothing.
LEMMA QuietLines ==
  ASSUME Lines, UNCHANGED <<exec, output>>, failed \subseteq failed', beside \subseteq beside'
  PROVE  Lines'
<1>1. PICK N : N = {}
  OBVIOUS
<1>2. output' \in Seq(Entries(output')) /\ Entries(output') = Entries(output) \union N
  BY <1>1 DEF Lines, Entries
<1>3. \A line \in N : line.from.op = "run" => Measured(line)'
  BY <1>1
<1>q. QED
  BY <1>2, <1>3, LinesStay

\* The mark of a run.
LEMMA MarkLoads ==
  ASSUME NEW d, Goes(d), Stores, Lines, Mark
  PROVE  Stores' /\ Lines' /\ Ready(d)'
<1>1. /\ Now.op = "mark" /\ output' = Append(output, Line("marker"))
      /\ UNCHANGED <<exec, store, server, failed, beside>>
  BY DEF Mark, At, Now, Done
<1>2. Stores'
  BY <1>1 DEF Stores
<1>3. Lines'
  <2>1. PICK line : line = Line("marker")
    OBVIOUS
  <2>2. line.from.op = "mark"
    BY <1>1, <2>1 DEF Line
  <2>3. output' = output \o <<line>> /\ output \in Seq(Entries(output))
    <3>1. PICK S : S = Entries(output) \union {line}
      OBVIOUS
    <3>2. output \in Seq(S) /\ line \in S
      BY <3>1, SeqMonotonic DEF Lines
    <3>q. QED
      BY <1>1, <2>1, <3>2, AppendIsConcat DEF Lines
  <2>4. <<line>> \in Seq(Entries(<<line>>)) /\ Entries(<<line>>) = {line}
    BY ShortSeqs
  <2>5. output' \in Seq(Entries(output')) /\ Entries(output') = Entries(output) \union {line}
    BY <2>3, <2>4, Joined, JoinedEntries
  <2>6. PICK N : N = {line}
    OBVIOUS
  <2>7. \A l \in N : l.from.op = "run" => Measured(l)'
    BY <2>2, <2>6
  <2>8. output' \in Seq(Entries(output')) /\ Entries(output') = Entries(output) \union N
    BY <2>5, <2>6
  <2>9. UNCHANGED exec /\ failed \subseteq failed' /\ beside \subseteq beside'
    BY <1>1
  <2>q. QED
    BY <2>7, <2>8, <2>9, LinesStay
<1>4. Ready(d)'
  <2>1. RunScript
    BY DEF RunScript
  <2>2. CASE Opens(exec.db, d) \/ d.variant \in beside'
    BY <2>1, <2>2, StaysApart
  <2>3. CASE ~Opens(exec.db, d) /\ d.variant \notin beside'
    <3>1. PICK c : c = Now
      OBVIOUS
    <3>2. d.op = "run" /\ c = [d EXCEPT !.op = "mark"]
      BY <1>1, <2>3, <3>1, FollowsHow DEF Goes
    <3>3. c.op = "mark" /\ d = Do(d.op, d.variant, d.w, d.t)
      BY <1>1, <3>1 DEF Goes, Command
    <3>4. Spoils(c) = Spoils(d)
      BY <3>2, <3>3 DEF Spoils, Do
    <3>5. ~Opens(exec.db, c)
      BY <3>3 DEF Opens, Opening, Do
    <3>6. c.variant = d.variant /\ Finds(c) /\ (Finds(d)' => Ready(d)')
      BY <2>1, <2>3, <3>1, <3>5, StaysApart
    <3>7. Prepared(d)'
      BY <1>1, <3>3, <3>4, <3>6, StaysPrepared DEF Finds, Stock
    <3>8. Finds(d)'
      BY <1>1, <3>2, <3>6, <3>7 DEF Finds
    <3>q. QED
      BY <3>6, <3>8
  <2>q. QED
    BY <2>2, <2>3
<1>q. QED
  BY <1>2, <1>3, <1>4

\* The commands that are no measurement: they remove, reap, start, flush and stop.
LEMMA QuietLoads ==
  ASSUME NEW d, Goes(d), Stores, Lines,
         RemoveFiles \/ Reap \/ StartServer \/ FlushAll \/ StopServer
  PROVE  Stores' /\ Lines' /\ Ready(d)' /\ UNCHANGED output /\ failed \subseteq failed'
<1>1. PICK c, v : c = Now /\ v = Now.variant
  OBVIOUS
<1>2. /\ c.op \in {"rm", "reap", "start", "flushall", "stop"} /\ v \in Variants
      /\ c = Do(c.op, v, c.w, c.t) /\ exec.db \in {"leveldb", "redis"}
      /\ d = Do(d.op, d.variant, d.w, d.t)
  BY <1>1 DEF RemoveFiles, Reap, StartServer, FlushAll, StopServer, At, Now, Goes, Scripts, Command
<1>3. /\ ~Opens(exec.db, d) =>
           /\ v = d.variant /\ c.op # "stop"
           /\ c.op = "rm" => d.op = "load"
           /\ c.op = "reap" => d.op = "start"
           /\ c.op = "start" => d.op = "load" /\ d.w = "all"
           /\ c.op = "flushall" =>
                d.op = "load" /\ d.w \in Inserting /\ c = [d EXCEPT !.op = "flushall"]
  <2>1. Command(exec, c) /\ Command(exec, d) /\ Follows(exec.db, c, d)
    BY <1>1 DEF Goes
  <2>2. c.variant = v
    BY <1>1
  <2>q. QED
    BY <1>2, <2>1, <2>2, FollowsHow
<1>4. UNCHANGED <<exec, output>>
  BY DEF RemoveFiles, Reap, StartServer, FlushAll, StopServer, Done
<1>0. /\ beside \subseteq beside'
      /\ Opens(exec.db, d) \/ d.variant \in beside' => Ready(d)'
      /\ ~Opens(exec.db, d) /\ d.variant \notin beside' =>
           (Opens(exec.db, c) \/ Finds(c)) /\ (Finds(d)' => Ready(d)')
  BY <1>1, StaysApart DEF RunScript
<1>5. Empty \in Datum /\ NoServer = [variant |-> "none", wedged |-> FALSE, data |-> Empty]
  BY DEF Empty, Datum, NoServer
<1>6. CASE RemoveFiles
  <2>1. c.op = "rm" /\ Holds(Empty) /\ UNCHANGED failed
    BY <1>1, <1>6 DEF RemoveFiles, At, Now
  <2>2. exec.db = "leveldb"
    BY <1>1, <1>2, <2>1 DEF Goes, Command
  <2>3. Stores'
    BY <1>1, <1>2, <1>4, <1>5, <2>1, HoldsIs
  <2>4. Ready(d)'
    <3>1. CASE Opens(exec.db, d) \/ d.variant \in beside'
      BY <1>0, <3>1
    <3>2. CASE ~Opens(exec.db, d) /\ d.variant \notin beside'
      BY <1>0, <1>3, <1>4, <2>1, <2>2, <3>2 DEF Finds
    <3>q. QED
      BY <3>1, <3>2
  <2>q. QED
    BY <1>0, <1>4, <2>1, <2>3, <2>4, QuietLines
<1>7. CASE Reap
  <2>1. c.op = "reap" /\ server' = NoServer /\ UNCHANGED <<store, failed>>
    BY <1>1, <1>7 DEF Reap, At, Now
  <2>2. Stores'
    BY <1>5, <2>1 DEF Stores
  <2>3. Ready(d)'
    <3>1. CASE Opens(exec.db, d) \/ d.variant \in beside'
      BY <1>0, <3>1
    <3>2. CASE ~Opens(exec.db, d) /\ d.variant \notin beside'
      BY <1>0, <1>3, <1>4, <1>5, <2>1, <3>2 DEF Finds
    <3>q. QED
      BY <3>1, <3>2
  <2>q. QED
    BY <1>0, <1>4, <2>1, <2>2, <2>3, QuietLines
<1>8. CASE StartServer
  <2>1. /\ c.op = "start" /\ UNCHANGED <<store, failed>>
        /\ \/ UNCHANGED server
           \/ server' = [NoServer EXCEPT !.variant = v]
    BY <1>1, <1>8 DEF StartServer, At, Now
  <2>2. \/ UNCHANGED server
        \/ server' = [variant |-> v, wedged |-> FALSE, data |-> Empty]
    BY <1>5, <2>1
  <2>3. Stores'
    BY <1>5, <2>1, <2>2 DEF Stores
  <2>4. Ready(d)'
    <3>1. CASE Opens(exec.db, d) \/ d.variant \in beside'
      BY <1>0, <3>1
    <3>2. CASE ~Opens(exec.db, d) /\ d.variant \notin beside'
      <4>1. d.op = "load" /\ d.w = "all" /\ v = d.variant
        BY <1>3, <2>1, <3>2
      <4>2. ~Opens(exec.db, c)
        BY <2>1 DEF Opens, Opening, Do
      <4>3. exec.db = "redis" => server = NoServer
        BY <1>0, <2>1, <3>2, <4>2 DEF Finds
      <4>4. exec.db = "redis" => server'.variant \in {v, "none"} /\ ~server'.data.grown
        BY <1>5, <2>2, <4>3 DEF Empty
      <4>q. QED
        BY <1>0, <1>4, <3>2, <4>1, <4>4 DEF Finds
    <3>q. QED
      BY <3>1, <3>2
  <2>q. QED
    BY <1>0, <1>4, <2>1, <2>3, <2>4, QuietLines
<1>9. CASE FlushAll
  <2>1. /\ c.op = "flushall"
        /\ \/ Holds(Empty) /\ UNCHANGED failed
           \/ failed' = failed \union {c} /\ UNCHANGED <<store, server>>
    BY <1>1, <1>9 DEF FlushAll, At, Now
  <2>2. exec.db = "redis"
    BY <1>1, <1>2, <2>1 DEF Goes, Command
  <2>3. Holds(Empty) => /\ Stores' /\ server'.variant = server.variant /\ server'.data = Empty
    BY <1>1, <1>2, <1>4, <1>5, <2>2, HoldsIs
  <2>4. Stores' /\ server'.variant = server.variant /\ failed \subseteq failed'
    BY <2>1, <2>3 DEF Stores
  <2>5. Ready(d)'
    <3>1. CASE Opens(exec.db, d) \/ d.variant \in beside'
      BY <1>0, <3>1
    <3>2. CASE ~Opens(exec.db, d) /\ d.variant \notin beside'
      <4>1. d.op = "load" /\ v = d.variant /\ c = [d EXCEPT !.op = "flushall"]
            /\ d.w \in Inserting
        BY <1>3, <2>1, <3>2
      <4>2. d.w # "all"
        BY <4>1, TablesOf
      <4>3. [d EXCEPT !.op = "flushall"] \notin failed' => ~server'.data.grown
        BY <2>1, <2>3, <4>1 DEF Empty
      <4>4. ~Opens(exec.db, c)
        BY <2>1, <2>2 DEF Opens, Opening, Do
      <4>6. c.variant = v
        BY <1>1
      <4>5. server.variant \in {v, "none"}
        BY <1>0, <1>2, <2>2, <3>2, <4>4, <4>6 DEF Finds
      <4>q. QED
        BY <1>0, <1>4, <2>4, <3>2, <4>1, <4>2, <4>3, <4>5 DEF Finds
    <3>q. QED
      BY <3>1, <3>2
  <2>q. QED
    BY <1>0, <1>4, <2>4, <2>5, QuietLines
<1>10. CASE StopServer
  <2>1. c.op = "stop" /\ server' \in {NoServer, server} /\ UNCHANGED <<store, failed>>
    BY <1>1, <1>10 DEF StopServer, At, Now
  <2>2. Stores'
    <3>1. CASE server' = NoServer
      BY <1>5, <2>1, <3>1 DEF Stores
    <3>2. CASE server' = server
      BY <2>1, <3>2 DEF Stores
    <3>q. QED
      BY <2>1, <3>1, <3>2
  <2>3. Ready(d)'
    BY <1>0, <1>3, <2>1
  <2>q. QED
    BY <1>0, <1>4, <2>1, <2>2, <2>3, QuietLines
<1>q. QED
  BY <1>6, <1>7, <1>8, <1>9, <1>10

\* A load or a run: what it prints, what it leaves, and whether it fails.
LEMMA YcsbHow ==
  ASSUME Stores, Ycsb, Now.variant \in Variants, exec.db \in {"leveldb", "redis"}
  PROVE  \E result \in [status : BOOLEAN, overall : BOOLEAN, works : BOOLEAN] :
           /\ exec.db = "redis" /\ server.variant = "none" =>
                ~result.status /\ ~result.overall /\ ~result.works
           /\ output' = (output \o (IF result.status THEN <<Line("status")>> ELSE << >>))
                          \o (IF result.overall THEN <<Line("overall")>> ELSE << >>)
           /\ Holds(IF exec.db = "redis" /\ server.variant = "none" THEN Data
                    ELSE IF Now.op = "load" THEN Loaded(exec.db, Data, result.works)
                    ELSE RunOn(Now, Data))
           /\ failed' = IF result.works THEN failed ELSE failed \union {Now}
<1>1. PICK result \in {Good} \union Bad \union {NoReply} :
        /\ exec.db = "redis" /\ server.variant = "none" => result = NoReply
        /\ output' = output \o (IF result.status THEN <<Line("status")>> ELSE << >>)
                            \o (IF result.overall THEN <<Line("overall")>> ELSE << >>)
        /\ Holds(IF exec.db = "redis" /\ server.variant = "none" THEN Data
                 ELSE IF Now.op = "load" THEN Loaded(exec.db, Data, result.works)
                    ELSE RunOn(Now, Data))
        /\ failed' = IF result.works THEN failed ELSE failed \union {Now}
  BY Zenon DEF Ycsb
<1>2. result \in [status : BOOLEAN, overall : BOOLEAN, works : BOOLEAN]
  <2>1. CASE result = Good
    BY <2>1 DEF Good
  <2>2. CASE result = NoReply
    BY <2>2 DEF NoReply
  <2>3. CASE result = [status |-> FALSE, overall |-> TRUE, works |-> TRUE]
    BY <2>3
  <2>4. CASE result \in [status : BOOLEAN, overall : BOOLEAN, works : {FALSE}]
    BY <2>4
  <2>5. result \in Bad => \/ result = [status |-> FALSE, overall |-> TRUE, works |-> TRUE]
                          \/ result \in [status : BOOLEAN, overall : BOOLEAN, works : {FALSE}]
    BY DEF Bad
  <2>6. result \in {Good} \union Bad \union {NoReply}
    OBVIOUS
  <2>q. QED
    BY <2>1, <2>2, <2>3, <2>4, <2>5, <2>6, Zenon
<1>3. result = NoReply => ~result.status /\ ~result.overall /\ ~result.works
  BY DEF NoReply
<1>q. QED
  BY <1>1, <1>2, <1>3

\* Two lines that may come behind a sequence.
LEMMA TwoMore ==
  ASSUME NEW s, NEW x, NEW y, s \in Seq(Entries(s)), x \in Seq(Entries(x)), y \in Seq(Entries(y))
  PROVE  /\ (s \o x) \o y = s \o (x \o y)
         /\ x \o y \in Seq(Entries(x \o y)) /\ Entries(x \o y) = Entries(x) \union Entries(y)
<1>3. PICK S : S = (Entries(s) \union Entries(x)) \union Entries(y)
  OBVIOUS
<1>4. s \in Seq(S) /\ x \in Seq(S) /\ y \in Seq(S)
  <2>1. Entries(s) \subseteq S /\ Entries(x) \subseteq S /\ Entries(y) \subseteq S
    BY <1>3
  <2>q. QED
    BY <2>1, SeqMonotonic
<1>5. (s \o x) \o y = s \o (x \o y)
  BY <1>4, ConcatAssociative
<1>6. x \o y \in Seq(Entries(x \o y)) /\ Entries(x \o y) = Entries(x) \union Entries(y)
  BY Joined, JoinedEntries
<1>q. QED
  BY <1>5, <1>6

\* What a load or a run is, and what it leaves.
LEMMA YcsbDoes ==
  ASSUME Stores, Lines, NEW v \in Variants, v = Now.variant, Ycsb, exec.db \in {"leveldb", "redis"}
  PROVE  \E works, data, m :
           /\ works \in BOOLEAN /\ data \in Datum
           /\ Now.op \in {"load", "run"} /\ UNCHANGED <<exec, beside>>
           /\ exec.db = "redis" /\ server.variant = "none" => m = << >> /\ ~works
           /\ ~(exec.db = "redis" /\ server.variant = "none") =>
                data = IF Now.op = "load" THEN Loaded(exec.db, Data, works)
                       ELSE RunOn(Now, Data)
           /\ Holds(data) /\ failed' = IF works THEN failed ELSE failed \union {Now}
           /\ output' = output \o m /\ m \in Seq(Entries(m))
           /\ Entries(m) \subseteq {Line("status"), Line("overall")}
<1>1. PICK result \in [status : BOOLEAN, overall : BOOLEAN, works : BOOLEAN] :
        /\ exec.db = "redis" /\ server.variant = "none" =>
             ~result.status /\ ~result.overall /\ ~result.works
        /\ output' = (output \o (IF result.status THEN <<Line("status")>> ELSE << >>))
                       \o (IF result.overall THEN <<Line("overall")>> ELSE << >>)
        /\ Holds(IF exec.db = "redis" /\ server.variant = "none" THEN Data
                 ELSE IF Now.op = "load" THEN Loaded(exec.db, Data, result.works)
                    ELSE RunOn(Now, Data))
        /\ failed' = IF result.works THEN failed ELSE failed \union {Now}
  BY YcsbHow
<1>2. PICK a, b, p, q, w : /\ a = Line("status") /\ b = Line("overall")
                           /\ p = result.status /\ q = result.overall /\ w = result.works
  OBVIOUS
<1>3. p \in BOOLEAN /\ q \in BOOLEAN /\ w \in BOOLEAN
  BY <1>2
<1>4. output' = (output \o (IF p THEN <<a>> ELSE << >>)) \o (IF q THEN <<b>> ELSE << >>)
  BY <1>1, <1>2
<1>5. PICK o : o = output
  OBVIOUS
<1>6. o \in Seq(Entries(o))
  BY <1>5 DEF Lines
<1>7. PICK m : /\ m \in Seq(Entries(m))
               /\ Entries(m) = (IF p THEN {a} ELSE {}) \union (IF q THEN {b} ELSE {})
               /\ (o \o (IF p THEN <<a>> ELSE << >>)) \o (IF q THEN <<b>> ELSE << >>) = o \o m
  <2>1. PICK x, y : x = (IF p THEN <<a>> ELSE << >>) /\ y = (IF q THEN <<b>> ELSE << >>)
    OBVIOUS
  <2>2. /\ x \in Seq(Entries(x)) /\ Entries(x) = IF p THEN {a} ELSE {}
        /\ y \in Seq(Entries(y)) /\ Entries(y) = IF q THEN {b} ELSE {}
    BY <2>1, ShortSeqs
  <2>3. x \in Seq(Entries(x)) /\ y \in Seq(Entries(y))
    BY <2>2
  <2>4. /\ (o \o x) \o y = o \o (x \o y)
        /\ x \o y \in Seq(Entries(x \o y)) /\ Entries(x \o y) = Entries(x) \union Entries(y)
    BY <1>6, <2>3, TwoMore
  <2>5. PICK n : n = x \o y
    OBVIOUS
  <2>q. QED
    BY <2>1, <2>2, <2>4, <2>5
<1>8. output' = output \o m
  BY <1>4, <1>5, <1>7
<1>9. exec.db = "redis" /\ server.variant = "none" => m = << >> /\ ~w
  <2>1. Entries(m) = {} => m = << >>
    <3>1. Entries(m) = {} => m \in Seq({})
      BY <1>7
    <3>q. QED
      BY <3>1
  <2>q. QED
    BY <1>1, <1>2, <1>7, <2>1
<1>10. Data \in Datum
  BY DataIs
<1>11. PICK data : data = IF exec.db = "redis" /\ server.variant = "none" THEN Data
                          ELSE IF Now.op = "load" THEN Loaded(exec.db, Data, w)
                          ELSE RunOn(Now, Data)
  OBVIOUS
<1>12. data \in Datum
  <2>1. [whole |-> w, grown |-> FALSE] \in Datum
    BY <1>3 DEF Datum
  <2>2. Loaded(exec.db, Data, w) \in Datum
    BY <1>3, <1>10, <2>1 DEF Loaded, Datum
  <2>3. RunOn(Now, Data) \in Datum
    BY <1>10 DEF RunOn, Datum
  <2>q. QED
    BY <1>10, <1>11, <2>2, <2>3
<1>13. Holds(data) /\ failed' = IF w THEN failed ELSE failed \union {Now}
  BY <1>1, <1>2, <1>11
<1>14. Now.op \in {"load", "run"} /\ UNCHANGED <<exec, beside>>
  BY DEF Ycsb, At, Now, Done
<1>15. Entries(m) \subseteq {Line("status"), Line("overall")}
  BY <1>2, <1>7
<1>16. ~(exec.db = "redis" /\ server.variant = "none") =>
         data = IF Now.op = "load" THEN Loaded(exec.db, Data, w) ELSE RunOn(Now, Data)
  BY <1>11
<1>q. QED
  BY <1>3, <1>7, <1>8, <1>9, <1>12, <1>13, <1>14, <1>15, <1>16

\* A load leaves a later run what it looks for, and a run measures what it finds.
LEMMA YcsbLoads ==
  ASSUME NEW d, Goes(d), Stores, Lines, Ycsb
  PROVE  Stores' /\ Lines' /\ Ready(d)'
<1>1. PICK c, v : c = Now /\ v = Now.variant
  OBVIOUS
<1>2. /\ exec.db \in {"leveldb", "redis"} /\ v \in Variants /\ Ready(c) /\ c.variant = v
      /\ c = Do(c.op, v, c.w, c.t) /\ d = Do(d.op, d.variant, d.w, d.t)
      /\ Command(exec, c) /\ Command(exec, d) /\ Follows(exec.db, c, d)
  BY <1>1 DEF Goes, Scripts, Command
<1>3. PICK works, data, m :
        /\ works \in BOOLEAN /\ data \in Datum
        /\ c.op \in {"load", "run"} /\ UNCHANGED <<exec, beside>>
        /\ exec.db = "redis" /\ server.variant = "none" => m = << >> /\ ~works
        /\ ~(exec.db = "redis" /\ server.variant = "none") =>
             data = IF c.op = "load" THEN Loaded(exec.db, Data, works) ELSE RunOn(c, Data)
        /\ Holds(data) /\ failed' = IF works THEN failed ELSE failed \union {c}
        /\ output' = output \o m /\ m \in Seq(Entries(m))
        /\ Entries(m) \subseteq {Line("status"), Line("overall")}
  BY <1>1, <1>2, YcsbDoes
<1>4. /\ Stores' /\ Stock(v)' = data /\ server'.variant = server.variant
      /\ exec.db = "redis" => server'.data = data
  BY <1>1, <1>2, <1>3, HoldsIs
<1>5. failed \subseteq failed' /\ Data = Stock(v) /\ Data \in Datum
  BY <1>1, <1>2, <1>3, DataIs
<1>6. ~Opens(exec.db, c)
  BY <1>3 DEF Opens, Opening, Do
<1>7. v \notin beside => Finds(c) /\ (exec.db = "redis" => server.variant \in {v, "none"})
  BY <1>2, <1>6 DEF Ready, Finds
<1>8. Lines'
  <2>1. ASSUME NEW line \in Entries(m), line.from.op = "run" PROVE Measured(line)'
    <3>1. line.from = c
      BY <1>1, <1>3 DEF Line
    <3>2. CASE v \in beside
      BY <1>2, <1>3, <3>1, <3>2 DEF Measured
    <3>3. CASE v \notin beside
      <4>1. line.variant = server.variant /\ line.data = Stock(v)
        BY <1>1, <1>3, <1>5, <3>3 DEF Line
      <4>2. exec.db = "redis" => server.variant = v
        <5>1. m # << >>
          BY ShortSeqs
        <5>q. QED
          BY <1>3, <1>7, <3>3, <5>1
      <4>3. Prepared(c)
        BY <1>7, <2>1, <3>1, <3>3 DEF Finds
      <4>4. v # "none"
        BY <1>2, <2>1, <3>1, WorkloadsAssumption DEF Variants
      <4>5. Spoils(c) \cap failed # {} \/ Fresh(Stock(v))
        BY <1>2, <4>2, <4>3, <4>4 DEF Prepared
      <4>q. QED
        BY <1>2, <1>3, <1>5, <3>1, <4>1, <4>2, <4>5 DEF Measured, Spoils
    <3>q. QED
      BY <3>2, <3>3
  <2>2. output' \in Seq(Entries(output')) /\ Entries(output') = Entries(output) \union Entries(m)
    BY <1>3, Joined, JoinedEntries DEF Lines
  <2>q. QED
    BY <1>3, <1>5, <2>1, <2>2, LinesStay
<1>9. CASE Opens(exec.db, d) \/ d.variant \in beside'
  <2>1. Ready(d)'
    BY <1>9, StaysApart DEF RunScript
  <2>q. QED
    BY <1>4, <1>8, <2>1
<1>10. CASE ~Opens(exec.db, d) /\ d.variant \notin beside'
  <2>1. /\ v = d.variant
        /\ c.op = "load" => \/ d.op = "mark" /\ d.w \in ReadOnly /\ c = SharedLoad(d.variant)
                            \/ d.op = "mark" /\ d.w \in Inserting /\ c = [d EXCEPT !.op = "load"]
                            \/ d.op \in {Clear(exec.db), "stop"}
        /\ c.op = "run" => \/ d.op = "mark" /\ d.w \in ReadOnly /\ c.w \in ReadOnly
                           \/ d.op \in {Clear(exec.db), "stop"}
    BY <1>1, <1>2, <1>10, FollowsHow
  <2>6. Finds(c) /\ (exec.db = "redis" => server.variant \in {v, "none"})
        /\ (Finds(d)' => Ready(d)')
    <3>1. v \notin beside /\ (Finds(d)' => Ready(d)')
      BY <1>1, <1>10, StaysApart DEF RunScript
    <3>q. QED
      BY <1>7, <3>1
  <2>2. d.op = "mark" \/ d.op \in {Clear(exec.db), "stop"}
    BY <1>3, <2>1
  <2>3. d.op \in {Clear(exec.db), "stop"} => d.op \notin {"mark", "run", "load", "start"}
    BY DEF Clear
  <2>4. ASSUME d.op = "mark" PROVE Prepared(d)'
    <3>1. CASE exec.db = "redis" /\ server.variant = "none"
      BY <1>3, <1>4, <3>1 DEF Prepared
    <3>2. CASE ~(exec.db = "redis" /\ server.variant = "none") /\ c.op = "load"
      <4>1. data = Loaded(exec.db, Data, works)
        BY <1>3, <3>2
      <4>2. /\ c \in Spoils(d)
            /\ exec.db = "redis" =>
                 \/ ~server.data.grown
                 \/ d.w \notin ReadOnly /\ [d EXCEPT !.op = "flushall"] \in failed
        <5>1. CASE d.w \in ReadOnly /\ c = SharedLoad(d.variant)
          <6>1. c.w = "all" /\ c.op = "load"
            BY <5>1 DEF SharedLoad, Do
          <6>q. QED
            BY <1>2, <2>6, <5>1, <6>1 DEF Spoils, Finds
        <5>2. CASE d.w \in Inserting /\ c = [d EXCEPT !.op = "load"]
          <6>1. d.w \notin ReadOnly
            BY <5>2, TablesOf
          <6>2. [c EXCEPT !.op = "flushall"] = [d EXCEPT !.op = "flushall"]
            BY <1>2, <5>2 DEF Do
          <6>q. QED
            BY <1>2, <2>6, <3>2, <5>2, <6>1, <6>2 DEF Spoils, Finds
        <5>q. QED
          BY <2>1, <2>3, <2>4, <3>2, <5>1, <5>2
      <4>3. CASE ~works
        <5>1. c \in Spoils(d) /\ c \in failed'
          BY <1>3, <4>2, <4>3
        <5>2. Spoils(d)' = Spoils(d)
          BY DEF Spoils
        <5>q. QED
          BY <5>1, <5>2 DEF Prepared
      <4>4. CASE works /\ exec.db = "leveldb"
        <5>1. data = [whole |-> TRUE, grown |-> FALSE]
          BY <4>1, <4>4 DEF Loaded
        <5>q. QED
          BY <1>4, <2>1, <5>1 DEF Prepared, Fresh
      <4>5. CASE works /\ exec.db = "redis"
        <5>1. data = [Data EXCEPT !.whole = @ \/ works] /\ Data = server.data
          BY <1>5, <4>1, <4>5 DEF Loaded, Stock
        <5>2. data.whole /\ (data.grown <=> server.data.grown)
          BY <1>5, <4>5, <5>1 DEF Datum
        <5>3. CASE ~server.data.grown
          BY <1>4, <2>1, <5>2, <5>3 DEF Prepared, Fresh
        <5>4. CASE d.w \notin ReadOnly /\ [d EXCEPT !.op = "flushall"] \in failed
          <6>1. [d EXCEPT !.op = "flushall"] \in Spoils(d)' \cap failed'
            BY <1>5, <5>4 DEF Spoils
          <6>q. QED
            BY <6>1 DEF Prepared
        <5>q. QED
          BY <4>2, <4>5, <5>3, <5>4
      <4>q. QED
        BY <1>2, <4>3, <4>4, <4>5
    <3>3. CASE ~(exec.db = "redis" /\ server.variant = "none") /\ c.op = "run"
      <4>1. d.w \in ReadOnly /\ c.w \in ReadOnly
        BY <2>1, <2>3, <2>4, <3>3
      <4>2. c.w \notin Range(INS_WORKLOADS)
        BY <4>1, TablesOf DEF Inserting
      <4>3. data = RunOn(c, Data)
        BY <1>3, <3>3
      <4>4. (data.whole <=> Data.whole) /\ (data.grown <=> Data.grown)
        BY <1>1, <1>5, <4>2, <4>3 DEF RunOn, Datum
      <4>5. Fresh(Stock(v)) => Fresh(Stock(v)')
        BY <1>4, <1>5, <4>4 DEF Fresh
      <4>6. Spoils(c) = Spoils(d) /\ c.variant = v
        BY <1>1, <2>1, <4>1 DEF Spoils
      <4>7. Prepared(c)
        BY <2>6, <3>3 DEF Finds
      <4>q. QED
        BY <1>3, <1>4, <1>5, <2>1, <4>5, <4>6, <4>7, StaysPrepared
    <3>q. QED
      BY <1>3, <3>1, <3>2, <3>3
  <2>5. Ready(d)'
    <3>1. Finds(d)'
      BY <1>3, <1>4, <2>1, <2>2, <2>3, <2>4, <2>6 DEF Finds
    <3>q. QED
      BY <2>6, <3>1
  <2>q. QED
    BY <1>4, <1>8, <2>5
<1>q. QED
  BY <1>9, <1>10

\* A row shows a line of its marker's block: Min and Max of some of its places.
LEMMA BlockIs ==
  ASSUME output \in Seq(Entries(output)), NEW i, NEW kind
  PROVE  /\ LinesOf(i, kind) \subseteq Block(i) /\ Block(i) \subseteq DOMAIN output
         /\ Len(output) \in Nat /\ DOMAIN output = 1 .. Len(output)
         /\ \A S \in SUBSET Block(i) : S # {} =>
              Min(S) \in S /\ Max(S) \in S /\ \A j \in S : Min(S) <= j /\ j <= Max(S)
<1>1. Len(output) \in Nat /\ DOMAIN output = 1 .. Len(output)
  BY OwnEntries
<1>2. LinesOf(i, kind) \subseteq Block(i) /\ Block(i) \subseteq DOMAIN output
  BY DEF LinesOf, Block
<1>3. ASSUME NEW S \in SUBSET Block(i), S # {}
      PROVE  Min(S) \in S /\ Max(S) \in S /\ \A j \in S : Min(S) <= j /\ j <= Max(S)
  <2>1. S \subseteq Nat /\ \A y \in S : y <= Len(output)
    BY <1>1, <1>2
  <2>q. QED
    BY <1>1, <1>3, <2>1, MaxIs, MinIs
<1>q. QED
  BY <1>1, <1>2, <1>3

\* A row is of a marker, and of a place of its block.
RowAt(row, i, j) ==
  /\ i \in Markers /\ j \in Block(i)
  /\ row.of = output[i].from /\ row.line = output[j]

\* What the parsers find: LevelDB's first summary of a run, or its last status
\* line.
LEMMA LeveldbRow ==
  ASSUME output \in Seq(Entries(output)), NEW row \in ParseLeveldb
  PROVE  \E i, j :
           /\ RowAt(row, i, j)
           /\ \/ /\ row = RowOf(i, "throughput", j)
                 /\ output[j].kind = "overall" /\ output[j].from.op = "run"
                 /\ \A k \in LinesOf(i, "overall") : output[k].from.op = "run" => j <= k
              \/ /\ row = RowOf(i, "latency_avg", j) /\ output[j].kind = "status"
<1> DEFINE Summaries(i) == {j \in LinesOf(i, "overall") : output[j].from.op = "run"}
<1>1. CASE \E i \in Markers : Summaries(i) # {} /\ row = RowOf(i, "throughput", Min(Summaries(i)))
  <2>1. PICK i \in Markers : Summaries(i) # {} /\ row = RowOf(i, "throughput", Min(Summaries(i)))
    BY <1>1
  <2>2. PICK S : S = Summaries(i)
    OBVIOUS
  <2>3. S \subseteq Block(i) /\ S # {}
    BY <2>1, <2>2, BlockIs
  <2>4. PICK j : j = Min(S)
    OBVIOUS
  <2>5. j \in S /\ \A k \in S : j <= k
    BY <2>3, <2>4, BlockIs
  <2>6. j \in Block(i) /\ output[j].kind = "overall" /\ output[j].from.op = "run"
    BY <2>2, <2>5 DEF LinesOf
  <2>7. row = RowOf(i, "throughput", j)
    BY <2>1, <2>2, <2>4
  <2>8. \A k \in LinesOf(i, "overall") : output[k].from.op = "run" => j <= k
    BY <2>2, <2>5
  <2>9. RowAt(row, i, j)
    BY <2>1, <2>6, <2>7 DEF RowAt, RowOf
  <2>q. QED
    BY <2>6, <2>7, <2>8, <2>9, Zenon
<1>2. CASE \E i \in Markers : /\ Summaries(i) # {} /\ LinesOf(i, "status") # {}
                              /\ row = RowOf(i, "latency_avg", Max(LinesOf(i, "status")))
  <2>1. PICK i \in Markers : /\ Summaries(i) # {} /\ LinesOf(i, "status") # {}
                             /\ row = RowOf(i, "latency_avg", Max(LinesOf(i, "status")))
    BY <1>2
  <2>2. PICK S : S = LinesOf(i, "status")
    OBVIOUS
  <2>3. Max(S) \in S /\ S \subseteq Block(i)
    BY <2>1, <2>2, BlockIs
  <2>4. PICK j : j = Max(S)
    OBVIOUS
  <2>5. j \in Block(i) /\ output[j].kind = "status"
    BY <2>2, <2>3, <2>4 DEF LinesOf
  <2>6. row = RowOf(i, "latency_avg", j)
    BY <2>1, <2>2, <2>4
  <2>7. RowAt(row, i, j)
    BY <2>1, <2>5, <2>6 DEF RowAt, RowOf
  <2>q. QED
    BY <2>5, <2>6, <2>7, Zenon
<1>q. QED
  BY <1>1, <1>2 DEF ParseLeveldb

\* Redis's first summary of a block, or its last status line.
LEMMA RedisRow ==
  ASSUME output \in Seq(Entries(output)), NEW row \in ParseRedis
  PROVE  \E i, j :
           /\ RowAt(row, i, j) /\ row = RowOf(i, "throughput", j)
           /\ \/ output[j].kind = "overall" /\ \A k \in LinesOf(i, "overall") : j <= k
              \/ /\ output[j].kind = "status" /\ LinesOf(i, "overall") = {}
                 /\ \A k \in LinesOf(i, "status") : k <= j
<1>1. PICK i \in Markers :
        /\ LinesOf(i, "overall") \union LinesOf(i, "status") # {}
        /\ row = RowOf(i, "throughput", IF LinesOf(i, "overall") # {}
                                        THEN Min(LinesOf(i, "overall"))
                                        ELSE Max(LinesOf(i, "status")))
  BY DEF ParseRedis
<1>2. PICK S, T : S = LinesOf(i, "overall") /\ T = LinesOf(i, "status")
  OBVIOUS
<1>3. S \subseteq Block(i) /\ T \subseteq Block(i)
  BY <1>2, BlockIs
<1>4. CASE S # {}
  <2>1. PICK j : j = Min(S)
    OBVIOUS
  <2>2. j \in S /\ \A k \in S : j <= k
    BY <1>3, <1>4, <2>1, BlockIs
  <2>3. row = RowOf(i, "throughput", j)
    BY <1>1, <1>2, <1>4, <2>1
  <2>4. output[j].kind = "overall" /\ j \in Block(i)
    BY <1>2, <2>2 DEF LinesOf
  <2>5. RowAt(row, i, j)
    BY <1>1, <2>3, <2>4 DEF RowAt, RowOf
  <2>q. QED
    BY <1>2, <2>2, <2>3, <2>4, <2>5, Zenon
<1>5. CASE S = {}
  <2>1. PICK j : j = Max(T)
    OBVIOUS
  <2>2. j \in T /\ \A k \in T : k <= j
    BY <1>1, <1>2, <1>3, <1>5, <2>1, BlockIs
  <2>3. row = RowOf(i, "throughput", j)
    BY <1>1, <1>2, <1>5, <2>1
  <2>4. output[j].kind = "status" /\ j \in Block(i)
    BY <1>2, <2>2 DEF LinesOf
  <2>5. RowAt(row, i, j)
    BY <1>1, <2>3, <2>4 DEF RowAt, RowOf
  <2>q. QED
    BY <1>2, <1>5, <2>2, <2>3, <2>4, <2>5, Zenon
<1>q. QED
  BY <1>4, <1>5

\* The lines that rows show are of the output.
LEMMA RowsShown ==
  ASSUME output \in Seq(Entries(output)), NEW row \in ParseLeveldb \union ParseRedis
  PROVE  row.line \in Entries(output)
<1>1. PICK i, j : RowAt(row, i, j)
  BY LeveldbRow, RedisRow
<1>2. j \in DOMAIN output
  BY <1>1, BlockIs DEF RowAt
<1>q. QED
  BY <1>1, <1>2 DEF RowAt, Entries

\* A session that is lost: the next script, or the parser, comes.
LEMMA LoseTo ==
  ASSUME Executing, Scripts, LoseSession
  PROVE  \E k \in DOMAIN script :
           /\ script' = SubSeq(script, k, Len(script)) /\ k # 1
           /\ Opens(exec.db, script[k]) /\ Chain(exec, script')
           /\ script' # << >> /\ script'[1] = script[k]
           /\ script'[Len(script')].op = "parse"
           /\ Entries(script') \subseteq Entries(script)
<1>1. /\ exec \in YcsbRuns /\ Chain(exec, script) /\ script[Len(script)].op = "parse"
      /\ script # << >>
  BY DEF Scripts, Executing
<1>2. /\ script \in Seq(Entries(script)) /\ Len(script) \in Nat \ {0}
      /\ DOMAIN script = 1 .. Len(script) /\ Now = script[1]
  BY <1>1, EmptySeq, OwnEntries DEF Chain, Distinct, Now
<1>3. PICK k \in DOMAIN script :
        /\ script[k].variant # Now.variant
        /\ \A i \in 1 .. k - 1 : script[i].variant = Now.variant
        /\ script' = SubSeq(script, k, Len(script))
  BY DEF LoseSession, NextScript
<1>4. k # 1
  BY <1>2, <1>3
<1>5. k - 1 \in 1 .. k - 1 /\ k - 1 \in 1 .. Len(script) - 1 /\ (k - 1) + 1 = k
  BY <1>2, <1>4
<1>6. Follows(exec.db, script[k - 1], script[(k - 1) + 1])
  BY <1>1, <1>5 DEF Chain
<1>7. script[k - 1].variant # script[k].variant
  BY <1>3, <1>5
<1>8. Opens(exec.db, script[k])
  BY <1>5, <1>6, <1>7 DEF Follows
<1>9. PICK s, t : s = script /\ t = SubSeq(script, k, Len(script))
  OBVIOUS
<1>10. Chain(exec, t) /\ t # << >> /\ t[1] = s[k] /\ t[Len(t)] = s[Len(s)]
       /\ Entries(t) \subseteq Entries(s)
  BY <1>1, <1>9, ChainRest
<1>11. script' = t
  BY <1>3, <1>9
<1>12. Entries(script') = Entries(t)
  BY <1>11
<1>q. QED
  BY <1>1, <1>3, <1>4, <1>8, <1>9, <1>10, <1>11, <1>12

\* A server that fails.
LEMMA ServerLoads ==
  ASSUME Stores, Scripts, Lines, ServerFails
  PROVE  Stores' /\ Scripts' /\ Lines'
<1>1. /\ server.variant # "none" /\ server' \in {NoServer, [server EXCEPT !.wedged = TRUE]}
      /\ UNCHANGED <<exec, script, output, store, orphans, failed, beside>>
  BY DEF ServerFails
<1>2. NoServer = [variant |-> "none", wedged |-> FALSE, data |-> Empty] /\ Empty \in Datum
  BY DEF NoServer, Empty, Datum
<1>3. \/ server' = NoServer
      \/ server' = [variant |-> server.variant, wedged |-> TRUE, data |-> server.data]
  BY <1>1 DEF Stores
<1>4. Stores'
  <2>1. CASE server' = NoServer
    BY <1>1, <1>2, <2>1 DEF Stores
  <2>2. CASE server' = [variant |-> server.variant, wedged |-> TRUE, data |-> server.data]
    BY <1>1, <2>2 DEF Stores
  <2>q. QED
    BY <1>3, <2>1, <2>2
<1>5. PICK d : d = script[1]
  OBVIOUS
<1>6. Ready(d)
  BY <1>5 DEF Scripts
<1>7. CASE Opens(exec.db, d) \/ d.variant \in beside
  <2>1. Ready(d)'
    BY <1>1, <1>7 DEF Ready
  <2>q. QED
    BY <1>1, <1>4, <1>5, <2>1, QuietLines DEF Scripts
<1>8. CASE ~Shares(d) /\ Finds(d)
  <2>1. d.op = "start" => exec.db # "redis"
    BY <1>1, <1>2, <1>8 DEF Finds
  <2>2. server'.variant \in {server.variant, "none"} /\ (server'.data.grown => server.data.grown)
    BY <1>2, <1>3 DEF Empty
  <2>3. Prepared(d) => Prepared(d)'
    <3>1. Fresh(Stock(d.variant)) => \/ Fresh(Stock(d.variant)')
                                     \/ exec.db = "redis" /\ server'.variant = "none"
      BY <1>1, <1>2, <1>3 DEF Stock
    <3>2. Spoils(d)' = Spoils(d)
      BY DEF Spoils
    <3>q. QED
      BY <1>1, <2>2, <3>1, <3>2 DEF Prepared
  <2>4. Finds(d)'
    BY <1>1, <1>8, <2>1, <2>2, <2>3 DEF Finds
  <2>5. ~Shares(d)'
    BY <1>1, <1>8 DEF Shares
  <2>6. Ready(d)'
    BY <2>4, <2>5 DEF Ready
  <2>q. QED
    BY <1>1, <1>4, <1>5, <2>6, QuietLines DEF Scripts
<1>q. QED
  BY <1>6, <1>7, <1>8 DEF Ready

\* The part of a script that goes on without its session or its driver.
LEMMA OrphanIs ==
  ASSUME Executing, Scripts, ~At("parse"), NEW k \in DOMAIN script, NextScript(k),
         NEW o, o = [exec |-> execs, db |-> exec.db, left |-> SubSeq(script, 1, k - 1)]
  PROVE  Orphaned(o)
<1>1. PICK run, s, c : run = exec /\ s = script /\ c = Now
  OBVIOUS
<1>2. /\ run \in YcsbRuns /\ Chain(run, s) /\ s # << >>
      /\ \A i \in 1 .. k - 1 : s[i].variant = c.variant
      /\ s[k].variant # c.variant /\ k \in DOMAIN s /\ c.op # "parse"
  <2>1. script[k].variant # Now.variant /\ \A i \in 1 .. k - 1 : script[i].variant = Now.variant
    BY DEF NextScript
  <2>2. exec \in YcsbRuns /\ Chain(exec, script) /\ script # << >> /\ Now.op # "parse"
    BY DEF Scripts, Executing, At, Now
  <2>q. QED
    BY <1>1, <2>1, <2>2
<1>3. /\ s \in Seq(Entries(s)) /\ Len(s) \in Nat /\ DOMAIN s = 1 .. Len(s) /\ c = s[1]
  BY <1>1, <1>2, EmptySeq, OwnEntries DEF Chain, Distinct, Now
<1>4. k - 1 \in 1 .. Len(s) /\ 1 \in DOMAIN s
  <2>1. k # 1 /\ k \in 1 .. Len(s)
    BY <1>2, <1>3
  <2>q. QED
    BY <1>3, <2>1
<1>5. PICK t : t = SubSeq(s, 1, k - 1)
  OBVIOUS
<1>6. t \in Seq(Entries(s)) /\ Len(t) = k - 1 /\ \A i \in 1 .. k - 1 : t[i] = s[i]
  BY <1>3, <1>4, <1>5, SubSeqProperties
<1>7. t \in Seq(Entries(t)) /\ DOMAIN t = 1 .. k - 1 /\ t # << >>
  BY <1>4, <1>6, OwnEntries
<1>8. \A i \in DOMAIN t : Command(run, t[i]) /\ t[i].variant = c.variant
  BY <1>2, <1>3, <1>4, <1>6, <1>7 DEF Chain
<1>9. \A e \in Entries(t) : Command(run, e) /\ e.variant = c.variant
  BY <1>8 DEF Entries
<1>10. PICK v : v = c.variant
  OBVIOUS
<1>11. v \in Variants
  BY <1>2, <1>3, <1>4, <1>10 DEF Chain, Command, Variants
<1>12. o = [exec |-> o.exec, db |-> o.db, left |-> o.left] /\ o.left = t /\ o.db = run.db
  BY <1>1, <1>5
<1>13. Left(o, run, v)
  BY <1>9, <1>10, <1>12 DEF Left
<1>q. QED
  BY <1>2, <1>7, <1>11, <1>12, <1>13 DEF Orphaned

\* The command that an orphan comes to, and what it has left behind it.
LEMMA OrphanNow ==
  ASSUME NEW o, Orphaned(o)
  PROVE  /\ \E run \in YcsbRuns : run.db = o.db /\ Command(run, Head(o.left))
         /\ Head(o.left).variant \in Variants
         /\ LET p == [o EXCEPT !.left = Tail(@)]
            IN  Len(o.left) > 1 =>
                  /\ Orphaned(p) /\ p.db = o.db
                  /\ Head(p.left).variant = Head(o.left).variant
<1>1. PICK run \in YcsbRuns, v \in Variants : Left(o, run, v)
  BY DEF Orphaned
<1>2. PICK s : s = o.left
  OBVIOUS
<1>3. /\ s \in Seq(Entries(s)) /\ s # << >> /\ run.db = o.db
      /\ \A c \in Entries(s) : Command(run, c) /\ c.variant = v
  BY <1>1, <1>2 DEF Orphaned, Left
<1>4. Len(s) \in Nat \ {0} /\ DOMAIN s = 1 .. Len(s) /\ Head(s) = s[1]
  BY <1>3, EmptySeq, OwnEntries
<1>5. Head(s) \in Entries(s)
  BY <1>4 DEF Entries
<1>6. ASSUME Len(s) > 1
      PROVE  LET p == [o EXCEPT !.left = Tail(@)]
             IN  Orphaned(p) /\ p.db = o.db /\ Head(p.left).variant = Head(o.left).variant
  <2>1. PICK t : t = Tail(s)
    OBVIOUS
  <2>2. /\ t \in Seq(Entries(s)) /\ Len(t) = Len(s) - 1
        /\ \A i \in 1 .. Len(s) - 1 : t[i] = s[i + 1]
    BY <1>3, <1>4, <2>1, HeadTailProperties
  <2>3. /\ t \in Seq(Entries(t)) /\ DOMAIN t = 1 .. Len(s) - 1 /\ t # << >> /\ Head(t) = t[1]
    BY <1>4, <1>6, <2>2, OwnEntries
  <2>4. \A i \in DOMAIN t : t[i] \in Entries(s)
    <3>1. \A i \in DOMAIN t : t[i] = s[i + 1] /\ i + 1 \in DOMAIN s
      BY <1>4, <2>2, <2>3
    <3>q. QED
      BY <3>1 DEF Entries
  <2>5. \A c \in Entries(t) : Command(run, c) /\ c.variant = v
    BY <1>3, <2>4 DEF Entries
  <2>6. 1 \in DOMAIN t
    BY <1>4, <1>6, <2>3
  <2>7. Head(t).variant = v /\ Head(s).variant = v
    BY <1>3, <1>5, <2>3, <2>4, <2>6
  <2>8. PICK p : p = [o EXCEPT !.left = Tail(@)]
    OBVIOUS
  <2>9. p = [exec |-> o.exec, db |-> o.db, left |-> t]
    BY <1>2, <2>1, <2>8 DEF Orphaned
  <2>10. Left(p, run, v)
    BY <1>3, <2>5, <2>9 DEF Left
  <2>11. Orphaned(p)
    BY <2>3, <2>9, <2>10 DEF Orphaned
  <2>12. p.db = o.db /\ p.left = t
    BY <2>9
  <2>q. QED
    BY <1>2, <2>7, <2>8, <2>11, <2>12
<1>q. QED
  BY <1>2, <1>3, <1>5, <1>6

\* A command of an orphan works on the server, or on the files of its variant.
LEMMA TouchIs ==
  ASSUME Stores, NEW run \in YcsbRuns, NEW c, Command(run, c), c.variant \in Variants,
         NEW db, db = run.db, Touches(db, c)
  PROVE  /\ Stores'
         /\ db = "redis" => UNCHANGED store
         /\ db # "redis" =>
              UNCHANGED server /\ \A w \in Variants : w # c.variant => store'[w] = store[w]
<1>1. db \in {"leveldb", "redis"}
  BY YcsbAssumption
<1>2. /\ Empty \in Datum /\ NoServer = [variant |-> "none", wedged |-> FALSE, data |-> Empty]
      /\ DataOf(db, c) \in Datum
  BY DEF Empty, Datum, NoServer, DataOf, Stores
<1>3. CASE \E data \in Datum : Puts(db, c, data)
  BY <1>3, PutsIs
<1>4. CASE c.op \in {"reap", "start", "stop"} /\ UNCHANGED store
           /\ server' \in {NoServer, server, [NoServer EXCEPT !.variant = c.variant]}
  <2>1. db = "redis"
    BY <1>1, <1>4 DEF Command
  <2>2. server' \in {NoServer, server, [variant |-> c.variant, wedged |-> FALSE, data |-> Empty]}
    BY <1>2, <1>4
  <2>3. Stores'
    <3>1. CASE server' = server
      BY <1>4, <3>1 DEF Stores
    <3>2. CASE server' \in {NoServer, [variant |-> c.variant, wedged |-> FALSE, data |-> Empty]}
      <4>1. PICK v : server' = [variant |-> v, wedged |-> FALSE, data |-> Empty]
        BY <1>2, <3>2
      <4>q. QED
        BY <1>2, <1>4, <4>1 DEF Stores
    <3>q. QED
      BY <2>2, <3>1, <3>2
  <2>q. QED
    BY <1>4, <2>1, <2>3
<1>5. CASE UNCHANGED <<store, server>>
  BY <1>5 DEF Stores
<1>6. \A works \in BOOLEAN : Loaded(db, DataOf(db, c), works) \in Datum
  BY <1>2 DEF Loaded, Datum
<1>7. RunOn(c, DataOf(db, c)) \in Datum
  BY <1>2 DEF RunOn, Datum
<1>8. \/ \E data \in Datum : Puts(db, c, data)
      \/ /\ c.op \in {"reap", "start", "stop"} /\ UNCHANGED store
         /\ server' \in {NoServer, server, [NoServer EXCEPT !.variant = c.variant]}
      \/ UNCHANGED <<store, server>>
  BY <1>2, <1>6, <1>7 DEF Touches
<1>q. QED
  BY <1>3, <1>4, <1>5, <1>8

\* An orphan that goes on leaves alone what is ready for the script at work.
LEMMA OrphanLoads ==
  ASSUME Stores, \A o \in orphans : Orphaned(o), OrphanGoesOn
  PROVE  /\ Stores' /\ \A o \in orphans' : Orphaned(o)
         /\ \A d : exec \in YcsbRuns /\ Command(exec, d) /\ Ready(d) => Ready(d)'
<1>1. PICK o \in orphans :
        /\ Touches(o.db, Head(o.left))
        /\ \/ UNCHANGED orphans
           \/ Len(o.left) > 1 /\ orphans' = (orphans \ {o}) \union {[o EXCEPT !.left = Tail(@)]}
           \/ Len(o.left) = 1 /\ orphans' = orphans \ {o}
  BY DEF OrphanGoesOn
<1>2. UNCHANGED <<exec, failed, beside>>
  BY DEF OrphanGoesOn
<1>3. Orphaned(o)
  OBVIOUS
<1>4. PICK c, db, p : c = Head(o.left) /\ db = o.db /\ p = [o EXCEPT !.left = Tail(@)]
  OBVIOUS
<1>5. PICK run \in YcsbRuns : run.db = db /\ Command(run, c)
  BY <1>3, <1>4, OrphanNow
<1>6. /\ c.variant \in Variants
      /\ Len(o.left) > 1 => Orphaned(p) /\ p.db = db /\ Head(p.left).variant = c.variant
  BY <1>3, <1>4, OrphanNow
<1>7. /\ Stores'
      /\ db = "redis" => UNCHANGED store
      /\ db # "redis" =>
           UNCHANGED server /\ \A w \in Variants : w # c.variant => store'[w] = store[w]
  BY <1>1, <1>4, <1>5, <1>6, TouchIs
<1>8. \A q \in orphans' :
        q \in orphans \/ (Orphaned(q) /\ q.db = db /\ Head(q.left).variant = c.variant)
  BY <1>1, <1>4, <1>6
<1>9. ASSUME NEW d, Shares(d)' PROVE Shares(d)
  <2>1. PICK q \in orphans' :
          q.db = exec.db /\ (q.db = "redis" \/ Head(q.left).variant = d.variant)
    BY <1>2, <1>9 DEF Shares
  <2>2. CASE q \in orphans
    BY <2>1, <2>2 DEF Shares
  <2>3. CASE q.db = db /\ Head(q.left).variant = c.variant
    BY <1>4, <2>1, <2>3 DEF Shares
  <2>q. QED
    BY <1>8, <2>1, <2>2, <2>3
<1>10. ASSUME NEW d, exec \in YcsbRuns, Command(exec, d), Ready(d) PROVE Ready(d)'
  <2>1. CASE Opens(exec.db, d) \/ d.variant \in beside
    BY <1>2, <2>1 DEF Ready
  <2>2. CASE ~Shares(d) /\ Finds(d)
    <3>1. db = exec.db => db # "redis" /\ c.variant # d.variant
      BY <1>4, <2>2 DEF Shares
    <3>2. exec.db \in {"leveldb", "redis"} /\ db \in {"leveldb", "redis"}
      BY <1>5, <1>10, YcsbAssumption
    <3>3. exec.db = "redis" => UNCHANGED server
      BY <1>7, <3>1, <3>2
    <3>4. d.op \in {"mark", "run"} => d.variant \in Variants
      BY <1>10 DEF Command, Variants
    <3>5. d.op \in {"mark", "run"} => Stock(d.variant)' = Stock(d.variant)
      BY <1>2, <1>7, <3>1, <3>2, <3>3, <3>4 DEF Stock
    <3>6. Spoils(d)' = Spoils(d)
      BY DEF Spoils
    <3>7. d.op \in {"mark", "run"} /\ Prepared(d) => Prepared(d)'
      BY <1>2, <3>3, <3>5, <3>6 DEF Prepared
    <3>8. Finds(d)'
      BY <1>2, <2>2, <3>3, <3>7 DEF Finds
    <3>q. QED
      BY <1>9, <2>2, <3>8 DEF Ready
  <2>q. QED
    BY <1>10, <2>1, <2>2 DEF Ready
<1>q. QED
  BY <1>7, <1>8, <1>10

\* Scripts that end, with their session or by themselves, and those that go on.
LEMMA OrphansStay ==
  ASSUME \A o \in orphans : Orphaned(o), OrphanEnds \/ (Executing /\ Scripts /\ LoseSession)
                                                    \/ (Executing /\ Scripts /\ KillExec)
  PROVE  \A o \in orphans' : Orphaned(o)
<1>1. CASE OrphanEnds
  BY <1>1 DEF OrphanEnds
<1>2. CASE Executing /\ Scripts /\ (LoseSession \/ KillExec)
  <2>1. \/ UNCHANGED orphans
        \/ /\ ~At("parse")
           /\ \E k \in DOMAIN script :
                /\ NextScript(k)
                /\ orphans' = orphans \union
                     {[exec |-> execs, db |-> exec.db, left |-> SubSeq(script, 1, k - 1)]}
    BY <1>2 DEF LoseSession, KillExec, Outlives
  <2>2. ASSUME ~At("parse"), NEW k \in DOMAIN script, NextScript(k)
        PROVE  Orphaned([exec |-> execs, db |-> exec.db, left |-> SubSeq(script, 1, k - 1)])
    <3>1. PICK o : o = [exec |-> execs, db |-> exec.db, left |-> SubSeq(script, 1, k - 1)]
      OBVIOUS
    <3>2. Orphaned(o)
      BY <1>2, <2>2, <3>1, OrphanIs
    <3>q. QED
      BY <3>1, <3>2
  <2>q. QED
    BY <2>1, <2>2
<1>q. QED
  BY <1>1, <1>2

\* Every step of the driver keeps what the runs find.
LEMMA LoadsKeep ==
  ASSUME LoadInv, YcsbNext
  PROVE  LoadInv'
<1>1. /\ Stores /\ Lines /\ (Executing => Scripts /\ rows = {})
      /\ \A o \in orphans : Orphaned(o)
      /\ \A row \in rows : row.line \in Entries(output)
  BY DEF LoadInv
<1>2. CASE StartExec
  <2>1. PICK run \in YcsbRuns : exec' = run /\ script' = make_exec(run)
    BY <1>2 DEF StartExec
  <2>2. output' = << >> /\ rows' = {} /\ UNCHANGED <<store, server, orphans>>
    BY <1>2 DEF StartExec
  <2>3. PICK s, d : s = make_exec(run) /\ d = s[1]
    OBVIOUS
  <2>4. Chain(run, s) /\ s # << >> /\ Opens(run.db, d) /\ s[Len(s)].op = "parse"
    BY <2>1, <2>3, MakePath
  <2>5. Ready(d)'
    BY <2>1, <2>4 DEF Ready
  <2>6. Scripts'
    BY <2>1, <2>3, <2>4, <2>5 DEF Scripts
  <2>7. Stores'
    BY <1>1, <2>2 DEF Stores
  <2>8. Lines'
    BY <2>2, ShortSeqs DEF Lines, Entries
  <2>q. QED
    BY <1>1, <2>2, <2>6, <2>7, <2>8 DEF LoadInv
<1>3. CASE RunScript /\ ~Parse
  <2>1. /\ Executing /\ ~At("parse")
        /\ Mark \/ Ycsb \/ (RemoveFiles \/ Reap \/ StartServer \/ FlushAll \/ StopServer)
    BY <1>3 DEF RunScript, Mark, Ycsb, RemoveFiles, Reap, StartServer, FlushAll, StopServer, At
  <2>2. PICK d : Goes(d)
    BY <1>1, <2>1, GoesOn
  <2>3. Stores' /\ Lines' /\ Ready(d)'
    BY <1>1, <2>1, <2>2, MarkLoads, QuietLoads, YcsbLoads
  <2>4. script' = Tail(script) /\ UNCHANGED <<exec, rows, orphans>>
    BY <2>1 DEF Mark, Ycsb, RemoveFiles, Reap, StartServer, FlushAll, StopServer, Done
  <2>5. PICK t : t = Tail(script)
    OBVIOUS
  <2>6. exec \in YcsbRuns /\ Chain(exec, t) /\ t[Len(t)].op = "parse" /\ d = t[1]
    BY <2>2, <2>4, <2>5 DEF Goes
  <2>7. Scripts'
    BY <2>3, <2>4, <2>5, <2>6 DEF Scripts
  <2>8. rows' = {}
    BY <1>1, <2>1, <2>4
  <2>q. QED
    BY <1>1, <2>3, <2>4, <2>7, <2>8 DEF LoadInv
<1>4. CASE Parse
  <2>1. /\ script' = << >> /\ UNCHANGED <<exec, output, store, server, orphans, failed, beside>>
        /\ rows' = IF exec.db = "leveldb" THEN ParseLeveldb ELSE ParseRedis
    BY <1>4 DEF Parse
  <2>2. Stores' /\ ~Executing'
    BY <1>1, <2>1 DEF Stores, Executing
  <2>3. Lines'
    BY <1>1, <2>1, QuietLines
  <2>4. \A row \in rows' : row.line \in Entries(output)
    BY <1>1, <2>1, RowsShown DEF Lines
  <2>5. Entries(output)' = Entries(output)
    BY <2>1 DEF Entries
  <2>q. QED
    BY <1>1, <2>1, <2>2, <2>3, <2>4, <2>5 DEF LoadInv
<1>5. CASE ServerFails
  <2>1. Executing /\ UNCHANGED <<output, rows, orphans>>
    BY <1>5 DEF ServerFails
  <2>2. Stores' /\ Scripts' /\ Lines'
    BY <1>1, <1>5, <2>1, ServerLoads
  <2>3. Entries(output)' = Entries(output)
    BY <2>1 DEF Entries
  <2>q. QED
    BY <1>1, <2>1, <2>2, <2>3 DEF LoadInv
<1>6. CASE LoseSession
  <2>1. Executing /\ UNCHANGED <<exec, output, rows, store, server, failed, beside>>
    BY <1>6 DEF LoseSession
  <2>2. PICK k \in DOMAIN script :
           /\ Opens(exec.db, script[k]) /\ Chain(exec, script')
           /\ script'[1] = script[k] /\ script'[Len(script')].op = "parse"
    BY <1>1, <1>6, <2>1, LoseTo
  <2>3. PICK d : d = script[k]
    OBVIOUS
  <2>4. Ready(d)'
    BY <2>1, <2>2, <2>3 DEF Ready
  <2>5. Scripts'
    BY <1>1, <2>1, <2>2, <2>3, <2>4 DEF Scripts
  <2>6. Stores' /\ Lines'
    BY <1>1, <2>1, QuietLines DEF Stores
  <2>7. \A o \in orphans' : Orphaned(o)
    BY <1>1, <1>6, <2>1, OrphansStay
  <2>q. QED
    BY <1>1, <2>1, <2>5, <2>6, <2>7 DEF LoadInv
<1>7. CASE KillExec
  <2>1. /\ Executing /\ script' = << >> /\ output' = << >> /\ UNCHANGED <<rows, store>>
        /\ server' = server \/ server' = NoServer
    BY <1>7, Zenon DEF KillExec
  <2>2. NoServer = [variant |-> "none", wedged |-> FALSE, data |-> Empty] /\ Empty \in Datum
    BY DEF NoServer, Empty, Datum
  <2>3. Stores'
    <3>1. CASE server' = server
      BY <1>1, <2>1, <3>1 DEF Stores
    <3>2. CASE server' = NoServer
      BY <1>1, <2>1, <2>2, <3>2 DEF Stores
    <3>q. QED
      BY <2>1, <3>1, <3>2
  <2>4. Lines'
    BY <2>1, ShortSeqs DEF Lines, Entries
  <2>5. ~Executing' /\ rows' = {}
    BY <1>1, <2>1 DEF Executing
  <2>6. \A o \in orphans' : Orphaned(o)
    BY <1>1, <1>7, <2>1, OrphansStay
  <2>q. QED
    BY <2>3, <2>4, <2>5, <2>6 DEF LoadInv
<1>8. CASE OrphanGoesOn
  <2>1. UNCHANGED <<exec, script, output, rows, failed, beside>>
    BY <1>8 DEF OrphanGoesOn
  <2>2. /\ Stores' /\ \A o \in orphans' : Orphaned(o)
        /\ \A d : exec \in YcsbRuns /\ Command(exec, d) /\ Ready(d) => Ready(d)'
    BY <1>1, <1>8, OrphanLoads
  <2>3. Executing => Scripts'
    <3>1. PICK d : d = script[1]
      OBVIOUS
    <3>2. SUFFICES ASSUME Executing PROVE Scripts'
      OBVIOUS
    <3>3. Scripts /\ script # << >>
      BY <1>1, <3>2 DEF Executing
    <3>4. Len(script) \in Nat \ {0} /\ DOMAIN script = 1 .. Len(script)
      BY <3>3, EmptySeq, OwnEntries DEF Scripts, Chain, Distinct
    <3>5. exec \in YcsbRuns /\ Command(exec, d) /\ Ready(d)
      BY <3>1, <3>3, <3>4 DEF Scripts, Chain
    <3>6. Ready(d)'
      BY <2>2, <3>5
    <3>q. QED
      BY <2>1, <3>1, <3>3, <3>6 DEF Scripts
  <2>4. Lines' /\ Entries(output)' = Entries(output) /\ Executing' = Executing
    BY <1>1, <2>1, QuietLines DEF Entries, Executing
  <2>q. QED
    BY <1>1, <2>1, <2>2, <2>3, <2>4 DEF LoadInv
<1>9. CASE OrphanEnds
  <2>1. /\ UNCHANGED <<exec, script, output, rows, store, server, failed, beside>>
        /\ orphans' \subseteq orphans
    BY <1>9 DEF OrphanEnds
  <2>2. Stores' /\ Lines' /\ Entries(output)' = Entries(output) /\ Executing' = Executing
    BY <1>1, <2>1, QuietLines DEF Stores, Entries, Executing
  <2>3. PICK d : d = script[1]
    OBVIOUS
  <2>4. Ready(d) => Ready(d)'
    <3>1. Finds(d) => Finds(d)'
      BY <2>1 DEF Finds, Prepared, Spoils, Stock
    <3>2. Shares(d)' => Shares(d)
      BY <2>1 DEF Shares
    <3>q. QED
      BY <2>1, <3>1, <3>2 DEF Ready
  <2>5. Executing => Scripts'
    BY <1>1, <2>1, <2>3, <2>4 DEF Scripts
  <2>6. \A o \in orphans' : Orphaned(o)
    BY <1>1, <1>9, OrphansStay
  <2>q. QED
    BY <1>1, <2>1, <2>2, <2>5, <2>6 DEF LoadInv
<1>q. QED
  BY <1>2, <1>3, <1>4, <1>5, <1>6, <1>7, <1>8, <1>9 DEF YcsbNext, RunScript

\* Nothing is measured before the first run.
LEMMA LoadsStart ==
  ASSUME YcsbInit
  PROVE  LoadInv
<1>1. /\ script = << >> /\ output = << >> /\ rows = {} /\ orphans = {}
      /\ store = [v \in Variants |-> Empty] /\ server = NoServer
  BY DEF YcsbInit
<1>2. NoServer = [variant |-> "none", wedged |-> FALSE, data |-> Empty] /\ Empty \in Datum
  BY DEF NoServer, Empty, Datum
<1>3. Stores
  BY <1>1, <1>2 DEF Stores
<1>4. Lines
  BY <1>1, ShortSeqs DEF Lines
<1>q. QED
  BY <1>1, <1>3, <1>4 DEF LoadInv, Executing

\* Nothing changes where nothing of YCSB does.
LEMMA LoadsRest ==
  ASSUME LoadInv, UNCHANGED ycsbVars
  PROVE  LoadInv'
<1>1. UNCHANGED <<exec, script, output, rows, store, server, orphans, failed, beside>>
  BY DEF ycsbVars
<1>2. Entries(output)' = Entries(output)
  BY <1>1 DEF Entries
<1>3. Stores' /\ Lines' /\ Executing' = Executing
  BY <1>1, QuietLines DEF LoadInv, Stores, Executing
<1>4. PICK d : d = script[1]
  OBVIOUS
<1>5. Scripts => Scripts'
  <2>1. Ready(d) => Ready(d)'
    BY <1>1 DEF Ready, Finds, Shares, Prepared, Spoils, Stock
  <2>q. QED
    BY <1>1, <1>4, <2>1 DEF Scripts
<1>q. QED
  BY <1>1, <1>2, <1>3, <1>5 DEF LoadInv

\* What the runs of YCSB find is what their loads left, in every state of the
\* driver and whatever scripts have outlived their sessions, unless one of these
\* was at work on the same data when the script of the run opened it: the
\* invariant behind RunsOnItsLoad.
THEOREM LoadInvariant == Spec => []LoadInv
<1>1. Init => LoadInv
  BY LoadsStart DEF Init
<1>2. LoadInv /\ [Next]_vars => LoadInv'
  <2>1. SUFFICES ASSUME LoadInv, [Next]_vars PROVE LoadInv'
    OBVIOUS
  <2>2. CASE MeasureYcsb
    BY <2>1, <2>2, LoadsKeep DEF MeasureYcsb
  <2>3. CASE MeasureStructures \/ MeasureDatabases \/ MeasureQueue \/ Finished \/ UNCHANGED vars
    <3>1. UNCHANGED ycsbVars
      BY <2>3 DEF MeasureStructures, MeasureDatabases, MeasureQueue, Finished, vars
    <3>q. QED
      BY <2>1, <3>1, LoadsRest
  <2>q. QED
    BY <2>1, <2>2, <2>3 DEF Next
<1>q. QED
  BY <1>1, <1>2, PTL DEF Spec

\* A row of a run of YCSB is measured on the load of that run (YcsbRunner:
\* RunsOnItsLoad), for any workloads, variants, numbers of threads and failures,
\* but where its script opened beside an orphan on the same data.
THEOREM OnTheirLoad == Spec => []RunsOnItsLoad
<1>1. LoadInv => RunsOnItsLoad
  <2>1. SUFFICES ASSUME LoadInv, NEW row \in rows, row.line.from.op = "run",
                        row.line.from.variant \notin beside
        PROVE  LET run == row.line.from
                   spoiled == {LoadFor(run), [run EXCEPT !.op = "flushall"]} \intersect failed
               IN  /\ exec.db = "redis" => row.line.variant = run.variant
                   /\ spoiled = {} => row.line.data.whole /\ ~row.line.data.grown
    BY DEF RunsOnItsLoad
  <2>2. Measured(row.line)
    BY <2>1 DEF LoadInv, Lines
  <2>3. PICK run : run = row.line.from
    OBVIOUS
  <2>4. Spoils(run) \subseteq {LoadFor(run), [run EXCEPT !.op = "flushall"]}
    BY DEF Spoils, LoadFor, ReadOnly
  <2>q. QED
    BY <2>1, <2>2, <2>3, <2>4 DEF Measured, Fresh
<1>q. QED
  BY <1>1, LoadInvariant, PTL

(***************************************************************************)
(* A run of YCSB.  What its rows show.                                     *)
(***************************************************************************)
\* What is printed: the lines of a run right behind its mark, and those of a load
\* behind a mark only where a load comes next, or after a session was lost.
MarkAt(o, i) == o[i].kind = "marker"
LastMark(o, i) == i \in DOMAIN o /\ MarkAt(o, i) /\ \A k \in DOMAIN o : MarkAt(o, k) => k <= i
Late(c) == c.w \in Inserting \/ c.w = Last(RO_WORKLOADS)
Printed(run, line) ==
  /\ Command(run, line.from)
  /\ IF line.kind = "marker" THEN line.from.op = "mark"
     ELSE line.kind \in {"status", "overall"} /\ line.from.op \in {"load", "run"}
ItsMark(o, j) ==
  \E i \in 1 .. j - 1 :
    /\ MarkAt(o, i) /\ o[i].from = [o[j].from EXCEPT !.op = "mark"]
    /\ \A k \in i + 1 .. j : o[k].from = o[j].from
Lost(rc) == ~rc
Unmarked(o, i, j) == \A k \in i + 1 .. j : ~MarkAt(o, k)
LateLoad(o, i, j, rc) ==
  MarkAt(o, i) /\ i < j /\ o[j].from.op = "load" /\ Unmarked(o, i, j) =>
    Late(o[i].from) \/ Lost(rc)
Shown(run, o, rc) ==
  /\ o \in Seq(Entries(o)) /\ \A line \in Entries(o) : Printed(run, line)
  /\ \A i, j \in DOMAIN o : MarkAt(o, i) /\ MarkAt(o, j) /\ o[i].from = o[j].from => i = j
  /\ \A j \in DOMAIN o : o[j].from.op = "run" => ItsMark(o, j)
  /\ \A i, j \in DOMAIN o : LateLoad(o, i, j, rc)
Unused(o, s) == \A i \in DOMAIN o : MarkAt(o, i) => o[i].from \notin Entries(s)
Awaits(o, d, rc) ==
  /\ d.op = "run" => LastMark(o, Len(o)) /\ o[Len(o)].from = [d EXCEPT !.op = "mark"]
  /\ d.op \notin {"run", "mark"} =>
       \A i \in DOMAIN o : LastMark(o, i) => Late(o[i].from) \/ Lost(rc)
ShowInv ==
  /\ rc_ok \in BOOLEAN
  /\ Shown(exec, output, rc_ok) /\ Unused(output, script)
  /\ Executing => rows = {} /\ Awaits(output, script[1], rc_ok)
  /\ RowsOfTheirRun

\* A mark that comes behind what is shown.
Alone(m, line) == m = <<line>>
MarkedBy(run, o, rc, line, t, s, r) ==
  /\ Shown(run, o, rc) /\ \E m : Alone(m, line) /\ t = o \o m
  /\ line.kind = "marker" /\ line.from.op = "mark" /\ Command(run, line.from)
  /\ line.from \in Entries(s) /\ Unused(o, s)
  /\ line.from \notin Entries(r) /\ Entries(r) \subseteq Entries(s)

\* A mark behind what is shown.
LEMMA MarkShows ==
  ASSUME NEW run, NEW o, NEW rc, NEW line, NEW t, NEW s, NEW r, MarkedBy(run, o, rc, line, t, s, r)
  PROVE  Shown(run, t, rc) /\ Unused(t, r) /\ LastMark(t, Len(t)) /\ t[Len(t)].from = line.from
<1>0. /\ Shown(run, o, rc) /\ line.kind = "marker" /\ line.from.op = "mark"
      /\ Command(run, line.from) /\ line.from \in Entries(s) /\ Unused(o, s)
      /\ line.from \notin Entries(r) /\ Entries(r) \subseteq Entries(s)
  BY DEF MarkedBy
<1> PICK m : Alone(m, line) /\ t = o \o m
  BY DEF MarkedBy
<1> USE <1>0
<1>1. /\ o \in Seq(Entries(o)) /\ m \in Seq(Entries(m)) /\ Entries(m) = {line}
      /\ Len(m) = 1 /\ m[1] = line
  BY ShortSeqs DEF Shown, Alone
<1>2. PICK n : n = Len(o)
  OBVIOUS
<1>3. /\ t \in Seq(Entries(t)) /\ Len(t) = n + 1 /\ DOMAIN t = 1 .. n + 1 /\ n \in Nat
      /\ DOMAIN o = 1 .. n /\ (\A k \in 1 .. n : t[k] = o[k]) /\ t[n + 1] = line
  <2>1. /\ t \in Seq(Entries(t)) /\ Len(t) = n + Len(m) /\ DOMAIN t = 1 .. n + Len(m)
        /\ n \in Nat /\ DOMAIN o = 1 .. n
        /\ (\A k \in 1 .. n : t[k] = o[k]) /\ \A k \in 1 .. Len(m) : t[n + k] = m[k]
    <3>1. t = o \o m /\ m \in Seq(Entries(m)) /\ o \in Seq(Entries(o))
      BY <1>1
    <3>2. /\ o \o m \in Seq(Entries(o \o m))
          /\ Len(o \o m) = Len(o) + Len(m) /\ DOMAIN (o \o m) = 1 .. Len(o) + Len(m)
          /\ Len(o) \in Nat /\ DOMAIN o = 1 .. Len(o)
          /\ \A k \in 1 .. Len(o) : (o \o m)[k] = o[k]
          /\ \A k \in 1 .. Len(m) : (o \o m)[Len(o) + k] = m[k]
      BY <3>1, Joined
    <3>q. QED
      BY <1>2, <3>1, <3>2
  <2>2. Len(m) = 1 /\ m[1] = line /\ 1 \in 1 .. 1
    BY <1>1, <1>2
  <2>q. QED
    BY <2>1, <2>2
<1>4. Entries(t) = Entries(o) \union {line}
  BY <1>1, JoinedEntries
<1> HIDE DEF MarkAt
<1>5. \A k \in DOMAIN t : (k \in DOMAIN o /\ t[k] = o[k]) \/ (k = n + 1 /\ t[k] = line)
  BY <1>3
<1>6. MarkAt(t, n + 1) /\ \A k \in DOMAIN o : MarkAt(t, k) <=> MarkAt(o, k)
  BY <1>3 DEF MarkAt
<1>7. \A l \in Entries(t) : Printed(run, l)
  BY <1>4 DEF Shown, Printed
<1>8. \A k \in DOMAIN o : MarkAt(o, k) => o[k].from # line.from
  BY DEF Unused
<1>9. ASSUME NEW i \in DOMAIN t, NEW j \in DOMAIN t, MarkAt(t, i), MarkAt(t, j),
             t[i].from = t[j].from
      PROVE  i = j
  <2>1. CASE i \in DOMAIN o /\ j \in DOMAIN o
    BY <1>3, <1>6, <1>9, <2>1 DEF Shown
  <2>2. CASE ~(i \in DOMAIN o /\ j \in DOMAIN o)
    BY <1>3, <1>5, <1>6, <1>8, <1>9, <2>2
  <2>q. QED
    BY <2>1, <2>2
<1>10. ASSUME NEW j \in DOMAIN t, t[j].from.op = "run" PROVE ItsMark(t, j)
  <2>1. j \in 1 .. n /\ t[j] = o[j]
    BY <1>3, <1>5, <1>10
  <2>2. PICK i \in 1 .. j - 1 :
          /\ MarkAt(o, i) /\ o[i].from = [o[j].from EXCEPT !.op = "mark"]
          /\ \A k \in i + 1 .. j : o[k].from = o[j].from
    <3>1. ItsMark(o, j)
      BY <1>3, <1>10, <2>1 DEF Shown
    <3>q. QED
      BY <3>1 DEF ItsMark
  <2>3. i \in 1 .. n /\ \A k \in i + 1 .. j : k \in 1 .. n
    BY <1>3, <2>1
  <2>4. t[i] = o[i] /\ MarkAt(t, i) /\ \A k \in i + 1 .. j : t[k] = o[k]
    BY <1>3, <1>6, <2>2, <2>3
  <2>5. /\ t[i].from = [t[j].from EXCEPT !.op = "mark"]
        /\ \A k \in i + 1 .. j : t[k].from = t[j].from
    BY <2>1, <2>2, <2>4
  <2>q. QED
    BY <2>4, <2>5 DEF ItsMark
<1>11. ASSUME NEW i \in DOMAIN t, NEW j \in DOMAIN t PROVE LateLoad(t, i, j, rc)
  <2>1. SUFFICES ASSUME MarkAt(t, i), i < j, t[j].from.op = "load", Unmarked(t, i, j)
                 PROVE  Late(t[i].from) \/ Lost(rc)
    BY DEF LateLoad
  <2>2. j \in 1 .. n /\ i \in 1 .. n /\ t[j] = o[j] /\ t[i] = o[i]
    BY <1>3, <1>5, <2>1
  <2>3. \A k \in i + 1 .. j : k \in 1 .. n
    BY <1>3, <2>2
  <2>4. MarkAt(o, i) /\ Unmarked(o, i, j)
    BY <1>3, <1>6, <2>1, <2>2, <2>3 DEF Unmarked
  <2>q. QED
    BY <1>3, <2>1, <2>2, <2>4 DEF Shown, LateLoad
<1>12. Unused(t, r)
  BY <1>5, <1>6 DEF Unused
<1>13. LastMark(t, Len(t))
  BY <1>3, <1>6 DEF LastMark
<1>q. QED
  BY <1>3, <1>7, <1>9, <1>10, <1>11, <1>12, <1>13 DEF Shown

\* What one command has printed, and a last mark that stays the last.
OfCommand(m, c) == \A line \in Entries(m) : line.from = c /\ line.kind \in {"status", "overall"}
SameMark(o, t) ==
  \A i \in DOMAIN t : LastMark(t, i) => i \in DOMAIN o /\ LastMark(o, i) /\ t[i].from = o[i].from

\* What a load or a run prints, behind what is shown.
LEMMA MoreShows ==
  ASSUME NEW run, NEW o, NEW rc, Shown(run, o, rc), NEW m, m \in Seq(Entries(m)),
         NEW t, t = o \o m, NEW c, Command(run, c), c.op \in {"load", "run"}, Awaits(o, c, rc),
         OfCommand(m, c), NEW s, Unused(o, s), NEW r, Entries(r) \subseteq Entries(s)
  PROVE  Shown(run, t, rc) /\ Unused(t, r) /\ SameMark(o, t)
<1>1. PICK n, l : n = Len(o) /\ l = Len(m)
  OBVIOUS
<1>2. /\ t \in Seq(Entries(t)) /\ Len(t) = n + l /\ DOMAIN t = 1 .. n + l /\ n \in Nat /\ l \in Nat
      /\ DOMAIN o = 1 .. n /\ DOMAIN m = 1 .. l
      /\ \A k \in 1 .. n : t[k] = o[k]
      /\ \A k \in 1 .. n + l : k > n => t[k] = m[k - n]
  BY <1>1, Joined DEF Shown
<1>3. Entries(t) = Entries(o) \union Entries(m)
  BY JoinedEntries DEF Shown
<1>4. \A k \in DOMAIN m : m[k].from = c /\ m[k].kind \in {"status", "overall"}
  BY DEF Entries, OfCommand
<1>5. ASSUME NEW k \in DOMAIN t, k > n
      PROVE  t[k].from = c /\ t[k].kind \in {"status", "overall"} /\ ~MarkAt(t, k)
  <2>1. k - n \in DOMAIN m /\ t[k] = m[k - n]
    BY <1>2, <1>5
  <2>q. QED
    BY <1>4, <2>1 DEF MarkAt
<1> HIDE DEF MarkAt
<1>6. \A k \in 1 .. n : MarkAt(t, k) <=> MarkAt(o, k)
  BY <1>2 DEF MarkAt
<1>7. \A k \in DOMAIN t : MarkAt(t, k) => k \in 1 .. n
  BY <1>2, <1>5
<1>8. \A line \in Entries(t) : Printed(run, line)
  BY <1>3 DEF Shown, Printed, OfCommand
<1>9. ASSUME NEW i \in DOMAIN t, NEW j \in DOMAIN t, MarkAt(t, i), MarkAt(t, j),
             t[i].from = t[j].from
      PROVE  i = j
  <2>1. i \in 1 .. n /\ j \in 1 .. n
    BY <1>7, <1>9
  <2>2. MarkAt(o, i) /\ MarkAt(o, j) /\ o[i].from = o[j].from
    BY <1>2, <1>6, <1>9, <2>1
  <2>q. QED
    BY <1>2, <2>1, <2>2 DEF Shown
<1>10. ASSUME NEW j \in DOMAIN t, t[j].from.op = "run" PROVE ItsMark(t, j)
  <2>1. CASE j <= n
    <3>1. j \in 1 .. n /\ t[j] = o[j]
      BY <1>2, <2>1
    <3>2. PICK i \in 1 .. j - 1 :
            /\ MarkAt(o, i) /\ o[i].from = [o[j].from EXCEPT !.op = "mark"]
            /\ \A k \in i + 1 .. j : o[k].from = o[j].from
      <4>1. ItsMark(o, j)
        BY <1>2, <1>10, <3>1 DEF Shown
      <4>q. QED
        BY <4>1 DEF ItsMark
    <3>3. i \in 1 .. n /\ \A k \in i + 1 .. j : k \in 1 .. n
      BY <1>2, <3>1
    <3>q. QED
      BY <1>2, <1>6, <3>1, <3>2, <3>3 DEF ItsMark
  <2>2. CASE j > n
    <3>1. t[j].from = c /\ c.op = "run"
      BY <1>5, <1>10, <2>2
    <3>2. LastMark(o, n) /\ o[n].from = [c EXCEPT !.op = "mark"]
      BY <1>1, <3>1 DEF Awaits
    <3>3. n \in 1 .. n /\ MarkAt(t, n) /\ t[n].from = [c EXCEPT !.op = "mark"]
      BY <1>2, <1>6, <3>2 DEF LastMark
    <3>4. n \in 1 .. j - 1
      BY <1>2, <2>2, <3>3
    <3>5. ASSUME NEW k \in n + 1 .. j PROVE t[k].from = c
      <4>1. k \in DOMAIN t /\ k > n
        BY <1>2, <2>2
      <4>q. QED
        BY <1>5, <4>1
    <3>q. QED
      BY <3>1, <3>3, <3>4, <3>5 DEF ItsMark
  <2>q. QED
    BY <1>2, <2>1, <2>2
<1>11. ASSUME NEW i \in DOMAIN t, NEW j \in DOMAIN t PROVE LateLoad(t, i, j, rc)
  <2>1. SUFFICES ASSUME MarkAt(t, i), i < j, t[j].from.op = "load", Unmarked(t, i, j)
                 PROVE  Late(t[i].from) \/ Lost(rc)
    BY DEF LateLoad
  <2>2. i \in 1 .. n /\ t[i] = o[i] /\ MarkAt(o, i)
    BY <1>2, <1>6, <1>7, <2>1
  <2>3. CASE j <= n
    <3>1. j \in 1 .. n /\ t[j] = o[j] /\ \A k \in i + 1 .. j : k \in 1 .. n
      BY <1>2, <2>2, <2>3
    <3>2. Unmarked(o, i, j)
      BY <1>6, <2>1, <3>1 DEF Unmarked
    <3>q. QED
      BY <1>2, <2>1, <2>2, <3>1, <3>2 DEF Shown, LateLoad
  <2>4. CASE j > n
    <3>1. c.op = "load"
      BY <1>5, <2>1, <2>4
    <3>2. ASSUME NEW k \in DOMAIN o, MarkAt(o, k) PROVE k <= i
      <4>1. k \in 1 .. n /\ MarkAt(t, k)
        BY <1>2, <1>6, <3>2
      <4>2. k > i => k \in i + 1 .. j
        BY <1>2, <2>2, <2>4, <4>1
      <4>q. QED
        BY <1>2, <2>1, <2>2, <4>1, <4>2 DEF Unmarked
    <3>3. LastMark(o, i)
      BY <1>2, <2>2, <3>2 DEF LastMark
    <3>q. QED
      BY <1>2, <2>2, <3>1, <3>3 DEF Awaits
  <2>q. QED
    BY <1>2, <2>3, <2>4
<1>12. Unused(t, r)
  BY <1>2, <1>6, <1>7 DEF Unused
<1>13. ASSUME NEW i \in DOMAIN t, LastMark(t, i)
       PROVE  i \in DOMAIN o /\ LastMark(o, i) /\ t[i].from = o[i].from
  <2>1. i \in 1 .. n
    BY <1>7, <1>13 DEF LastMark
  <2>2. \A k \in 1 .. n : k \in DOMAIN t
    BY <1>2
  <2>q. QED
    BY <1>2, <1>6, <1>13, <2>1, <2>2 DEF LastMark
<1>q. QED
  BY <1>2, <1>8, <1>9, <1>10, <1>11, <1>12, <1>13 DEF Shown, SameMark

\* The lines of a run are in the block of its mark, right behind it.
LEMMA BlockRuns ==
  ASSUME Shown(exec, output, rc_ok), NEW i \in Markers, NEW j \in DOMAIN output, NEW r,
         r = output[j].from, r.op = "run",
         j \in Block(i) \/ output[i].from = [r EXCEPT !.op = "mark"]
  PROVE  /\ j \in Block(i) /\ output[i].from = [r EXCEPT !.op = "mark"]
         /\ \A k \in i + 1 .. j : output[k].from = r
<1>1. /\ output \in Seq(Entries(output)) /\ Len(output) \in Nat
      /\ DOMAIN output = 1 .. Len(output) /\ i \in DOMAIN output /\ MarkAt(output, i)
  BY OwnEntries DEF Shown, Markers, MarkAt
<1>2. ASSUME NEW k \in DOMAIN output, MarkAt(output, k) PROVE output[k].from.op = "mark"
  <2>1. Printed(exec, output[k])
    BY DEF Shown, Entries
  <2>q. QED
    BY <1>2, <2>1 DEF Printed, MarkAt
<1>3. PICK h \in 1 .. j - 1 :
        /\ MarkAt(output, h) /\ output[h].from = [r EXCEPT !.op = "mark"]
        /\ \A k \in h + 1 .. j : output[k].from = r
  BY DEF Shown, ItsMark
<1>4. h \in DOMAIN output /\ h \in Nat /\ j \in Nat /\ i \in Nat /\ h < j
      /\ \A k \in h + 1 .. j : k \in DOMAIN output
  BY <1>1
<1>5. \A k \in h + 1 .. j : ~MarkAt(output, k)
  BY <1>2, <1>3, <1>4
<1>6. h = i
  <2>1. CASE j \in Block(i)
    <3>1. j > i /\ \A k \in Markers : k <= i \/ k > j
      BY <2>1 DEF Block
    <3>2. h \in Markers
      BY <1>3, <1>4 DEF Markers, MarkAt
    <3>3. h <= i
      BY <1>4, <3>1, <3>2
    <3>4. ~(h < i)
      <4>1. h < i => i \in h + 1 .. j
        BY <1>4, <3>1
      <4>q. QED
        BY <1>1, <1>5, <4>1
    <3>q. QED
      BY <1>4, <3>3, <3>4
  <2>2. CASE output[i].from = [r EXCEPT !.op = "mark"]
    BY <1>1, <1>3, <1>4, <2>2 DEF Shown
  <2>q. QED
    BY <2>1, <2>2
<1>7. j \in Block(i)
  <2>1. ASSUME NEW k \in Markers PROVE k <= i \/ k > j
    <3>1. k \in DOMAIN output /\ MarkAt(output, k) /\ k \in Nat
      BY <1>1 DEF Markers, MarkAt
    <3>2. k > i /\ k <= j => k \in h + 1 .. j
      BY <1>4, <1>6, <3>1
    <3>q. QED
      BY <1>4, <1>5, <3>1, <3>2
  <2>q. QED
    BY <1>4, <1>6, <2>1 DEF Block
<1>q. QED
  BY <1>3, <1>6, <1>7

\* A run and its mark differ in the operation only.
LEMMA RunAndMark ==
  ASSUME NEW v, NEW w, NEW t, NEW r, NEW c, r = Do("run", v, w, t), c = Do("mark", v, w, t)
  PROVE  r.op = "run" /\ [r EXCEPT !.op = "mark"] = c /\ [c EXCEPT !.op = "run"] = r
BY DEF Do

\* A row shows its own run, or a load behind it.
LEMMA RowIsOf ==
  ASSUME Shown(exec, output, rc_ok), NEW row, exec.db \in {"leveldb", "redis"},
         row \in IF exec.db = "leveldb" THEN ParseLeveldb ELSE ParseRedis
  PROVE  \/ row.line.from = [row.of EXCEPT !.op = "run"]
         \/ /\ row.line.from.op = "load"
            /\ row.of.w \in Range(INS_WORKLOADS) \union {Last(RO_WORKLOADS)} \/ ~rc_ok
            /\ IF exec.db = "leveldb" THEN row.metric = "latency_avg"
               ELSE \A j \in DOMAIN output :
                      output[j].kind = "overall" => output[j].from # [row.of EXCEPT !.op = "run"]
<1>1. output \in Seq(Entries(output)) /\ Len(output) \in Nat /\ DOMAIN output = 1 .. Len(output)
  BY OwnEntries DEF Shown
<1>2. PICK i, j :
        /\ RowAt(row, i, j)
        /\ exec.db = "leveldb" =>
             (row.metric = "throughput" /\ output[j].from.op = "run") \/ row.metric = "latency_avg"
        /\ exec.db = "redis" =>
             \/ output[j].kind = "overall" /\ \A k \in LinesOf(i, "overall") : j <= k
             \/ LinesOf(i, "overall") = {}
  <2>1. CASE exec.db = "leveldb"
    BY <1>1, <2>1, LeveldbRow DEF RowOf
  <2>2. CASE exec.db = "redis"
    BY <1>1, <2>2, RedisRow
  <2>q. QED
    BY <2>1, <2>2
<1>3. /\ i \in DOMAIN output /\ j \in DOMAIN output /\ i \in Nat /\ j \in Nat /\ i < j
      /\ MarkAt(output, i) /\ j \in Block(i) /\ i \in Markers
      /\ \A k \in i + 1 .. j : k \in DOMAIN output
      /\ row.of = output[i].from /\ row.line = output[j]
  BY <1>1, <1>2 DEF RowAt, Block, Markers, MarkAt
<1>4. \A k \in i + 1 .. j : ~MarkAt(output, k)
  <2>1. ASSUME NEW k \in i + 1 .. j, MarkAt(output, k) PROVE FALSE
    <3>1. k \in Markers
      BY <1>3, <2>1 DEF Markers, MarkAt
    <3>2. k <= i \/ k > j
      BY <1>3, <3>1 DEF Block
    <3>q. QED
      BY <1>3, <3>2
  <2>q. QED
    BY <2>1
<1>5. /\ output[j].from.op \in {"load", "run"} /\ output[i].from.op = "mark"
      /\ output[j].from = Do(output[j].from.op, output[j].from.variant,
                             output[j].from.w, output[j].from.t)
      /\ output[i].from = Do(output[i].from.op, output[i].from.variant,
                             output[i].from.w, output[i].from.t)
  <2>1. Printed(exec, output[j]) /\ Printed(exec, output[i])
    BY <1>3 DEF Shown, Entries
  <2>2. ~MarkAt(output, j)
    BY <1>3, <1>4
  <2>q. QED
    BY <1>3, <2>1, <2>2 DEF Printed, MarkAt, Command
<1>6. CASE output[j].from.op = "run"
  <2>1. PICK r : r = output[j].from
    OBVIOUS
  <2>2. output[i].from = [r EXCEPT !.op = "mark"]
    BY <1>3, <1>6, <2>1, BlockRuns
  <2>3. r = Do("run", r.variant, r.w, r.t)
    BY <1>5, <1>6, <2>1
  <2>4. PICK v, w, t : v = r.variant /\ w = r.w /\ t = r.t
    OBVIOUS
  <2>5. r = Do("run", v, w, t)
    BY <2>3, <2>4
  <2>6. [[r EXCEPT !.op = "mark"] EXCEPT !.op = "run"] = r
    <3>1. PICK c : c = Do("mark", v, w, t)
      OBVIOUS
    <3>2. [r EXCEPT !.op = "mark"] = c /\ [c EXCEPT !.op = "run"] = r
      BY <2>5, <3>1, RunAndMark
    <3>q. QED
      BY <3>2
  <2>q. QED
    BY <1>3, <2>1, <2>2, <2>6
<1>7. CASE output[j].from.op = "load"
  <2>1. Late(output[i].from) \/ ~rc_ok
    <3>1. LateLoad(output, i, j, rc_ok)
      BY <1>3 DEF Shown
    <3>q. QED
      BY <1>3, <1>4, <1>7, <3>1 DEF LateLoad, Unmarked, Lost
  <2>2. CASE exec.db = "leveldb"
    BY <1>2, <1>3, <1>7, <2>1, <2>2 DEF Late, Inserting
  <2>3. CASE exec.db = "redis"
    <3>1. ASSUME NEW k \in DOMAIN output, output[k].kind = "overall",
                 output[k].from = [row.of EXCEPT !.op = "run"]
          PROVE  FALSE
      <4>1. PICK r : r = output[k].from
        OBVIOUS
      <4>2. r.op = "run" /\ output[i].from = [r EXCEPT !.op = "mark"]
        <5>1. PICK c, v, w, t : c = output[i].from /\ v = c.variant /\ w = c.w /\ t = c.t
          OBVIOUS
        <5>2. c = Do("mark", v, w, t) /\ r = [c EXCEPT !.op = "run"]
          BY <1>3, <1>5, <3>1, <4>1, <5>1
        <5>3. r.op = "run" /\ [r EXCEPT !.op = "mark"] = c
          <6>1. PICK q : q = Do("run", v, w, t)
            OBVIOUS
          <6>2. q.op = "run" /\ [q EXCEPT !.op = "mark"] = c /\ [c EXCEPT !.op = "run"] = q
            BY <5>2, <6>1, RunAndMark
          <6>q. QED
            BY <5>2, <6>2
        <5>q. QED
          BY <5>1, <5>3
      <4>3. k \in Block(i) /\ \A h \in i + 1 .. k : output[h].from = r
        BY <1>3, <4>1, <4>2, BlockRuns
      <4>4. k \in LinesOf(i, "overall")
        BY <3>1, <4>3 DEF LinesOf
      <4>5. j <= k
        BY <1>2, <2>3, <4>4
      <4>6. j \in i + 1 .. k
        BY <1>1, <1>3, <4>5
      <4>q. QED
        BY <1>7, <4>2, <4>3, <4>6
    <3>2. exec.db # "leveldb"
      BY <2>3
    <3>q. QED
      BY <1>3, <1>7, <2>1, <3>1, <3>2 DEF Late, Inserting
  <2>q. QED
    BY <2>2, <2>3
<1>q. QED
  BY <1>5, <1>6, <1>7

\* A marker has no two throughputs.
LEMMA OneThroughput ==
  ASSUME Shown(exec, output, rc_ok), exec.db \in {"leveldb", "redis"}, NEW parsed,
         parsed = IF exec.db = "leveldb" THEN ParseLeveldb ELSE ParseRedis,
         NEW r \in Throughputs(parsed), NEW s \in Throughputs(parsed), r.of = s.of
  PROVE  r = s
<1>1. output \in Seq(Entries(output)) /\ Len(output) \in Nat /\ DOMAIN output = 1 .. Len(output)
  BY OwnEntries DEF Shown
<1>2. r \in parsed /\ s \in parsed /\ r.metric = "throughput" /\ s.metric = "throughput"
  BY DEF Throughputs
<1>3. ASSUME NEW i, NEW j, NEW h, NEW k, RowAt(r, i, j), RowAt(s, h, k)
      PROVE  i = h /\ j \in Nat /\ k \in Nat
  <2>1. j \in DOMAIN output /\ k \in DOMAIN output
    BY <1>3 DEF RowAt, Block
  <2>2. /\ i \in DOMAIN output /\ MarkAt(output, i) /\ r.of = output[i].from
        /\ h \in DOMAIN output /\ MarkAt(output, h) /\ s.of = output[h].from
    BY <1>3 DEF RowAt, Markers, MarkAt
  <2>3. output[i].from = output[h].from
    BY <2>2
  <2>4. i = h
    BY <2>2, <2>3 DEF Shown
  <2>q. QED
    BY <1>1, <2>1, <2>4
<1>4. CASE exec.db = "leveldb"
  <2>1. ASSUME NEW x \in ParseLeveldb, x.metric = "throughput"
        PROVE  \E i, j :
                 /\ RowAt(x, i, j) /\ x = RowOf(i, "throughput", j)
                 /\ j \in LinesOf(i, "overall") /\ output[j].from.op = "run"
                 /\ \A k \in LinesOf(i, "overall") : output[k].from.op = "run" => j <= k
    <3>1. \A i, j : RowOf(i, "latency_avg", j).metric # "throughput"
      BY DEF RowOf
    <3>q. QED
      BY <1>1, <2>1, <3>1, LeveldbRow DEF LinesOf, RowAt
  <2>2. PICK i, j : /\ RowAt(r, i, j) /\ r = RowOf(i, "throughput", j)
                    /\ j \in LinesOf(i, "overall") /\ output[j].from.op = "run"
                    /\ \A k \in LinesOf(i, "overall") : output[k].from.op = "run" => j <= k
    BY <1>2, <1>4, <2>1
  <2>3. PICK h, k : /\ RowAt(s, h, k) /\ s = RowOf(h, "throughput", k)
                    /\ k \in LinesOf(h, "overall") /\ output[k].from.op = "run"
                    /\ \A l \in LinesOf(h, "overall") : output[l].from.op = "run" => k <= l
    BY <1>2, <1>4, <2>1
  <2>4. i = h /\ j \in Nat /\ k \in Nat
    BY <1>3, <2>2, <2>3
  <2>5. j <= k /\ k <= j
    BY <2>2, <2>3, <2>4
  <2>6. j = k
    BY <2>4, <2>5
  <2>q. QED
    BY <2>2, <2>3, <2>4, <2>6
<1>5. CASE exec.db = "redis"
  <2>1. ASSUME NEW x \in ParseRedis
        PROVE  \E i, j :
                 /\ RowAt(x, i, j) /\ x = RowOf(i, "throughput", j)
                 /\ \/ j \in LinesOf(i, "overall") /\ \A k \in LinesOf(i, "overall") : j <= k
                    \/ /\ j \in LinesOf(i, "status") /\ LinesOf(i, "overall") = {}
                       /\ \A k \in LinesOf(i, "status") : k <= j
    BY <1>1, RedisRow DEF LinesOf, RowAt
  <2>2. parsed = ParseRedis
    BY <1>5
  <2>3. PICK i, j : /\ RowAt(r, i, j) /\ r = RowOf(i, "throughput", j)
                    /\ \/ j \in LinesOf(i, "overall") /\ \A k \in LinesOf(i, "overall") : j <= k
                       \/ /\ j \in LinesOf(i, "status") /\ LinesOf(i, "overall") = {}
                          /\ \A k \in LinesOf(i, "status") : k <= j
    BY <1>2, <2>1, <2>2
  <2>4. PICK h, k : /\ RowAt(s, h, k) /\ s = RowOf(h, "throughput", k)
                    /\ \/ k \in LinesOf(h, "overall") /\ \A l \in LinesOf(h, "overall") : k <= l
                       \/ /\ k \in LinesOf(h, "status") /\ LinesOf(h, "overall") = {}
                          /\ \A l \in LinesOf(h, "status") : l <= k
    BY <1>2, <2>1, <2>2
  <2>5. i = h /\ j \in Nat /\ k \in Nat
    BY <1>3, <2>3, <2>4
  <2>6. j <= k /\ k <= j
    BY <2>3, <2>4, <2>5
  <2>7. j = k
    BY <2>5, <2>6
  <2>q. QED
    BY <2>3, <2>4, <2>5, <2>7
<1>q. QED
  BY <1>4, <1>5

\* Every variant, workload and number of threads of a run has one mark.
Cells(run) ==
  {Do("mark", v, w, t) : v \in Range(run.variants), w \in Range(ALL_WORKLOADS),
                         t \in Range(run.thread_set)}

\* They are as many as the driver counts.
LEMMA CellsCount ==
  ASSUME NEW run \in YcsbRuns
  PROVE  /\ IsFiniteSet(Cells(run)) /\ Range(ALL_WORKLOADS) = ReadOnly \union Inserting
         /\ Cardinality(Cells(run)) =
              Len(run.variants) * Len(ALL_WORKLOADS) * Len(run.thread_set)
<1>1. PICK vs, ws, ts : vs = run.variants /\ ws = ALL_WORKLOADS /\ ts = run.thread_set
  OBVIOUS
<1>2. Distinct(vs) /\ Distinct(ts) /\ Range(vs) = Entries(vs) /\ Range(ts) = Entries(ts)
  BY <1>1, WorkloadsAssumption, TablesOf
<1>3. Distinct(ws) /\ Range(ws) = ReadOnly \union Inserting /\ Range(ws) = Entries(ws)
  <2>1. PICK a, b : a = RO_WORKLOADS /\ b = INS_WORKLOADS
    OBVIOUS
  <2>2. /\ Distinct(a) /\ Distinct(b) /\ Range(a) = Entries(a) /\ Range(b) = Entries(b)
        /\ Range(a) = ReadOnly /\ Range(b) = Inserting /\ Entries(a) \cap Entries(b) = {}
    BY <2>1, WorkloadsAssumption, TablesOf DEF ReadOnly, Inserting
  <2>3. ws = a \o b
    BY <1>1, <2>1 DEF ALL_WORKLOADS
  <2>4. Distinct(a \o b) /\ Entries(a \o b) = Entries(a) \union Entries(b)
    BY <2>2, BothDistinct, JoinedEntries DEF Distinct
  <2>q. QED
    BY <2>2, <2>3, <2>4, RowsOf
<1>4. PICK V, W, T : V = Entries(vs) /\ W = Entries(ws) /\ T = Entries(ts)
  OBVIOUS
<1>5. /\ IsFiniteSet(V) /\ Cardinality(V) = Len(vs) /\ IsFiniteSet(W) /\ Cardinality(W) = Len(ws)
      /\ IsFiniteSet(T) /\ Cardinality(T) = Len(ts)
  BY <1>2, <1>3, <1>4, DistinctLen
<1>6. IsFiniteSet(V \X W) /\ Cardinality(V \X W) = Len(vs) * Len(ws)
  <2>1. IsFiniteSet(V \X W) /\ Cardinality(V \X W) = Cardinality(V) * Cardinality(W)
    BY <1>5, FS_Product, Zenon
  <2>q. QED
    BY <1>5, <2>1
<1>7. IsFiniteSet((V \X W) \X T) /\ Cardinality((V \X W) \X T) = Len(vs) * Len(ws) * Len(ts)
  <2>1. PICK P : P = V \X W
    OBVIOUS
  <2>2. IsFiniteSet(P) /\ Cardinality(P) = Len(vs) * Len(ws)
    BY <1>6, <2>1
  <2>3. IsFiniteSet(P \X T) /\ Cardinality(P \X T) = Cardinality(P) * Cardinality(T)
    BY <1>5, <2>2, FS_Product, Zenon
  <2>4. Cardinality(P \X T) = Len(vs) * Len(ws) * Len(ts)
    BY <1>5, <2>2, <2>3
  <2>q. QED
    BY <2>1, <2>3, <2>4
<1>8. ExistsBijection((V \X W) \X T, Cells(run))
  <2>1. PICK f : f = [p \in (V \X W) \X T |-> Do("mark", p[1][1], p[1][2], p[2])]
    OBVIOUS
  <2>2. Cells(run) = {Do("mark", v, w, t) : v \in V, w \in W, t \in T}
    BY <1>1, <1>2, <1>3, <1>4 DEF Cells
  <2>3. ASSUME NEW p \in (V \X W) \X T
        PROVE  /\ p[1][1] \in V /\ p[1][2] \in W /\ p[2] \in T
               /\ p = <<<<p[1][1], p[1][2]>>, p[2]>>
    OBVIOUS
  <2>4. f \in [(V \X W) \X T -> Cells(run)]
    <3>1. \A p \in (V \X W) \X T : Do("mark", p[1][1], p[1][2], p[2]) \in Cells(run)
      BY <2>2, <2>3
    <3>q. QED
      BY <2>1, <3>1
  <2>5. ASSUME NEW p \in (V \X W) \X T, NEW q \in (V \X W) \X T, f[p] = f[q] PROVE p = q
    <3>1. Do("mark", p[1][1], p[1][2], p[2]) = Do("mark", q[1][1], q[1][2], q[2])
      BY <2>1, <2>5
    <3>2. p[1][1] = q[1][1] /\ p[1][2] = q[1][2] /\ p[2] = q[2]
      BY <3>1 DEF Do
    <3>q. QED
      BY <2>3, <3>2
  <2>6. ASSUME NEW c \in Cells(run) PROVE \E p \in (V \X W) \X T : f[p] = c
    <3>1. PICK v \in V, w \in W, t \in T : c = Do("mark", v, w, t)
      BY <2>2
    <3>2. <<<<v, w>>, t>> \in (V \X W) \X T
      OBVIOUS
    <3>3. f[<<<<v, w>>, t>>] = c
      BY <2>1, <3>1, <3>2
    <3>q. QED
      BY <3>2, <3>3
  <2>7. f \in Bijection((V \X W) \X T, Cells(run))
    BY <2>4, <2>5, <2>6 DEF Bijection, Injection, Surjection, IsInjective
  <2>q. QED
    BY <2>7 DEF ExistsBijection
<1>9. /\ IsFiniteSet(Cells(run))
      /\ Cardinality(Cells(run)) = Cardinality((V \X W) \X T)
  BY <1>7, <1>8, FS_Bijection
<1>q. QED
  BY <1>1, <1>3, <1>7, <1>9

\* Rows of different cells are as many as the cells exactly if each cell has one.
LEMMA CountedOnce ==
  ASSUME NEW C, IsFiniteSet(C), NEW R, \A row \in R : row.of \in C,
         \A r, s \in R : r.of = s.of => r = s
  PROVE  Cardinality(R) = Cardinality(C) <=>
           \A c \in C : Cardinality({row \in R : row.of = c}) = 1
<1>1. PICK O : O = {row.of : row \in R}
  OBVIOUS
<1>2. O \subseteq C /\ IsFiniteSet(O) /\ (Cardinality(C) = Cardinality(O) => C = O)
  <2>1. O \in SUBSET C
    BY <1>1
  <2>q. QED
    BY <2>1, FS_Subset
<1>3. PICK f : f = [c \in O |-> CHOOSE row \in R : row.of = c]
  OBVIOUS
<1>4. ASSUME NEW c \in O PROVE f[c] \in R /\ f[c].of = c
  <2>1. \E row \in R : row.of = c
    BY <1>1
  <2>2. f[c] = CHOOSE row \in R : row.of = c
    BY <1>3
  <2>q. QED
    BY <2>1, <2>2
<1>5. f \in Bijection(O, R)
  <2>1. f \in [O -> R]
    BY <1>3, <1>4
  <2>2. ASSUME NEW a \in O, NEW b \in O, f[a] = f[b] PROVE a = b
    BY <1>4, <2>2
  <2>3. ASSUME NEW r \in R PROVE \E c \in O : f[c] = r
    <3>1. r.of \in O
      BY <1>1
    <3>2. f[r.of] = r
      BY <1>4, <3>1
    <3>q. QED
      BY <3>1, <3>2
  <2>q. QED
    BY <2>1, <2>2, <2>3 DEF Bijection, Injection, Surjection, IsInjective
<1>6. IsFiniteSet(R) /\ Cardinality(R) = Cardinality(O)
  <2>1. ExistsBijection(O, R)
    BY <1>5 DEF ExistsBijection
  <2>q. QED
    BY <1>2, <2>1, FS_Bijection
<1>7. ASSUME NEW c \in C PROVE Cardinality({row \in R : row.of = c}) = 1 <=> c \in O
  <2>1. PICK S : S = {row \in R : row.of = c}
    OBVIOUS
  <2>2. CASE c \in O
    <3>1. S = {f[c]}
      <4>1. \A row : row \in S <=> row = f[c]
        BY <1>4, <2>1, <2>2
      <4>q. QED
        BY <4>1
    <3>q. QED
      BY <2>1, <2>2, <3>1, FS_Singleton
  <2>3. CASE c \notin O
    <3>1. S = {}
      BY <1>1, <2>1, <2>3
    <3>2. Cardinality(S) = 0
      BY <3>1, FS_EmptySet
    <3>q. QED
      BY <2>1, <2>3, <3>2
  <2>q. QED
    BY <2>2, <2>3
<1>8. C = O <=> \A c \in C : c \in O
  BY <1>2
<1>q. QED
  BY <1>2, <1>6, <1>7, <1>8

\* One row is of this mark.
HasOne(R, c) == Cardinality({row \in R : row.of = c}) = 1

\* What the parser leaves is as RowsOfTheirRun says.
LEMMA ParseShows ==
  ASSUME Executing, Scripts, Shown(exec, output, rc_ok), rc_ok \in BOOLEAN, Parse
  PROVE  RowsOfTheirRun'
<1>1. /\ rows' = IF exec.db = "leveldb" THEN ParseLeveldb ELSE ParseRedis
      /\ exec_ok' = (rc_ok /\ Cardinality(Throughputs(rows')) =
                      Len(exec.variants) * Len(ALL_WORKLOADS) * Len(exec.thread_set))
      /\ UNCHANGED <<exec, output, rc_ok>>
  BY DEF Parse
<1>2. exec \in YcsbRuns /\ exec.db \in {"leveldb", "redis"}
  BY YcsbAssumption DEF Scripts
<1>3. PICK run, parsed : run = exec /\ parsed = rows'
  OBVIOUS
<1>4. PICK R : R = Throughputs(parsed)
  OBVIOUS
<1>5. IsFiniteSet(Cells(run)) /\ Range(ALL_WORKLOADS) = ReadOnly \union Inserting
      /\ Cardinality(Cells(run)) =
           Len(run.variants) * Len(ALL_WORKLOADS) * Len(run.thread_set)
  BY <1>2, <1>3, CellsCount
<1>6. ASSUME NEW row \in R PROVE row.of \in Cells(run)
  <2>1. row \in parsed /\ output \in Seq(Entries(output))
    BY <1>4 DEF Throughputs, Shown
  <2>2. row \in ParseLeveldb \union ParseRedis
    BY <1>1, <1>3, <2>1
  <2>3. PICK i, j : RowAt(row, i, j)
    BY <2>1, <2>2, LeveldbRow, RedisRow
  <2>4. PICK c : c = output[i].from
    OBVIOUS
  <2>5. row.of = c /\ Printed(exec, output[i]) /\ output[i].kind = "marker"
    BY <2>3, <2>4 DEF RowAt, Markers, Shown, Entries
  <2>6. Command(run, c) /\ c.op = "mark"
    BY <1>3, <2>4, <2>5 DEF Printed
  <2>7. /\ c = Do("mark", c.variant, c.w, c.t) /\ c.variant \in Range(run.variants)
        /\ c.w \in Range(ALL_WORKLOADS) /\ c.t \in Range(run.thread_set)
    BY <1>5, <2>6 DEF Command
  <2>q. QED
    BY <2>5, <2>7 DEF Cells
<1>7. ASSUME NEW r \in R, NEW s \in R, r.of = s.of PROVE r = s
  BY <1>1, <1>2, <1>3, <1>4, <1>7, OneThroughput
<1>8. Cardinality(R) = Cardinality(Cells(run)) <=>
        \A c \in Cells(run) : Cardinality({row \in R : row.of = c}) = 1
  BY <1>5, <1>6, <1>7, CountedOnce
<1>9. (\A c \in Cells(run) : HasOne(R, c)) <=>
        \A i \in DOMAIN run.variants, w \in Range(ALL_WORKLOADS), t \in Range(run.thread_set) :
          HasOne(R, Do("mark", run.variants[i], w, t))
  <2>1. \A i \in DOMAIN run.variants : run.variants[i] \in Range(run.variants)
    BY DEF Range
  <2>2. \A v \in Range(run.variants) : \E i \in DOMAIN run.variants : v = run.variants[i]
    BY DEF Range
  <2>3. ASSUME NEW i \in DOMAIN run.variants, NEW w \in Range(ALL_WORKLOADS),
               NEW t \in Range(run.thread_set)
        PROVE  Do("mark", run.variants[i], w, t) \in Cells(run)
    BY <2>1 DEF Cells
  <2>4. ASSUME NEW c \in Cells(run)
        PROVE  \E i \in DOMAIN run.variants, w \in Range(ALL_WORKLOADS),
                  t \in Range(run.thread_set) : c = Do("mark", run.variants[i], w, t)
    BY <2>2 DEF Cells
  <2>q. QED
    BY <2>3, <2>4, Zenon
<1>10. OkIsComplete'
  <2>1. Cardinality(R) = Cardinality(Cells(run)) <=> \A c \in Cells(run) : HasOne(R, c)
    BY <1>8 DEF HasOne
  <2>2. exec_ok' <=> (rc_ok /\ Cardinality(R) = Cardinality(Cells(run)))
    BY <1>1, <1>3, <1>4, <1>5
  <2>3. exec_ok' <=>
          /\ rc_ok
          /\ \A i \in DOMAIN run.variants, w \in Range(ALL_WORKLOADS), t \in Range(run.thread_set) :
               HasOne(R, Do("mark", run.variants[i], w, t))
    BY <1>9, <2>1, <2>2, Zenon
  <2>4. OkIsComplete' <=>
          (rows' # {} =>
            (exec_ok' <=>
              /\ rc_ok'
              /\ \A i \in DOMAIN exec'.variants, w \in Range(ALL_WORKLOADS),
                    t \in Range(exec'.thread_set) :
                   HasOne(Throughputs(rows'), Do("mark", exec'.variants[i], w, t))))
    BY DEF OkIsComplete, HasOne, Throughputs, Range, Do
  <2>5. exec' = run /\ rc_ok' = rc_ok /\ Throughputs(rows') = R
    BY <1>1, <1>3, <1>4 DEF Throughputs
  <2>q. QED
    BY <2>3, <2>4, <2>5
<1>11. ASSUME NEW row \in rows'
       PROVE  \/ row.line.from = [row.of EXCEPT !.op = "run"]
              \/ /\ row.line.from.op = "load"
                 /\ row.of.w \in Range(INS_WORKLOADS) \union {Last(RO_WORKLOADS)} \/ ~rc_ok
                 /\ IF exec.db = "leveldb" THEN row.metric = "latency_avg"
                    ELSE \A j \in DOMAIN output :
                      output[j].kind = "overall" => output[j].from # [row.of EXCEPT !.op = "run"]
  BY <1>1, <1>2, <1>11, RowIsOf
<1>q. QED
  BY <1>1, <1>10, <1>11 DEF RowsOfTheirRun

\* What a command that prints nothing leaves for the next one.
LEMMA StillAwaits ==
  ASSUME NEW run, NEW c, NEW d, Command(run, c), Command(run, d), Follows(run.db, c, d),
         run.db \in {"leveldb", "redis"}, NEW o, NEW rc, Awaits(o, c, rc),
         c.op \notin {"run", "mark"}
  PROVE  Awaits(o, d, rc)
<1>1. d.op # "run"
  <2>1. CASE Opens(run.db, d)
    BY <2>1 DEF Opens, Opening, Do
  <2>2. CASE ~Opens(run.db, d)
    <3>1. d.op = "run" => c.op = "mark"
      BY <2>2, FollowsHow
    <3>q. QED
      BY <3>1
  <2>q. QED
    BY <2>1, <2>2
<1>q. QED
  BY <1>1 DEF Awaits

\* Nothing is shown but in the end.
LEMMA NoRows ==
  ASSUME rows' = {}
  PROVE  RowsOfTheirRun'
BY DEF RowsOfTheirRun, OkIsComplete

\* What the rows show stays so where nothing of their script changes.
LEMMA ShowsRest ==
  ASSUME ShowInv, UNCHANGED <<exec, script, output, rc_ok, rows, exec_ok>>
  PROVE  ShowInv'
BY DEF ShowInv, Executing, RowsOfTheirRun, OkIsComplete, Throughputs

\* Every step of the driver keeps what the rows show.
LEMMA ShowsKeep ==
  ASSUME LoadInv, ShowInv, YcsbNext
  PROVE  ShowInv'
<1>1. /\ rc_ok \in BOOLEAN /\ Shown(exec, output, rc_ok) /\ Unused(output, script)
      /\ Executing => rows = {} /\ Awaits(output, script[1], rc_ok) /\ Scripts
      /\ Stores /\ Lines
  BY DEF ShowInv, LoadInv
<1>2. CASE StartExec
  <2>1. PICK run \in YcsbRuns : exec' = run /\ script' = make_exec(run)
    BY <1>2 DEF StartExec
  <2>2. output' = << >> /\ rows' = {} /\ rc_ok' = TRUE
    BY <1>2 DEF StartExec
  <2>3. PICK s, d : s = make_exec(run) /\ d = s[1]
    OBVIOUS
  <2>4. Opens(run.db, d)
    BY <2>1, <2>3, MakePath
  <2>5. << >> \in Seq(Entries(<< >>)) /\ Entries(<< >>) = {} /\ DOMAIN << >> = {}
    BY ShortSeqs
  <2>6. Shown(run, << >>, TRUE) /\ Unused(<< >>, s)
    BY <2>5 DEF Shown, Unused
  <2>7. Awaits(<< >>, d, TRUE)
    <3>1. d.op # "run"
      BY <2>4 DEF Opens, Opening, Do
    <3>q. QED
      BY <2>5, <3>1 DEF Awaits
  <2>8. RowsOfTheirRun'
    BY <2>2, NoRows
  <2>q. QED
    BY <2>1, <2>2, <2>3, <2>6, <2>7, <2>8 DEF ShowInv
<1>3. CASE RunScript /\ ~Parse
  <2>1. /\ Executing /\ ~At("parse")
        /\ Mark \/ Ycsb \/ (RemoveFiles \/ Reap \/ StartServer \/ FlushAll \/ StopServer)
    BY <1>3 DEF RunScript, Mark, Ycsb, RemoveFiles, Reap, StartServer, FlushAll, StopServer, At
  <2>2. PICK d : Goes(d)
    BY <1>1, <2>1, GoesOn
  <2>3. script' = Tail(script) /\ UNCHANGED <<exec, rc_ok, rows>>
    BY <2>1 DEF Mark, Ycsb, RemoveFiles, Reap, StartServer, FlushAll, StopServer, Done
  <2>4. PICK o, s, t, r, c : /\ o = output /\ s = script /\ t = output' /\ r = Tail(script)
                             /\ c = Now
    OBVIOUS
  <2>5. /\ Command(exec, c) /\ Command(exec, d) /\ Follows(exec.db, c, d)
        /\ exec.db \in {"leveldb", "redis"} /\ d = r[1] /\ c = s[1]
        /\ Entries(r) \subseteq Entries(s) /\ c \in Entries(s) /\ c \notin Entries(r)
    BY <2>2, <2>4 DEF Goes
  <2>6. Shown(exec, o, rc_ok) /\ Unused(o, s) /\ Awaits(o, c, rc_ok) /\ rows = {}
    BY <1>1, <2>1, <2>4, <2>5
  <2>7. "end" \notin ReadOnly \union Inserting /\ "end" # "all"
    BY TablesOf
  <2>8. Shown(exec, t, rc_ok) /\ Unused(t, r) /\ Awaits(t, d, rc_ok)
    <3>1. CASE Mark
      <4>1. PICK line : line = Line("marker")
        OBVIOUS
      <4>2. line.kind = "marker" /\ line.from = c /\ c.op = "mark" /\ t = Append(o, line)
        BY <2>4, <3>1, <4>1 DEF Mark, At, Now, Line
      <4>3. t = o \o <<line>>
        <5>1. PICK S : S = Entries(o) \union {line}
          OBVIOUS
        <5>2. o \in Seq(S) /\ line \in S
          BY <2>6, <5>1, SeqMonotonic DEF Shown
        <5>q. QED
          BY <4>2, <5>2, AppendIsConcat
      <4>4. Shown(exec, t, rc_ok) /\ Unused(t, r) /\ LastMark(t, Len(t)) /\ t[Len(t)].from = c
        <5>1. PICK run, rc : run = exec /\ rc = rc_ok
          OBVIOUS
        <5>2. /\ Shown(run, o, rc) /\ Unused(o, s) /\ Command(run, line.from)
              /\ line.from \in Entries(s) /\ line.from \notin Entries(r)
              /\ Entries(r) \subseteq Entries(s) /\ line.kind = "marker" /\ line.from.op = "mark"
          BY <1>1, <2>5, <2>6, <4>2, <5>1
        <5>3. \E m : Alone(m, line) /\ t = o \o m
          BY <4>3 DEF Alone
        <5>4. MarkedBy(run, o, rc, line, t, s, r)
          BY <5>2, <5>3 DEF MarkedBy
        <5>5. Shown(run, t, rc) /\ Unused(t, r) /\ LastMark(t, Len(t)) /\ t[Len(t)].from = line.from
          BY <5>4, MarkShows
        <5>q. QED
          BY <4>2, <5>1, <5>5
      <4>5. c.w # "end"
        BY <2>5, <2>7, <4>2 DEF Command
      <4>6. d.op = "run" /\ c = [d EXCEPT !.op = "mark"]
        BY <2>5, <4>2, <4>5, FollowsHow
      <4>q. QED
        BY <4>4, <4>6 DEF Awaits
    <3>2. CASE Ycsb
      <4>1. PICK v : v = Now.variant /\ v \in Variants
        BY <2>2 DEF Goes
      <4>2. PICK m : /\ c.op \in {"load", "run"}
                     /\ t = o \o m /\ m \in Seq(Entries(m))
                     /\ Entries(m) \subseteq {Line("status"), Line("overall")}
        <5>1. PICK m : /\ Now.op \in {"load", "run"} /\ output' = output \o m
                       /\ m \in Seq(Entries(m))
                       /\ Entries(m) \subseteq {Line("status"), Line("overall")}
          <6>1. Stores /\ Lines /\ Ycsb /\ exec.db \in {"leveldb", "redis"}
            BY <1>1, <2>5, <3>2
          <6>q. QED
            BY <4>1, <6>1, YcsbDoes
        <5>q. QED
          BY <2>4, <5>1
      <4>3. \A line \in Entries(m) : line.from = c /\ line.kind \in {"status", "overall"}
        BY <2>4, <4>2 DEF Line
      <4>4. /\ Shown(exec, t, rc_ok) /\ Unused(t, r)
            /\ \A i \in DOMAIN t : LastMark(t, i) => /\ i \in DOMAIN o /\ LastMark(o, i)
                                                     /\ t[i].from = o[i].from
        <5>1. PICK run, rc : run = exec /\ rc = rc_ok
          OBVIOUS
        <5>2. /\ Shown(run, o, rc) /\ Command(run, c) /\ Awaits(o, c, rc)
              /\ Unused(o, s) /\ Entries(r) \subseteq Entries(s) /\ OfCommand(m, c)
          BY <1>1, <2>5, <2>6, <4>3, <5>1 DEF OfCommand
        <5>3. Shown(run, t, rc) /\ Unused(t, r) /\ SameMark(o, t)
          BY <4>2, <5>2, MoreShows
        <5>q. QED
          BY <5>1, <5>3 DEF SameMark
      <4>5. CASE c.op = "load"
        <5>1. Awaits(o, d, rc_ok)
          BY <2>5, <2>6, <4>5, StillAwaits
        <5>2. d.op # "run"
          <6>1. CASE Opens(exec.db, d)
            BY <6>1 DEF Opens, Opening, Do
          <6>2. CASE ~Opens(exec.db, d)
            BY <2>5, <4>5, <6>2, FollowsHow
          <6>q. QED
            BY <6>1, <6>2
        <5>q. QED
          BY <4>4, <5>1, <5>2 DEF Awaits
      <4>6. CASE c.op = "run"
        <5>1. c.w # "end" /\ c = Do(c.op, c.variant, c.w, c.t)
          BY <2>5, <2>7, <4>6 DEF Command
        <5>2. \/ d.op = "mark"
              \/ d.op \in {Clear(exec.db), "stop"} /\ IsLast(c)
          BY <2>5, <4>6, <5>1, FollowsHow
        <5>3. d.op # "run"
          BY <5>2 DEF Clear
        <5>4. LastMark(o, Len(o)) /\ o[Len(o)].from = [c EXCEPT !.op = "mark"]
          BY <2>6, <4>6 DEF Awaits
        <5>5. Len(o) \in Nat /\ DOMAIN o = 1 .. Len(o)
          BY <2>6, OwnEntries DEF Shown
        <5>6. \A i \in DOMAIN o : LastMark(o, i) => i = Len(o)
          BY <5>4, <5>5 DEF LastMark
        <5>7. IsLast(c) => Late(o[Len(o)].from)
          <6>1. [c EXCEPT !.op = "mark"].w = c.w
            BY <5>1 DEF Do
          <6>q. QED
            BY <5>4, <6>1 DEF IsLast, Late
        <5>8. ASSUME NEW i \in DOMAIN t, LastMark(t, i), IsLast(c) PROVE Late(t[i].from)
          BY <4>4, <5>6, <5>7, <5>8
        <5>q. QED
          BY <4>4, <5>2, <5>3, <5>8 DEF Awaits
      <4>q. QED
        BY <4>2, <4>4, <4>5, <4>6
    <3>3. CASE RemoveFiles \/ Reap \/ StartServer \/ FlushAll \/ StopServer
      <4>1. t = o
        BY <1>1, <2>2, <2>4, <3>3, QuietLoads
      <4>2. c.op \notin {"run", "mark"}
        BY <2>4, <3>3 DEF RemoveFiles, Reap, StartServer, FlushAll, StopServer, At, Now
      <4>3. Awaits(o, d, rc_ok)
        BY <2>5, <2>6, <4>2, StillAwaits
      <4>4. Unused(o, r)
        BY <2>5, <2>6 DEF Unused
      <4>q. QED
        BY <2>6, <4>1, <4>3, <4>4
    <3>q. QED
      BY <2>1, <3>1, <3>2, <3>3
  <2>9. RowsOfTheirRun' /\ rows' = {}
    BY <2>3, <2>6, NoRows
  <2>q. QED
    BY <1>1, <2>3, <2>4, <2>5, <2>8, <2>9 DEF ShowInv
<1>4. CASE Parse
  <2>1. script' = << >> /\ Executing /\ UNCHANGED <<exec, output, rc_ok>>
    BY <1>4 DEF Parse, At
  <2>2. RowsOfTheirRun'
    BY <1>1, <1>4, <2>1, ParseShows
  <2>3. PICK o : o = output
    OBVIOUS
  <2>4. Unused(o, << >>)
    BY ShortSeqs DEF Unused
  <2>q. QED
    BY <1>1, <2>1, <2>2, <2>3, <2>4 DEF ShowInv, Executing
<1>5. CASE ServerFails
  <2>1. Executing /\ UNCHANGED <<exec, script, output, rows, rc_ok>>
    BY <1>5 DEF ServerFails
  <2>q. QED
    BY <1>1, <2>1, NoRows DEF ShowInv
<1>6. CASE LoseSession
  <2>1. Executing /\ rc_ok' = FALSE /\ UNCHANGED <<exec, output, rows>>
    BY <1>6 DEF LoseSession
  <2>2. PICK k \in DOMAIN script :
          /\ Opens(exec.db, script[k]) /\ script'[1] = script[k]
          /\ Entries(script') \subseteq Entries(script)
    BY <1>1, <1>6, <2>1, LoseTo
  <2>3. PICK o, s, t, d : o = output /\ s = script /\ t = script' /\ d = script[k]
    OBVIOUS
  <2>4. Unused(o, t)
    BY <1>1, <2>2, <2>3 DEF Unused
  <2>5. Shown(exec, o, FALSE)
    BY <1>1, <2>3 DEF Shown, LateLoad, Lost
  <2>6. Awaits(o, d, FALSE)
    <3>1. d.op # "run"
      BY <2>2, <2>3 DEF Opens, Opening, Do
    <3>q. QED
      BY <3>1 DEF Awaits, Lost
  <2>7. RowsOfTheirRun'
    BY <1>1, <2>1, NoRows
  <2>q. QED
    BY <1>1, <2>1, <2>2, <2>3, <2>4, <2>5, <2>6, <2>7 DEF ShowInv
<1>7. CASE KillExec
  <2>1. /\ script' = << >> /\ Executing /\ output' = << >> /\ rc_ok' = TRUE
        /\ UNCHANGED <<exec, rows>>
    BY <1>7 DEF KillExec
  <2>2. << >> \in Seq(Entries(<< >>)) /\ Entries(<< >>) = {} /\ DOMAIN << >> = {}
    BY ShortSeqs
  <2>3. PICK run : run = exec
    OBVIOUS
  <2>4. Shown(run, << >>, TRUE) /\ Unused(<< >>, << >>)
    BY <2>2 DEF Shown, Unused
  <2>5. RowsOfTheirRun'
    BY <1>1, <2>1, NoRows
  <2>q. QED
    BY <2>1, <2>3, <2>4, <2>5 DEF ShowInv, Executing
<1>8. CASE OrphanGoesOn \/ OrphanEnds
  <2>1. UNCHANGED <<exec, script, output, rc_ok, rows, exec_ok>>
    BY <1>8 DEF OrphanGoesOn, OrphanEnds
  <2>q. QED
    BY <2>1, ShowsRest
<1>q. QED
  BY <1>2, <1>3, <1>4, <1>5, <1>6, <1>7, <1>8 DEF YcsbNext, RunScript

\* Nothing is shown before the first run.
LEMMA ShowsStart ==
  ASSUME YcsbInit
  PROVE  ShowInv
<1>1. script = << >> /\ output = << >> /\ rows = {} /\ rc_ok = TRUE
  BY DEF YcsbInit
<1>2. << >> \in Seq(Entries(<< >>)) /\ Entries(<< >>) = {} /\ DOMAIN << >> = {}
  BY ShortSeqs
<1>3. Shown(exec, output, rc_ok) /\ Unused(output, script)
  BY <1>1, <1>2 DEF Shown, Unused
<1>q. QED
  BY <1>1, <1>3 DEF ShowInv, Executing, RowsOfTheirRun, OkIsComplete

\* What the rows of YCSB show is what their runs printed, in every state of the
\* driver.
THEOREM ShowInvariant == Spec => []ShowInv
<1>1. Init => ShowInv
  BY ShowsStart DEF Init
<1>2. LoadInv /\ ShowInv /\ [Next]_vars => ShowInv'
  <2>1. SUFFICES ASSUME LoadInv, ShowInv, [Next]_vars PROVE ShowInv'
    OBVIOUS
  <2>2. CASE MeasureYcsb
    BY <2>1, <2>2, ShowsKeep DEF MeasureYcsb
  <2>3. CASE MeasureStructures \/ MeasureDatabases \/ MeasureQueue \/ Finished \/ UNCHANGED vars
    <3>1. UNCHANGED <<exec, script, output, rc_ok, rows, exec_ok>>
      BY <2>3 DEF MeasureStructures, MeasureDatabases, MeasureQueue, Finished, vars, ycsbVars
    <3>q. QED
      BY <2>1, <3>1, ShowsRest
  <2>q. QED
    BY <2>1, <2>2, <2>3 DEF Next
<1>q. QED
  BY <1>1, <1>2, LoadInvariant, PTL DEF Spec

\* A row of YCSB shows its own run, or a load where one comes behind it, and a run
\* counts as complete exactly if all of its throughputs are there (YcsbRunner:
\* RowsOfTheirRun), for any workloads, variants, numbers of threads and failures.
THEOREM OfTheirRun == Spec => []RowsOfTheirRun
<1>1. ShowInv => RowsOfTheirRun
  BY DEF ShowInv
<1>q. QED
  BY <1>1, ShowInvariant, PTL
=============================================================================
