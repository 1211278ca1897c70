----------------------------- MODULE BugRunnerProofs -----------------------------
(***************************************************************************)
(* Proofs about BugRunner, for every number of bugs, runs and buckets, any *)
(* sizes of the buffer and the pipe, and any faults: what the suite        *)
(* reports is what happened to the child, and the rows add up.             *)
(*                                                                         *)
(* IInv says at each point of the parent what the buffer and the pipe hold *)
(* of what the child has printed, and at each point of the child what the  *)
(* kernel and the shared state will say of its end: when the parent gets   *)
(* to classify, both are those of this child.                              *)
(*                                                                         *)
(* The first part is about the fold that adds up a tally: the function it  *)
(* is defined by exists, and it grows with the tally.                      *)
(***************************************************************************)
EXTENDS BugRunner, FiniteSetTheorems, WellFoundedInduction, TLAPS

\* What FoldLeft makes of a tally: SumBy is the function of sets of buckets by
\* which it does, Part the sum of the first m, and Sums(t, m) are the functions
\* that do what SumBy shall do, on the sets of the first m buckets.
TallySum(t) == FoldLeft(LAMBDA n, b : n + b.count, 0, t)
Body(t, f) == [s \in SUBSET (DOMAIN t) |->
                 IF s = {} THEN 0 ELSE f[s \ {Max(s)}] + t[Max(s)].count]
SumBy(t) == CHOOSE f : f = Body(t, f)
Part(t, m) == SumBy(t)[1 .. m]
Sums(t, m) ==
  {f \in [SUBSET (1 .. m) -> Nat] : \A s \in SUBSET (1 .. m) :
     f[s] = IF s = {} THEN 0 ELSE f[s \ {Max(s)}] + t[Max(s)].count}
Tallies(S) == Seq([o : S, count : Nat])

\* The first m buckets of u count d more than those of t; and the two tallies
\* have the same counts from a + 1 to b.
Differ(t, u, d, m) == Part(t, m) \in Nat /\ Part(u, m) = Part(t, m) + d
Agree(t, u, a, b) == \A i \in a + 1 .. b : u[i].count = t[i].count

\* A set of numbers that is not empty has a least one.
LEMMA LeastNat ==
  ASSUME NEW S, S \subseteq Nat, S # {}
  PROVE  \E n \in S : \A m \in S : n <= m
<1> DEFINE R == OpToRel(<, Nat)
<1>1. IsWellFoundedOn(R, Nat)
  BY NatLessThanWellFounded
<1>2. ASSUME NEW m \in Nat, NEW n \in Nat, m < n PROVE <<m, n>> \in R
  BY <1>2 DEF R, OpToRel
<1> HIDE DEF R
<1>3. PICK n \in S : \A m \in S : ~ (<<m, n>> \in R)
  BY <1>1, WFMin
<1>4. ASSUME NEW m \in S PROVE n <= m
  <2>1. ~(m < n)
    BY <1>2, <1>3
  <2>q. QED
    BY <2>1
<1>q. QED
  BY <1>4

\* The buckets of a tally.
LEMMA TallyFacts ==
  ASSUME NEW S, NEW t \in Tallies(S)
  PROVE  /\ Len(t) \in Nat /\ DOMAIN t = 1 .. Len(t)
         /\ \A i \in 1 .. Len(t) : t[i] \in [o : S, count : Nat] /\ t[i].count \in Nat
<1>1. Len(t) \in Nat /\ DOMAIN t = 1 .. Len(t)
  BY DEF Tallies
<1>2. ASSUME NEW i \in 1 .. Len(t) PROVE t[i] \in [o : S, count : Nat]
  <2> DEFINE R == [o : S, count : Nat]
  <2>1. t \in Seq(R)
    BY DEF Tallies
  <2> HIDE DEF R
  <2>2. t[i] \in R
    BY <2>1
  <2>q. QED
    BY <2>2 DEF R
<1>3. ASSUME NEW i \in 1 .. Len(t) PROVE t[i].count \in Nat
  BY <1>2
<1>q. QED
  BY <1>1, <1>2, <1>3

\* The fold of a tally is SumBy of all its buckets.
LEMMA SumUnfolds ==
  ASSUME NEW t
  PROVE  TallySum(t) = SumBy(t)[DOMAIN t]
BY Zenon DEF TallySum, FoldLeft, MapThenFoldSet, SumBy, Body

\* The last of the buckets up to n + 1 is n + 1.
LEMMA LastBucket ==
  ASSUME NEW n \in Nat, NEW s \in SUBSET (1 .. n + 1), n + 1 \in s
  PROVE  Max(s) = n + 1
<1>1. \A x \in s : n + 1 >= x
  OBVIOUS
<1>2. \A x \in s : (\A y \in s : x >= y) => x = n + 1
  OBVIOUS
<1>q. QED
  BY <1>1, <1>2 DEF Max

\* A function that adds up the first m buckets extends to one bucket more.
LEMMA OneBucketMore ==
  ASSUME NEW S, NEW t \in Tallies(S), NEW m \in Nat, m + 1 <= Len(t),
         NEW f \in Sums(t, m)
  PROVE  Sums(t, m + 1) # {}
<1> DEFINE g == [s \in SUBSET (1 .. m + 1) |->
                   IF m + 1 \in s THEN f[s \ {m + 1}] + t[m + 1].count ELSE f[s]]
<1>1. /\ f \in [SUBSET (1 .. m) -> Nat]
      /\ \A s \in SUBSET (1 .. m) :
           f[s] = IF s = {} THEN 0 ELSE f[s \ {Max(s)}] + t[Max(s)].count
  BY DEF Sums
<1>2. t[m + 1].count \in Nat
  BY TallyFacts
<1>3. ASSUME NEW s \in SUBSET (1 .. m + 1), m + 1 \notin s
      PROVE  s \in SUBSET (1 .. m)
  BY <1>3
<1>4. ASSUME NEW s \in SUBSET (1 .. m + 1)
      PROVE  s \ {m + 1} \in SUBSET (1 .. m) /\ s \ {m + 1} \in SUBSET (1 .. m + 1)
  BY <1>4
<1>5. ASSUME NEW s \in SUBSET (1 .. m + 1) PROVE g[s] \in Nat
  <2>1. CASE m + 1 \in s
    <3>1. f[s \ {m + 1}] \in Nat
      BY <1>1, <1>4
    <3>2. g[s] = f[s \ {m + 1}] + t[m + 1].count
      BY <2>1
    <3>q. QED
      BY <1>2, <3>1, <3>2
  <2>2. CASE m + 1 \notin s
    BY <1>1, <1>3, <2>2
  <2>q. QED
    BY <2>1, <2>2
<1>6. ASSUME NEW s \in SUBSET (1 .. m + 1)
      PROVE  g[s] = IF s = {} THEN 0 ELSE g[s \ {Max(s)}] + t[Max(s)].count
  <2>1. CASE m + 1 \in s
    <3>1. Max(s) = m + 1
      BY <2>1, LastBucket
    <3>2. g[s \ {m + 1}] = f[s \ {m + 1}]
      BY <1>4
    <3>3. g[s] = f[s \ {m + 1}] + t[m + 1].count
      BY <2>1
    <3>q. QED
      BY <2>1, <3>1, <3>2, <3>3
  <2>2. CASE m + 1 \notin s
    <3>1. s \in SUBSET (1 .. m) /\ s \ {Max(s)} \in SUBSET (1 .. m + 1)
          /\ m + 1 \notin s \ {Max(s)}
      BY <1>3, <2>2
    <3>2. g[s] = f[s] /\ g[s \ {Max(s)}] = f[s \ {Max(s)}]
      BY <2>2, <3>1
    <3>q. QED
      BY <1>1, <3>1, <3>2
  <2>q. QED
    BY <2>1, <2>2
<1>7. g \in [SUBSET (1 .. m + 1) -> Nat]
  BY <1>5
<1> HIDE DEF g
<1>8. g \in Sums(t, m + 1)
  BY <1>6, <1>7 DEF Sums
<1>q. QED
  BY <1>8

\* So there is one for any number of buckets: the least number without one would
\* be one more than a number with one.
LEMMA SumsExist ==
  ASSUME NEW S, NEW t \in Tallies(S), NEW n \in 0 .. Len(t)
  PROVE  Sums(t, n) # {}
<1> DEFINE B == {m \in 0 .. Len(t) : Sums(t, m) = {}}
<1>0. Len(t) \in Nat
  BY DEF Tallies
<1>1. SUFFICES B = {}
  OBVIOUS
<1>2. SUFFICES ASSUME B # {} PROVE FALSE
  OBVIOUS
<1>3. B \subseteq Nat
  BY <1>0
<1>4. PICK m \in B : \A k \in B : m <= k
  BY <1>2, <1>3, LeastNat
<1>5. m \in 0 .. Len(t) /\ Sums(t, m) = {}
  OBVIOUS
<1>6. CASE m = 0
  <2> DEFINE f == [s \in SUBSET (1 .. 0) |-> 0]
  <2>1. f \in [SUBSET (1 .. 0) -> Nat] /\ \A s \in SUBSET (1 .. 0) : s = {} /\ f[s] = 0
    OBVIOUS
  <2>2. f \in Sums(t, 0)
    BY <2>1 DEF Sums
  <2>q. QED
    BY <1>5, <1>6, <2>2
<1>7. CASE m # 0
  <2>1. /\ m - 1 \in Nat /\ m - 1 \in 0 .. Len(t) /\ m - 1 + 1 = m /\ m <= Len(t)
        /\ ~(m <= m - 1)
    BY <1>0, <1>5, <1>7
  <2>2. Sums(t, m - 1) # {}
    BY <1>4, <2>1
  <2>3. PICK f \in Sums(t, m - 1) : TRUE
    BY <2>2
  <2>4. Sums(t, m - 1 + 1) # {}
    BY <2>1, <2>3, OneBucketMore
  <2>q. QED
    BY <1>5, <2>1, <2>4
<1>q. QED
  BY <1>6, <1>7

\* SumBy does what it is defined to do.
LEMMA SumIs ==
  ASSUME NEW S, NEW t \in Tallies(S)
  PROVE  SumBy(t) = Body(t, SumBy(t))
<1>1. Len(t) \in 0 .. Len(t) /\ DOMAIN t = 1 .. Len(t)
  BY DEF Tallies
<1>2. PICK f \in Sums(t, Len(t)) : TRUE
  BY <1>1, SumsExist
<1>3. f = Body(t, f)
  BY <1>1, <1>2 DEF Sums, Body
<1>q. QED
  BY <1>3 DEF SumBy

\* The sum of no bucket is 0, and each bucket adds its count.
LEMMA Parts ==
  ASSUME NEW S, NEW t \in Tallies(S)
  PROVE  /\ Part(t, 0) = 0
         /\ \A m \in 0 .. Len(t) - 1 : Part(t, m + 1) = Part(t, m) + t[m + 1].count
         /\ TallySum(t) = Part(t, Len(t))
<1> DEFINE f == SumBy(t)
<1>1. f = Body(t, f) /\ DOMAIN t = 1 .. Len(t) /\ Len(t) \in Nat
  BY SumIs, TallyFacts
<1> HIDE DEF f
<1>2. ASSUME NEW s \in SUBSET (1 .. Len(t))
      PROVE  f[s] = IF s = {} THEN 0 ELSE f[s \ {Max(s)}] + t[Max(s)].count
  BY <1>1 DEF Body
<1>3. f[1 .. 0] = 0
  <2>1. 1 .. 0 = {} /\ 1 .. 0 \in SUBSET (1 .. Len(t))
    OBVIOUS
  <2>q. QED
    BY <1>2, <2>1
<1>4. ASSUME NEW m \in 0 .. Len(t) - 1
      PROVE  f[1 .. m + 1] = f[1 .. m] + t[m + 1].count
  <2>1. m \in Nat /\ m + 1 \in 1 .. m + 1 /\ 1 .. m + 1 \in SUBSET (1 .. Len(t))
    BY <1>1
  <2>2. Max(1 .. m + 1) = m + 1
    BY <2>1, LastBucket
  <2>3. (1 .. m + 1) \ {m + 1} = 1 .. m
    BY <2>1
  <2>4. 1 .. m + 1 # {}
    BY <2>1
  <2>q. QED
    BY <1>2, <2>1, <2>2, <2>3, <2>4
<1>5. TallySum(t) = f[1 .. Len(t)]
  BY <1>1, SumUnfolds DEF f
<1>q. QED
  BY <1>3, <1>4, <1>5 DEF Part, f

\* Where two tallies have the same counts, their sums differ as they did before.
LEMMA PartsDiffer ==
  ASSUME NEW S, NEW t \in Tallies(S), NEW u \in Tallies(S), NEW d \in Nat,
         NEW a \in Nat, NEW b \in Nat, a <= b, b <= Len(t), b <= Len(u),
         Differ(t, u, d, a), Agree(t, u, a, b)
  PROVE  Differ(t, u, d, b)
<1> DEFINE B == {m \in a .. b : ~Differ(t, u, d, m)}
<1>1. SUFFICES B = {}
  OBVIOUS
<1>2. SUFFICES ASSUME B # {} PROVE FALSE
  OBVIOUS
<1>3. PICK m \in B : \A k \in B : m <= k
  <2>1. B \subseteq Nat
    OBVIOUS
  <2> HIDE DEF B
  <2>q. QED
    BY <1>2, <2>1, LeastNat
<1>4. m \in a .. b /\ ~Differ(t, u, d, m)
  OBVIOUS
<1>5. m # a
  BY <1>4
<1>6. PICK k \in Nat : k = m - 1
  BY <1>4, <1>5
<1>7. k \in a .. b /\ k + 1 = m /\ ~(m <= k) /\ k + 1 \in a + 1 .. b
  BY <1>4, <1>5, <1>6
<1>8. Part(t, k) \in Nat /\ Part(u, k) = Part(t, k) + d
  BY <1>3, <1>7 DEF Differ
<1>9. k \in 0 .. Len(t) - 1 /\ k \in 0 .. Len(u) - 1 /\ k + 1 \in 1 .. Len(t)
  <2>1. Len(t) \in Nat /\ Len(u) \in Nat
    BY TallyFacts
  <2>q. QED
    BY <1>7, <2>1
<1>10. Part(t, k + 1) = Part(t, k) + t[k + 1].count
  BY <1>9, Parts
<1>11. Part(u, k + 1) = Part(u, k) + u[k + 1].count
  BY <1>9, Parts
<1>12. t[k + 1].count \in Nat /\ u[k + 1].count = t[k + 1].count
  BY <1>7, <1>9, TallyFacts DEF Agree
<1>13. Part(t, m) = Part(t, k) + t[m].count /\ Part(u, m) = Part(t, k) + d + t[m].count
  BY <1>7, <1>8, <1>10, <1>11, <1>12
<1>14. t[m].count \in Nat
  BY <1>7, <1>12
<1>15. Part(t, m) \in Nat
  <2>1. \A x, y, z \in Nat : x + y \in Nat
    OBVIOUS
  <2>q. QED
    BY <1>8, <1>13, <1>14, <2>1
<1>16. Part(u, m) = Part(t, m) + d
  <2>1. \A x, y, z \in Nat : x + y + z = x + z + y
    OBVIOUS
  <2>q. QED
    BY <1>8, <1>13, <1>14, <2>1
<1>q. QED
  BY <1>4, <1>15, <1>16 DEF Differ

\* A sum is a number.
LEMMA SumNat ==
  ASSUME NEW S, NEW t \in Tallies(S)
  PROVE  TallySum(t) \in Nat
<1>1. Part(t, 0) = 0 /\ TallySum(t) = Part(t, Len(t)) /\ Len(t) \in Nat
  BY Parts, TallyFacts
<1>2. Differ(t, t, 0, 0) /\ Agree(t, t, 0, Len(t))
  BY <1>1 DEF Differ, Agree
<1>3. Differ(t, t, 0, Len(t))
  BY <1>1, <1>2, PartsDiffer
<1>q. QED
  BY <1>1, <1>3 DEF Differ

\* The sum of an empty tally.
LEMMA SumOfNone == TallySum(<< >>) = 0
<1>1. << >> \in Tallies({}) /\ Len(<< >>) = 0
  BY DEF Tallies
<1>q. QED
  BY <1>1, Parts

\* A new bucket adds its count.
LEMMA SumOfNew ==
  ASSUME NEW S, NEW t \in Tallies(S), NEW b \in [o : S, count : Nat]
  PROVE  TallySum(Append(t, b)) = TallySum(t) + b.count
<1> DEFINE u == Append(t, b)  n == Len(t)
<1>1. /\ u \in Tallies(S) /\ n \in Nat /\ Len(u) = n + 1 /\ u[n + 1] = b
      /\ \A i \in 1 .. n : u[i] = t[i]
  BY DEF Tallies
<1> HIDE DEF u
<1>2. Part(t, 0) = 0 /\ Part(u, 0) = 0 /\ TallySum(t) = Part(t, n) /\ TallySum(u) = Part(u, n + 1)
  BY <1>1, Parts
<1>3. Agree(t, u, 0, n) /\ Differ(t, u, 0, 0) /\ 0 <= n /\ n <= Len(t) /\ n <= Len(u)
  BY <1>1, <1>2 DEF Agree, Differ
<1>4. Part(t, n) \in Nat /\ Part(u, n) = Part(t, n) + 0
  <2> HIDE DEF n
  <2>1. Differ(t, u, 0, n)
    BY <1>1, <1>3, PartsDiffer
  <2>q. QED
    BY <2>1 DEF Differ
<1>5. Part(u, n + 1) = Part(u, n) + u[n + 1].count
  <2>1. n \in 0 .. Len(u) - 1
    BY <1>1
  <2>q. QED
    BY <1>1, <2>1, Parts
<1>q. QED
  BY <1>1, <1>2, <1>4, <1>5 DEF u

\* A bucket that counts one more adds one.
LEMMA SumOfOneMore ==
  ASSUME NEW S, NEW t \in Tallies(S), NEW k \in DOMAIN t
  PROVE  TallySum([t EXCEPT ![k].count = @ + 1]) = TallySum(t) + 1
<1> DEFINE u == [t EXCEPT ![k].count = @ + 1]  n == Len(t)
<1>1. /\ n \in Nat /\ k \in 1 .. n /\ DOMAIN t = 1 .. n
      /\ t[k] \in [o : S, count : Nat] /\ t[k].count \in Nat
  BY TallyFacts
<1>2. PICK c \in Nat : c = t[k].count
  BY <1>1
<1>3. /\ u \in Tallies(S) /\ Len(u) = n /\ u[k].count = c + 1
      /\ \A i \in 1 .. n : i # k => u[i] = t[i]
  BY <1>1, <1>2 DEF Tallies
<1> HIDE DEF u
<1>4. Part(t, 0) = 0 /\ Part(u, 0) = 0 /\ TallySum(t) = Part(t, n) /\ TallySum(u) = Part(u, n)
  BY <1>3, Parts
<1>5. PICK j \in Nat : j = k - 1
  BY <1>1
<1>6. /\ 0 <= j /\ j <= n /\ j + 1 = k /\ k <= n /\ j \in 0 .. n - 1
      /\ Agree(t, u, 0, j) /\ Agree(t, u, k, n)
  BY <1>1, <1>3, <1>5, SMTT(30) DEF Agree
<1> HIDE DEF n
<1>7. Part(t, j) \in Nat /\ Part(u, j) = Part(t, j) + 0
  <2>1. Differ(t, u, 0, 0) /\ j <= Len(t) /\ j <= Len(u)
    BY <1>3, <1>4, <1>6 DEF n, Differ
  <2>2. Differ(t, u, 0, j)
    BY <1>3, <1>6, <2>1, PartsDiffer
  <2>q. QED
    BY <2>2 DEF Differ
<1>8. Part(t, j + 1) = Part(t, j) + t[j + 1].count
  <2>1. j \in 0 .. Len(t) - 1
    BY <1>6 DEF n
  <2>q. QED
    BY <2>1, Parts
<1>9. Part(u, j + 1) = Part(u, j) + u[j + 1].count
  <2>1. j \in 0 .. Len(u) - 1
    BY <1>3, <1>6
  <2>q. QED
    BY <1>3, <2>1, Parts
<1>10. Part(t, k) \in Nat /\ Part(u, k) = Part(t, k) + 1
  BY <1>2, <1>3, <1>6, <1>7, <1>8, <1>9, SMTT(30)
<1>11. Part(u, n) = Part(t, n) + 1
  <2>1. k \in Nat /\ n <= Len(t) /\ n <= Len(u) /\ Differ(t, u, 1, k)
    BY <1>1, <1>3, <1>10 DEF n, Differ
  <2>2. Differ(t, u, 1, n)
    BY <1>1, <1>3, <1>6, <2>1, PartsDiffer
  <2>q. QED
    BY <2>2 DEF Differ
<1>q. QED
  BY <1>4, <1>11 DEF u

-----------------------------------------------------------------------------
\* The invariant: types, the loops of the parent, the child, its output, the
\* tally, and the properties themselves.
Chunk == Message \union {"noise"}
Types ==
  /\ bug \in 1 .. NBugs + 1
  /\ shared \in [stage : Stage, fault : Fault \union {NoFault}]
  /\ err \in Seq(Chunk) /\ pipe \in Seq(Chunk)
  /\ Len(err) <= StderrMax /\ Len(pipe) <= PipeCap
  /\ child \in {"none", "runs", "handler", "aborts", "loops", "ended"}
  /\ at \in Stage /\ said \in 0 .. Noise /\ message \in Message \union {"none"}
  /\ truth.fault \in Fault \union {NoFault} /\ truth.stage \in Stage

\* The loops of main and run_bug.
Counting ==
  /\ parent \in {"start", "read", "drain", "wait", "print", "done", "failed"}
  /\ run \in 0 .. Runs /\ run = Len(seen)
  /\ parent \in {"start", "read", "drain", "wait"} => run < Runs
  /\ parent # "done" => bug <= NBugs

\* What happened to the child, and what the kernel says of its end.
Is(event, what, f) == truth = [event |-> event, what |-> what, fault |-> f, stage |-> at]
Gave(what) == status = [how |-> "exited", what |-> what]
Died(signal) == status = [how |-> "signaled", what |-> signal]

\* How a child can have ended, and what the kernel and the shared state say.
Ends ==
  \/ \E obs \in Obs : Is("returned", obs, NoFault) /\ Gave(obs)
  \/ \E f \in Fault : Is("faulted", "none", f) /\ Gave("trapped") /\ shared.fault = f
  \/ Is("aborted", message, NoFault) /\ Died("ABRT")
  \/ Is("looped", "none", NoFault) /\ Died("ALRM")
  \/ Is("quit", "other", NoFault) /\ Gave("other")
  \/ Is("killed", "KILL", NoFault) /\ Died("KILL")

\* The child goes its way while the parent reads and drains.
Kid ==
  /\ child = "none" <=> parent \in {"start", "print", "done", "failed"}
  /\ parent = "wait" => child = "ended"
  /\ child # "none" => shared.stage = at
  /\ child \in {"runs", "handler", "aborts", "loops"} => status = NoStatus
  /\ child = "runs" => message = "none"
  /\ child = "handler" => \E f \in Fault : Is("faulted", "none", f)
  /\ child = "aborts" => Is("aborted", message, NoFault)
  /\ child = "loops" => Is("looped", "none", NoFault)
  /\ child = "ended" => Ends

\* What the child has printed: noise, and then its message.
Told == IF Died("ABRT") /\ message # "none" THEN 1 ELSE 0
Text(i) == IF i <= said THEN "noise" ELSE message
Printing ==
  /\ child # "none" =>
       /\ Len(err) <= said + Told
       /\ \A i \in 1 .. Len(err) : err[i] = Text(i)
  /\ parent = "read" =>
       /\ Len(err) + Len(pipe) = said + Told
       /\ \A i \in 1 .. Len(pipe) : pipe[i] = Text(Len(err) + i)
  /\ parent = "drain" => Len(err) = StderrMax
  /\ parent = "wait" => Len(err) = StderrMax \/ Len(err) = said + Told

\* The buckets of outcomes that were seen.
Seen == {seen[r] : r \in DOMAIN seen}
Rows ==
  /\ tally \in Tallies(Seen) /\ Len(tally) <= MaxDistinct
  /\ seen \in Seq(Seen)
  /\ TallySum(tally) = Len(seen)
  /\ \A k \in DOMAIN tally : tally[k].count >= 1 /\ tally[k].count <= Len(seen)
  /\ \A j, k \in DOMAIN tally : tally[j].o = tally[k].o => j = k
  /\ \A k \in DOMAIN tally :
       k < MaxDistinct => tally[k].count = Times(tally[k].o)
  /\ Len(tally) < MaxDistinct => \A r \in DOMAIN seen : Equal(seen[r]) # {}

IInv == Types /\ Counting /\ Kid /\ Printing /\ Rows /\ ReportsTheEnd /\ NamesTheCheck
-----------------------------------------------------------------------------
\* The constants are numbers, and the limits are at least 1.
LEMMA Bounds ==
  /\ NBugs \in Nat /\ Runs \in Nat /\ MaxDistinct \in Nat /\ StderrMax \in Nat
  /\ PipeCap \in Nat /\ Noise \in Nat
  /\ NBugs >= 1 /\ Runs >= 1 /\ MaxDistinct >= 1 /\ StderrMax >= 1
BY RunnerAssumption

\* The invariant holds before the first child is forked.
LEMMA Starts == Init => IInv
<1> SUFFICES ASSUME Init PROVE IInv
  OBVIOUS
<1>1. tally = << >> /\ seen = << >> /\ parent = "start" /\ child = "none"
  BY DEF Init
<1>2. Types
  BY Bounds DEF Init, Types, Cleared, Stage, NoTruth, STAGE_SETUP, STAGE_CLEANUP
<1>3. Counting
  BY <1>1, Bounds DEF Init, Counting
<1>4. Kid
  BY <1>1 DEF Kid
<1>5. Printing
  BY <1>1 DEF Printing
<1>6. Rows
  <2>1. /\ \A S : << >> \in Tallies(S) /\ << >> \in Seq(S)
        /\ DOMAIN tally = {} /\ DOMAIN seen = {}
    BY <1>1 DEF Tallies
  <2>q. QED
    BY <1>1, <2>1, SumOfNone, Bounds DEF Rows
<1>7. ReportsTheEnd /\ NamesTheCheck
  BY <1>1 DEF ReportsTheEnd, NamesTheCheck
<1>q. QED
  BY <1>2, <1>3, <1>4, <1>5, <1>6, <1>7 DEF IInv

\* The rows depend on the tally and the outcomes alone.
LEMMA RowsStay ==
  ASSUME Rows, UNCHANGED <<tally, seen>>
  PROVE  Rows'
BY DEF Rows, Times, Equal, Seen

\* A step of the child keeps the types.
LEMMA ChildTypes ==
  ASSUME Types, Kid, Child
  PROVE  Types'
<1> USE DEF Types, own
<1>1. CASE NextStage
  BY <1>1 DEF NextStage, counts, Stage, STAGE_SETUP, STAGE_CLEANUP
<1>2. CASE Returns
  BY <1>2 DEF Returns, counts, Happens
<1>3. CASE Prints
  <2>1. "noise" \in Chunk
    BY DEF Chunk
  <2>2. pipe' \in Seq(Chunk) /\ Len(pipe') <= PipeCap
    BY <1>3, <2>1, Bounds DEF Prints, Output
  <2>3. said' \in 0 .. Noise
    BY <1>3, Bounds DEF Prints
  <2>q. QED
    BY <1>3, <2>2, <2>3 DEF Prints, counts
<1>4. CASE Faults
  BY <1>4 DEF Faults, Happens, counts
<1>5. CASE HandlerExits
  BY <1>5 DEF HandlerExits, counts
<1>6. CASE Aborts
  BY <1>6 DEF Aborts, Happens, counts
<1>7. CASE PrintsMessage
  <2>1. message \in Chunk
    BY <1>7 DEF PrintsMessage, Chunk
  <2>2. pipe' \in Seq(Chunk) /\ Len(pipe') <= PipeCap
    BY <1>7, <2>1, Bounds DEF PrintsMessage, Output
  <2>q. QED
    BY <1>7, <2>2 DEF PrintsMessage, counts, Killed
<1>8. CASE AbortsSilently
  BY <1>8 DEF AbortsSilently, Killed, counts
<1>9. CASE Loops
  BY <1>9 DEF Loops, Happens, counts
<1>10. CASE Quits
  BY <1>10 DEF Quits, Happens, counts
<1>11. CASE IsKilled
  BY <1>11 DEF IsKilled, Happens, Killed, counts
<1>12. CASE Alarm
  BY <1>12 DEF Alarm, Killed, counts
<1>q. QED
  BY <1>1, <1>2, <1>3, <1>4, <1>5, <1>6, <1>7, <1>8, <1>9, <1>10, <1>11, <1>12 DEF Child

\* A step of the child leaves behind what the kernel will say of its end; the
\* alarm strikes only children that loop, as the parent reads until the pipe is
\* closed.
LEMMA ChildKid ==
  ASSUME Types, Kid, Child
  PROVE  Kid' /\ child # "none" /\ child # "ended" /\ child' # "none"
<1> USE DEF own
<1>1. CASE NextStage
  <2>1. shared'.stage = at' /\ child' = "runs" /\ UNCHANGED <<parent, status, message>>
    BY <1>1 DEF NextStage, Types
  <2>q. QED
    BY <1>1, <2>1 DEF NextStage, Kid
<1>2. CASE Returns
  <2>1. Ends'
    BY <1>2 DEF Returns, Happens, Ends, Is, Gave
  <2>q. QED
    BY <1>2, <2>1 DEF Returns, Kid
<1>3. CASE Prints
  BY <1>3 DEF Prints, Kid
<1>4. CASE Faults
  BY <1>4 DEF Faults, Wrong, Happens, Kid, Is
<1>5. CASE HandlerExits
  <2>1. PICK f \in Fault : Is("faulted", "none", f)
    BY <1>5 DEF HandlerExits, Kid
  <2>2. /\ shared'.fault = f /\ shared'.stage = shared.stage
        /\ Is("faulted", "none", f)' /\ Gave("trapped")'
    BY <1>5, <2>1 DEF HandlerExits, Types, Is, Gave
  <2>3. Ends'
    BY <2>2 DEF Ends
  <2>q. QED
    BY <1>5, <2>2, <2>3 DEF HandlerExits, Kid
<1>6. CASE Aborts
  BY <1>6 DEF Aborts, Wrong, Happens, Kid, Is
<1>7. CASE PrintsMessage
  <2>1. Ends'
    BY <1>7 DEF PrintsMessage, Killed, Kid, Ends, Is, Died
  <2>q. QED
    BY <1>7, <2>1 DEF PrintsMessage, Killed, Kid
<1>8. CASE AbortsSilently
  <2>1. Ends'
    BY <1>8 DEF AbortsSilently, Killed, Kid, Ends, Is, Died
  <2>q. QED
    BY <1>8, <2>1 DEF AbortsSilently, Killed, Kid
<1>9. CASE Loops
  BY <1>9 DEF Loops, Wrong, Happens, Kid, Is
<1>10. CASE Quits
  <2>1. Ends'
    BY <1>10 DEF Quits, Happens, Ends, Is, Gave
  <2>q. QED
    BY <1>10, <2>1 DEF Quits, Wrong, Kid
<1>11. CASE IsKilled
  <2>1. Ends'
    BY <1>11 DEF IsKilled, Killed, Happens, Ends, Is, Died
  <2>q. QED
    BY <1>11, <2>1 DEF IsKilled, Wrong, Killed, Kid
<1>12. CASE Alarm
  <2>1. child = "loops"
    BY <1>12 DEF Alarm, Stuck, Kid
  <2>2. Ends'
    BY <1>12, <2>1 DEF Alarm, Killed, Kid, Ends, Is, Died
  <2>q. QED
    BY <1>12, <2>1, <2>2 DEF Alarm, Killed, Kid
<1>q. QED
  BY <1>1, <1>2, <1>3, <1>4, <1>5, <1>6, <1>7, <1>8, <1>9, <1>10, <1>11, <1>12 DEF Child

\* A chunk that the child prints is behind all it has printed.
LEMMA ChildPrinting ==
  ASSUME Types, Kid, Printing, Child
  PROVE  Printing'
<1>0. /\ said \in Nat /\ Told \in {0, 1} /\ Len(err) \in Nat /\ Len(pipe) \in Nat
      /\ child # "none" /\ parent # "wait"
  BY ChildKid, Bounds DEF Types, Told, Kid
<1>a. PICK w \in Nat, e \in Nat, p \in Nat :
        w = said + Told /\ e = Len(err) /\ p = Len(pipe)
  <2>1. Told \in Nat
    BY <1>0
  <2>2. said + Told \in Nat
    BY <1>0, <2>1
  <2>q. QED
    BY <1>0, <2>2
<1> DEFINE Says(n) ==
      /\ UNCHANGED <<parent, err>>
      /\ said' + Told' = w + n
      /\ \A i \in 1 .. w : Text(i)' = Text(i)
<1>b. /\ e <= w /\ \A i \in 1 .. e : err[i] = Text(i)
      /\ parent = "read" => e + p = w /\ \A i \in 1 .. p : pipe[i] = Text(e + i)
      /\ parent = "drain" => e = StderrMax
  BY <1>0, <1>a DEF Printing
<1>c. ASSUME Says(0) \/ Says(1) PROVE /\ Len(err') = e /\ e <= said' + Told'
                                      /\ \A i \in 1 .. e : err'[i] = Text(i)'
                                      /\ parent' = parent
  BY <1>a, <1>b, <1>c
<1>1. ASSUME Says(0), UNCHANGED pipe
      PROVE  Printing'
  <2>1. ASSUME parent = "read"
        PROVE  /\ Len(pipe') = p /\ e + p = said' + Told'
               /\ \A i \in 1 .. p : pipe'[i] = Text(e + i)'
    <3>1. ASSUME NEW i \in 1 .. p PROVE pipe'[i] = Text(e + i)'
      <4>1. e + i \in 1 .. w
        BY <1>b, <2>1
      <4>q. QED
        BY <1>1, <1>b, <2>1, <4>1
    <3>q. QED
      BY <1>1, <1>a, <1>b, <2>1, <3>1
  <2>q. QED
    BY <1>0, <1>1, <1>a, <1>b, <1>c, <2>1 DEF Printing
<1>2. ASSUME Says(1), NEW c, c = Text(w + 1)', pipe' = Append(pipe, c)
      PROVE  Printing'
  <2>1. /\ Len(pipe') = p + 1 /\ pipe'[p + 1] = c
        /\ \A i \in 1 .. p : pipe'[i] = pipe[i]
    BY <1>2, <1>a DEF Types
  <2>2. ASSUME parent = "read"
        PROVE  /\ e + (p + 1) = said' + Told'
               /\ \A i \in 1 .. p + 1 : pipe'[i] = Text(e + i)'
    <3>1. ASSUME NEW i \in 1 .. p PROVE pipe'[i] = Text(e + i)'
      <4>1. e + i \in 1 .. w
        BY <1>b, <2>2
      <4>q. QED
        BY <1>2, <1>b, <2>1, <2>2, <4>1
    <3>2. pipe'[p + 1] = Text(e + (p + 1))'
      <4>1. e + (p + 1) = w + 1
        BY <1>b, <2>2
      <4>q. QED
        BY <1>2, <2>1, <4>1
    <3>3. \A i \in 1 .. p + 1 : i \in 1 .. p \/ i = p + 1
      OBVIOUS
    <3>4. e + (p + 1) = said' + Told'
      BY <1>2, <1>b, <2>2
    <3>q. QED
      BY <3>1, <3>2, <3>3, <3>4
  <2>q. QED
    BY <1>0, <1>2, <1>b, <1>c, <2>1, <2>2 DEF Printing
<1>3. CASE NextStage \/ Returns \/ Faults \/ Loops \/ Quits \/ IsKilled
  <2>1. child = "runs" /\ status = NoStatus
    BY <1>3 DEF NextStage, Returns, Faults, Loops, Quits, IsKilled, Wrong, Kid
  <2>2. Told = 0 /\ Told' = 0
    BY <1>3, <2>1 DEF NextStage, Returns, Faults, Loops, Quits, IsKilled, Killed, Told, Died,
      NoStatus, Kid, own
  <2>3. UNCHANGED <<parent, err, pipe, said, message>>
    BY <1>3 DEF NextStage, Returns, Faults, Loops, Quits, IsKilled, own
  <2>4. Says(0)
    BY <1>0, <1>a, <2>2, <2>3 DEF Text
  <2>q. QED
    BY <1>1, <2>3, <2>4
<1>4. CASE HandlerExits \/ Aborts \/ Alarm \/ AbortsSilently
  <2>1. Told = 0 /\ status = NoStatus
    BY <1>4 DEF HandlerExits, Aborts, Alarm, AbortsSilently, Stuck, Wrong, Kid, Told, Died, NoStatus
  <2>2. Told' = 0
    <3>1. CASE HandlerExits
      BY <3>1 DEF HandlerExits, Told, Died
    <3>2. CASE Aborts
      BY <2>1, <3>2 DEF Aborts, Told, Died, NoStatus
    <3>3. CASE Alarm
      BY <3>3 DEF Alarm, Killed, Told, Died
    <3>4. CASE AbortsSilently
      BY <3>4 DEF AbortsSilently, Told, own
    <3>q. QED
      BY <1>4, <3>1, <3>2, <3>3, <3>4
  <2>3. UNCHANGED <<parent, err, pipe, said>>
    BY <1>4 DEF HandlerExits, Aborts, Alarm, AbortsSilently, own
  <2>4. \A i \in 1 .. w : Text(i) = "noise" /\ Text(i)' = "noise"
    BY <1>0, <1>a, <2>1, <2>3 DEF Text
  <2>5. Says(0)
    BY <1>0, <1>a, <2>1, <2>2, <2>3, <2>4
  <2>q. QED
    BY <1>1, <2>3, <2>5
<1>5. CASE Prints
  <2>1. child = "runs" /\ status = NoStatus /\ message = "none"
    BY <1>5 DEF Prints, Kid
  <2>2. /\ pipe' = Append(pipe, "noise") /\ said' = said + 1
        /\ UNCHANGED <<parent, err, status, message>>
    BY <1>5 DEF Prints, Output
  <2>3. Told = 0 /\ Told' = 0
    BY <2>1, <2>2 DEF Told
  <2>4. \A i \in 1 .. w : Text(i) = "noise" /\ Text(i)' = "noise"
    BY <1>0, <1>a, <2>2, <2>3 DEF Text
  <2>5. Text(w + 1)' = "noise"
    BY <1>0, <1>a, <2>2, <2>3 DEF Text
  <2>6. Says(1)
    BY <1>0, <1>a, <2>2, <2>3, <2>4
  <2>q. QED
    BY <1>2, <2>2, <2>5, <2>6
<1>6. CASE PrintsMessage
  <2>1. status = NoStatus /\ message # "none"
    BY <1>6 DEF PrintsMessage, Kid
  <2>2. /\ pipe' = Append(pipe, message) /\ Died("ABRT")'
        /\ UNCHANGED <<parent, err, said, message>>
    BY <1>6 DEF PrintsMessage, Output, Killed, Died, own
  <2>3. Told = 0 /\ Told' = 1
    BY <2>1, <2>2 DEF Told, Died, NoStatus
  <2>4. \A i \in 1 .. w : Text(i) = "noise" /\ Text(i)' = "noise"
    BY <1>0, <1>a, <2>2, <2>3 DEF Text
  <2>5. PICK c : c = message
    OBVIOUS
  <2>6. Text(w + 1)' = c
    BY <1>0, <1>a, <2>2, <2>3, <2>5 DEF Text
  <2>7. Says(1)
    BY <1>0, <1>a, <2>2, <2>3, <2>4
  <2>q. QED
    BY <1>2, <2>2, <2>5, <2>6, <2>7
<1>q. QED
  BY <1>3, <1>4, <1>5, <1>6 DEF Child

\* A step of the child keeps the invariant.
LEMMA ChildStep ==
  ASSUME IInv, Child
  PROVE  IInv'
<1>1. UNCHANGED <<parent, bug, run, tally, seen>>
  BY DEF Child, NextStage, Returns, Prints, Faults, HandlerExits, Aborts, PrintsMessage,
    AbortsSilently, Loops, Quits, IsKilled, Alarm, counts
<1>2. Types' /\ Kid' /\ Printing' /\ child' # "none"
  BY ChildTypes, ChildKid, ChildPrinting DEF IInv
<1>3. Counting' /\ Rows'
  BY <1>1, RowsStay DEF IInv, Counting
<1>4. ReportsTheEnd' /\ NamesTheCheck'
  BY <1>2 DEF ReportsTheEnd, NamesTheCheck
<1>q. QED
  BY <1>2, <1>3, <1>4 DEF IInv
-----------------------------------------------------------------------------
\* A new child begins with a cleared state and an empty pipe.
LEMMA ForkStep ==
  ASSUME IInv, Fork \/ ForkFails
  PROVE  IInv'
<1>0. Types /\ Counting /\ Kid /\ Printing /\ Rows /\ ReportsTheEnd /\ NamesTheCheck
  BY DEF IInv
<1>1. CASE Fork
  <2>1. UNCHANGED <<bug, run, tally, seen>>
    BY <1>1 DEF Fork, counts
  <2>2. /\ << >> \in Seq(Chunk) /\ Len(<< >>) = 0
        /\ Cleared \in [stage : Stage, fault : Fault \union {NoFault}]
        /\ NoTruth.fault = NoFault /\ NoTruth.stage \in Stage /\ STAGE_SETUP \in Stage
        /\ 0 \in 0 .. Noise /\ Cleared.stage = STAGE_SETUP
    BY Bounds DEF Cleared, NoTruth, Stage, STAGE_SETUP, STAGE_CLEANUP
  <2>3. Types'
    BY <1>0, <1>1, <2>1, <2>2, Bounds DEF Fork, ClearedState, Types
  <2>4. Counting' /\ Rows'
    BY <1>0, <1>1, <2>1, RowsStay DEF Fork, Counting
  <2>5. Kid'
    BY <1>1, <2>2 DEF Fork, Kid, ClearedState
  <2>6. Printing'
    <3>1. Told' = 0
      BY <1>1 DEF Fork, Told
    <3>q. QED
      BY <1>1, <3>1 DEF Fork, Printing
  <2>7. ReportsTheEnd' /\ NamesTheCheck'
    BY <1>1 DEF Fork, ReportsTheEnd, NamesTheCheck
  <2>q. QED
    BY <2>3, <2>4, <2>5, <2>6, <2>7 DEF IInv
<1>2. CASE ForkFails
  <2>1. /\ UNCHANGED <<bug, run, tally, seen, err, shared, pipe, child, at, said, message,
                       status, truth>>
        /\ parent = "start" /\ parent' = "failed"
    BY <1>2 DEF ForkFails, counts, kids, own
  <2>2. Types'
    BY <1>0, <2>1 DEF Types
  <2>3. Counting' /\ Rows'
    BY <1>0, <2>1, RowsStay DEF Counting
  <2>4. Kid' /\ Printing'
    BY <1>0, <2>1 DEF Kid, Printing
  <2>5. ReportsTheEnd' /\ NamesTheCheck'
    BY <1>0, <2>1 DEF ReportsTheEnd, NamesTheCheck
  <2>q. QED
    BY <2>2, <2>3, <2>4, <2>5 DEF IInv
<1>q. QED
  BY <1>1, <1>2

\* What the parent reads moves from the pipe to its buffer.
LEMMA ReadStep ==
  ASSUME IInv, Read
  PROVE  IInv'
<1>0. Types /\ Counting /\ Kid /\ Printing /\ Rows
  BY DEF IInv
<1>1. /\ UNCHANGED <<bug, run, tally, seen, shared, child, at, said, message, status, truth>>
      /\ parent = "read" /\ parent' \in {"read", "drain"} /\ child # "none"
      /\ parent' = "drain" => Len(err') = StderrMax
  BY <1>0 DEF Read, counts, own, Kid
<1>a. PICK n \in Nat, e \in Nat : n = Taken /\ e = Len(err)
  BY <1>0, Bounds DEF Taken, Types
<1>2. n <= Len(pipe) /\ n <= StderrMax - e /\ e = Len(err) /\ Len(pipe) \in Nat
  BY <1>0, <1>a, Bounds DEF Taken, Types
<1>3. /\ SubSeq(pipe, 1, n) \in Seq(Chunk) /\ Len(SubSeq(pipe, 1, n)) = n
      /\ \A i \in 1 .. n : SubSeq(pipe, 1, n)[i] = pipe[i]
      /\ SubSeq(pipe, n + 1, Len(pipe)) \in Seq(Chunk)
      /\ Len(SubSeq(pipe, n + 1, Len(pipe))) = Len(pipe) - n
      /\ \A i \in 1 .. Len(pipe) - n : SubSeq(pipe, n + 1, Len(pipe))[i] = pipe[n + i]
  BY <1>0, <1>2 DEF Types
<1>4. err' = err \o SubSeq(pipe, 1, n) /\ pipe' = SubSeq(pipe, n + 1, Len(pipe))
  BY <1>a DEF Read
<1>5. /\ err' \in Seq(Chunk) /\ Len(err') = e + n
      /\ \A i \in 1 .. e : err'[i] = err[i]
      /\ \A i \in e + 1 .. e + n : err'[i] = pipe[i - e]
  BY <1>0, <1>2, <1>3, <1>4 DEF Types
<1>6. /\ pipe' \in Seq(Chunk) /\ Len(pipe') = Len(pipe) - n
      /\ \A i \in 1 .. Len(pipe') : pipe'[i] = pipe[n + i]
  BY <1>3, <1>4
<1>7. Types'
  BY <1>0, <1>1, <1>2, <1>5, <1>6, Bounds DEF Types
<1>8. Counting' /\ Rows'
  BY <1>0, <1>1, RowsStay DEF Counting
<1>9. Kid'
  BY <1>0, <1>1 DEF Kid, Ends, Is, Gave, Died
<1>10. Printing'
  <2>0. said \in Nat /\ Told \in {0, 1}
    BY <1>0, Bounds DEF Types, Told
  <2>1. /\ e + Len(pipe) = said + Told
        /\ \A i \in 1 .. e : err[i] = Text(i)
        /\ \A i \in 1 .. Len(pipe) : pipe[i] = Text(e + i)
    BY <1>0, <1>1, <1>2 DEF Printing
  <2>2. Told' = Told /\ said' = said /\ \A i : Text(i)' = Text(i)
    BY <1>1 DEF Told, Died, Text
  <2>3. Len(err') <= said' + Told' /\ Len(err') + Len(pipe') = said' + Told'
    <3>1. PICK p \in Nat : p = Len(pipe)
      BY <1>2
    <3>2. said' + Told' = e + p
      BY <2>1, <2>2, <3>1
    <3>3. Len(err') = e + n /\ Len(pipe') = p - n /\ n <= p
      BY <1>2, <1>5, <1>6, <3>1
    <3>4. e + n <= e + p /\ e + n + (p - n) = e + p
      BY <3>3
    <3>q. QED
      BY <3>2, <3>3, <3>4
  <2>4. ASSUME NEW i \in 1 .. Len(err') PROVE err'[i] = Text(i)'
    <3>1. CASE i <= e
      BY <1>2, <1>5, <2>1, <2>2, <3>1
    <3>2. CASE i > e
      <4>1. i - e \in 1 .. Len(pipe) /\ e + (i - e) = i
            /\ i \in e + 1 .. e + n
        BY <1>2, <1>5, <3>2
      <4>2. pipe[i - e] = Text(e + (i - e))
        BY <2>1, <4>1
      <4>q. QED
        BY <1>5, <2>2, <4>1, <4>2
    <3>q. QED
      BY <1>2, <1>5, <3>1, <3>2
  <2>5. ASSUME NEW i \in 1 .. Len(pipe') PROVE pipe'[i] = Text(e + n + i)'
    <3>1. n + i \in 1 .. Len(pipe) /\ e + (n + i) = e + n + i
      BY <1>2, <1>5, <1>6
    <3>2. pipe[n + i] = Text(e + (n + i))
      BY <2>1, <3>1
    <3>q. QED
      BY <1>6, <2>2, <3>1, <3>2
  <2>q. QED
    BY <1>1, <1>5, <2>3, <2>4, <2>5 DEF Printing
<1>11. ReportsTheEnd' /\ NamesTheCheck'
  BY <1>1 DEF ReportsTheEnd, NamesTheCheck
<1>q. QED
  BY <1>7, <1>8, <1>9, <1>10, <1>11 DEF IInv

\* What does not fit is thrown away; the parent stops when the child has ended.
LEMMA DrainStep ==
  ASSUME IInv, Drain \/ EndOfFile
  PROVE  IInv'
<1>0. Types /\ Counting /\ Kid /\ Printing /\ Rows
  BY DEF IInv
<1>1. /\ UNCHANGED <<bug, run, tally, seen, shared, err, child, at, said, message, status, truth>>
      /\ parent \in {"read", "drain"} /\ parent' \in {"drain", "wait"} /\ child # "none"
      /\ parent' = "drain" => parent = "drain"
      /\ parent' = "wait" => child = "ended" /\ pipe = << >>
      /\ pipe' \in {pipe, << >>}
  BY <1>0 DEF Drain, EndOfFile, Closed, counts, kids, own, Kid
<1>2. Types'
  <2>1. << >> \in Seq(Chunk) /\ Len(<< >>) <= PipeCap
    BY Bounds
  <2>q. QED
    BY <1>0, <1>1, <2>1 DEF Types
<1>3. Counting' /\ Rows'
  BY <1>0, <1>1, RowsStay DEF Counting
<1>4. Kid'
  BY <1>0, <1>1 DEF Kid, Ends, Is, Gave, Died
<1>5. Printing'
  <2>1. Told' = Told /\ said' = said /\ \A i : Text(i)' = Text(i)
    BY <1>1 DEF Told, Died, Text
  <2>2. Told \in Nat /\ said \in Nat /\ Len(err) \in Nat
    BY <1>0, Bounds DEF Types, Told
  <2>3. parent = "read" /\ parent' = "wait" => Len(err) = said + Told
    <3>1. Len(<< >>) = 0
      OBVIOUS
    <3>q. QED
      BY <1>0, <1>1, <2>2, <3>1 DEF Printing
  <2>q. QED
    BY <1>0, <1>1, <2>1, <2>3 DEF Printing
<1>6. ReportsTheEnd' /\ NamesTheCheck'
  BY <1>1 DEF ReportsTheEnd, NamesTheCheck
<1>q. QED
  BY <1>2, <1>3, <1>4, <1>5, <1>6 DEF IInv
-----------------------------------------------------------------------------
\* One more run with the outcome o.
LEMMA OneTimeMore ==
  ASSUME NEW S, seen \in Seq(S), NEW o, seen' = Append(seen, o), NEW x
  PROVE  /\ Times(x) \in Nat
         /\ Times(x)' = IF x = o THEN Times(x) + 1 ELSE Times(x)
<1> DEFINE n == Len(seen)  R == {r \in DOMAIN seen : seen[r] = x}
<1>1. /\ n \in Nat /\ DOMAIN seen = 1 .. n /\ DOMAIN seen' = 1 .. n + 1
      /\ seen'[n + 1] = o /\ \A r \in 1 .. n : seen'[r] = seen[r]
  OBVIOUS
<1>2. IsFiniteSet(1 .. n)
  BY <1>1, FS_Interval
<1>3. IsFiniteSet(R)
  BY <1>1, <1>2, FS_Subset
<1>4. Cardinality(R) \in Nat /\ Cardinality(R \union {n + 1}) = Cardinality(R) + 1
  <2>1. n + 1 \notin R
    BY <1>1
  <2>q. QED
    BY <1>3, <2>1, FS_CardinalityType, FS_AddElement
<1>5. {r \in DOMAIN seen' : seen'[r] = x} = IF x = o THEN R \union {n + 1} ELSE R
  <2>1. \A r : r \in DOMAIN seen' <=> r \in DOMAIN seen \/ r = n + 1
    BY <1>1
  <2>q. QED
    BY <1>1, <2>1
<1>q. QED
  BY <1>4, <1>5 DEF Times

\* The count in run_bug.
LEMMA CountStep ==
  ASSUME Rows, NEW o, tally' = Counted(o), seen' = Append(seen, o)
  PROVE  Rows'
<1> DEFINE n == Len(tally)
<1>0. PICK S : tally \in Tallies(S) /\ seen \in Seq(S) /\ seen' \in Seq(S) /\ S = Seen' /\ o \in S
  <2>1. PICK A : A = Seen
    OBVIOUS
  <2> DEFINE S == A \union {o}
  <2>2. tally \in Tallies(A) /\ seen \in Seq(A)
    BY <2>1 DEF Rows
  <2>3. tally \in Tallies(S)
    <3> DEFINE B == [o : A, count : Nat]  C == [o : S, count : Nat]
    <3>1. \A b \in B : b \in C
      OBVIOUS
    <3>2. tally \in Seq(B)
      BY <2>2 DEF Tallies
    <3> HIDE DEF B, C
    <3>3. tally \in Seq(C)
      BY <3>1, <3>2
    <3>q. QED
      BY <3>3 DEF C, Tallies
  <2>4. seen \in Seq(S) /\ seen' \in Seq(S)
    BY <2>2
  <2>5. Seen' = S
    <3>1. /\ DOMAIN seen' = DOMAIN seen \union {Len(seen) + 1} /\ seen'[Len(seen) + 1] = o
          /\ \A r \in DOMAIN seen : seen'[r] = seen[r]
      BY <2>2
    <3>q. QED
      BY <2>1, <3>1 DEF Seen
  <2>q. QED
    BY <2>3, <2>4, <2>5
<1>1. /\ tally \in Tallies(S) /\ seen \in Seq(S)
      /\ n \in Nat /\ n <= MaxDistinct /\ DOMAIN tally = 1 .. n
      /\ Len(seen) \in Nat /\ Len(seen') = Len(seen) + 1 /\ seen' \in Seq(S)
      /\ MaxDistinct \in Nat /\ MaxDistinct >= 1
      /\ DOMAIN seen' = DOMAIN seen \union {Len(seen) + 1} /\ seen'[Len(seen) + 1] = o
      /\ \A r \in DOMAIN seen : seen'[r] = seen[r]
  BY <1>0, TallyFacts, Bounds DEF Rows
<1>2. \A x : Times(x) \in Nat /\ Times(x)' = IF x = o THEN Times(x) + 1 ELSE Times(x)
  BY <1>1, OneTimeMore
<1>3. \A k \in DOMAIN tally : tally[k] \in [o : S, count : Nat] /\ tally[k].count \in Nat
  BY <1>1, TallyFacts
<1>4. /\ TallySum(tally) = Len(seen)
      /\ \A k \in DOMAIN tally : tally[k].count >= 1 /\ tally[k].count <= Len(seen)
      /\ \A j, k \in DOMAIN tally : tally[j].o = tally[k].o => j = k
      /\ \A k \in DOMAIN tally : k < MaxDistinct => tally[k].count = Times(tally[k].o)
      /\ n < MaxDistinct => \A r \in DOMAIN seen : Equal(seen[r]) # {}
  BY DEF Rows
<1> HIDE DEF n
\* One bucket counts one more.
<1>5. ASSUME NEW m \in DOMAIN tally, tally' = [tally EXCEPT ![m].count = @ + 1],
             tally[m].o = o \/ (Equal(o) = {} /\ n = MaxDistinct /\ m = MaxDistinct)
      PROVE  Rows'
  <2>1. /\ tally' \in Tallies(S) /\ Len(tally') = n /\ DOMAIN tally' = DOMAIN tally
        /\ \A k \in DOMAIN tally : tally'[k].o = tally[k].o
        /\ tally'[m].count = tally[m].count + 1
        /\ \A k \in DOMAIN tally : k # m => tally'[k] = tally[k]
    <3>1. tally' = [tally EXCEPT ![m] = [tally[m] EXCEPT !.count = @ + 1]]
      BY <1>5
    <3> DEFINE b == [tally[m] EXCEPT !.count = @ + 1]
    <3>2. b \in [o : S, count : Nat] /\ b.o = tally[m].o /\ b.count = tally[m].count + 1
      BY <1>3
    <3> HIDE DEF b
    <3>3. tally' = [tally EXCEPT ![m] = b]
      BY <3>1 DEF b
    <3>4. tally' \in Tallies(S)
      <4> DEFINE B == [o : S, count : Nat]
      <4>1. tally \in Seq(B) /\ b \in B
        BY <1>1, <3>2 DEF Tallies
      <4> HIDE DEF B
      <4>2. tally' \in Seq(B)
        BY <1>1, <3>3, <4>1
      <4>q. QED
        BY <4>2 DEF Tallies, B
    <3>5. Len(tally') = n /\ DOMAIN tally' = DOMAIN tally
      BY <1>1, <3>3 DEF n, Tallies
    <3>q. QED
      BY <1>1, <3>2, <3>3, <3>4, <3>5
  <2>2. TallySum(tally') = Len(seen')
    <3>1. TallySum([tally EXCEPT ![m].count = @ + 1]) = TallySum(tally) + 1
      BY <1>1, SumOfOneMore
    <3>q. QED
      BY <1>1, <1>4, <1>5, <3>1
  <2>3. ASSUME NEW k \in DOMAIN tally
        PROVE  tally'[k].count >= 1 /\ tally'[k].count <= Len(seen')
    <3>1. PICK c \in Nat : c = tally[k].count
      BY <1>3
    <3>2. c >= 1 /\ c <= Len(seen)
      BY <1>4, <3>1
    <3>3. tally'[k].count = c \/ tally'[k].count = c + 1
      BY <2>1, <3>1
    <3>q. QED
      BY <1>1, <3>2, <3>3
  <2>4. ASSUME NEW k \in DOMAIN tally, k < MaxDistinct
        PROVE  tally'[k].count = Times(tally[k].o)'
    <3>1. PICK x : x = tally[k].o /\ x = tally'[k].o
      BY <2>1
    <3>2. tally[k].count = Times(x) /\ Times(x)' = IF x = o THEN Times(x) + 1 ELSE Times(x)
      BY <1>2, <1>4, <2>4, <3>1
    <3>3. CASE k = m
      <4>1. x = o
        BY <1>1, <1>5, <2>4, <3>1, <3>3
      <4>q. QED
        BY <2>1, <3>1, <3>2, <3>3, <4>1
    <3>4. CASE k # m
      <4>1. x # o
        BY <1>4, <1>5, <3>1, <3>4 DEF Equal
      <4>q. QED
        BY <2>1, <3>1, <3>2, <3>4, <4>1
    <3>q. QED
      BY <3>3, <3>4
  <2>5. ASSUME n < MaxDistinct, NEW r \in DOMAIN seen'
        PROVE  \E k \in DOMAIN tally : tally'[k].o = seen'[r]
    <3>1. CASE r \in DOMAIN seen
      <4>1. Equal(seen[r]) # {}
        BY <1>4, <2>5, <3>1
      <4>q. QED
        BY <1>1, <2>1, <3>1, <4>1 DEF Equal
    <3>2. CASE r = Len(seen) + 1
      BY <1>1, <1>5, <2>1, <2>5, <3>2
    <3>q. QED
      BY <1>1, <3>1, <3>2
  <2>6. n < MaxDistinct => \A r \in DOMAIN seen' : (Equal(seen[r]) # {})'
    BY <2>1, <2>5 DEF Equal
  <2>7. \A j, k \in DOMAIN tally' : tally'[j].o = tally'[k].o => j = k
    BY <1>4, <2>1
  <2>q. QED
    BY <1>1, <2>1, <2>2, <2>3, <2>4, <2>6, <2>7, <1>0 DEF Rows
\* A new bucket.
<1>6. ASSUME Equal(o) = {}, n < MaxDistinct, tally' = Append(tally, [o |-> o, count |-> 1])
      PROVE  Rows'
  <2> DEFINE b == [o |-> o, count |-> 1]
  <2>1. /\ b \in [o : S, count : Nat] /\ b.o = o /\ b.count = 1
    BY <1>0
  <2> HIDE DEF b
  <2>2. tally' = Append(tally, b)
    BY <1>6 DEF b
  <2>3. /\ tally' \in Tallies(S) /\ Len(tally') = n + 1
        /\ DOMAIN tally' = DOMAIN tally \union {n + 1} /\ tally'[n + 1] = b
        /\ \A k \in DOMAIN tally : tally'[k] = tally[k]
    <3> DEFINE B == [o : S, count : Nat]
    <3>1. tally \in Seq(B) /\ b \in B
      BY <1>1, <2>1 DEF Tallies
    <3> HIDE DEF B
    <3>2. tally' \in Seq(B)
      BY <2>2, <3>1
    <3>3. tally' \in Tallies(S)
      BY <3>2 DEF Tallies, B
    <3>q. QED
      BY <1>1, <2>2, <3>1, <3>3 DEF n
  <2>4. TallySum(tally') = Len(seen')
    <3>1. TallySum(Append(tally, b)) = TallySum(tally) + b.count
      BY <1>1, <2>1, SumOfNew
    <3>q. QED
      BY <1>1, <1>4, <2>1, <2>2, <3>1
  <2>5. ASSUME NEW k \in DOMAIN tally' PROVE tally'[k].count >= 1 /\ tally'[k].count <= Len(seen')
    <3>1. CASE k \in DOMAIN tally
      BY <1>1, <1>3, <1>4, <2>3, <3>1
    <3>2. CASE k = n + 1
      BY <1>1, <2>1, <2>3, <3>2
    <3>q. QED
      BY <2>3, <3>1, <3>2
  <2>6. \A k \in DOMAIN tally : tally[k].o # o
    BY <1>6 DEF Equal
  <2>7. \A j, k \in DOMAIN tally' : tally'[j].o = tally'[k].o => j = k
    BY <1>4, <2>1, <2>3, <2>6
  <2>8. Times(o) = 0
    <3>1. \A r \in DOMAIN seen : seen[r] # o
      BY <1>4, <1>6
    <3>2. {r \in DOMAIN seen : seen[r] = o} = {}
      BY <3>1
    <3>q. QED
      BY <3>2, FS_EmptySet DEF Times
  <2>9. ASSUME NEW k \in DOMAIN tally', k < MaxDistinct
        PROVE  tally'[k].count = Times(tally[k].o)'
    <3>1. PICK x : x = tally'[k].o
      OBVIOUS
    <3>2. CASE k \in DOMAIN tally
      <4>1. x = tally[k].o /\ x # o /\ tally[k].count = Times(x) /\ Times(x)' = Times(x)
        BY <1>2, <1>4, <2>3, <2>6, <2>9, <3>1, <3>2
      <4>q. QED
        BY <2>3, <3>1, <3>2, <4>1
    <3>3. CASE k = n + 1
      BY <1>2, <2>1, <2>3, <2>8, <3>1, <3>3
    <3>q. QED
      BY <2>3, <3>2, <3>3
  <2>10. ASSUME NEW r \in DOMAIN seen'
         PROVE  \E k \in DOMAIN tally' : tally'[k].o = seen'[r]
    <3>1. CASE r \in DOMAIN seen
      <4>1. Equal(seen[r]) # {}
        BY <1>4, <1>6, <3>1
      <4>q. QED
        BY <1>1, <2>3, <3>1, <4>1 DEF Equal
    <3>2. CASE r = Len(seen) + 1
      BY <1>1, <2>1, <2>3, <3>2
    <3>q. QED
      BY <1>1, <3>1, <3>2
  <2>11. \A r \in DOMAIN seen' : (Equal(seen[r]) # {})'
    BY <2>10 DEF Equal
  <2>12. Len(tally') <= MaxDistinct
    BY <1>1, <1>6, <2>3
  <2>q. QED
    BY <1>1, <2>3, <2>4, <2>5, <2>7, <2>9, <2>11, <2>12, <1>0 DEF Rows
<1>7. CASE Equal(o) = {}
  <2>1. tally' = NewBucket(o)
    BY <1>7 DEF Counted
  <2>2. CASE n = MaxDistinct
    <3>1. tally' = [tally EXCEPT ![MaxDistinct].count = @ + 1] /\ MaxDistinct \in DOMAIN tally
      BY <1>1, <2>1, <2>2 DEF NewBucket, n
    <3>q. QED
      BY <1>5, <1>7, <2>2, <3>1
  <2>3. CASE n # MaxDistinct
    <3>1. n < MaxDistinct /\ tally' = Append(tally, [o |-> o, count |-> 1])
      BY <1>1, <2>1, <2>3 DEF NewBucket, n
    <3>q. QED
      BY <1>6, <1>7, <3>1
  <2>q. QED
    BY <2>2, <2>3
<1>8. CASE Equal(o) # {}
  <2>1. PICK m \in DOMAIN tally : tally[m].o = o
    BY <1>8 DEF Equal
  <2>2. Equal(o) = {m}
    BY <1>4, <2>1 DEF Equal
  <2>3. Min({m}) = m
    <3>1. m \in Nat
      BY <1>1
    <3>2. \A x \in {m} : x = m
      OBVIOUS
    <3>3. m <= m
      BY <3>1
    <3>q. QED
      BY <3>2, <3>3, Zenon DEF Min
  <2>4. tally' = [tally EXCEPT ![m].count = @ + 1]
    BY <1>8, <2>2, <2>3 DEF Counted
  <2>q. QED
    BY <1>5, <2>1, <2>4
<1>q. QED
  BY <1>7, <1>8
-----------------------------------------------------------------------------
\* What ReportsTheEnd and NamesTheCheck say of an outcome.
NameOf(m) ==
  CASE m = "none" -> "abort" [] m = "libc" -> "libc"
    [] m = "stack smashing" -> "stack_protector" [] OTHER -> "fortify_source"
Honest(o) ==
  /\ o.outcome = "hang" <=> truth.event = "looped"
  /\ o.outcome = "hw_trap" <=> truth.event = "faulted" /\ truth.fault \in HwFault
  /\ o.outcome = "silent" <=> truth.event = "returned"
  /\ truth.event = "aborted" => o.outcome = "runtime_abort"
  /\ truth.event = "killed" => o.outcome = "crash"
  /\ o.timing = IF truth.event \in {"returned", "quit"} THEN "-" ELSE TimingOf(truth.stage)
Names(o) ==
  truth.event = "aborted" =>
    o.detail = <<NameOf(IF said >= StderrMax THEN "none" ELSE truth.what)>>

\* The fields of an outcome.
LEMMA OutFacts ==
  ASSUME NEW a, NEW d, NEW c
  PROVE  LET o == Outcome(a, d, c) IN o.outcome = a /\ o.detail = d /\ o.timing = c
BY DEF Outcome

\* A child whose handler ran is reported as a hardware trap if the fault is one.
LEMMA Trap ==
  ASSUME NEW f \in Fault, NEW c
  PROVE  LET o == Trapped(f, c) IN
         /\ o.timing = c
         /\ o.outcome \in {"hw_trap", "runtime_abort", "crash"}
         /\ o.outcome = "hw_trap" <=> f \in HwFault
<1>3. f \in HwFault <=> f.sig = "SEGV" /\ (f.code = SEGV_MTEAERR \/ f.code = SEGV_MTESERR
                                            \/ f.code \in SegvCap)
  BY DEF HwFault
<1>4. /\ SEGV_MTEAERR \notin SegvCap /\ SEGV_MTESERR \notin SegvCap
      /\ SEGV_MTEAERR # SEGV_MTESERR
  BY DEF SegvCap, SEGV_MTEAERR, SEGV_MTESERR
<1>5. CASE f.sig = "SEGV" /\ f.code = SEGV_MTESERR
  <2>1. Trapped(f, c) = Outcome("hw_trap", <<"mte_sync">>, c)
    BY <1>4, <1>5 DEF Trapped
  <2>q. QED
    BY <1>3, <1>5, <2>1, OutFacts
<1>6. CASE f.sig = "SEGV" /\ f.code = SEGV_MTEAERR
  <2>1. Trapped(f, c) = Outcome("hw_trap", <<"mte_async">>, c)
    BY <1>4, <1>6 DEF Trapped
  <2>q. QED
    BY <1>3, <1>6, <2>1, OutFacts
<1>7. CASE f.sig = "SEGV" /\ f.code \in SegvCap
  <2>1. Trapped(f, c) = Outcome("hw_trap", <<"cheri", f.code>>, c)
    BY <1>4, <1>7 DEF Trapped
  <2>q. QED
    BY <1>3, <1>7, <2>1, OutFacts
<1>8. CASE f.sig \in {"ILL", "TRAP"}
  <2>1. Trapped(f, c) = Outcome("runtime_abort", <<f.sig>>, c)
    BY <1>8 DEF Trapped
  <2>q. QED
    BY <1>3, <1>8, <2>1, OutFacts
<1>9. CASE f \notin HwFault /\ f.sig \notin {"ILL", "TRAP"}
  <2>1. Trapped(f, c) = Outcome("crash", <<f.sig, f.code>>, c)
    BY <1>3, <1>9 DEF Trapped
  <2>q. QED
    BY <1>9, <2>1, OutFacts
<1>q. QED
  BY <1>3, <1>5, <1>6, <1>7, <1>8, <1>9

\* Of an aborted child the parent has heard the message, or nothing.
LEMMA Heard ==
  ASSUME IInv, parent = "wait", Is("aborted", message, NoFault), Died("ABRT")
  PROVE  \A c \in Message :
           Printed(c) <=> c = IF said >= StderrMax THEN "none" ELSE message
<1>0. /\ Len(err) \in Nat /\ DOMAIN err = 1 .. Len(err) /\ said \in Nat
      /\ Len(err) <= StderrMax /\ StderrMax \in Nat
      /\ "none" \notin Message /\ "noise" \notin Message
  <2>1. err \in Seq(Chunk) /\ said \in 0 .. Noise /\ Len(err) <= StderrMax
    BY DEF IInv, Types
  <2>2. "none" \notin Message /\ "noise" \notin Message
    BY DEF Message
  <2>3. StderrMax \in Nat /\ Noise \in Nat
    BY Bounds
  <2>q. QED
    BY <2>1, <2>2, <2>3
<1>a. Told = IF message = "none" THEN 0 ELSE 1
  BY DEF Told
<1>b. PICK w \in Nat : w = said + Told
  <2>1. Told \in Nat
    BY <1>a
  <2>2. said + Told \in Nat
    BY <1>0, <2>1
  <2>q. QED
    BY <2>2
<1>c. w = IF message = "none" THEN said ELSE said + 1
  BY <1>0, <1>a, <1>b
<1>1. /\ Len(err) <= w
      /\ \A i \in 1 .. Len(err) : err[i] = Text(i)
      /\ Len(err) = StderrMax \/ Len(err) = w
  BY <1>b DEF IInv, Kid, Printing
<1>d. /\ \A i \in 1 .. Len(err) : i <= w
      /\ Len(err) = w \/ (Len(err) = StderrMax /\ StderrMax <= w)
  <2>1. PICK e \in Nat : e = Len(err)
    BY <1>0
  <2>2. e <= w /\ w \in Nat /\ (e = StderrMax \/ e = w)
    BY <1>1, <1>b, <2>1
  <2>3. \A i \in 1 .. e : i <= w
    BY <2>2
  <2>q. QED
    BY <2>1, <2>2, <2>3
<1>2. \A i \in 1 .. Len(err) : i <= said => err[i] = "noise"
  BY <1>1 DEF Text
<1>3. \A i \in 1 .. Len(err) : i > said => i = said + 1 /\ message # "none" /\ err[i] = message
  <2>1. ASSUME NEW i \in 1 .. Len(err), i > said PROVE i = said + 1 /\ message # "none"
    <3>1. i <= w
      BY <1>d
    <3>2. CASE message = "none"
      BY <1>0, <1>c, <2>1, <3>1, <3>2
    <3>3. CASE message # "none"
      BY <1>0, <1>c, <2>1, <3>1, <3>3
    <3>q. QED
      BY <3>2, <3>3
  <2>2. ASSUME NEW i \in 1 .. Len(err), i > said PROVE err[i] = message
    <3>1. ~(i <= said)
      BY <1>0, <2>2
    <3>q. QED
      BY <1>1, <3>1 DEF Text
  <2>q. QED
    BY <2>1, <2>2
<1>4. ASSUME said < StderrMax, message # "none"
      PROVE  said + 1 \in 1 .. Len(err) /\ said + 1 > said
  <2>1. w = said + 1
    BY <1>4, <1>c
  <2>q. QED
    <3>1. said + 1 >= 1 /\ said + 1 > said /\ said + 1 \in Nat
      BY <1>0
    <3>2. CASE Len(err) = w
      BY <1>0, <2>1, <3>1, <3>2
    <3>3. CASE Len(err) = StderrMax
      <4>1. said + 1 <= StderrMax
        BY <1>0, <1>4
      <4>q. QED
        BY <1>0, <3>1, <3>3, <4>1
    <3>q. QED
      BY <1>d, <3>2, <3>3
<1>5. ASSUME said >= StderrMax, NEW i \in 1 .. Len(err) PROVE i <= said
  BY <1>0, <1>5
<1>6. ASSUME NEW c \in Message, Printed(c)
      PROVE  c = IF said >= StderrMax THEN "none" ELSE message
  <2>1. PICK i \in 1 .. Len(err) : err[i] = c
    BY <1>0, <1>6 DEF Printed
  <2>2. ~(i <= said)
    BY <1>0, <1>2, <2>1
  <2>3. i > said
    BY <1>0, <2>2
  <2>q. QED
    BY <1>3, <1>5, <2>1, <2>2, <2>3
<1>7. ASSUME NEW c \in Message, c = IF said >= StderrMax THEN "none" ELSE message
      PROVE  Printed(c)
  <2>1. ~(said >= StderrMax) /\ c = message /\ message # "none"
    BY <1>0, <1>7
  <2>2. said < StderrMax
    BY <1>0, <2>1
  <2>q. QED
    BY <1>0, <1>3, <1>4, <2>1, <2>2 DEF Printed
<1>q. QED
  BY <1>6, <1>7

\* If all that was heard is the message m, the outcome names m.
LEMMA Abort ==
  ASSUME NEW c, NEW m \in Message \union {"none"},
         \A x \in Message : Printed(x) <=> x = m
  PROVE  Signaled("ABRT", c) = Outcome("runtime_abort", <<NameOf(m)>>, c)
<1> DEFINE P == {x \in Message : Printed(x)}
<1>1. /\ Printed("stack smashing") <=> m = "stack smashing"
      /\ Printed("buffer overflow detected") <=> m = "buffer overflow detected"
  BY DEF Message
<1>2. P = IF m = "none" THEN {} ELSE {m}
  BY DEF Message
<1>3. m \in {"none", "libc", "stack smashing", "buffer overflow detected"}
  BY DEF Message
<1> HIDE DEF P
<1>4. CASE m = "stack smashing"
  <2>1. P # {} /\ P # {"libc"}
    BY <1>2, <1>4
  <2>q. QED
    BY <1>1, <1>4, <2>1 DEF Signaled, NameOf, P
<1>5. CASE m = "buffer overflow detected"
  <2>1. P # {} /\ P # {"libc"}
    BY <1>2, <1>5
  <2>q. QED
    BY <1>1, <1>5, <2>1 DEF Signaled, NameOf, P
<1>6. CASE m = "libc"
  <2>1. P # {} /\ P = {"libc"}
    BY <1>2, <1>6
  <2>q. QED
    BY <1>1, <1>6, <2>1 DEF Signaled, NameOf, P
<1>7. CASE m = "none"
  <2>1. P = {} /\ P # {"libc"}
    BY <1>2, <1>7
  <2>q. QED
    BY <1>1, <1>7, <2>1 DEF Signaled, NameOf, P
<1>q. QED
  BY <1>3, <1>4, <1>5, <1>6, <1>7

\* The outcome that the parent finds for the child it waited for is the truth.
LEMMA Classified ==
  ASSUME IInv, parent = "wait"
  PROVE  Honest(Classify) /\ Names(Classify)
<1> DEFINE c == TimingOf(shared.stage)
<1>0. Ends /\ shared.stage = at /\ shared.stage \in Stage
  BY DEF IInv, Types, Kid
<1> HIDE DEF c
<1>3. ASSUME NEW obs \in Obs, Is("returned", obs, NoFault), Gave(obs)
      PROVE  Honest(Classify) /\ Names(Classify)
  <2>1. obs # "trapped"
    BY DEF Obs
  <2>2. Classify = Outcome("silent", <<obs>>, "-")
    BY <1>3, <2>1 DEF Classify, Gave
  <2>q. QED
    BY <1>3, <2>1, <2>2, OutFacts DEF Honest, Names, Is
<1>4. ASSUME NEW f \in Fault, Is("faulted", "none", f), Gave("trapped"), shared.fault = f
      PROVE  Honest(Classify) /\ Names(Classify)
  <2>1. Classify = Trapped(f, c)
    BY <1>4 DEF Classify, Gave, c
  <2>2. truth.event = "faulted" /\ truth.fault = f /\ truth.stage = shared.stage
    BY <1>0, <1>4 DEF Is
  <2>q. QED
    BY <2>1, <2>2, Trap DEF Honest, Names, c
<1>5. ASSUME Is("aborted", message, NoFault), Died("ABRT")
      PROVE  Honest(Classify) /\ Names(Classify)
  <2> DEFINE m == IF said >= StderrMax THEN "none" ELSE message
  <2>1. m \in Message \union {"none"}
    BY DEF IInv, Types
  <2>2. \A x \in Message : Printed(x) <=> x = m
    BY <1>5, Heard
  <2> HIDE DEF m
  <2>3. Classify = Signaled("ABRT", c)
    BY <1>5 DEF Classify, Died, c
  <2>4. Classify = Outcome("runtime_abort", <<NameOf(m)>>, c)
    BY <2>1, <2>2, <2>3, Abort
  <2>6. truth.event = "aborted" /\ truth.what = message /\ truth.stage = shared.stage
    BY <1>0, <1>5 DEF Is
  <2>7. /\ Classify.outcome = "runtime_abort"
        /\ Classify.detail = <<NameOf(m)>> /\ Classify.timing = c
    BY <2>4, OutFacts
  <2>q. QED
    BY <2>6, <2>7 DEF Honest, Names, c, m
<1>6. ASSUME Is("looped", "none", NoFault), Died("ALRM")
      PROVE  Honest(Classify) /\ Names(Classify)
  <2>1. Classify = Outcome("hang", << >>, c)
    BY <1>6 DEF Classify, Signaled, Died, c
  <2>2. truth.event = "looped" /\ truth.stage = shared.stage
    BY <1>0, <1>6 DEF Is
  <2>q. QED
    BY <2>1, <2>2, OutFacts DEF Honest, Names, c
<1>7. ASSUME Is("quit", "other", NoFault), Gave("other")
      PROVE  Honest(Classify) /\ Names(Classify)
  <2>1. Classify = Outcome("exit", <<"other">>, "-")
    BY <1>7 DEF Classify, Gave, Obs
  <2>q. QED
    BY <1>7, <2>1, OutFacts DEF Honest, Names, Is
<1>8. ASSUME Is("killed", "KILL", NoFault), Died("KILL")
      PROVE  Honest(Classify) /\ Names(Classify)
  <2>1. Classify = Outcome("crash", <<"KILL">>, c)
    BY <1>8 DEF Classify, Signaled, Died, c
  <2>2. truth.event = "killed" /\ truth.stage = shared.stage
    BY <1>0, <1>8 DEF Is
  <2>q. QED
    BY <2>1, <2>2, OutFacts DEF Honest, Names, c
<1>q. QED
  BY <1>0, <1>3, <1>4, <1>5, <1>6, <1>7, <1>8 DEF Ends

\* The outcome that is counted is that of the child that ended.
LEMMA WaitStep ==
  ASSUME IInv, Wait
  PROVE  IInv'
<1>0. Types /\ Counting /\ Kid /\ Printing /\ Rows
  BY DEF IInv
<1>a. PICK o : o = Classify /\ Honest(o) /\ Names(o)
  BY Classified DEF Wait
<1>1. /\ tally' = Counted(o) /\ seen' = Append(seen, o) /\ run' = run + 1
      /\ parent = "wait" /\ child' = "none" /\ parent' \in {"print", "start"}
      /\ parent' = "start" <=> run' # Runs
      /\ UNCHANGED <<bug, err, shared, pipe, at, said, message, status, truth>>
  BY <1>a DEF Wait, own
<1>2. Rows'
  BY <1>0, <1>1, CountStep
<1>3. Types'
  BY <1>0, <1>1 DEF Types
<1>4. /\ seen \in Seq(Seen) /\ Len(seen) \in Nat /\ Len(seen') = Len(seen) + 1
      /\ seen'[Len(seen')] = o
  BY <1>0, <1>1 DEF Rows
<1>5. Counting'
  BY <1>0, <1>1, <1>4, Bounds DEF Counting
<1>6. Kid' /\ Printing'
  BY <1>1 DEF Kid, Printing
<1>7. ReportsTheEnd'
  BY <1>1, <1>4, <1>a DEF ReportsTheEnd, Honest, Last
<1>8. NamesTheCheck'
  <2>1. truth.event = "aborted" =>
          o.detail = <<NameOf(IF said >= StderrMax THEN "none" ELSE truth.what)>>
    BY <1>a DEF Names
  <2>q. QED
    BY <1>1, <1>4, <2>1 DEF NamesTheCheck, Last, NameOf
<1>q. QED
  BY <1>2, <1>3, <1>5, <1>6, <1>7, <1>8 DEF IInv

\* The next bug begins with an empty tally.
LEMMA PrintStep ==
  ASSUME IInv, PrintRows
  PROVE  IInv'
<1>0. Types /\ Counting /\ Kid /\ Printing /\ Rows
  BY DEF IInv
<1>1. /\ run' = 0 /\ tally' = << >> /\ seen' = << >> /\ bug' = bug + 1
      /\ parent = "print" /\ child = "none"
      /\ parent' = IF bug' > NBugs THEN "done" ELSE "start"
      /\ UNCHANGED <<err, shared, pipe, child, at, said, message, status, truth>>
  BY <1>0 DEF PrintRows, kids, own, Kid
<1>2. Types'
  BY <1>0, <1>1, Bounds DEF Types, Counting
<1>3. Counting'
  BY <1>0, <1>1, Bounds DEF Types, Counting
<1>4. Kid' /\ Printing'
  BY <1>1 DEF Kid, Printing
<1>5. Rows'
  <2>1. /\ \A S : << >> \in Tallies(S) /\ << >> \in Seq(S)
        /\ DOMAIN tally' = {} /\ DOMAIN seen' = {}
    BY <1>1 DEF Tallies
  <2>q. QED
    BY <1>1, <2>1, SumOfNone, Bounds DEF Rows
<1>6. ReportsTheEnd' /\ NamesTheCheck'
  BY <1>1 DEF ReportsTheEnd, NamesTheCheck
<1>q. QED
  BY <1>2, <1>3, <1>4, <1>5, <1>6 DEF IInv
-----------------------------------------------------------------------------
\* Every step keeps the invariant.
LEMMA Keeps ==
  ASSUME IInv, [Next]_vars
  PROVE  IInv'
<1>1. CASE Parent
  BY <1>1, ForkStep, ReadStep, DrainStep, WaitStep, PrintStep DEF Parent
<1>2. CASE Child
  BY <1>2, ChildStep
<1>3. CASE UNCHANGED vars
  <2>1. Types' /\ Counting'
    BY <1>3 DEF vars, IInv, Types, Counting
  <2>2. Kid'
    BY <1>3 DEF vars, IInv, Kid, Ends, Is, Gave, Died
  <2>3. Printing'
    <3>1. Told' = Told
      BY <1>3 DEF vars, Told, Died
    <3>q. QED
      BY <1>3, <3>1 DEF vars, IInv, Printing, Text
  <2>4. Rows'
    BY <1>3, RowsStay DEF vars, IInv
  <2>5. ReportsTheEnd' /\ NamesTheCheck'
    BY <1>3 DEF vars, IInv, ReportsTheEnd, NamesTheCheck
  <2>q. QED
    BY <2>1, <2>2, <2>3, <2>4, <2>5 DEF IInv
<1>q. QED
  BY <1>1, <1>2, <1>3 DEF Next, Exited

\* The inductive invariant of the runner: what the buffer and the pipe hold, and
\* how the child stands with the kernel and the shared state.
THEOREM Inductive == Spec => []IInv
BY Starts, Keeps, PTL DEF Spec

\* Every outcome is that of the child it is reported of, at the stage at which it
\* went wrong, for any faults (runner.c: run_once, classify).
THEOREM TrueReports == Spec => []ReportsTheEnd
<1>1. IInv => ReportsTheEnd
  BY DEF IInv
<1>q. QED
  BY <1>1, Inductive, PTL

\* The check that is named as the reason of an abort is the one that printed, for
\* any sizes of the pipe and the buffer (runner.c: run_once, classify).
THEOREM TrueNames == Spec => []NamesTheCheck
<1>1. IInv => NamesTheCheck
  BY DEF IInv
<1>q. QED
  BY <1>1, Inductive, PTL

\* The rows of a bug add up to its runs, with any number of buckets, and each but
\* the last of a full table counts its own outcome (runner.c: run_bug).
THEOREM RowsOfAllRuns == Spec => []RowsAddUp
<1>1. IInv => RowsAddUp
  <2> SUFFICES ASSUME IInv PROVE RowsAddUp
    OBVIOUS
  <2>1. TypeOK
    BY TallyFacts, Bounds DEF IInv, TypeOK, Types, Counting, Rows
  <2>q. QED
    BY <2>1 DEF IInv, RowsAddUp, Rows, TallySum
<1>q. QED
  BY <1>1, Inductive, PTL
=============================================================================
