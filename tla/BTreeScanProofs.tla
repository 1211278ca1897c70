---------------------------- MODULE BTreeScanProofs ----------------------------
(***************************************************************************)
(* What is proved of the scans of BTreeOLC, for every number of threads,   *)
(* keys and pages: a scan visits keys in order and once, only keys that    *)
(* are there, and passes over none that was there all the time.            *)
(*                                                                         *)
(* A leaf that a scan shares is changed by nobody, so a fence of it is a   *)
(* border: the scan has visited nothing beyond it, and everything before   *)
(* it that has stayed.  scanAsc hands the border from a leaf to the next   *)
(* while it shares both, scanDesc keeps the leaf it comes from until it    *)
(* has found the one that ends where that leaf begins.                     *)
(***************************************************************************)
EXTENDS BTreeOLCProofs

\* The pages that a scan shares.
SharedAt(x, l) ==
  CASE x \in {"visit", "lockNext", "endScan", "stopScan"} -> {l.nod.pid}
    [] x = "next" -> {l.nod.pid, l.held}
    [] x \in {"start", "child", "load", "recheck", "leaf"} /\ l.held # None -> {l.held}
    [] OTHER -> {}
Shared(t) == SharedAt(pc[t], loc[t])

\* A page that somebody shares is in use and locked by nobody.
Apart == \A p \in Page : slock[p] = {} \/ (xlock[p] = {} /\ p < alloc)

\* The fence at which a scan enters a leaf, and the one at which it leaves it.
Front(o, n) == IF o.kind = "scan" THEN n.lower ELSE n.upper
Back(o, n) == IF o.kind = "scan" THEN n.upper ELSE n.lower
\* The keys of a scan, and those that it meets before a border.
InRange(o, k) == k = o.key \/ Before(o, o.key, k)
Behind(o, k, f) == IF o.kind = "scan" THEN k <= f ELSE k > f
Reached(t, f) ==
  /\ \A j \in Visited(t) : Behind(loc[t].op, j, f)
  /\ \A k \in scan[t].must \ Visited(t) : InRange(loc[t].op, k) => ~Behind(loc[t].op, k, f)

\* What a scan has visited is in order, with no gap.
Ordered(o, s) == \A i, j \in 1 .. Len(s) : i < j => Before(o, s[i], s[j])
Elems(s) == {s[i] : i \in 1 .. Len(s)}
InOrder(t) == Ordered(loc[t].op, scan[t].got)
NoGap(t) ==
  \A k \in scan[t].must \ Visited(t) : \A j \in Visited(t) :
    InRange(loc[t].op, k) => ~Before(loc[t].op, k, j)

\* Where a scan is at each label.
Descending == {"start", "child", "load", "recheck", "leaf"}
Position(t) ==
  LET l == loc[t]  o == l.op  x == pc[t]  n == page[Nod(t)]  h == page[l.held] IN
  /\ x \in Descending \union {"visit", "lockNext", "next", "endScan", "stopScan", "idle"}
  /\ x \in Descending /\ l.held = None => scan[t].got = << >> /\ l.key = o.key
  /\ x \in Descending /\ l.held # None =>
       o.kind = "scanDesc" /\ LiveLeaf(page, l.held) /\ l.key = h.lower /\ Reached(t, h.lower)
  /\ x \in {"visit", "lockNext", "next", "endScan", "stopScan"} => LiveLeaf(page, Nod(t))
  /\ x = "visit" /\ l.held = None =>
       scan[t].got = << >> /\ l.key = o.key /\ Encloses(n, o.key)
  /\ x = "visit" /\ l.held # None => Reached(t, Front(o, n))
  /\ x = "lockNext" =>
       /\ o.kind = "scan" /\ l.held = Nod(t) /\ l.cand = n.last /\ n.last # None
       /\ Reached(t, n.upper)
  /\ x = "next" =>
       /\ LiveLeaf(page, l.held) /\ l.held # None /\ Back(o, h) = Front(o, n)
       /\ Reached(t, Front(o, n))
  /\ x = "endScan" => Reached(t, IF o.kind = "scan" THEN Inf ELSE 0)

Scans(t) ==
  /\ scan[t] \in [got : Seq(Key), must : SUBSET Key]
  /\ scan[t].must \subseteq DOMAIN StoredIn(page)
  /\ Scanning(loc[t].op) =>
       /\ Shared(t) \subseteq {p \in Page : t \in slock[p]}
       /\ InOrder(t) /\ NoGap(t) /\ Position(t)

ScanInv ==
  /\ scan = [t \in Thread |-> scan[t]]
  /\ Apart
  /\ \A t \in Thread : Scans(t)
-----------------------------------------------------------------------------
(***************************************************************************)
(* Slots in order.                                                         *)
(***************************************************************************)
\* A smaller key has fewer keys below it, and each key has fewer than there are.
LEMMA Ranks ==
  ASSUME NEW S, S \subseteq Nat, IsFiniteSet(S), NEW k \in S
  PROVE  LET rank(j) == Cardinality({i \in S : i < j}) IN
         /\ rank(k) \in Nat /\ rank(k) < Cardinality(S)
         /\ \A j \in S : j < k => rank(j) < rank(k)
<1> DEFINE Lower(j) == {i \in S : i < j}
<1>0. \A j \in S : j \in Nat
  OBVIOUS
<1>1. ASSUME NEW j \in S
      PROVE  IsFiniteSet(Lower(j)) /\ Cardinality(Lower(j)) \in Nat /\ j \notin Lower(j)
             /\ IsFiniteSet(Lower(j) \union {j})
             /\ Cardinality(Lower(j) \union {j}) = Cardinality(Lower(j)) + 1
  <2>1. Lower(j) \subseteq S /\ j \notin Lower(j)
    BY <1>0
  <2>2. IsFiniteSet(Lower(j))
    BY <2>1, FS_Subset
  <2> HIDE DEF Lower
  <2>q. QED
    BY <2>1, <2>2, FS_CardinalityType, FS_AddElement
<1>2. Cardinality(S) \in Nat
  BY FS_CardinalityType
<1>3. Cardinality(Lower(k)) < Cardinality(S)
  <2>1. Lower(k) \union {k} \subseteq S
    OBVIOUS
  <2>2. Cardinality(Lower(k) \union {k}) <= Cardinality(S)
    BY <2>1, FS_Subset
  <2>3. /\ Cardinality(Lower(k)) \in Nat
        /\ Cardinality(Lower(k) \union {k}) = Cardinality(Lower(k)) + 1
    BY <1>1
  <2> HIDE DEF Lower
  <2>q. QED
    BY <1>2, <2>2, <2>3
<1>4. ASSUME NEW j \in S, j < k PROVE Cardinality(Lower(j)) < Cardinality(Lower(k))
  <2>1. \A i \in S : i < j => i < k
    BY <1>0, <1>4
  <2>2. Lower(j) \union {j} \subseteq Lower(k)
    BY <1>4, <2>1
  <2>3. IsFiniteSet(Lower(k))
    BY <1>1
  <2>4. Cardinality(Lower(j) \union {j}) <= Cardinality(Lower(k))
    BY <2>2, <2>3, FS_Subset
  <2>5. /\ Cardinality(Lower(j)) \in Nat /\ Cardinality(Lower(k)) \in Nat
        /\ Cardinality(Lower(j) \union {j}) = Cardinality(Lower(j)) + 1
    BY <1>1
  <2> HIDE DEF Lower
  <2>q. QED
    BY <2>4, <2>5
<1>q. QED
  BY <1>1, <1>3, <1>4

\* The keys of a set from the least one up.
LEMMA AscendingFacts ==
  ASSUME NEW S, S \subseteq Key
  PROVE  /\ Ascending(S) \in Seq(Key) /\ Elems(Ascending(S)) = S
         /\ \A i, j \in 1 .. Len(Ascending(S)) : i < j => Ascending(S)[i] < Ascending(S)[j]
<1> DEFINE n == Cardinality(S)
           q == Ascending(S)
           rank(j) == Cardinality({i \in S : i < j})
<1>1. S \subseteq Nat /\ IsFiniteSet(S) /\ n \in Nat
  <2>1. IsFiniteSet(Key)
    BY TreeAssumption, FS_Interval DEF Key
  <2>q. QED
    BY <2>1, Numbers, FS_Subset, FS_CardinalityType
<1>2. q = [i \in 1 .. n |-> NthKey(S, i - 1)]
  BY DEF Ascending
<1>3. ASSUME NEW i \in 1 .. n PROVE q[i] \in S /\ q[i] \in Nat /\ rank(q[i]) = i - 1
  <2>1. i - 1 \in Nat /\ i - 1 < n
    BY <1>1
  <2>2. q[i] = NthKey(S, i - 1)
    BY <1>2
  <2>3. NthKey(S, i - 1) \in S /\ rank(NthKey(S, i - 1)) = i - 1
    BY <1>1, <2>1, NthKeyIs
  <2>q. QED
    BY <1>1, <2>2, <2>3
<1>4. q \in Seq(Key) /\ Len(q) = n
  <2>1. \A i \in 1 .. n : q[i] \in Key
    BY <1>3
  <2> HIDE DEF q
  <2>q. QED
    BY <1>1, <1>2, <2>1
<1>5. ASSUME NEW j \in S, NEW k \in S
      PROVE  rank(j) \in Nat /\ rank(j) < n /\ j \in Nat /\ (j < k => rank(j) < rank(k))
  BY <1>1, Ranks
<1> HIDE DEF q, rank, n
<1>6. ASSUME NEW i \in 1 .. n, NEW j \in 1 .. n, i < j PROVE q[i] < q[j]
  <2>1. rank(q[i]) = i - 1 /\ rank(q[j]) = j - 1 /\ q[i] \in S /\ q[j] \in S
    BY <1>3
  <2>2. i - 1 < j - 1 /\ i - 1 \in Int /\ j - 1 \in Int
    BY <1>1, <1>6
  <2>3. ~(q[j] < q[i]) /\ q[i] # q[j]
    BY <1>5, <2>1, <2>2
  <2>q. QED
    BY <1>3, <2>3
<1>7. ASSUME NEW k \in S PROVE \E i \in 1 .. n : q[i] = k
  <2>1. rank(k) + 1 \in 1 .. n /\ rank(k) \in Nat
    BY <1>1, <1>5
  <2>2. q[rank(k) + 1] \in S /\ rank(q[rank(k) + 1]) = rank(k)
    BY <1>3, <2>1
  <2>3. ~(q[rank(k) + 1] < k) /\ ~(k < q[rank(k) + 1])
    BY <1>5, <2>1, <2>2
  <2>4. q[rank(k) + 1] = k
    BY <1>5, <2>2, <2>3
  <2>q. QED
    BY <2>1, <2>4
<1>8. Elems(q) = S
  BY <1>3, <1>4, <1>7 DEF Elems
<1>q. QED
  BY <1>4, <1>6, <1>8 DEF q

\* The keys of a sequence, from its end.
LEMMA ReversedFacts ==
  ASSUME NEW s \in Seq(Key)
  PROVE  /\ Reversed(s) \in Seq(Key) /\ Elems(Reversed(s)) = Elems(s)
         /\ (\A i, j \in 1 .. Len(s) : i < j => s[i] < s[j]) =>
              \A i, j \in 1 .. Len(Reversed(s)) : i < j => Reversed(s)[i] > Reversed(s)[j]
<1> DEFINE q == Reversed(s)  n == Len(s)
<1>1. n \in Nat /\ \A i \in 1 .. n : s[i] \in Key /\ s[i] \in Nat
  <2>1. n \in Nat /\ \A i \in 1 .. n : s[i] \in Key
    OBVIOUS
  <2>q. QED
    BY <2>1, Numbers
<1>2. q = [i \in 1 .. n |-> s[n + 1 - i]]
  BY DEF Reversed
<1>3. \A i \in 1 .. n : n + 1 - i \in 1 .. n
  BY <1>1
<1>4. q \in Seq(Key) /\ Len(q) = n /\ \A i \in 1 .. n : q[i] = s[n + 1 - i]
  <2>1. \A i \in 1 .. n : q[i] \in Key /\ q[i] = s[n + 1 - i]
    BY <1>1, <1>2, <1>3
  <2> HIDE DEF q, n
  <2>q. QED
    BY <1>1, <1>2, <2>1
<1> HIDE DEF q, n
<1>5. Elems(q) = Elems(s)
  <2>1. \A k \in Elems(q) : k \in Elems(s)
    BY <1>3, <1>4 DEF Elems, n
  <2>2. ASSUME NEW k \in Elems(s) PROVE k \in Elems(q)
    <3>1. PICK i \in 1 .. n : k = s[i]
      BY DEF Elems, n
    <3>2. n + 1 - i \in 1 .. n /\ n + 1 - (n + 1 - i) = i
      BY <1>1
    <3>3. q[n + 1 - i] = k
      BY <1>4, <3>1, <3>2
    <3>q. QED
      BY <1>4, <3>2, <3>3 DEF Elems
  <2>q. QED
    BY <2>1, <2>2
<1>6. ASSUME \A i, j \in 1 .. n : i < j => s[i] < s[j],
             NEW i \in 1 .. n, NEW j \in 1 .. n, i < j
      PROVE  q[i] > q[j]
  <2>1. n + 1 - j < n + 1 - i
    BY <1>1, <1>6
  <2>2. s[n + 1 - j] < s[n + 1 - i]
    BY <1>3, <1>6, <2>1
  <2>3. s[n + 1 - j] \in Nat /\ s[n + 1 - i] \in Nat
    BY <1>1, <1>3
  <2>q. QED
    BY <1>4, <2>2, <2>3
<1>q. QED
  BY <1>4, <1>5, <1>6 DEF q, n

\* The order of a scan.
LEMMA OrderFacts ==
  ASSUME NEW o
  PROVE  /\ \A i, j \in Nat : Before(o, i, j) => ~Before(o, j, i)
         /\ \A i, j, f \in Nat : Behind(o, i, f) /\ ~Behind(o, j, f) => Before(o, i, j)
         /\ o.kind = "scan" => \A i, j \in Nat : Before(o, i, j) <=> i < j
         /\ o.kind # "scan" => \A i, j \in Nat : Before(o, i, j) <=> i > j
<1>1. CASE o.kind = "scan"
  BY <1>1 DEF Before, Behind
<1>2. CASE o.kind # "scan"
  BY <1>2 DEF Before, Behind
<1>q. QED
  BY <1>1, <1>2

\* The slots that a scan visits in a leaf: those from its key on, and in the
\* next leaves all.
Chosen(l, n) ==
  {k \in Keys(n) : l.held = None =>
     IF l.op.kind = "scan" THEN k >= l.key ELSE \A s \in Above(n, l.key) : k <= s}

\* They come in the order of the scan.
LEMMA ToVisitFacts ==
  ASSUME NEW t, Keys(page[Nod(t)]) \subseteq Key
  PROVE  /\ ToVisit(t) \in Seq(Key) /\ Elems(ToVisit(t)) = Chosen(loc[t], page[Nod(t)])
         /\ Ordered(loc[t].op, ToVisit(t))
<1> DEFINE n == page[Nod(t)]  o == loc[t].op  S == Chosen(loc[t], n)
<1>1. S \subseteq Key
  BY DEF Chosen
<1>2. ToVisit(t) = IF o.kind = "scan" THEN Ascending(S) ELSE Reversed(Ascending(S))
  <2>1. CASE o.kind = "scan"
    <3>1. S = {k \in Keys(n) : loc[t].held = None => k >= K(t)}
      BY <2>1 DEF Chosen, K
    <3>q. QED
      BY <2>1, <3>1 DEF ToVisit
  <2>2. CASE o.kind # "scan"
    <3>1. S = {k \in Keys(n) : loc[t].held = None => \A s \in Above(n, K(t)) : k <= s}
      BY <2>2 DEF Chosen, K
    <3>q. QED
      BY <2>2, <3>1 DEF ToVisit
  <2>q. QED
    BY <2>1, <2>2
<1> DEFINE q == Ascending(S)
<1>3. /\ q \in Seq(Key) /\ Elems(q) = S
      /\ \A i, j \in 1 .. Len(q) : i < j => q[i] < q[j]
  <2> HIDE DEF S
  <2>q. QED
    BY <1>1, AscendingFacts
<1> HIDE DEF q, S
<1>4. CASE o.kind = "scan"
  BY <1>2, <1>3, <1>4 DEF Ordered, Before, q, S
<1>5. CASE o.kind # "scan"
  <2> DEFINE r == Reversed(q)
  <2>1. /\ r \in Seq(Key) /\ Elems(r) = S
        /\ \A i, j \in 1 .. Len(r) : i < j => r[i] > r[j]
    BY <1>3, ReversedFacts
  <2>2. ToVisit(t) = r
    BY <1>2, <1>5 DEF q
  <2> HIDE DEF r
  <2>q. QED
    BY <1>5, <2>1, <2>2 DEF Ordered, Before, S
<1>q. QED
  BY <1>4, <1>5

\* A scan visits more, all of it after what it has visited.
LEMMA Appended ==
  ASSUME NEW o, NEW s \in Seq(Key), NEW q \in Seq(Key), Ordered(o, s), Ordered(o, q),
         \A i \in Elems(s), j \in Elems(q) : Before(o, i, j)
  PROVE  /\ s \o q \in Seq(Key) /\ Elems(s \o q) = Elems(s) \union Elems(q)
         /\ Ordered(o, s \o q)
<1> DEFINE m == Len(s)  n == Len(q)  r == s \o q
<1>1. /\ m \in Nat /\ n \in Nat /\ r \in Seq(Key) /\ Len(r) = m + n
      /\ \A i \in 1 .. m : r[i] = s[i]
      /\ \A i \in 1 .. m + n : i > m => r[i] = q[i - m]
  OBVIOUS
<1> HIDE DEF r, m, n
<1>2. \A i \in 1 .. m + n : (i <= m => i \in 1 .. m) /\ (i > m => i - m \in 1 .. n)
  BY <1>1
<1>3. ASSUME NEW i \in 1 .. m + n
      PROVE  /\ i <= m => r[i] = s[i] /\ r[i] \in Elems(s)
             /\ i > m => r[i] = q[i - m] /\ r[i] \in Elems(q)
  BY <1>1, <1>2 DEF Elems, m, n
<1>4. Elems(r) = Elems(s) \union Elems(q)
  <2>1. ASSUME NEW k \in Elems(r) PROVE k \in Elems(s) \union Elems(q)
    <3>1. PICK i \in 1 .. m + n : k = r[i]
      BY <1>1 DEF Elems
    <3>q. QED
      BY <1>1, <1>3, <3>1
  <2>2. ASSUME NEW k \in Elems(s) PROVE k \in Elems(r)
    <3>1. PICK i \in 1 .. m : k = s[i]
      BY DEF Elems, m
    <3>2. i \in 1 .. m + n
      BY <1>1
    <3>q. QED
      BY <1>1, <3>1, <3>2 DEF Elems
  <2>3. ASSUME NEW k \in Elems(q) PROVE k \in Elems(r)
    <3>1. PICK i \in 1 .. n : k = q[i]
      BY DEF Elems, n
    <3>2. m + i \in 1 .. m + n /\ m + i > m /\ m + i - m = i
      BY <1>1
    <3>3. r[m + i] = k
      BY <1>1, <3>1, <3>2
    <3>q. QED
      BY <1>1, <3>2, <3>3 DEF Elems
  <2>q. QED
    BY <2>1, <2>2, <2>3
<1>5. ASSUME NEW i \in 1 .. m + n, NEW j \in 1 .. m + n, i < j
      PROVE  Before(o, r[i], r[j])
  <2>1. CASE j <= m
    BY <1>1, <1>2, <1>3, <1>5, <2>1 DEF Ordered, m
  <2>2. CASE i > m
    <3>1. i - m \in 1 .. n /\ j - m \in 1 .. n /\ i - m < j - m /\ j > m
      BY <1>1, <1>5, <2>2
    <3>q. QED
      BY <1>3, <2>2, <3>1 DEF Ordered, n
  <2>3. CASE i <= m /\ j > m
    BY <1>3, <2>3
  <2>q. QED
    BY <1>1, <2>1, <2>2, <2>3
<1>q. QED
  BY <1>1, <1>4, <1>5 DEF Ordered, r

\* The first of them.
LEMMA PrefixFacts ==
  ASSUME NEW o, NEW q \in Seq(Key), Ordered(o, q), NEW i \in 1 .. Len(q)
  PROVE  LET p == SubSeq(q, 1, i) IN
         /\ p \in Seq(Key) /\ Ordered(o, p) /\ Elems(p) \subseteq Elems(q)
         /\ \A k \in Elems(q) \ Elems(p), j \in Elems(p) : Before(o, j, k)
<1> DEFINE p == SubSeq(q, 1, i)
<1>1. /\ Len(q) \in Nat /\ i \in Nat /\ i <= Len(q)
      /\ p \in Seq(Key) /\ Len(p) = i /\ \A j \in 1 .. i : p[j] = q[j] /\ j \in 1 .. Len(q)
  OBVIOUS
<1> HIDE DEF p
<1>2. Ordered(o, p) /\ Elems(p) \subseteq Elems(q)
  BY <1>1 DEF Ordered, Elems
<1>3. ASSUME NEW k \in Elems(q) \ Elems(p), NEW j \in Elems(p) PROVE Before(o, j, k)
  <2>1. PICK x \in 1 .. Len(q) : k = q[x]
    BY DEF Elems
  <2>2. PICK y \in 1 .. i : j = q[y] /\ y \in 1 .. Len(q)
    BY <1>1 DEF Elems
  <2>3. x \notin 1 .. i
    BY <1>1, <1>3, <2>1 DEF Elems
  <2>4. y < x
    BY <1>1, <2>3
  <2>q. QED
    BY <2>1, <2>2, <2>4 DEF Ordered
<1>q. QED
  BY <1>1, <1>2, <1>3 DEF p
-----------------------------------------------------------------------------
(***************************************************************************)
(* A scan in a leaf.                                                       *)
(***************************************************************************)
\* A leaf has the keys between its fences that the tree has.
LEMMA LeafHas ==
  ASSUME IInv, NEW p, LiveLeaf(page, p)
  PROVE  LET n == page[p] IN
         /\ p \in Page /\ p # None /\ Keys(n) \subseteq Key
         /\ n.lower \in Nat /\ n.upper \in Nat /\ n.lower < n.upper /\ n.upper <= Inf
         /\ \A k \in Keys(n) : Encloses(n, k)
         /\ \A k \in Key : Encloses(n, k) /\ k \in DOMAIN StoredIn(page) => k \in Keys(n)
         /\ \A k \in Key : Encloses(n, k) => LeafIn(page, k) = p
         /\ n.last = None => n.upper = Inf
         /\ n.last # None => LiveLeaf(page, n.last) /\ page[n.last].lower = n.upper
<1> DEFINE n == page[p]
<1>1. Shape(page, alloc)
  BY DEF IInv
<1>2. /\ p \in Page /\ p # Meta /\ n \in NodeSet
      /\ n.lower \in Nat /\ n.upper \in Nat /\ n.lower < n.upper
  BY <1>1, LiveFences
<1>3. Keys(n) \subseteq Key /\ n.upper \in 1 .. Inf
  BY <1>2, NodeFacts
<1>4. LeafOK(page, n)
  BY <1>1, <1>2 DEF Shape
<1>5. ASSUME NEW k \in Key, Encloses(n, k) PROVE LeafIn(page, k) = p
  BY <1>1, <1>5, Search
<1>6. ASSUME NEW k \in Key, Encloses(n, k), k \in DOMAIN StoredIn(page) PROVE k \in Keys(n)
  BY <1>5, <1>6, StoredAt
<1>7. n.last = None => n.upper = Inf
  <2>1. ASSUME LiveLeaf(page, None) PROVE FALSE
    BY <1>1, <2>1, LiveFences DEF None, Meta
  <2>q. QED
    BY <1>4, <2>1 DEF LeafOK
<1>8. n.last # None => LiveLeaf(page, n.last) /\ page[n.last].lower = n.upper
  BY <1>4 DEF LeafOK
<1>9. n.upper <= Inf
  BY <1>3, Numbers
<1>q. QED
  BY <1>2, <1>3, <1>4, <1>5, <1>6, <1>7, <1>8, <1>9 DEF LeafOK, None, Meta

\* A border that a scan has reached leaves no gap behind it.
LEMMA ReachedNoGap ==
  ASSUME NEW t \in Thread, scan[t] \in [got : Seq(Key), must : SUBSET Key],
         NEW f \in Nat, Reached(t, f)
  PROVE  NoGap(t)
<1>1. \A k \in scan[t].must : k \in Nat
  BY Numbers
<1>2. \A j \in Visited(t) : j \in Nat
  <2>1. scan[t].got \in Seq(Key)
    OBVIOUS
  <2>2. \A i \in 1 .. Len(scan[t].got) : scan[t].got[i] \in Key
    BY <2>1
  <2>q. QED
    BY <2>2, Numbers DEF Visited
<1>3. ASSUME NEW k \in scan[t].must \ Visited(t), NEW j \in Visited(t), InRange(loc[t].op, k)
      PROVE  ~Before(loc[t].op, k, j)
  <2>1. Behind(loc[t].op, j, f) /\ ~Behind(loc[t].op, k, f)
    BY <1>3 DEF Reached
  <2>q. QED
    BY <1>1, <1>2, <1>3, <2>1, OrderFacts
<1>q. QED
  BY <1>3 DEF NoGap

\* What the leaf has for the scan: all of it comes after what the scan has
\* visited, and with it nothing is left before the fence at which it leaves.
LEMMA Visiting ==
  ASSUME IInv, NEW t \in Thread, Scans(t), Scanning(loc[t].op), pc[t] = "visit"
  PROVE  LET n == page[Nod(t)]  o == loc[t].op  V == Elems(ToVisit(t))  f == Back(o, n) IN
         /\ LiveLeaf(page, Nod(t)) /\ f \in Nat
         /\ V \subseteq Keys(n) /\ ToVisit(t) \in Seq(Key) /\ Ordered(o, ToVisit(t))
         /\ \A i \in Visited(t), j \in V : Before(o, i, j)
         /\ \A j \in Visited(t) \union V : Behind(o, j, f)
         /\ \A k \in scan[t].must \ (Visited(t) \union V) : InRange(o, k) => ~Behind(o, k, f)
<1> DEFINE n == page[Nod(t)]  o == loc[t].op  f == Back(o, n)  l == loc[t]
           V == Chosen(l, n)
<1>1. /\ scan[t] \in [got : Seq(Key), must : SUBSET Key]
      /\ scan[t].must \subseteq DOMAIN StoredIn(page)
      /\ Position(t)
  BY DEF Scans
<1>2. LiveLeaf(page, Nod(t))
  BY <1>1 DEF Position
<1>3. /\ Keys(n) \subseteq Key
      /\ n.lower \in Nat /\ n.upper \in Nat /\ n.lower < n.upper
      /\ \A k \in Keys(n) : n.lower < k /\ k <= n.upper
      /\ \A k \in scan[t].must : n.lower < k /\ k <= n.upper => k \in Keys(n)
  <2>1. /\ Keys(n) \subseteq Key
        /\ n.lower \in Nat /\ n.upper \in Nat /\ n.lower < n.upper
        /\ \A k \in Keys(n) : Encloses(n, k)
        /\ \A k \in Key : Encloses(n, k) /\ k \in DOMAIN StoredIn(page) => k \in Keys(n)
    BY <1>2, LeafHas
  <2>2. \A k \in scan[t].must : k \in Key /\ k \in DOMAIN StoredIn(page)
    BY <1>1
  <2> HIDE DEF n
  <2>q. QED
    BY <2>1, <2>2 DEF Encloses
<1>4. /\ ToVisit(t) \in Seq(Key) /\ Elems(ToVisit(t)) = V /\ Ordered(o, ToVisit(t))
  BY <1>3, ToVisitFacts
<1>5. /\ Visited(t) \subseteq Nat /\ scan[t].must \subseteq Nat /\ Keys(n) \subseteq Nat
      /\ V \subseteq Keys(n)
  <2>1. Visited(t) \subseteq Key
    BY <1>1 DEF Visited
  <2>q. QED
    BY <1>1, <1>3, <2>1, Numbers DEF Chosen
<1>6. f \in Nat
  BY <1>3 DEF Back
<1>7. CASE l.held # None
  <2>1. V = Keys(n)
    BY <1>7 DEF Chosen
  <2>2. Reached(t, Front(o, n))
    BY <1>1, <1>7 DEF Position
  <2>3. /\ \A j \in Visited(t) : Behind(o, j, Front(o, n))
        /\ \A k \in scan[t].must \ Visited(t) : InRange(o, k) => ~Behind(o, k, Front(o, n))
    BY <2>2 DEF Reached
  <2> HIDE DEF n, o, V, l
  <2>4. CASE o.kind = "scan"
    <3>1. f = n.upper /\ Front(o, n) = n.lower
          /\ \A j, b : Behind(o, j, b) <=> j <= b
      BY <2>4 DEF Front, Back, Behind, f
    <3>2. /\ \A i \in Visited(t), j \in V : i < j
          /\ \A j \in Visited(t) \union V : j <= f
      BY <1>3, <1>5, <2>1, <2>3, <3>1
    <3>3. \A k \in scan[t].must \ (Visited(t) \union V) : InRange(o, k) => ~(k <= f)
      BY <1>3, <1>5, <2>1, <2>3, <3>1
    <3> HIDE DEF f
    <3>q. QED
      BY <1>2, <1>4, <1>5, <1>6, <2>4, <3>1, <3>2, <3>3 DEF Before, n, o, V, f
  <2>5. CASE o.kind # "scan"
    <3>1. f = n.lower /\ Front(o, n) = n.upper
          /\ \A j, b : Behind(o, j, b) <=> j > b
      BY <2>5 DEF Front, Back, Behind, f
    <3>2. /\ \A i \in Visited(t), j \in V : i > j
          /\ \A j \in Visited(t) \union V : j > f
      BY <1>3, <1>5, <2>1, <2>3, <3>1
    <3>3. \A k \in scan[t].must \ (Visited(t) \union V) : InRange(o, k) => ~(k > f)
      BY <1>3, <1>5, <2>1, <2>3, <3>1
    <3> HIDE DEF f
    <3>q. QED
      BY <1>2, <1>4, <1>5, <1>6, <2>5, <3>1, <3>2, <3>3 DEF Before, n, o, V, f
  <2>q. QED
    BY <2>4, <2>5
<1>8. CASE l.held = None
  <2>1. scan[t].got = << >> /\ l.key = o.key /\ n.lower < o.key /\ o.key <= n.upper
    BY <1>1, <1>8 DEF Position, Encloses
  <2>2. Visited(t) = {}
    BY <2>1 DEF Visited
  <2>3. o.key \in Nat
    <3>1. K(t) \in Nat
      BY Mine
    <3>q. QED
      BY <2>1, <3>1 DEF K
  <2>4. V = {k \in Keys(n) : IF o.kind = "scan" THEN k >= o.key
                             ELSE \A s \in Above(n, o.key) : k <= s}
    BY <1>8, <2>1 DEF Chosen
  <2>5. \A s \in Above(n, o.key) : s >= o.key /\ s \in Keys(n)
    BY DEF Above
  <2> HIDE DEF n, o, V, l
  <2>6. CASE o.kind = "scan"
    <3>1. f = n.upper /\ \A j, b : Behind(o, j, b) <=> j <= b
      BY <2>6 DEF Back, Behind, f
    <3>2. \A j \in V : j <= f
      BY <1>3, <1>5, <3>1
    <3>3. ASSUME NEW k \in scan[t].must \ V, InRange(o, k) PROVE ~(k <= f)
      <4>1. k >= o.key /\ k \in Nat
        BY <1>5, <2>3, <2>6, <3>3 DEF InRange, Before
      <4>2. k \notin Keys(n)
        BY <2>4, <2>6, <3>3, <4>1
      <4>q. QED
        BY <1>3, <2>1, <2>3, <3>1, <3>3, <4>1, <4>2
    <3> HIDE DEF f
    <3>q. QED
      BY <1>2, <1>4, <1>5, <1>6, <2>2, <3>1, <3>2, <3>3 DEF n, o, V, f
  <2>7. CASE o.kind # "scan"
    <3>1. f = n.lower /\ \A j, b : Behind(o, j, b) <=> j > b
      BY <2>7 DEF Back, Behind, f
    <3>2. \A j \in V : j > f
      BY <1>3, <1>5, <3>1
    <3>3. ASSUME NEW k \in scan[t].must \ V, InRange(o, k) PROVE ~(k > f)
      <4>1. k <= o.key /\ k \in Nat
        BY <1>5, <2>3, <2>7, <3>3 DEF InRange, Before
      <4>2. \A s \in Above(n, o.key) : k <= s
        BY <1>5, <2>3, <2>5, <4>1
      <4>3. k \notin Keys(n)
        BY <2>4, <2>7, <3>3, <4>2
      <4>q. QED
        BY <1>3, <2>1, <2>3, <3>1, <3>3, <4>1, <4>3
    <3> HIDE DEF f
    <3>q. QED
      BY <1>2, <1>4, <1>5, <1>6, <2>2, <3>1, <3>2, <3>3 DEF n, o, V, f
  <2>q. QED
    BY <2>6, <2>7
<1>q. QED
  BY <1>7, <1>8
-----------------------------------------------------------------------------
(***************************************************************************)
(* What steps do to latches and to what scans must visit.                  *)
(***************************************************************************)
\* Shared pages stay apart from locked ones, if only free ones are locked.
Parts(p) ==
  \/ slock'[p] \subseteq slock[p] /\ (xlock'[p] \subseteq xlock[p] \/ slock[p] = {})
  \/ xlock'[p] = {} /\ p < alloc
\* A thread shares a page more, or less, or it does not.
Moves(t) == slock' = slock \/ \E p \in Page : Share(t, p) \/ Unshare(t, p)

\* Latches that are kept apart are apart.
LEMMA ApartKept ==
  ASSUME Apart, alloc \in Nat, alloc' \in Nat, alloc <= alloc', \A p \in Page : Parts(p)
  PROVE  Apart'
<1> SUFFICES ASSUME NEW p \in Page PROVE slock'[p] = {} \/ (xlock'[p] = {} /\ p < alloc')
  BY DEF Apart
<1>1. p \in Nat /\ (p < alloc => p < alloc')
  <2>1. p \in Nat
    BY Numbers
  <2>q. QED
    BY <2>1
<1>2. Parts(p) /\ (slock[p] = {} \/ (xlock[p] = {} /\ p < alloc))
  BY DEF Apart
<1>q. QED
  BY <1>1, <1>2 DEF Parts

\* Exclusive locks are taken where nobody shares, or given back.
LEMMA LockMoves ==
  ASSUME IInv, NEW t \in Thread, slock' = slock,
         \/ xlock' = xlock
         \/ \E p \in Page : Unlocked(p)
         \/ \E p \in Page : CanLock(p) /\ Locked(t, p)
  PROVE  Moves(t) /\ \A p \in Page : Parts(p)
<1>1. xlock \in [Page -> SUBSET Thread]
  BY Mine
<1>q. QED
  BY <1>1 DEF Moves, Parts, Unlocked, CanLock, Locked

\* A scan shares what nobody has locked.
LEMMA ShareMoves ==
  ASSUME IInv, NEW t \in Thread, xlock' = xlock, NEW p \in Page,
         (Share(t, p) /\ xlock[p] = {} /\ p < alloc) \/ Unshare(t, p)
  PROVE  Moves(t) /\ \A q \in Page : Parts(q)
<1>1. slock \in [Page -> SUBSET Thread]
  BY Mine
<1>2. Moves(t)
  BY DEF Moves
<1>3. ASSUME NEW q \in Page PROVE Parts(q)
  BY <1>1 DEF Parts, Share, Unshare
<1>q. QED
  BY <1>2, <1>3

\* Every step of a thread moves latches so.
LEMMA LatchMoves ==
  ASSUME IInv, Apart, NEW t \in Thread, Step(t)
  PROVE  Moves(t) /\ \A p \in Page : Parts(p)
<1>0. Par(t) \in Page /\ Nod(t) \in Page /\ loc[t].cand \in Page /\ loc[t].held \in Page
      /\ Nod(t) < alloc /\ loc[t].cand < alloc
  BY Mine, LocalFacts
<1>1. CASE \/ Begin(t) \/ LoadMeta(t) \/ ReadChild(t) \/ LoadChild(t) \/ Recheck(t)
           \/ Lookup(t) \/ Update(t) \/ Insert(t) \/ Remove(t) \/ EnsureSpace(t)
           \/ CheckNode(t) \/ CheckParent(t) \/ Split(t) \/ SplitFirst(t)
           \/ Visit(t) \/ Stop(t)
  <2>1. xlock' = xlock /\ slock' = slock
    BY <1>1 DEF Begin, LoadMeta, ReadChild, LoadChild, Recheck, Lookup, Update, Insert, Remove,
                EnsureSpace, CheckNode, CheckParent, Split, SplitFirst, Visit, Stop, latch
  <2>q. QED
    BY <2>1, LockMoves
<1>2. CASE LockLeaf(t) \/ ReleaseParent(t) \/ WriteLeaf(t) \/ LockParent(t) \/ LockNode(t)
  <2>1. slock' = slock
    BY <1>2 DEF LockLeaf, ReleaseParent, WriteLeaf, LockParent, LockNode
  <2>2. \/ xlock' = xlock
        \/ \E p \in Page : Unlocked(p)
        \/ \E p \in Page : CanLock(p) /\ Locked(t, p)
    BY <1>0, <1>2 DEF LockLeaf, ReleaseParent, WriteLeaf, LockParent, LockNode
  <2>q. QED
    BY <2>1, <2>2, LockMoves
<1>3. CASE UnlockNode(t) \/ UnlockParent(t) \/ Merge(t)
  <2>1. slock' = slock /\ \E p \in Page : Unlocked(p)
    BY <1>0, <1>3 DEF UnlockNode, UnlockParent, Merge
  <2>q. QED
    BY <2>1, LockMoves
<1>4. CASE LockRight(t)
  <2> DEFINE right == RightChild(page[Par(t)], K(t))
  <2>1. slock' = slock /\ CanLock(right) /\ Locked(t, right)
        /\ loc' = [loc EXCEPT ![t].cand = right]
    BY <1>4 DEF LockRight
  <2>2. right \in Page
    <3>1. loc'[t] \in Local
      BY <1>4, LockRightStep DEF Kept, Typed
    <3>2. loc'[t].cand = right
      BY <2>1, Mine DEF Local
    <3>q. QED
      BY <3>1, <3>2 DEF Local
  <2> HIDE DEF right
  <2>q. QED
    BY <2>1, <2>2, LockMoves
<1>5. CASE NewRoot(t)
  <2>1. slock' = slock /\ xlock' = [xlock EXCEPT ![Meta] = {}, ![alloc] = {t}] /\ alloc <= NPages
    BY <1>5 DEF NewRoot
  <2>2. xlock \in [Page -> SUBSET Thread] /\ alloc \in Nat
    BY Mine
  <2>3. ASSUME NEW p \in Page PROVE Parts(p)
    <3>1. CASE p = alloc
      <4>1. slock[p] = {}
        BY <2>2, <3>1 DEF Apart
      <4>q. QED
        BY <2>1, <4>1 DEF Parts
    <3>2. CASE p # alloc
      BY <2>1, <2>2, <3>2 DEF Parts
    <3>q. QED
      BY <3>1, <3>2
  <2>q. QED
    BY <2>1, <2>3 DEF Moves
<1>6. CASE ScanLock(t)
  <2>1. CASE slock' = slock
    BY <1>6, <2>1, LockMoves DEF ScanLock
  <2>2. CASE slock' # slock
    <3>1. xlock' = xlock /\ CheckOk(loc[t].nod) /\ Share(t, Nod(t))
      BY <1>6, <2>2 DEF ScanLock
    <3>q. QED
      BY <1>0, <3>1, ShareMoves DEF CheckOk, Nod
  <2>q. QED
    BY <2>1, <2>2
<1>7. CASE LockNext(t)
  <2>1. xlock' = xlock /\ Share(t, loc[t].cand) /\ xlock[loc[t].cand] = {}
    BY <1>7 DEF LockNext
  <2>q. QED
    BY <1>0, <2>1, ShareMoves
<1>8. CASE UnlockLast(t) \/ EndScan(t)
  <2>1. xlock' = xlock /\ \E p \in Page : Unshare(t, p)
    BY <1>0, <1>8 DEF UnlockLast, EndScan
  <2>q. QED
    BY <2>1, ShareMoves
<1>q. QED
  BY <1>1, <1>2, <1>3, <1>4, <1>5, <1>6, <1>7, <1>8 DEF Step

\* A call keeps its operation until the next one begins.
LEMMA KeepsOp ==
  ASSUME IInv, Answered, NEW t \in Thread, Step(t), ~Begin(t)
  PROVE  loc'[t].op = loc[t].op
<1>1. Silent(t) \/ Reads(t) \/ Writes(t) => loc'[t].op = loc[t].op
  BY DEF Silent, Reads, Writes
<1>2. CASE LoadMeta(t) \/ ReadChild(t) \/ LoadChild(t) \/ Recheck(t)
  BY <1>1, <1>2, WaySilent
<1>3. CASE Lookup(t) \/ Update(t) \/ CheckParent(t) \/ CheckNode(t) \/ EndScan(t)
  BY <1>1, <1>3, LookupReads, UpdateReads, CheckParentReads, CheckNodeSilent, EndScanReads
<1>4. CASE \/ Insert(t) \/ Remove(t) \/ EnsureSpace(t) \/ LockLeaf(t) \/ LockParent(t)
           \/ Stop(t) \/ UnlockLast(t) \/ ScanLock(t)
  BY <1>1, <1>4, LeafSilent
<1>5. CASE \/ ReleaseParent(t) \/ LockNode(t) \/ LockRight(t) \/ UnlockNode(t)
           \/ UnlockParent(t)
  BY <1>1, <1>5, LockedSilent
<1>6. CASE NewRoot(t) \/ Split(t) \/ SplitFirst(t)
  BY <1>1, <1>6, SplitSilent
<1>7. CASE WriteLeaf(t) \/ Merge(t)
  BY <1>1, <1>7, WriteLeafWrites, MergeWrites
<1>8. CASE Visit(t) \/ LockNext(t)
  BY <1>1, <1>8, VisitSilent
<1>q. QED
  BY <1>2, <1>3, <1>4, <1>5, <1>6, <1>7, <1>8 DEF Step

ScanRecord == [got : Seq(Key), must : SUBSET Key]
\* What a step of thread t leaves of the scans: the others have visited what
\* they had, and nobody must visit a key that is not there.
Musts(t) ==
  /\ scan' = [u \in Thread |-> scan'[u]]
  /\ \A u \in Thread : scan'[u] \in ScanRecord /\ scan'[u].must \subseteq DOMAIN StoredIn(page')
  /\ \A u \in Thread : u # t =>
       scan'[u].got = scan[u].got /\ scan'[u].must \subseteq scan[u].must

\* A step that changes no scan, nor what the tree holds.
LEMMA MustsStay ==
  ASSUME ScanInv, NEW t \in Thread, scan' = scan, StoredIn(page') = StoredIn(page)
  PROVE  Musts(t)
BY DEF Musts, ScanInv, Scans, ScanRecord

\* A call that takes a key away takes it from what scans must visit.
LEMMA MustsDrop ==
  ASSUME ScanInv, NEW t \in Thread, Effect(t), Writes(t)
  PROVE  Musts(t)
<1> DEFINE k == loc[t].op.key  db == StoredIn(page)  db2 == StoredIn(page')
           v == At(db2, k)
<1>1. scan' = [u \in Thread |-> IF v = "absent" THEN [scan[u] EXCEPT !.must = @ \ {k}]
                                                 ELSE scan[u]]
  BY DEF Effect
<1>2. \/ DOMAIN db2 = DOMAIN db \ {k} /\ v = "absent"
      \/ DOMAIN db2 = DOMAIN db \union {k}
  <2>1. db2 = IF loc[t].op.kind = "remove" THEN Without(db, k) ELSE With(db, k, loc[t].op.val)
    BY DEF Writes
  <2> HIDE DEF db, db2, k
  <2>q. QED
    BY <2>1 DEF With, Without, At
<1> HIDE DEF db, db2, k, v
<1>3. ASSUME NEW u \in Thread
      PROVE  /\ scan'[u] \in ScanRecord /\ scan'[u].must \subseteq DOMAIN db2
             /\ scan'[u].got = scan[u].got /\ scan'[u].must \subseteq scan[u].must
  <2>1. scan[u] \in ScanRecord /\ scan[u].must \subseteq DOMAIN db
    BY DEF ScanInv, Scans, ScanRecord, db
  <2>2. scan'[u] = IF v = "absent" THEN [scan[u] EXCEPT !.must = @ \ {k}] ELSE scan[u]
    BY <1>1
  <2>q. QED
    BY <1>2, <2>1, <2>2 DEF ScanRecord
<1>q. QED
  BY <1>1, <1>3 DEF Musts, db2

\* A scan visits keys.
LEMMA MustsVisit ==
  ASSUME ScanInv, IInv, NEW t \in Thread, Visit(t) \/ Stop(t)
  PROVE  Musts(t)
<1>1. /\ pc[t] = "visit" /\ page' = page
      /\ \E q : /\ scan' = [scan EXCEPT ![t].got = @ \o q]
                /\ q = ToVisit(t) \/ \E i \in 1 .. Len(ToVisit(t)) : q = SubSeq(ToVisit(t), 1, i)
  BY DEF Visit, Stop, tree
<1>2. Scanning(loc[t].op) /\ Scans(t)
  BY <1>1, Mine DEF ScanInv, Knows, Calls
<1>3. PICK q : /\ scan' = [scan EXCEPT ![t].got = @ \o q]
               /\ q = ToVisit(t) \/ \E i \in 1 .. Len(ToVisit(t)) : q = SubSeq(ToVisit(t), 1, i)
  BY <1>1
<1>4. q \in Seq(Key)
  <2>1. ToVisit(t) \in Seq(Key) /\ Ordered(loc[t].op, ToVisit(t))
    BY <1>1, <1>2, Visiting
  <2>q. QED
    BY <1>3, <2>1, PrefixFacts
<1>5. scan = [u \in Thread |-> scan[u]]
  BY DEF ScanInv
<1>6. ASSUME NEW u \in Thread
      PROVE  /\ scan'[u] \in ScanRecord /\ scan'[u].must \subseteq DOMAIN StoredIn(page')
             /\ u # t => scan'[u] = scan[u]
  <2>1. scan[u] \in ScanRecord /\ scan[u].must \subseteq DOMAIN StoredIn(page)
    BY DEF ScanInv, Scans, ScanRecord
  <2> DEFINE s == scan[u].got \o q
  <2>2. scan'[u] = IF u = t THEN [scan[u] EXCEPT !.got = s] ELSE scan[u]
    BY <1>3, <1>5
  <2>3. scan[u].got \in Seq(Key)
    BY <2>1 DEF ScanRecord
  <2>4. s \in Seq(Key)
    BY <1>4, <2>3
  <2> HIDE DEF s
  <2>q. QED
    BY <1>1, <2>1, <2>2, <2>4 DEF ScanRecord
<1>7. scan' = [u \in Thread |-> scan'[u]]
  BY <1>3, <1>5
<1>q. QED
  BY <1>6, <1>7 DEF Musts

\* A scan that begins must visit what is there.
LEMMA MustsBegin ==
  ASSUME ScanInv, IInv, NEW t \in Thread, Begin(t)
  PROVE  Musts(t)
<1>1. page' = page /\ \E m : scan' = [scan EXCEPT ![t] = [got |-> << >>, must |-> m]]
                             /\ m \in {{}, DOMAIN StoredIn(page)}
  BY DEF Begin, tree
<1>2. PICK m : scan' = [scan EXCEPT ![t] = [got |-> << >>, must |-> m]]
               /\ m \in {{}, DOMAIN StoredIn(page)}
  BY <1>1
<1>3. m \in SUBSET Key /\ m \subseteq DOMAIN StoredIn(page)
  BY <1>2, StoredIs
<1>4. scan = [u \in Thread |-> scan[u]]
  BY DEF ScanInv
<1>5. ASSUME NEW u \in Thread
      PROVE  /\ scan'[u] \in ScanRecord /\ scan'[u].must \subseteq DOMAIN StoredIn(page')
             /\ u # t => scan'[u] = scan[u]
  <2>1. scan[u] \in ScanRecord /\ scan[u].must \subseteq DOMAIN StoredIn(page)
    BY DEF ScanInv, Scans, ScanRecord
  <2>2. scan'[u] = IF u = t THEN [got |-> << >>, must |-> m] ELSE scan[u]
    BY <1>2, <1>4
  <2>q. QED
    BY <1>1, <1>3, <2>1, <2>2 DEF ScanRecord
<1>6. scan' = [u \in Thread |-> scan'[u]]
  BY <1>2, <1>4
<1>q. QED
  BY <1>5, <1>6 DEF Musts

\* Every step leaves the other scans what they have visited, and what they must.
LEMMA StepsMust ==
  ASSUME ScanInv, IInv, Answered, NEW t \in Thread, Step(t)
  PROVE  Musts(t)
<1>1. CASE Begin(t)
  BY <1>1, MustsBegin
<1>2. CASE Visit(t) \/ Stop(t)
  BY <1>2, MustsVisit
<1>3. CASE WriteLeaf(t) \/ Merge(t)
  <2>1. Effect(t)
    BY <1>3 DEF WriteLeaf, Merge
  <2>q. QED
    BY <1>3, <2>1, MustsDrop, WriteLeafWrites, MergeWrites
<1>4. Silent(t) \/ Reads(t) => StoredIn(page') = StoredIn(page)
  BY DEF Silent, Reads
<1>5. CASE LoadMeta(t) \/ ReadChild(t) \/ LoadChild(t) \/ Recheck(t)
  <2>1. scan' = scan
    BY <1>5 DEF LoadMeta, ReadChild, LoadChild, Recheck, history
  <2>q. QED
    BY <1>4, <1>5, <2>1, WaySilent, MustsStay
<1>6. CASE Lookup(t) \/ Update(t) \/ CheckParent(t) \/ CheckNode(t) \/ EndScan(t)
  <2>1. scan' = scan
    BY <1>6 DEF Lookup, Update, CheckParent, CheckNode, EndScan, history, Return
  <2>q. QED
    BY <1>4, <1>6, <2>1, LookupReads, UpdateReads, CheckParentReads, CheckNodeSilent,
       EndScanReads, MustsStay
<1>7. CASE \/ Insert(t) \/ Remove(t) \/ EnsureSpace(t) \/ LockLeaf(t) \/ LockParent(t)
           \/ UnlockLast(t) \/ ScanLock(t)
  <2>1. scan' = scan
    BY <1>7 DEF Insert, Remove, EnsureSpace, LockLeaf, LockParent, UnlockLast, ScanLock, history
  <2>q. QED
    BY <1>4, <1>7, <2>1, LeafSilent, MustsStay
<1>8. CASE \/ ReleaseParent(t) \/ LockNode(t) \/ LockRight(t) \/ UnlockNode(t)
           \/ UnlockParent(t)
  <2>1. scan' = scan
    BY <1>8 DEF ReleaseParent, LockNode, LockRight, UnlockNode, UnlockParent, history
  <2>q. QED
    BY <1>4, <1>8, <2>1, LockedSilent, MustsStay
<1>9. CASE NewRoot(t) \/ Split(t) \/ SplitFirst(t) \/ LockNext(t)
  <2>1. scan' = scan
    BY <1>9 DEF NewRoot, Split, SplitFirst, LockNext, history
  <2>q. QED
    BY <1>4, <1>9, <2>1, SplitSilent, VisitSilent, MustsStay
<1>q. QED
  BY <1>1, <1>2, <1>3, <1>5, <1>6, <1>7, <1>8, <1>9 DEF Step
-----------------------------------------------------------------------------
(***************************************************************************)
(* The steps of a thread, as the scans of the others see them.             *)
(***************************************************************************)
\* Nobody changes a leaf that a scan shares, or takes it out of the tree.
LEMMA SharedStays ==
  ASSUME IInv, Apart, NEW t \in Thread, Step(t), NEW p \in Page, slock[p] # {}
  PROVE  Untouched(p)
<1>1. xlock[p] = {} /\ p < alloc
  BY DEF Apart
<1>2. p \notin Own(t)
  <2>1. xlock[p] = {t} <=> p \in Own(t)
    BY Mine DEF Latches
  <2>q. QED
    BY <1>1, <2>1
<1>3. Pages(t)
  BY Steps DEF Kept, Does
<1>q. QED
  BY <1>1, <1>2, <1>3 DEF Pages, Untouched

\* A thread takes nobody else's shared latch away.
LEMMA OthersShare ==
  ASSUME IInv, NEW t \in Thread, Moves(t), NEW u \in Thread, u # t, NEW p \in Page, u \in slock[p]
  PROVE  u \in slock'[p]
<1>1. slock \in [Page -> SUBSET Thread]
  BY Mine
<1>q. QED
  BY <1>1 DEF Moves, Share, Unshare

\* A border that a scan has reached stays one, and so does what it has visited.
LEMMA ScanStays ==
  ASSUME NEW u \in Thread, scan'[u].got = scan[u].got, scan'[u].must \subseteq scan[u].must,
         loc'[u].op = loc[u].op
  PROVE  /\ Visited(u)' = Visited(u)
         /\ \A f : Reached(u, f) => Reached(u, f)'
         /\ InOrder(u) => InOrder(u)'
         /\ NoGap(u) => NoGap(u)'
<1>1. Visited(u)' = Visited(u)
  BY DEF Visited
<1>2. scan'[u].must \ Visited(u) \subseteq scan[u].must \ Visited(u)
  OBVIOUS
<1>3. ASSUME NEW f, Reached(u, f) PROVE Reached(u, f)'
  BY <1>1, <1>2, <1>3 DEF Reached
<1>4. InOrder(u) => InOrder(u)'
  BY DEF InOrder
<1>5. NoGap(u) => NoGap(u)'
  BY <1>1, <1>2 DEF NoGap
<1>q. QED
  BY <1>1, <1>3, <1>4, <1>5

\* So a scan loses nothing by the steps of other threads.
LEMMA OtherScans ==
  ASSUME IInv, ScanInv, NEW t \in Thread, Step(t), Moves(t), Musts(t),
         NEW u \in Thread, u # t
  PROVE  Scans(u)'
<1>1. Spares(t, u)
  BY Steps DEF Kept, Does
<1>2. /\ pc'[u] = pc[u] /\ loc'[u].op = loc[u].op /\ loc'[u].key = loc[u].key
      /\ loc'[u].held = loc[u].held /\ loc'[u].cand = loc[u].cand /\ Nod(u)' = Nod(u)
  BY <1>1 DEF Spares, Same, Nod
<1>3. Scans(u) /\ Apart
  BY DEF ScanInv
<1>4. /\ scan'[u] \in ScanRecord /\ scan'[u].must \subseteq DOMAIN StoredIn(page')
      /\ scan'[u].got = scan[u].got /\ scan'[u].must \subseteq scan[u].must
  BY DEF Musts
<1>5. CASE ~Scanning(loc[u].op)
  BY <1>2, <1>4, <1>5 DEF Scans, ScanRecord
<1>6. CASE Scanning(loc[u].op)
  <2>1. /\ Shared(u) \subseteq {p \in Page : u \in slock[p]}
        /\ InOrder(u) /\ NoGap(u) /\ Position(u)
    BY <1>3, <1>6 DEF Scans
  <2>2. Shared(u)' = Shared(u)
    BY <1>1, <1>2 DEF Shared, SharedAt, Spares, Same
  <2>3. Shared(u)' \subseteq {p \in Page : u \in slock'[p]}
    BY <2>1, <2>2, OthersShare
  <2>4. \A p \in Shared(u) : Untouched(p)
    BY <1>3, <2>1, SharedStays
  <2>5. InOrder(u)' /\ NoGap(u)' /\ \A f : Reached(u, f) => Reached(u, f)'
    BY <1>2, <1>4, <2>1, ScanStays
  <2>6. Position(u)'
    <3>1. pc[u] \in {"visit", "lockNext", "next", "endScan", "stopScan"} =>
            page'[Nod(u)] = page[Nod(u)] /\ (LiveLeaf(page, Nod(u)) => LiveLeaf(page', Nod(u)))
      BY <2>4 DEF Shared, SharedAt, Nod, Untouched
    <3>2. pc[u] = "next" \/ (pc[u] \in Descending /\ loc[u].held # None) =>
            /\ page'[loc[u].held] = page[loc[u].held]
            /\ LiveLeaf(page, loc[u].held) => LiveLeaf(page', loc[u].held)
      BY <2>4 DEF Shared, SharedAt, Descending, Untouched
    <3>q. QED
      BY <1>2, <1>4, <2>1, <2>5, <3>1, <3>2, SMTT(60) DEF Position, Descending
  <2>q. QED
    BY <1>2, <1>4, <2>3, <2>5, <2>6 DEF Scans, ScanRecord
<1>q. QED
  BY <1>5, <1>6
-----------------------------------------------------------------------------
(***************************************************************************)
(* The steps of a scan.                                                    *)
(***************************************************************************)
\* What the invariant says of a scan, and what is left to show of its step.
LEMMA MyScan ==
  ASSUME IInv, ScanInv, NEW t \in Thread, Scanning(loc[t].op)
  PROVE  /\ scan[t] \in ScanRecord /\ scan[t].must \subseteq Key /\ scan[t].got \in Seq(Key)
         /\ Scans(t) /\ InOrder(t) /\ NoGap(t) /\ Position(t)
         /\ Shared(t) \subseteq {p \in Page : t \in slock[p]}
         /\ loc[t].op.kind \in {"scan", "scanDesc"} /\ loc[t].target = None
         /\ ~KeepsParent(t)
<1>1. loc[t].target # None => loc[t].op.kind = "insert"
  BY Mine DEF Knows, Calls
<1>q. QED
  BY <1>1 DEF ScanInv, Scans, ScanRecord, Scanning, KeepsParent

\* A step on the way down changes nothing of a scan.
LEMMA WayScan ==
  ASSUME IInv, ScanInv, NEW t \in Thread, Musts(t), Scanning(loc[t].op),
         pc[t] \in Descending, pc'[t] \in Descending,
         page' = page, slock' = slock, scan' = scan,
         loc'[t].op = loc[t].op, loc'[t].key = loc[t].key, loc'[t].held = loc[t].held
  PROVE  Scans(t)'
<1>1. /\ scan'[t] \in ScanRecord /\ scan'[t].must \subseteq DOMAIN StoredIn(page')
  BY DEF Musts
<1>2. /\ InOrder(t)' /\ NoGap(t)' /\ \A f : Reached(t, f) => Reached(t, f)'
  BY MyScan, ScanStays
<1>3. Shared(t)' \subseteq {p \in Page : t \in slock'[p]}
  <2>1. Shared(t)' = Shared(t)
    BY DEF Shared, SharedAt, Descending
  <2>q. QED
    BY <2>1, MyScan
<1>4. Position(t)'
  BY <1>2, MyScan DEF Position, Descending
<1>q. QED
  BY <1>1, <1>2, <1>3, <1>4 DEF Scans, ScanRecord

\* OLCRestartException: a scan starts from the root, for the same key.
LEMMA RestartScan ==
  ASSUME IInv, ScanInv, NEW t \in Thread, Musts(t), Scanning(loc[t].op),
         pc[t] \in Descending, Restart(t), page' = page, slock' = slock, scan' = scan
  PROVE  Scans(t)'
<1>1. pc'[t] = "start" /\ loc'[t] = Start(loc[t])
  BY Mine DEF Restart, Goto
<1>2. /\ Start(loc[t]).op = loc[t].op /\ Start(loc[t]).key = loc[t].key
      /\ Start(loc[t]).held = loc[t].held
  BY Mine DEF Start, Local
<1>q. QED
  BY <1>1, <1>2, WayScan DEF Descending

\* The way down.
LEMMA DescendScan ==
  ASSUME IInv, ScanInv, NEW t \in Thread, Musts(t), Scanning(loc[t].op),
         LoadMeta(t) \/ ReadChild(t) \/ LoadChild(t) \/ Recheck(t)
  PROVE  Scans(t)'
<1>1. pc[t] \in Descending /\ page' = page /\ slock' = slock /\ scan' = scan
  BY DEF LoadMeta, ReadChild, LoadChild, Recheck, tree, latch, history, Descending
<1>2. CASE Restart(t)
  BY <1>1, <1>2, RestartScan
<1>3. CASE ~Restart(t)
  <2>1. pc'[t] \in Descending
    BY <1>3, Mine DEF LoadMeta, ReadChild, LoadChild, Recheck, Goto, Descending
  <2>2. loc'[t].op = loc[t].op /\ loc'[t].key = loc[t].key /\ loc'[t].held = loc[t].held
    BY <1>3, Mine DEF LoadMeta, ReadChild, LoadChild, Recheck, Local
  <2>q. QED
    BY <1>1, <2>1, <2>2, WayScan
<1>q. QED
  BY <1>2, <1>3

\* Two leaves that enclose a key are one.
LEMMA OneLeaf ==
  ASSUME IInv, NEW p, NEW q, LiveLeaf(page, p), LiveLeaf(page, q), NEW k \in Key,
         Encloses(page[p], k), Encloses(page[q], k)
  PROVE  p = q
<1>1. LeafIn(page, k) = p /\ LeafIn(page, k) = q
  BY LeafHas
<1>q. QED
  BY <1>1

\* The leaf of the key where another begins ends there.
LEMMA EndsThere ==
  ASSUME IInv, NEW p, NEW q, LiveLeaf(page, p), LiveLeaf(page, q),
         Encloses(page[q], page[p].lower), page[p].lower \in Nat
  PROVE  page[q].upper = page[p].lower
<1> DEFINE f == page[p].lower
<1>1. f \in Nat /\ page[q].lower \in Nat /\ page[q].upper \in Nat
      /\ page[q].lower < f /\ f <= page[q].upper
  BY LeafHas DEF Encloses
<1>2. f + 1 \in Key /\ Encloses(page[p], f + 1)
  <2>1. Shape(page, alloc)
    BY DEF IInv
  <2>q. QED
    BY <2>1, LiveFences
<1>3. ASSUME f # page[q].upper PROVE FALSE
  <2>1. f + 1 <= page[q].upper /\ page[q].lower < f + 1
    BY <1>1, <1>3
  <2>2. Encloses(page[q], f + 1)
    BY <2>1 DEF Encloses
  <2>3. p = q
    BY <1>2, <2>2, OneLeaf
  <2>q. QED
    BY <1>1, <2>3
<1>q. QED
  BY <1>3

\* GuardS on the leaf that the way down led to.
LEMMA ScanLockScan ==
  ASSUME IInv, ScanInv, NEW t \in Thread, Musts(t), Scanning(loc[t].op), ScanLock(t)
  PROVE  Scans(t)'
<1>1. pc[t] = "leaf" /\ page' = page /\ scan' = scan
  BY DEF ScanLock, AtLeaf, tree, history
<1>2. CASE Restart(t) /\ slock' = slock
  BY <1>1, <1>2, RestartScan DEF Descending
<1>3. CASE /\ CheckOk(loc[t].nod) /\ Share(t, Nod(t)) /\ loc' = loc
           /\ Goto(t, IF loc[t].held = None THEN "visit" ELSE "next")
  <2>1. Own(t) = {}
    BY <1>1 DEF Own, OwnAt
  <2>2. LiveLeaf(page, Nod(t)) /\ Encloses(page[Nod(t)], K(t))
    <3>1. QNod(t)
      BY <1>3, <2>1, Mine, QuietIsOk
    <3>q. QED
      BY <1>1, <3>1, Mine, MyScan DEF Knows, Way, Home
  <2>3. pc'[t] = IF loc[t].held = None THEN "visit" ELSE "next"
    BY <1>3, Mine DEF Goto
  <2>4. /\ scan'[t] \in ScanRecord /\ scan'[t].must \subseteq DOMAIN StoredIn(page')
    BY DEF Musts
  <2>5. /\ InOrder(t)' /\ NoGap(t)' /\ \A f : Reached(t, f) => Reached(t, f)'
    BY <1>1, <1>3, MyScan, ScanStays
  <2>6. Nod(t) \in Page /\ slock \in [Page -> SUBSET Thread]
    BY Mine
  <2>7. \A p \in Page : t \in slock[p] \/ p = Nod(t) => t \in slock'[p]
    BY <1>3, <2>6 DEF Share
  <2>8. Shared(t)' \subseteq {p \in Page : t \in slock'[p]}
    <3>1. loc[t].held # None => loc[t].held \in Page /\ t \in slock[loc[t].held]
      BY <1>1, MyScan DEF Shared, SharedAt
    <3>2. Shared(t)' = IF loc[t].held = None THEN {Nod(t)} ELSE {Nod(t), loc[t].held}
      BY <1>3, <2>3 DEF Shared, SharedAt, Nod
    <3>q. QED
      BY <2>6, <2>7, <3>1, <3>2
  <2>9. Position(t)'
    <3>1. CASE loc[t].held = None
      <4>1. scan[t].got = << >> /\ loc[t].key = loc[t].op.key
        BY <1>1, <3>1, MyScan DEF Position, Descending
      <4>q. QED
        BY <1>1, <1>3, <2>2, <2>3, <3>1, <4>1 DEF Position, Descending, Nod, K
    <3>2. CASE loc[t].held # None
      <4> DEFINE h == page[loc[t].held]
      <4>1. /\ loc[t].op.kind = "scanDesc" /\ LiveLeaf(page, loc[t].held)
            /\ loc[t].key = h.lower /\ Reached(t, h.lower)
        BY <1>1, <3>2, MyScan DEF Position, Descending
      <4>2. h.lower \in Nat
        BY <4>1, LeafHas
      <4>3. page[Nod(t)].upper = h.lower
        BY <2>2, <4>1, <4>2, EndsThere DEF K
      <4>4. Reached(t, page[Nod(t)].upper)'
        BY <1>1, <1>3, <2>5, <4>1, <4>3 DEF Nod
      <4>q. QED
        BY <1>1, <1>3, <2>2, <2>3, <3>2, <4>1, <4>3, <4>4
        DEF Position, Descending, Nod, Front, Back
    <3>q. QED
      BY <3>1, <3>2
  <2>q. QED
    BY <1>3, <2>4, <2>5, <2>8, <2>9 DEF Scans, ScanRecord
<1>q. QED
  BY <1>2, <1>3 DEF ScanLock

\* What has been visited, after a leaf or a part of it.
LEMMA VisitedMore ==
  ASSUME IInv, ScanInv, NEW t \in Thread, Scanning(loc[t].op), pc[t] = "visit",
         NEW q, q = ToVisit(t) \/ \E i \in 1 .. Len(ToVisit(t)) : q = SubSeq(ToVisit(t), 1, i),
         scan' = [scan EXCEPT ![t].got = @ \o q], loc'[t].op = loc[t].op
  PROVE  /\ scan'[t].must = scan[t].must /\ scan'[t].got = scan[t].got \o q
         /\ q \in Seq(Key) /\ Elems(q) \subseteq Elems(ToVisit(t))
         /\ Visited(t)' = Visited(t) \union Elems(q)
         /\ InOrder(t)'
         /\ \A k \in Elems(ToVisit(t)) \ Elems(q), j \in Elems(q) : Before(loc[t].op, j, k)
<1> DEFINE o == loc[t].op  V == ToVisit(t)
<1>1. scan[t] \in ScanRecord /\ scan[t].got \in Seq(Key) /\ Ordered(o, scan[t].got)
  BY MyScan DEF InOrder
<1>2. /\ V \in Seq(Key) /\ Ordered(o, V)
      /\ \A i \in Visited(t), j \in Elems(V) : Before(o, i, j)
  BY MyScan, Visiting
<1>3. /\ q \in Seq(Key) /\ Ordered(o, q) /\ Elems(q) \subseteq Elems(V)
      /\ \A k \in Elems(V) \ Elems(q), j \in Elems(q) : Before(o, j, k)
  <2> HIDE DEF V, o
  <2>1. CASE q = V
    BY <1>2, <2>1
  <2>2. ASSUME NEW i \in 1 .. Len(V), q = SubSeq(V, 1, i)
        PROVE  /\ q \in Seq(Key) /\ Ordered(o, q) /\ Elems(q) \subseteq Elems(V)
               /\ \A k \in Elems(V) \ Elems(q), j \in Elems(q) : Before(o, j, k)
    BY <1>2, <2>2, PrefixFacts
  <2>q. QED
    BY <2>1, <2>2 DEF V
<1>4. Visited(t) = Elems(scan[t].got)
  BY DEF Visited, Elems
<1> DEFINE s == scan[t].got \o q
<1>5. s \in Seq(Key) /\ Elems(s) = Visited(t) \union Elems(q) /\ Ordered(o, s)
  <2>1. \A i \in Elems(scan[t].got), j \in Elems(q) : Before(o, i, j)
    BY <1>2, <1>3, <1>4
  <2> HIDE DEF o, V
  <2>q. QED
    BY <1>1, <1>3, <1>4, <2>1, Appended
<1>6. scan'[t].must = scan[t].must /\ scan'[t].got = s
  <2>1. scan = [u \in Thread |-> scan[u]]
    BY DEF ScanInv
  <2>2. scan' = [scan EXCEPT ![t].got = s]
    OBVIOUS
  <2> HIDE DEF s
  <2>q. QED
    BY <1>1, <2>1, <2>2 DEF ScanRecord
<1>7. Visited(t)' = Elems(scan'[t].got)
  BY DEF Visited, Elems
<1> HIDE DEF s
<1>8. Visited(t)' = Visited(t) \union Elems(q)
  BY <1>5, <1>6, <1>7
<1>9. InOrder(t)'
  BY <1>5, <1>6 DEF InOrder
<1>q. QED
  BY <1>3, <1>6, <1>8, <1>9 DEF s

\* A scan has visited a leaf: it goes on to the next one, or is at the end.
LEMMA VisitScan ==
  ASSUME IInv, ScanInv, NEW t \in Thread, Musts(t), Scanning(loc[t].op), Visit(t)
  PROVE  Scans(t)'
<1> DEFINE n == page[Nod(t)]  o == loc[t].op  V == Elems(ToVisit(t))
<1>1. /\ pc[t] = "visit" /\ page' = page /\ slock' = slock
      /\ scan' = [scan EXCEPT ![t].got = @ \o ToVisit(t)]
  BY DEF Visit, tree, latch
<1>2. loc'[t].op = o
  BY VisitSilent DEF Silent
<1>3. PICK f \in Nat :
        /\ f = Back(o, n)
        /\ \A j \in Visited(t) \union V : Behind(o, j, f)
        /\ \A k \in scan[t].must \ (Visited(t) \union V) : InRange(o, k) => ~Behind(o, k, f)
  BY <1>1, MyScan, Visiting
<1>4. /\ scan'[t].must = scan[t].must /\ Visited(t)' = Visited(t) \union V /\ InOrder(t)'
  BY <1>1, <1>2, VisitedMore
<1>5. scan'[t] \in ScanRecord /\ scan'[t].must \subseteq DOMAIN StoredIn(page')
  BY DEF Musts
<1>6. Reached(t, f)'
  BY <1>2, <1>3, <1>4 DEF Reached
<1>7. NoGap(t)'
  <2>1. /\ \A k \in scan'[t].must : k \in Nat
        /\ \A j \in Visited(t)' : j \in Nat
    <3>1. scan'[t].got \in Seq(Key) /\ scan'[t].must \subseteq Key
      BY <1>5 DEF ScanRecord
    <3>2. Visited(t)' \subseteq Key
      BY <3>1 DEF Visited
    <3>q. QED
      BY <3>1, <3>2, Numbers
  <2>2. ASSUME NEW k \in scan'[t].must \ Visited(t)', NEW j \in Visited(t)', InRange(o, k)
        PROVE  ~Before(o, k, j)
    <3>1. Behind(o, j, f) /\ ~Behind(o, k, f)
      BY <1>3, <1>4, <2>2
    <3>2. k \in Nat /\ j \in Nat /\ f \in Nat
      BY <1>3, <2>1, <2>2
    <3>q. QED
      BY <3>1, <3>2, OrderFacts
  <2>q. QED
    BY <1>2, <2>2 DEF NoGap
<1>8. /\ LiveLeaf(page, Nod(t)) /\ Nod(t) \in Page /\ Nod(t) # None /\ t \in slock[Nod(t)]
  <2>1. LiveLeaf(page, Nod(t)) /\ t \in slock[Nod(t)]
    BY <1>1, MyScan DEF Position, Shared, SharedAt, Nod
  <2>q. QED
    BY <2>1, LeafHas
<1>9. loc \in [Thread -> Local] /\ loc[t] \in Local /\ pc \in [Thread -> Label]
  BY Mine
<1>10. CASE /\ o.kind = "scan" /\ n.last # None
            /\ loc' = [loc EXCEPT ![t].held = Nod(t), ![t].cand = n.last]
            /\ Goto(t, "lockNext")
  <2>1. /\ pc'[t] = "lockNext" /\ loc'[t].held = Nod(t) /\ loc'[t].cand = n.last
        /\ Nod(t)' = Nod(t)
    BY <1>9, <1>10 DEF Goto, Local, Nod
  <2>2. f = n.upper
    BY <1>3, <1>10 DEF Back
  <2>3. Reached(t, page[Nod(t)].upper)'
    BY <1>1, <1>6, <2>1, <2>2
  <2>4. Position(t)'
    BY <1>1, <1>2, <1>8, <1>10, <2>1, <2>3 DEF Position, Descending
  <2>5. Shared(t)' \subseteq {p \in Page : t \in slock'[p]}
    BY <1>1, <1>8, <2>1 DEF Shared, SharedAt, Nod
  <2>q. QED
    BY <1>4, <1>5, <1>7, <2>4, <2>5 DEF Scans, ScanRecord
<1>11. CASE /\ o.kind = "scanDesc" /\ n.lower # 0
            /\ loc' = [loc EXCEPT ![t] = [Start(@) EXCEPT !.held = Nod(t), !.key = n.lower]]
            /\ Goto(t, "start")
  <2>1. Start(loc[t]) \in Local
    BY <1>9, LocalFacts
  <2>2. /\ pc'[t] = "start" /\ loc'[t].held = Nod(t) /\ loc'[t].key = n.lower
    BY <1>9, <1>11, <2>1 DEF Goto, Local
  <2>3. f = n.lower
    BY <1>3, <1>11 DEF Back
  <2>4. Reached(t, page[loc[t].held].lower)'
    BY <1>1, <1>6, <2>2, <2>3
  <2>5. Position(t)'
    BY <1>1, <1>2, <1>8, <1>11, <2>2, <2>4 DEF Position, Descending
  <2>6. Shared(t)' \subseteq {p \in Page : t \in slock'[p]}
    BY <1>1, <1>8, <2>2 DEF Shared, SharedAt
  <2>q. QED
    BY <1>4, <1>5, <1>7, <2>5, <2>6 DEF Scans, ScanRecord
<1>12. CASE /\ IF o.kind = "scan" THEN n.last = None ELSE n.lower = 0
            /\ Goto(t, "endScan") /\ loc' = loc
  <2>1. pc'[t] = "endScan" /\ Nod(t)' = Nod(t)
    BY <1>9, <1>12 DEF Goto, Nod
  <2>2. f = IF o.kind = "scan" THEN Inf ELSE 0
    <3>1. n.last = None => n.upper = Inf
      BY <1>8, LeafHas
    <3>q. QED
      BY <1>3, <1>12, <3>1 DEF Back
  <2>3. Position(t)'
    BY <1>1, <1>2, <1>6, <1>8, <2>1, <2>2 DEF Position, Descending
  <2>4. Shared(t)' \subseteq {p \in Page : t \in slock'[p]}
    BY <1>1, <1>8, <1>12, <2>1 DEF Shared, SharedAt, Nod
  <2>q. QED
    BY <1>4, <1>5, <1>7, <2>3, <2>4 DEF Scans, ScanRecord
<1>q. QED
  BY <1>10, <1>11, <1>12 DEF Visit

\* fn returns false: there is no gap in what the scan has visited so far.
LEMMA StopScan ==
  ASSUME IInv, ScanInv, NEW t \in Thread, Musts(t), Scanning(loc[t].op), Stop(t)
  PROVE  Scans(t)'
<1> DEFINE n == page[Nod(t)]  o == loc[t].op  V == Elems(ToVisit(t))
<1>1. /\ pc[t] = "visit" /\ page' = page /\ slock' = slock /\ loc' = loc /\ Goto(t, "stopScan")
  BY DEF Stop, tree, latch
<1>2. PICK i \in 1 .. Len(ToVisit(t)) :
        scan' = [scan EXCEPT ![t].got = @ \o SubSeq(ToVisit(t), 1, i)]
  BY DEF Stop
<1> DEFINE q == SubSeq(ToVisit(t), 1, i)  Q == Elems(q)
<1>3. /\ scan'[t].must = scan[t].must /\ Q \subseteq V
      /\ Visited(t)' = Visited(t) \union Q /\ InOrder(t)'
      /\ \A k \in V \ Q, j \in Q : Before(o, j, k)
  BY <1>1, <1>2, VisitedMore
<1>4. PICK f \in Nat :
        /\ V \subseteq Keys(n)
        /\ \A j \in Visited(t) \union V : Behind(o, j, f)
        /\ \A k \in scan[t].must \ (Visited(t) \union V) : InRange(o, k) => ~Behind(o, k, f)
  BY <1>1, MyScan, Visiting
<1>5. scan'[t] \in ScanRecord /\ scan'[t].must \subseteq DOMAIN StoredIn(page')
  BY DEF Musts
<1>6. /\ \A k \in scan'[t].must : k \in Nat
      /\ \A j \in Visited(t)' : j \in Nat
  <2>1. scan'[t].got \in Seq(Key) /\ scan'[t].must \subseteq Key
    BY <1>5 DEF ScanRecord
  <2>2. Visited(t)' \subseteq Key
    BY <2>1 DEF Visited
  <2>q. QED
    BY <2>1, <2>2, Numbers
<1> HIDE DEF q, Q, V
<1>7. ASSUME NEW k \in scan'[t].must \ Visited(t)', NEW j \in Visited(t)', InRange(o, k)
      PROVE  ~Before(o, k, j)
  <2>1. k \in Nat /\ j \in Nat /\ k \in scan[t].must /\ k \notin Visited(t) /\ k \notin Q
    BY <1>3, <1>6, <1>7
  <2>2. CASE j \in Visited(t)
    BY <1>7, <2>1, <2>2, MyScan DEF NoGap
  <2>3. CASE j \in Q /\ k \in V
    <3>1. Before(o, j, k)
      BY <1>3, <2>1, <2>3
    <3>q. QED
      BY <2>1, <3>1, OrderFacts
  <2>4. CASE j \in Q /\ k \notin V
    <3>1. Behind(o, j, f) /\ ~Behind(o, k, f)
      BY <1>3, <1>4, <1>7, <2>1, <2>4
    <3>q. QED
      BY <1>4, <2>1, <3>1, OrderFacts
  <2>q. QED
    BY <1>3, <1>7, <2>2, <2>3, <2>4
<1>8. NoGap(t)'
  BY <1>1, <1>7 DEF NoGap
<1>9. pc'[t] = "stopScan"
  BY <1>1, Mine DEF Goto
<1>10. Shared(t)' \subseteq {p \in Page : t \in slock'[p]} /\ Position(t)'
  BY <1>1, <1>9, MyScan DEF Shared, SharedAt, Position, Nod, Descending
<1>q. QED
  BY <1>3, <1>5, <1>8, <1>10 DEF Scans, ScanRecord

\* scanAsc locks the next leaf, which begins where the last one ends.
LEMMA LockNextScan ==
  ASSUME IInv, ScanInv, NEW t \in Thread, Musts(t), Scanning(loc[t].op), LockNext(t)
  PROVE  Scans(t)'
<1> DEFINE o == loc[t].op  c == loc[t].cand  n == page[Nod(t)]
<1>1. /\ pc[t] = "lockNext" /\ page' = page /\ scan' = scan /\ Share(t, c)
      /\ pc'[t] = "next"
  BY Mine DEF LockNext, tree, history, Goto
<1>2. loc'[t].op = o
  BY VisitSilent DEF Silent
<1>3. /\ LiveLeaf(page, Nod(t)) /\ o.kind = "scan" /\ loc[t].held = Nod(t)
      /\ c = n.last /\ n.last # None /\ Reached(t, n.upper) /\ t \in slock[Nod(t)]
  BY <1>1, MyScan DEF Position, Descending, Shared, SharedAt, Nod
<1>4. LiveLeaf(page, c) /\ page[c].lower = n.upper /\ Nod(t) # None /\ Nod(t) \in Page
  BY <1>3, LeafHas
<1>5. c \in Page /\ loc[t].nod \in Guard
  BY Mine, LocalFacts
<1>6. Nod(t)' = c /\ loc'[t].held = Nod(t)
  <2>1. loc' = [loc EXCEPT ![t].nod.pid = c]
    BY DEF LockNext
  <2> HIDE DEF c
  <2>q. QED
    BY <1>3, <1>5, <2>1, Mine DEF Nod, Local, Guard
<1>7. /\ scan'[t] \in ScanRecord /\ scan'[t].must \subseteq DOMAIN StoredIn(page')
  BY DEF Musts
<1>8. /\ InOrder(t)' /\ NoGap(t)' /\ \A f : Reached(t, f) => Reached(t, f)'
  BY <1>1, <1>2, MyScan, ScanStays
<1>9. Reached(t, page[Nod(t)].lower)'
  BY <1>1, <1>3, <1>4, <1>6, <1>8
<1>10. Position(t)'
  BY <1>1, <1>2, <1>3, <1>4, <1>6, <1>9 DEF Position, Descending, Front, Back
<1>11. Shared(t)' \subseteq {p \in Page : t \in slock'[p]}
  <2>1. Shared(t)' = {c, Nod(t)}
    BY <1>1, <1>6 DEF Shared, SharedAt, Nod
  <2>2. slock \in [Page -> SUBSET Thread]
    BY Mine
  <2> HIDE DEF c
  <2>q. QED
    BY <1>1, <1>3, <1>4, <1>5, <2>1, <2>2 DEF Share
<1>q. QED
  BY <1>2, <1>7, <1>8, <1>10, <1>11 DEF Scans, ScanRecord

\* The leaf that it came from is another one.
LEMMA UnlockLastScan ==
  ASSUME IInv, ScanInv, NEW t \in Thread, Musts(t), Scanning(loc[t].op), UnlockLast(t)
  PROVE  Scans(t)'
<1> DEFINE o == loc[t].op  h == loc[t].held
<1>1. /\ pc[t] = "next" /\ page' = page /\ scan' = scan /\ Unshare(t, h) /\ loc' = loc
      /\ pc'[t] = "visit"
  BY Mine DEF UnlockLast, tree, history, Goto
<1>2. /\ LiveLeaf(page, Nod(t)) /\ LiveLeaf(page, h) /\ h # None
      /\ Back(o, page[h]) = Front(o, page[Nod(t)]) /\ Reached(t, Front(o, page[Nod(t)]))
      /\ t \in slock[Nod(t)]
  BY <1>1, MyScan DEF Position, Descending, Shared, SharedAt, Nod
<1>3. h # Nod(t) /\ Nod(t) \in Page
  BY <1>2, LeafHas DEF Front, Back
<1>4. /\ scan'[t] \in ScanRecord /\ scan'[t].must \subseteq DOMAIN StoredIn(page')
  BY DEF Musts
<1>5. /\ InOrder(t)' /\ NoGap(t)' /\ \A f : Reached(t, f) => Reached(t, f)'
  BY <1>1, MyScan, ScanStays
<1>6. Reached(t, Front(o, page[Nod(t)]))'
  BY <1>1, <1>2, <1>5 DEF Nod
<1>7. Position(t)'
  BY <1>1, <1>2, <1>6 DEF Position, Descending, Nod
<1>8. Shared(t)' \subseteq {p \in Page : t \in slock'[p]}
  <2>1. Shared(t)' = {Nod(t)}
    BY <1>1 DEF Shared, SharedAt, Nod
  <2>2. slock \in [Page -> SUBSET Thread]
    BY Mine
  <2>q. QED
    BY <1>1, <1>2, <1>3, <2>1, <2>2 DEF Unshare
<1>q. QED
  BY <1>1, <1>4, <1>5, <1>7, <1>8 DEF Scans, ScanRecord

\* A scan that is over has visited what it has visited.
LEMMA EndScanScan ==
  ASSUME IInv, ScanInv, NEW t \in Thread, Musts(t), Scanning(loc[t].op), EndScan(t)
  PROVE  Scans(t)'
<1>1. page' = page /\ scan' = scan /\ pc'[t] = "idle"
  BY Mine DEF EndScan, tree, Return, Goto
<1>2. loc'[t].op = loc[t].op
  BY EndScanReads DEF Reads
<1>3. /\ scan'[t] \in ScanRecord /\ scan'[t].must \subseteq DOMAIN StoredIn(page')
  BY DEF Musts
<1>4. InOrder(t)' /\ NoGap(t)'
  BY <1>1, <1>2, MyScan, ScanStays
<1>5. Shared(t)' = {} /\ Position(t)'
  BY <1>1 DEF Shared, SharedAt, Position, Descending
<1>q. QED
  BY <1>3, <1>4, <1>5 DEF Scans, ScanRecord

\* A scan begins with nothing visited.
LEMMA BeginScan ==
  ASSUME IInv, ScanInv, NEW t \in Thread, Musts(t), Begin(t)
  PROVE  Scans(t)'
<1>1. PICK o : loc' = [loc EXCEPT ![t] =
                         [NoLocal EXCEPT !.op = o, !.ans = "pending", !.key = o.key]]
  BY DEF Begin
<1>2. pc'[t] = "start" /\ scan'[t].got = << >>
  <2>1. scan = [u \in Thread |-> scan[u]]
    BY DEF ScanInv
  <2>q. QED
    BY <2>1, Mine DEF Begin, Goto
<1>3. loc'[t].op = o /\ loc'[t].key = o.key /\ loc'[t].held = None
  BY <1>1, Mine DEF NoLocal
<1>4. /\ scan'[t] \in ScanRecord /\ scan'[t].must \subseteq DOMAIN StoredIn(page')
  BY DEF Musts
<1>5. InOrder(t)' /\ NoGap(t)'
  BY <1>2 DEF InOrder, Ordered, NoGap, Visited
<1>6. Shared(t)' = {} /\ Position(t)'
  BY <1>2, <1>3 DEF Shared, SharedAt, Position, Descending
<1>q. QED
  BY <1>4, <1>5, <1>6 DEF Scans, ScanRecord

\* So a scan takes no step that breaks it.
LEMMA MyScans ==
  ASSUME IInv, Answered, ScanInv, NEW t \in Thread, Musts(t), Step(t)
  PROVE  Scans(t)'
<1>1. CASE Begin(t)
  BY <1>1, BeginScan
<1>2. CASE ~Begin(t) /\ ~Scanning(loc[t].op)
  <2>1. ~Scanning(loc'[t].op)
    BY <1>2, KeepsOp
  <2>q. QED
    BY <2>1 DEF Scans, Musts, ScanRecord
<1>3. CASE ~Begin(t) /\ Scanning(loc[t].op)
  <2>1. /\ pc[t] \in Descending \union {"visit", "lockNext", "next", "endScan", "stopScan", "idle"}
        /\ loc[t].op.kind \in {"scan", "scanDesc"} /\ loc[t].target = None
    BY <1>3, MyScan DEF Position
  <2>2. CASE \/ LoadMeta(t) \/ ReadChild(t) \/ LoadChild(t) \/ Recheck(t) \/ ScanLock(t)
             \/ Visit(t) \/ Stop(t) \/ LockNext(t) \/ UnlockLast(t) \/ EndScan(t)
    BY <1>3, <2>2, DescendScan, ScanLockScan, VisitScan, StopScan, LockNextScan, UnlockLastScan,
       EndScanScan
  <2>3. ~(Lookup(t) \/ Update(t) \/ Insert(t) \/ Remove(t) \/ EnsureSpace(t))
    BY <2>1 DEF Lookup, Update, Insert, Remove, EnsureSpace, AtLeaf
  <2>4. ~(CheckNode(t) \/ CheckParent(t) \/ LockLeaf(t) \/ ReleaseParent(t) \/ WriteLeaf(t)
          \/ LockParent(t) \/ LockNode(t) \/ NewRoot(t) \/ Split(t) \/ SplitFirst(t)
          \/ LockRight(t) \/ Merge(t) \/ UnlockNode(t) \/ UnlockParent(t))
    BY <2>1 DEF Descending, CheckNode, CheckParent, LockLeaf, ReleaseParent, WriteLeaf, LockParent,
       LockNode, NewRoot, Split, SplitFirst, LockRight, Merge, UnlockNode, UnlockParent
  <2>q. QED
    BY <1>3, <2>2, <2>3, <2>4 DEF Step
<1>q. QED
  BY <1>1, <1>2, <1>3
-----------------------------------------------------------------------------
(***************************************************************************)
(* The invariant of scans.                                                 *)
(***************************************************************************)
\* Nobody scans yet.
LEMMA InitScans == Init => ScanInv
<1> SUFFICES ASSUME Init PROVE ScanInv
  OBVIOUS
<1>1. /\ slock = [p \in Page |-> {}] /\ loc = [t \in Thread |-> NoLocal]
      /\ scan = [t \in Thread |-> [got |-> << >>, must |-> {}]]
  BY DEF Init
<1>2. Apart
  BY <1>1 DEF Apart
<1>3. ASSUME NEW t \in Thread PROVE Scans(t)
  <2>1. ~Scanning(loc[t].op)
    BY <1>1 DEF NoLocal, NoOp, Scanning
  <2>2. scan[t].got = << >> /\ scan[t].must = {} /\ scan[t] \in ScanRecord
    BY <1>1 DEF ScanRecord
  <2>q. QED
    BY <2>1, <2>2 DEF Scans, ScanRecord
<1>q. QED
  BY <1>1, <1>2, <1>3 DEF ScanInv

\* Every step keeps it.
LEMMA StepScans == IInv /\ IInv' /\ Answered /\ ScanInv /\ [Next]_vars => ScanInv'
<1> SUFFICES ASSUME IInv, IInv', Answered, ScanInv, [Next]_vars PROVE ScanInv'
  OBVIOUS
<1>1. ASSUME NEW t \in Thread, Step(t) PROVE ScanInv'
  <2>1. Musts(t)
    BY <1>1, StepsMust
  <2>2. Apart /\ Moves(t) /\ \A p \in Page : Parts(p)
    BY <1>1, LatchMoves DEF ScanInv
  <2>3. Apart'
    <3>1. alloc \in Nat /\ alloc' \in Nat /\ alloc <= alloc'
      BY <1>1, Steps DEF Kept, Does, Pages
    <3>q. QED
      BY <2>2, <3>1, ApartKept
  <2>4. ASSUME NEW u \in Thread PROVE Scans(u)'
    BY <1>1, <2>1, <2>2, MyScans, OtherScans
  <2>q. QED
    BY <2>1, <2>3, <2>4 DEF ScanInv, Musts
<1>2. CASE UNCHANGED vars
  <2>1. /\ page' = page /\ alloc' = alloc /\ xlock' = xlock /\ slock' = slock
        /\ pc' = pc /\ loc' = loc /\ scan' = scan
    BY <1>2 DEF vars
  <2>2. Apart'
    BY <2>1 DEF ScanInv, Apart
  <2>3. ASSUME NEW u \in Thread PROVE Scans(u)'
    <3>1. Scans(u)
      BY DEF ScanInv
    <3>2. /\ InOrder(u) => InOrder(u)'
          /\ NoGap(u) => NoGap(u)'
          /\ \A f : Reached(u, f) => Reached(u, f)'
      BY <2>1, ScanStays
    <3>3. Shared(u)' = Shared(u) /\ Nod(u)' = Nod(u)
      BY <2>1 DEF Shared, Nod
    <3>4. Position(u) => Position(u)'
      BY <2>1, <3>2, <3>3 DEF Position
    <3>q. QED
      BY <2>1, <3>1, <3>2, <3>3, <3>4 DEF Scans
  <2>q. QED
    BY <2>1, <2>2, <2>3 DEF ScanInv
<1>q. QED
  BY <1>1, <1>2 DEF Next, Finished

\* The invariant of scans says what a scan has promised.
LEMMA ScansAre == IInv /\ ScanInv => ScanComplete
<1> SUFFICES ASSUME IInv, ScanInv, NEW t \in Thread, Scanning(loc[t].op)
             PROVE  /\ \A i, j \in 1 .. Len(scan[t].got) :
                         i < j => Before(loc[t].op, scan[t].got[i], scan[t].got[j])
                    /\ pc[t] = "visit" =>
                         \A i \in 1 .. Len(ToVisit(t)) :
                           LET k == ToVisit(t)[i] IN k \in Keys(page[LeafIn(page, k)])
                    /\ \A k \in scan[t].must \ Visited(t) :
                         k = loc[t].op.key \/ Before(loc[t].op, loc[t].op.key, k) => ~Passed(t, k)
  BY DEF ScanComplete
<1>1. \A i, j \in 1 .. Len(scan[t].got) :
        i < j => Before(loc[t].op, scan[t].got[i], scan[t].got[j])
  BY MyScan DEF InOrder, Ordered
<1>2. ASSUME pc[t] = "visit", NEW i \in 1 .. Len(ToVisit(t))
      PROVE  ToVisit(t)[i] \in Keys(page[LeafIn(page, ToVisit(t)[i])])
  <2> DEFINE k == ToVisit(t)[i]
  <2>1. LiveLeaf(page, Nod(t)) /\ k \in Keys(page[Nod(t)])
    BY <1>2, MyScan, Visiting DEF Elems
  <2> HIDE DEF k
  <2>2. k \in Key /\ LeafIn(page, k) = Nod(t)
    BY <2>1, LeafHas
  <2>q. QED
    BY <2>1, <2>2 DEF k
<1>3. ASSUME NEW k \in scan[t].must \ Visited(t), InRange(loc[t].op, k) PROVE ~Passed(t, k)
  <2>1. k \in Key /\ k \in Nat /\ k > 0 /\ k <= Inf
    <3>1. k \in Key
      BY MyScan
    <3>2. k \in Nat /\ k > 0 /\ k < Inf /\ Inf \in Nat
      BY <3>1, Numbers
    <3>q. QED
      BY <3>1, <3>2
  <2>2. CASE pc[t] = "endScan"
    <3>1. Reached(t, IF loc[t].op.kind = "scan" THEN Inf ELSE 0)
      BY <2>2, MyScan DEF Position
    <3>q. QED
      BY <1>3, <2>1, <3>1 DEF Reached, Behind
  <2>3. CASE pc[t] # "endScan"
    BY <1>3, <2>3, MyScan DEF NoGap, Passed
  <2>q. QED
    BY <2>2, <2>3
<1>q. QED
  BY <1>1, <1>2, <1>3 DEF InRange

\* A scan visits keys in order and once, only keys that are in the tree, and
\* passes over no key that was in it all the time, whatever is split, merged,
\* inserted and removed before and behind it (btree.hpp: scanAsc, scanDesc).
THEOREM ScansComplete == Spec => []ScanComplete
<1>1. Init => ScanInv /\ Answered
  BY InitScans, InitStore
<1>2. IInv /\ IInv' /\ Answered /\ ScanInv /\ [Next]_vars => Answered' /\ ScanInv'
  BY StepStore, StepScans
<1>q. QED
  BY <1>1, <1>2, Inductive, ScansAre, PTL DEF Spec
================================================================================
