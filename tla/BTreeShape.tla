------------------------------- MODULE BTreeShape -------------------------------
(***************************************************************************)
(* The shape of the tree of BTreeOLC, for every number of keys, pages and  *)
(* slots: what makes pages a search tree, that a search then ends in the   *)
(* one leaf of its key, and that a new root, a split and a merge keep it   *)
(* so and move no key.  Pages are given as a function pg, so that nothing  *)
(* here depends on threads; al is the number of allocated pages.           *)
(*                                                                         *)
(* What a search finds is a recursive function.  Its facts are proved by   *)
(* taking a counterexample of least level: Levels gives every page a       *)
(* number that is greater than those of its children.                      *)
(***************************************************************************)
EXTENDS BTreeOLC, FiniteSetTheorems, WellFoundedInduction, TLAPS

Slots == UNION {[S -> Value \union Page] : S \in SUBSET Key}
NodeSet ==
  [leaf : BOOLEAN, slot : Slots, last : Page, lower : 0 .. NKeys, upper : 1 .. Inf]
Kids(n) == {n.last} \union {n.slot[s] : s \in Keys(n)}
Encloses(n, k) == n.lower < k /\ k <= n.upper

\* A leaf that a page leads to; a leaf that was merged away is none.
LiveLeaf(pg, p) ==
  p \in Page /\ pg[p].leaf /\ \E q \in Page : ~pg[q].leaf /\ p \in Kids(pg[q])

\* An inner node: its slots lie between its fences, and the fences of its
\* children are its own or its slots, with no slot between them.  There are
\* keys after every slot and every lower fence.
ChildOK(pg, n, c) ==
  /\ c \in Page /\ c # Meta
  /\ pg[c].lower < pg[c].upper
  /\ pg[c].lower \in Keys(n) \union {n.lower}
  /\ \A s \in Keys(n) : ~(pg[c].lower < s /\ s < pg[c].upper)
InnerOK(pg, n) ==
  /\ n.lower < n.upper /\ n.lower < NKeys
  /\ \A s \in Keys(n) :
       n.lower < s /\ s < n.upper /\ s < NKeys /\ n.slot[s] \in Page /\ pg[n.slot[s]].upper = s
  /\ pg[n.last].upper = n.upper
  /\ \A c \in Kids(n) : ChildOK(pg, n, c)
  /\ \A c, d \in Kids(n) : pg[c].leaf = pg[d].leaf

\* A live leaf: its keys lie between its fences, and it leads to the next one.
LeafOK(pg, n) ==
  /\ \A j \in Keys(n) : Encloses(n, j)
  /\ n.upper = Inf => n.last = None
  /\ n.upper # Inf => LiveLeaf(pg, n.last) /\ pg[n.last].lower = n.upper

\* The slots of a leaf hold payloads.
Payloads(pg) ==
  \A p \in Page : pg[p].leaf => \A k \in Keys(pg[p]) : pg[p].slot[k] \in Value

\* Every page has a level above those of its children.
Levels(pg) ==
  \E top \in Nat : \E level \in [Page -> 0 .. top] :
    \A p \in Page : ~pg[p].leaf => \A c \in Kids(pg[p]) : level[c] < level[p]

\* Pages from al on are not used yet.
Used(pg, al) ==
  /\ al \in 1 .. NPages + 1
  /\ \A p \in Page : pg[p].last < al
  /\ \A p \in Page : p >= al => pg[p].leaf /\ ~LiveLeaf(pg, p)

Shape(pg, al) ==
  /\ pg \in [Page -> NodeSet]
  /\ ~pg[Meta].leaf /\ Keys(pg[Meta]) = {} /\ pg[Meta].lower = 0 /\ pg[Meta].upper = Inf
  /\ \A p \in Page : ~pg[p].leaf => InnerOK(pg, pg[p])
  /\ \A p, q \in Page : ~pg[p].leaf /\ ~pg[q].leaf /\ p # q => Kids(pg[p]) \cap Kids(pg[q]) = {}
  /\ \A p \in Page \ {Meta} : ~pg[p].leaf => \E q \in Page : ~pg[q].leaf /\ p \in Kids(pg[q])
  /\ \A p \in Page : LiveLeaf(pg, p) => LeafOK(pg, pg[p])
  /\ Payloads(pg)
  /\ Levels(pg)
  /\ Used(pg, al)

\* The pages after a write to page p, after a new root, a split, and a merge of the
\* leaf of a key with the leaf to its right below the same parent.
Wrote(qg, pg, p, n) == qg = [pg EXCEPT ![p] = n]
Rooted(qg, pg, al, nod) ==
  qg = [pg EXCEPT ![Meta].last = al, ![al] = Node(FALSE, Empty, nod, 0, Inf)]
HasSplit(qg, pg, par, nod, sep, al) ==
  qg = [pg EXCEPT ![nod] = SplitLeft(pg[nod], sep, al),
                  ![al] = SplitRight(pg[nod], sep),
                  ![par] = SplitParent(pg[par], sep, nod, al)]
Neighbours(pg, par, nod, right, k) ==
  /\ ~pg[par].leaf /\ Encloses(pg[par], k) /\ Above(pg[par], k) # {}
  /\ nod = Child(pg[par], k) /\ pg[nod].leaf /\ right = RightChild(pg[par], k)
HasMerged(qg, pg, par, nod, right, k) ==
  qg = [pg EXCEPT ![nod] = MergedLeaf(pg[nod], pg[right]),
                  ![par] = MergedParent(pg[par], k, nod)]

\* A step from the pages pg, al of them in use, to the pages qg: a leaf is a leaf
\* still, and the live leaves are alive, but for the page gone.
Spared(qg, pg, al, gone) ==
  \A x \in Page : x < al =>
    /\ qg[x].leaf = pg[x].leaf
    /\ LiveLeaf(pg, x) /\ x # gone => LiveLeaf(qg, x)
With(db, k, v) == [j \in DOMAIN db \union {k} |-> IF j = k THEN v ELSE db[j]]
Without(db, k) == [j \in DOMAIN db \ {k} |-> db[j]]
-----------------------------------------------------------------------------
\* What the constants are.
LEMMA Numbers ==
  /\ NKeys \in Nat /\ NPages \in Nat /\ Inf \in Nat /\ Inf = NKeys + 1
  /\ Key \subseteq Nat /\ Page \subseteq Nat /\ Meta \in Page /\ None \in Page
  /\ \A k \in Key : k > 0 /\ k < Inf /\ k <= NKeys /\ k \in 0 .. NKeys /\ k \in 1 .. Inf
BY TreeAssumption DEF Key, Page, Meta, None, Inf

\* Every set of numbers that is not empty has a least one.
LEMMA LeastNat ==
  ASSUME NEW S, S \subseteq Nat, S # {}
  PROVE  \E n \in S : \A m \in S : n <= m
<1> DEFINE R == OpToRel(<, Nat)
<1>1. IsWellFoundedOn(R, Nat)
  BY NatLessThanWellFounded
<1>2. ASSUME NEW m \in Nat, NEW n \in Nat, m < n PROVE <<m, n>> \in R
  BY <1>2 DEF R, OpToRel
<1> HIDE DEF R
<1>3. PICK n \in S : \A m \in S : ~ (<<m, n>> \in R)
  BY <1>1, WFMin
<1>4. ASSUME NEW m \in S PROVE n <= m
  <2>1. ~(m < n)
    BY <1>2, <1>3
  <2>q. QED
    BY <2>1
<1>q. QED
  BY <1>4

\* The least element of a set of numbers.
LEMMA LeastIs ==
  ASSUME NEW S, S \subseteq Nat, S # {}
  PROVE  Least(S) \in S /\ \A j \in S : Least(S) <= j
BY LeastNat DEF Least

\* The slots of a page.
LEMMA NodeFacts ==
  ASSUME NEW n \in NodeSet
  PROVE  /\ Keys(n) \subseteq Key
         /\ n.slot = [k \in Keys(n) |-> n.slot[k]]
         /\ \A k \in Keys(n) : n.slot[k] \in Value \union Page
         /\ n.leaf \in BOOLEAN /\ n.last \in Page
         /\ n.lower \in 0 .. NKeys /\ n.upper \in 1 .. Inf
         /\ n.lower \in Nat /\ n.upper \in Nat
         /\ n = Node(n.leaf, n.slot, n.last, n.lower, n.upper)
<1>1. n.slot \in Slots
  BY DEF NodeSet
<1>2. PICK S \in SUBSET Key : n.slot \in [S -> Value \union Page]
  BY <1>1 DEF Slots
<1>3. Keys(n) = S
  BY <1>2 DEF Keys
<1>4. /\ Keys(n) \subseteq Key
      /\ n.slot = [k \in Keys(n) |-> n.slot[k]]
      /\ \A k \in Keys(n) : n.slot[k] \in Value \union Page
  BY <1>2, <1>3
<1>5. /\ n.leaf \in BOOLEAN /\ n.last \in Page
      /\ n.lower \in 0 .. NKeys /\ n.upper \in 1 .. Inf
      /\ n = Node(n.leaf, n.slot, n.last, n.lower, n.upper)
  BY DEF NodeSet, Node
<1>q. QED
  BY <1>4, <1>5, Numbers

\* A function on keys is what the slots of a page can be.
LEMMA SlotsHas ==
  ASSUME NEW S \in SUBSET Key, NEW f \in [S -> Value \union Page]
  PROVE  f \in Slots
BY DEF Slots

\* insertInPage.
LEMMA PutFacts ==
  ASSUME NEW n \in NodeSet, NEW k \in Key, NEW v \in Value \union Page
  PROVE  LET m == Put(n, k, v) IN
         /\ m \in NodeSet /\ Keys(m) = Keys(n) \union {k}
         /\ m.slot[k] = v /\ \A j \in Keys(n) \ {k} : m.slot[j] = n.slot[j]
         /\ m.leaf = n.leaf /\ m.last = n.last /\ m.lower = n.lower /\ m.upper = n.upper
<1> DEFINE f == Joined([j \in {k} |-> v], n.slot)
<1>1. f = [j \in {k} \union Keys(n) |-> IF j = k THEN v ELSE n.slot[j]]
  BY DEF Keys, Joined
<1>2. f \in [{k} \union Keys(n) -> Value \union Page]
  BY <1>1, NodeFacts
<1>3. f \in Slots
  <2>1. {k} \union Keys(n) \in SUBSET Key
    BY NodeFacts
  <2> HIDE DEF f
  <2>q. QED
    BY <1>2, <2>1, SlotsHas, ZenonT(30)
<1>4. DOMAIN f = Keys(n) \union {k} /\ f[k] = v /\ \A j \in Keys(n) \ {k} : f[j] = n.slot[j]
  BY <1>1
<1> HIDE DEF f
<1>5. Put(n, k, v) = [n EXCEPT !.slot = f]
  BY DEF Put, f
<1>q. QED
  BY <1>3, <1>4, <1>5 DEF NodeSet, Keys

\* removeSlot.
LEMMA RemoveFacts ==
  ASSUME NEW n \in NodeSet, NEW k
  PROVE  LET m == RemoveSlot(n, k) IN
         /\ m \in NodeSet /\ Keys(m) = Keys(n) \ {k}
         /\ \A j \in Keys(m) : m.slot[j] = n.slot[j]
         /\ m.leaf = n.leaf /\ m.last = n.last /\ m.lower = n.lower /\ m.upper = n.upper
<1> DEFINE f == Restricted(n.slot, Keys(n) \ {k})
<1>1. f = [j \in Keys(n) \ {k} |-> n.slot[j]]
  BY DEF Restricted, Keys
<1>2. f \in [Keys(n) \ {k} -> Value \union Page]
  BY <1>1, NodeFacts
<1>3. f \in Slots
  BY <1>2, NodeFacts, SlotsHas
<1>4. DOMAIN f = Keys(n) \ {k} /\ \A j \in Keys(n) \ {k} : f[j] = n.slot[j]
  BY <1>1
<1> HIDE DEF f
<1>5. RemoveSlot(n, k) = [n EXCEPT !.slot = f]
  BY DEF RemoveSlot, f
<1>q. QED
  BY <1>3, <1>4, <1>5 DEF NodeSet, Keys

\* lookupInner: the child under the least slot from k on, or the last one.
LEMMA ChildFacts ==
  ASSUME NEW n \in NodeSet, NEW k \in Nat
  PROVE  /\ Above(n, k) = {s \in Keys(n) : s >= k}
         /\ Above(n, k) = {} => Child(n, k) = n.last
         /\ Above(n, k) # {} =>
              /\ Least(Above(n, k)) \in Keys(n) /\ Least(Above(n, k)) >= k
              /\ \A j \in Keys(n) : j >= k => Least(Above(n, k)) <= j
              /\ Child(n, k) = n.slot[Least(Above(n, k))]
         /\ Child(n, k) \in Kids(n)
<1>1. Above(n, k) \subseteq Nat
  BY NodeFacts, Numbers DEF Above
<1>2. Above(n, k) # {} => Least(Above(n, k)) \in Above(n, k)
                          /\ \A j \in Above(n, k) : Least(Above(n, k)) <= j
  BY <1>1, LeastIs
<1>q. QED
  BY <1>2 DEF Above, Child, Kids

\* The slot that led to k leads to p.
LEMMA SetChildFacts ==
  ASSUME NEW n \in NodeSet, NEW k \in Nat, NEW p \in Page
  PROVE  LET m == SetChild(n, k, p) IN
         /\ m \in NodeSet /\ Keys(m) = Keys(n)
         /\ m.leaf = n.leaf /\ m.lower = n.lower /\ m.upper = n.upper
         /\ Above(n, k) = {} => m.last = p /\ \A j \in Keys(n) : m.slot[j] = n.slot[j]
         /\ Above(n, k) # {} =>
              /\ m.last = n.last /\ m.slot[Least(Above(n, k))] = p
              /\ \A j \in Keys(n) : j # Least(Above(n, k)) => m.slot[j] = n.slot[j]
<1>1. CASE Above(n, k) = {}
  BY <1>1 DEF SetChild, NodeSet, Keys
<1>2. CASE Above(n, k) # {}
  <2> DEFINE s == Least(Above(n, k))
             f == [n.slot EXCEPT ![s] = p]
  <2>1. s \in Keys(n)
    BY <1>2, ChildFacts
  <2> HIDE DEF s
  <2>2. /\ f \in [Keys(n) -> Value \union Page] /\ DOMAIN f = Keys(n) /\ f[s] = p
        /\ \A j \in Keys(n) : j # s => f[j] = n.slot[j]
    BY <2>1, NodeFacts
  <2>3. f \in Slots
    BY <2>2, NodeFacts, SlotsHas
  <2>4. SetChild(n, k, p) = [n EXCEPT !.slot = f]
    BY <1>2 DEF SetChild, s
  <2> HIDE DEF f
  <2>q. QED
    BY <1>2, <2>2, <2>3, <2>4 DEF NodeSet, Keys, s
<1>q. QED
  BY <1>1, <1>2
-----------------------------------------------------------------------------
Descends(f, pg, k) ==
  f = [p \in Page |-> IF pg[p].leaf THEN p ELSE f[Child(pg[p], k)]]

\* An inner node that encloses a key has a child that does.
LEMMA ChildEncloses ==
  ASSUME NEW pg, NEW al, Shape(pg, al), NEW p \in Page, ~pg[p].leaf,
         NEW k \in Nat, Encloses(pg[p], k)
  PROVE  LET c == Child(pg[p], k) IN
         /\ c \in Kids(pg[p]) /\ c \in Page /\ c # Meta /\ Encloses(pg[c], k)
<1> DEFINE n == pg[p]  c == Child(n, k)  s == Least(Above(n, k))
<1>1. n \in NodeSet /\ InnerOK(pg, n)
  BY DEF Shape
<1>2. c \in Kids(n)
  BY <1>1, ChildFacts
<1>3. ChildOK(pg, n, c)
  BY <1>1, <1>2 DEF InnerOK
<1>4. pg[c] \in NodeSet
  BY <1>3 DEF Shape, ChildOK
<1>5. pg[c].lower \in Nat /\ pg[c].upper \in Nat /\ Keys(n) \subseteq Nat
  BY <1>1, <1>4, NodeFacts, Numbers
<1>6. CASE Above(n, k) = {}
  <2>1. c = n.last /\ pg[c].upper = n.upper
    BY <1>1, <1>6, ChildFacts DEF InnerOK
  <2>2. \A j \in Keys(n) : ~(j >= k)
    BY <1>6 DEF Above
  <2>3. pg[c].lower < k
    BY <1>3, <1>5, <2>2 DEF ChildOK, Encloses
  <2>q. QED
    BY <1>2, <1>3, <2>1, <2>3 DEF ChildOK, Encloses
<1>7. CASE Above(n, k) # {}
  <2>1. c = n.slot[s] /\ s \in Keys(n) /\ s >= k /\ \A j \in Keys(n) : j >= k => s <= j
    BY <1>1, <1>7, ChildFacts
  <2>2. pg[c].upper = s
    BY <1>1, <2>1 DEF InnerOK
  <2> HIDE DEF s
  <2>3. pg[c].lower < k
    <3>1. CASE pg[c].lower = n.lower
      BY <3>1 DEF Encloses
    <3>2. CASE pg[c].lower \in Keys(n)
      BY <1>3, <1>5, <2>1, <2>2, <3>2 DEF ChildOK
    <3>q. QED
      BY <1>3, <3>1, <3>2 DEF ChildOK
  <2>q. QED
    BY <1>2, <1>3, <2>1, <2>2, <2>3 DEF ChildOK, Encloses
<1>q. QED
  BY <1>6, <1>7

\* A child that encloses a key is the one that the search takes.
LEMMA EnclosedIsChild ==
  ASSUME NEW pg, NEW al, Shape(pg, al), NEW p \in Page, ~pg[p].leaf,
         NEW c \in Kids(pg[p]), NEW k \in Nat, Encloses(pg[c], k)
  PROVE  Child(pg[p], k) = c /\ Encloses(pg[p], k)
<1> DEFINE n == pg[p]  s == Least(Above(n, k))
<1>1. n \in NodeSet /\ InnerOK(pg, n) /\ ChildOK(pg, n, c)
  BY DEF Shape, InnerOK
<1>2. pg[c] \in NodeSet
  BY <1>1 DEF Shape, ChildOK
<1>3. /\ pg[c].lower \in Nat /\ pg[c].upper \in Nat /\ Keys(n) \subseteq Nat
      /\ n.lower \in Nat /\ n.upper \in Nat
  BY <1>1, <1>2, NodeFacts, Numbers
<1>4. pg[c].lower < k /\ k <= pg[c].upper
  BY DEF Encloses
<1>5. n.lower <= pg[c].lower
  BY <1>1, <1>3 DEF ChildOK, InnerOK
<1>6. CASE c = n.last
  <2>1. pg[c].upper = n.upper
    BY <1>1, <1>6 DEF InnerOK
  <2>2. Above(n, k) = {}
    <3>1. ASSUME NEW j \in Keys(n), j >= k PROVE FALSE
      <4>1. j < n.upper
        BY <1>1 DEF InnerOK
      <4>2. ~(pg[c].lower < j /\ j < pg[c].upper)
        BY <1>1 DEF ChildOK
      <4>q. QED
        BY <1>3, <1>4, <2>1, <3>1, <4>1, <4>2
    <3>q. QED
      BY <3>1 DEF Above
  <2>q. QED
    BY <1>1, <1>3, <1>4, <1>5, <1>6, <2>1, <2>2, ChildFacts DEF Encloses
<1>7. CASE c # n.last
  <2>1. PICK r \in Keys(n) : c = n.slot[r]
    BY <1>7 DEF Kids
  <2>2. pg[c].upper = r /\ r < n.upper
    BY <1>1, <2>1 DEF InnerOK
  <2>3. r \in Above(n, k)
    BY <1>4, <2>1, <2>2, <1>3 DEF Above
  <2>4. s \in Keys(n) /\ s >= k /\ s <= r /\ Child(n, k) = n.slot[s]
    BY <1>1, <2>1, <2>3, ChildFacts DEF Above
  <2>5. ~(pg[c].lower < s /\ s < pg[c].upper)
    BY <1>1, <2>4 DEF ChildOK
  <2> HIDE DEF s
  <2>6. s = r
    BY <1>3, <1>4, <2>1, <2>2, <2>4, <2>5
  <2>q. QED
    BY <1>3, <1>4, <1>5, <2>1, <2>2, <2>4, <2>6 DEF Encloses
<1>q. QED
  BY <1>6, <1>7

\* The search is defined: by levels, from below.
LEMMA SearchDefined ==
  ASSUME NEW pg, NEW al, Shape(pg, al), NEW k \in Nat
  PROVE  \E f : Descends(f, pg, k)
<1> DEFINE Down(level) ==
             \A p \in Page : ~pg[p].leaf => \A c \in Kids(pg[p]) : level[c] < level[p]
<1>t. PICK top \in Nat : \E level \in [Page -> 0 .. top] : Down(level)
  BY DEF Shape, Levels
<1>l. PICK level \in [Page -> 0 .. top] : Down(level)
  BY <1>t
<1>0. ASSUME NEW p \in Page PROVE level[p] \in Nat /\ level[p] <= top
  BY <1>t, <1>l
<1> DEFINE Low(m) == {p \in Page : level[p] < m}
           Part(f, m) ==
             f = [p \in Low(m) |-> IF pg[p].leaf THEN p ELSE f[Child(pg[p], k)]]
           Bad == {m \in Nat : ~\E f : Part(f, m)}
<1>1. ASSUME NEW p \in Page, ~pg[p].leaf
      PROVE  Child(pg[p], k) \in Page /\ level[Child(pg[p], k)] < level[p]
  <2>1. pg[p] \in NodeSet /\ InnerOK(pg, pg[p])
    BY <1>1 DEF Shape
  <2>2. Child(pg[p], k) \in Kids(pg[p])
    BY <2>1, ChildFacts
  <2>q. QED
    BY <1>l, <1>1, <2>1, <2>2 DEF InnerOK, ChildOK
<1>2. Bad = {}
  <2> SUFFICES ASSUME Bad # {} PROVE FALSE
    OBVIOUS
  <2>1. PICK m \in Bad : \A j \in Bad : m <= j
    BY LeastNat
  <2>2. m \in Nat /\ ~\E f : Part(f, m)
    BY <2>1
  <2>3. m # 0
    <3>1. Low(0) = {}
      OBVIOUS
    <3>2. Part([p \in Low(0) |-> p], 0)
      BY <3>1
    <3>3. \E f : Part(f, 0)
      BY <3>2
    <3> HIDE DEF Part, Bad
    <3>4. ~\E f : Part(f, m)
      BY <2>2
    <3>q. QED
      BY <3>3, <3>4, ZenonT(30)
  <2>4. m - 1 \in Nat /\ m - 1 \notin Bad
    <3>1. m - 1 \in Nat /\ ~(m <= m - 1)
      BY <2>2, <2>3
    <3> HIDE DEF Bad
    <3>q. QED
      BY <2>1, <3>1
  <2>5. PICK f : Part(f, m - 1)
    BY <2>4
  <2> DEFINE g == [p \in Low(m) |-> IF pg[p].leaf THEN p ELSE f[Child(pg[p], k)]]
  <2>6. ASSUME NEW p \in Low(m - 1) PROVE g[p] = f[p]
    <3>1. p \in Low(m)
      BY <2>2
    <3>2. f[p] = IF pg[p].leaf THEN p ELSE f[Child(pg[p], k)]
      BY <2>5
    <3>q. QED
      BY <3>1, <3>2
  <2>7. ASSUME NEW p \in Low(m), ~pg[p].leaf
        PROVE  g[p] = g[Child(pg[p], k)]
    <3>1. Child(pg[p], k) \in Low(m - 1)
      BY <1>1, <2>2, <2>7
    <3>2. g[Child(pg[p], k)] = f[Child(pg[p], k)]
      BY <2>6, <3>1
    <3>q. QED
      BY <2>7, <3>2
  <2>8. ASSUME NEW p \in Low(m), pg[p].leaf PROVE g[p] = p
    BY <2>8
  <2>9. DOMAIN g = Low(m) /\ g = [p \in Low(m) |-> g[p]]
    OBVIOUS
  <2> HIDE DEF g
  <2>10. g = [p \in Low(m) |-> IF pg[p].leaf THEN p ELSE g[Child(pg[p], k)]]
    BY <2>7, <2>8, <2>9
  <2>q. QED
    BY <2>2, <2>10
<1>3. top + 1 \in Nat
  BY <1>t
<1>4. PICK f : Part(f, top + 1)
  <2>1. ASSUME ~\E f : Part(f, top + 1) PROVE FALSE
    <3>1. top + 1 \in Bad
      BY <1>3, <2>1
    <3> HIDE DEF Bad
    <3>q. QED
      BY <1>2, <3>1
  <2>q. QED
    BY <2>1
<1>5. Low(top + 1) = Page
  OBVIOUS
<1>q. QED
  BY <1>4, <1>5 DEF Descends

\* LeafIn is where some descent ends, once there is a descent.
LEMMA LeafInIs ==
  ASSUME NEW pg, NEW k, \E f : Descends(f, pg, k)
  PROVE  \E f : Descends(f, pg, k) /\ LeafIn(pg, k) = f[Meta]
<1>1. LeafIn(pg, k) = (CHOOSE f : Descends(f, pg, k))[Meta]
  BY DEF LeafIn, Descends
<1>2. Descends(CHOOSE f : Descends(f, pg, k), pg, k)
  OBVIOUS
<1>q. QED
  BY <1>1, <1>2

\* A search for a key ends in the one live leaf that encloses it: from the
\* root down every node encloses the key, and from a leaf up to the root
\* every parent takes the search where it came from.
LEMMA Search ==
  ASSUME NEW pg, NEW al, Shape(pg, al), NEW k \in Key
  PROVE  /\ LiveLeaf(pg, LeafIn(pg, k)) /\ Encloses(pg[LeafIn(pg, k)], k)
         /\ \A p : LiveLeaf(pg, p) /\ Encloses(pg[p], k) => p = LeafIn(pg, k)
<1> DEFINE Down(level) ==
             \A p \in Page : ~pg[p].leaf => \A c \in Kids(pg[p]) : level[c] < level[p]
<1>t. PICK top \in Nat : \E level \in [Page -> 0 .. top] : Down(level)
  BY DEF Shape, Levels
<1>l. PICK level \in [Page -> 0 .. top] : Down(level)
  BY <1>t
<1>0. ASSUME NEW p \in Page PROVE level[p] \in Nat /\ level[p] <= top
  BY <1>t, <1>l
<1>1. k \in Nat /\ k > 0 /\ k <= Inf /\ Meta \in Page
  BY Numbers
<1>2. PICK f : Descends(f, pg, k) /\ LeafIn(pg, k) = f[Meta]
  BY <1>1, SearchDefined, LeafInIs
<1>3. ASSUME NEW p \in Page PROVE f[p] = IF pg[p].leaf THEN p ELSE f[Child(pg[p], k)]
  BY <1>2 DEF Descends
<1>4. ~pg[Meta].leaf /\ Encloses(pg[Meta], k)
  BY <1>1 DEF Shape, Encloses
<1> DEFINE Way(p) == LiveLeaf(pg, f[p]) /\ Encloses(pg[f[p]], k)
           Inner(p) == ~pg[p].leaf /\ Encloses(pg[p], k)
           Bad == {m \in Nat : \E p \in Page : Inner(p) /\ ~Way(p) /\ level[p] = m}
<1>5. Bad = {}
  <2> SUFFICES ASSUME Bad # {} PROVE FALSE
    OBVIOUS
  <2>1. PICK m \in Bad : \A j \in Bad : m <= j
    BY LeastNat
  <2>2. PICK p \in Page : Inner(p) /\ ~Way(p) /\ level[p] = m
    BY <2>1
  <2> DEFINE c == Child(pg[p], k)
  <2>3. c \in Kids(pg[p]) /\ c \in Page /\ Encloses(pg[c], k) /\ f[p] = f[c]
    BY <1>1, <1>3, <2>2, ChildEncloses
  <2>4. level[c] < level[p] /\ level[c] \in Nat
    BY <1>l, <1>0, <2>2, <2>3
  <2>5. CASE pg[c].leaf
    <3>1. f[c] = c /\ LiveLeaf(pg, c)
      BY <1>3, <2>2, <2>3, <2>5 DEF LiveLeaf
    <3>q. QED
      BY <2>2, <2>3, <3>1
  <2>6. CASE ~pg[c].leaf
    <3>1. Inner(c) /\ ~Way(c)
      BY <2>2, <2>3, <2>6
    <3>2. level[c] \in Bad
      BY <2>3, <2>4, <3>1
    <3>q. QED
      BY <2>1, <2>2, <2>4, <3>2
  <2>q. QED
    BY <2>5, <2>6
<1>6. Way(Meta)
  <2>1. level[Meta] \in Nat
    BY <1>1
  <2>q. QED
    BY <1>1, <1>4, <1>5, <2>1
<1> DEFINE Node_(p) == (LiveLeaf(pg, p) \/ ~pg[p].leaf) /\ Encloses(pg[p], k)
           Off == {m \in Nat : \E p \in Page :
                     Node_(p) /\ f[p] # f[Meta] /\ m = top - level[p]}
<1>7. Off = {}
  <2> SUFFICES ASSUME Off # {} PROVE FALSE
    OBVIOUS
  <2>1. PICK m \in Off : \A j \in Off : m <= j
    BY LeastNat
  <2>2. PICK p \in Page : Node_(p) /\ f[p] # f[Meta] /\ m = top - level[p]
    BY <2>1
  <2>3. p # Meta
    BY <2>2
  <2>4. PICK q \in Page : ~pg[q].leaf /\ p \in Kids(pg[q])
    BY <2>2, <2>3 DEF Shape, LiveLeaf
  <2>5. Child(pg[q], k) = p /\ Encloses(pg[q], k)
    BY <1>1, <2>2, <2>4, EnclosedIsChild
  <2>6. f[q] = f[p]
    BY <1>3, <2>4, <2>5
  <2>7. level[p] < level[q] /\ top - level[q] \in Nat /\ level[p] \in Nat /\ level[q] \in Nat
    BY <1>t, <1>l, <1>0, <2>4
  <2>8. top - level[q] \in Off
    BY <2>2, <2>4, <2>5, <2>6, <2>7
  <2>9. m <= top - level[q]
    BY <2>1, <2>8
  <2>q. QED
    BY <2>2, <2>7, <2>9
<1>8. ASSUME NEW p, LiveLeaf(pg, p), Encloses(pg[p], k) PROVE p = f[Meta]
  <2>1. p \in Page /\ pg[p].leaf /\ top - level[p] \in Nat
    BY <1>8 DEF LiveLeaf
  <2>2. f[p] = f[Meta]
    BY <1>7, <1>8, <2>1
  <2>q. QED
    BY <1>3, <2>1, <2>2
<1>q. QED
  BY <1>2, <1>6, <1>8

\* The fences of a leaf enclose some key.
LEMMA LiveFences ==
  ASSUME NEW pg, NEW al, Shape(pg, al), NEW p, LiveLeaf(pg, p)
  PROVE  /\ p \in Page /\ pg[p].leaf /\ p # Meta /\ p < al /\ pg[p] \in NodeSet
         /\ pg[p].lower \in Nat /\ pg[p].upper \in Nat
         /\ pg[p].lower < NKeys /\ pg[p].lower < pg[p].upper
         /\ pg[p].lower + 1 \in Key /\ Encloses(pg[p], pg[p].lower + 1)
<1>1. PICK q \in Page : ~pg[q].leaf /\ p \in Kids(pg[q])
  BY DEF LiveLeaf
<1>2. pg[q] \in NodeSet /\ InnerOK(pg, pg[q]) /\ p \in Page /\ pg[p] \in NodeSet
  BY <1>1 DEF Shape, LiveLeaf
<1>3. ChildOK(pg, pg[q], p)
  BY <1>1, <1>2 DEF InnerOK
<1>4. pg[p].lower < NKeys
  BY <1>2, <1>3 DEF InnerOK, ChildOK
<1>5. pg[p].lower \in Nat /\ pg[p].upper \in Nat /\ p \in Nat /\ al \in Nat /\ NKeys \in Nat
  <2>1. pg[p].lower \in Nat /\ pg[p].upper \in Nat
    BY <1>2, NodeFacts
  <2>2. al \in 1 .. NPages + 1
    BY DEF Shape, Used
  <2>3. NPages \in Nat /\ NKeys \in Nat /\ Page \subseteq Nat
    BY Numbers, Zenon
  <2>4. p \in Nat
    BY <1>2, <2>3, Zenon
  <2>5. al \in Nat
    BY <2>2, <2>3
  <2>q. QED
    BY <2>1, <2>3, <2>4, <2>5, Zenon
<1>6. p < al
  BY <1>2, <1>5 DEF Shape, Used
<1>7. pg[p].lower + 1 \in Key
  BY <1>4, <1>5 DEF Key
<1>8. pg[p].lower < pg[p].upper /\ p # Meta
  BY <1>3 DEF ChildOK
<1>q. QED
  BY <1>2, <1>4, <1>5, <1>6, <1>7, <1>8 DEF LiveLeaf, Encloses

\* What TreeInv says of a search tree.
LEMMA SearchTree ==
  ASSUME NEW pg, NEW al, Shape(pg, al), NEW k \in Key
  PROVE  LET n == pg[LeafIn(pg, k)] IN
         /\ n.leaf
         /\ n.lower < k /\ k <= n.upper
         /\ \A j \in Keys(n) : n.lower < j /\ j <= n.upper
         /\ n.upper # Inf => n.upper + 1 \in Key
         /\ n.last = IF n.upper = Inf THEN None ELSE LeafIn(pg, n.upper + 1)
<1> DEFINE p == LeafIn(pg, k)  n == pg[p]
<1>1. LiveLeaf(pg, p) /\ Encloses(n, k)
  BY Search
<1> HIDE DEF p
<1>2. LeafOK(pg, n) /\ n.leaf
  BY <1>1 DEF Shape, LiveLeaf
<1>3. ASSUME n.upper # Inf PROVE n.upper + 1 \in Key /\ n.last = LeafIn(pg, n.upper + 1)
  <2>1. LiveLeaf(pg, n.last) /\ pg[n.last].lower = n.upper
    BY <1>2, <1>3 DEF LeafOK
  <2>2. n.upper + 1 \in Key /\ Encloses(pg[n.last], n.upper + 1)
    BY <2>1, LiveFences
  <2>q. QED
    BY <2>1, <2>2, Search
<1>q. QED
  BY <1>1, <1>2, <1>3 DEF LeafOK, Encloses, p

\* The contents of the tree are the slots of the leaves that searches find.
LEMMA StoredIs ==
  ASSUME NEW pg
  PROVE  StoredIn(pg) = [k \in {j \in Key : j \in Keys(pg[LeafIn(pg, j)])} |->
                           pg[LeafIn(pg, k)].slot[k]]
BY DEF StoredIn

\* A key is stored, with its payload, where a search for it ends.
LEMMA StoredAt ==
  ASSUME NEW pg, NEW k \in Key
  PROVE  /\ k \in DOMAIN StoredIn(pg) <=> k \in Keys(pg[LeafIn(pg, k)])
         /\ k \in DOMAIN StoredIn(pg) => StoredIn(pg)[k] = pg[LeafIn(pg, k)].slot[k]
         /\ At(StoredIn(pg), k) = At(pg[LeafIn(pg, k)].slot, k)
BY StoredIs DEF At, Keys

\* Trees whose searches find the same slots hold the same.
LEMMA SameStored ==
  ASSUME NEW pg, NEW qg,
         \A k \in Key :
           /\ k \in Keys(qg[LeafIn(qg, k)]) <=> k \in Keys(pg[LeafIn(pg, k)])
           /\ k \in Keys(pg[LeafIn(pg, k)]) =>
                qg[LeafIn(qg, k)].slot[k] = pg[LeafIn(pg, k)].slot[k]
  PROVE  StoredIn(qg) = StoredIn(pg)
BY StoredIs
-----------------------------------------------------------------------------
\* insertInPage, removeSlot and an update change the slots of one leaf.
LEMMA WriteKeeps ==
  ASSUME NEW pg, NEW al, Shape(pg, al), NEW p, LiveLeaf(pg, p),
         NEW n \in NodeSet, n.leaf, n.last = pg[p].last,
         n.lower = pg[p].lower, n.upper = pg[p].upper,
         \A j \in Keys(n) : Encloses(n, j) /\ n.slot[j] \in Value,
         NEW qg, Wrote(qg, pg, p, n)
  PROVE  /\ Shape(qg, al)
         /\ \A x : LiveLeaf(qg, x) <=> LiveLeaf(pg, x)
         /\ \A k \in Key : LeafIn(qg, k) = LeafIn(pg, k)
<1>1. p \in Page /\ pg[p].leaf /\ p # Meta /\ pg \in [Page -> NodeSet]
  BY LiveFences DEF Shape
<1>2. /\ qg \in [Page -> NodeSet] /\ qg[p] = n
      /\ \A x \in Page : x # p => qg[x] = pg[x]
      /\ \A x \in Page : /\ qg[x].leaf = pg[x].leaf /\ qg[x].last = pg[x].last
                         /\ qg[x].lower = pg[x].lower /\ qg[x].upper = pg[x].upper
                         /\ ~pg[x].leaf => qg[x] = pg[x]
  BY <1>1 DEF Wrote
<1>3. ASSUME NEW x PROVE LiveLeaf(qg, x) <=> LiveLeaf(pg, x)
  BY <1>2 DEF LiveLeaf
<1>4. ASSUME NEW x \in Page, ~qg[x].leaf PROVE InnerOK(qg, qg[x])
  <2>1. InnerOK(pg, pg[x]) /\ qg[x] = pg[x] /\ pg[x] \in NodeSet
    BY <1>2, <1>4 DEF Shape
  <2>2. ASSUME NEW c \in Kids(pg[x])
        PROVE  /\ ChildOK(qg, pg[x], c)
               /\ qg[c].upper = pg[c].upper /\ qg[c].leaf = pg[c].leaf
    <3>1. ChildOK(pg, pg[x], c)
      BY <2>1 DEF InnerOK
    <3>q. QED
      BY <1>2, <3>1 DEF ChildOK
  <2>q. QED
    BY <2>1, <2>2 DEF InnerOK, Kids
<1>5. ASSUME NEW x \in Page, LiveLeaf(qg, x) PROVE LeafOK(qg, qg[x])
  <2>1. LeafOK(pg, pg[x])
    BY <1>3, <1>5 DEF Shape
  <2>2. ASSUME qg[x].upper # Inf
        PROVE  LiveLeaf(qg, qg[x].last) /\ qg[qg[x].last].lower = qg[x].upper
    <3>1. LiveLeaf(pg, pg[x].last) /\ pg[pg[x].last].lower = pg[x].upper
      BY <1>2, <2>1, <2>2 DEF LeafOK
    <3>2. pg[x].last \in Page
      BY <3>1 DEF LiveLeaf
    <3>q. QED
      BY <1>2, <1>3, <3>1, <3>2
  <2>3. \A j \in Keys(qg[x]) : Encloses(qg[x], j)
    BY <1>2, <2>1 DEF LeafOK
  <2>q. QED
    BY <1>2, <2>1, <2>2, <2>3 DEF LeafOK
<1>6. Levels(qg)
  BY <1>2 DEF Shape, Levels
<1>7. Used(qg, al)
  BY <1>2, <1>3 DEF Shape, Used
<1>8. /\ ~qg[Meta].leaf /\ Keys(qg[Meta]) = {} /\ qg[Meta].lower = 0 /\ qg[Meta].upper = Inf
  BY <1>1, <1>2, Numbers DEF Shape
<1>9. /\ \A x, y \in Page : ~qg[x].leaf /\ ~qg[y].leaf /\ x # y => Kids(qg[x]) \cap Kids(qg[y]) = {}
      /\ \A x \in Page \ {Meta} : ~qg[x].leaf => \E y \in Page : ~qg[y].leaf /\ x \in Kids(qg[y])
  BY <1>2 DEF Shape
<1>p. Payloads(qg)
  BY <1>2 DEF Shape, Payloads
<1>10. Shape(qg, al)
  BY <1>2, <1>4, <1>5, <1>6, <1>7, <1>8, <1>9, <1>p DEF Shape
<1>11. ASSUME NEW k \in Key PROVE LeafIn(qg, k) = LeafIn(pg, k)
  <2>1. LiveLeaf(qg, LeafIn(qg, k)) /\ Encloses(qg[LeafIn(qg, k)], k)
    BY <1>10, Search
  <2>2. LiveLeaf(pg, LeafIn(qg, k)) /\ LeafIn(qg, k) \in Page
    BY <1>3, <2>1 DEF LiveLeaf
  <2>3. Encloses(pg[LeafIn(qg, k)], k)
    BY <1>2, <2>1, <2>2 DEF Encloses
  <2>q. QED
    BY <2>2, <2>3, Search
<1>q. QED
  BY <1>3, <1>10, <1>11

\* An inner node leads to pages in use.
LEMMA KidFacts ==
  ASSUME NEW pg, NEW al, Shape(pg, al), NEW p \in Page, ~pg[p].leaf, NEW c \in Kids(pg[p])
  PROVE  /\ p \in Nat /\ p < al /\ al \in Nat
         /\ c \in Page /\ c \in Nat /\ c < al /\ c # Meta /\ c # p
         /\ pg[p] \in NodeSet /\ InnerOK(pg, pg[p])
         /\ pg[c] \in NodeSet /\ ChildOK(pg, pg[p], c)
         /\ pg[c].lower \in Nat /\ pg[c].upper \in Nat
         /\ pg[c].lower >= pg[p].lower /\ pg[c].upper <= pg[p].upper
         /\ pg[c].lower < NKeys
<1>1. pg[p] \in NodeSet /\ InnerOK(pg, pg[p]) /\ ChildOK(pg, pg[p], c)
  BY DEF Shape, InnerOK
<1>2. c \in Page /\ c # Meta /\ pg[c] \in NodeSet
  BY <1>1 DEF Shape, ChildOK
<1>3. al \in 1 .. NPages + 1 /\ \A x \in Page : x >= al => pg[x].leaf /\ ~LiveLeaf(pg, x)
  BY DEF Shape, Used
<1>4. p \in Nat /\ c \in Nat /\ al \in Nat
  BY <1>2, <1>3, Numbers
<1>5. p < al
  BY <1>3, <1>4
<1>6. pg[c].leaf => LiveLeaf(pg, c)
  BY <1>2 DEF LiveLeaf
<1>7. c < al
  BY <1>2, <1>3, <1>4, <1>6
<1>8. c # p
  <2>1. PICK top \in Nat : \E level \in [Page -> 0 .. top] :
          \A x \in Page : ~pg[x].leaf => \A y \in Kids(pg[x]) : level[y] < level[x]
    BY DEF Shape, Levels
  <2>2. PICK level \in [Page -> 0 .. top] :
          \A x \in Page : ~pg[x].leaf => \A y \in Kids(pg[x]) : level[y] < level[x]
    BY <2>1
  <2>3. level[c] < level[p] /\ level[p] \in 0 .. top
    BY <2>2
  <2>q. QED
    BY <2>1, <2>3
<1>9. /\ pg[c].lower \in Nat /\ pg[c].upper \in Nat
      /\ pg[p].lower \in Nat /\ pg[p].upper \in Nat /\ Keys(pg[p]) \subseteq Nat
  BY <1>1, <1>2, NodeFacts, Numbers
<1>10. pg[c].lower >= pg[p].lower /\ pg[c].lower < NKeys
  BY <1>1, <1>9 DEF ChildOK, InnerOK
<1>11. pg[c].upper <= pg[p].upper
  <2>1. CASE c = pg[p].last
    BY <1>1, <1>9, <2>1 DEF InnerOK
  <2>2. CASE c # pg[p].last
    <3>1. PICK r \in Keys(pg[p]) : c = pg[p].slot[r]
      BY <2>2 DEF Kids
    <3>2. pg[c].upper = r /\ r < pg[p].upper
      BY <1>1, <3>1 DEF InnerOK
    <3>q. QED
      BY <1>9, <3>2
  <2>q. QED
    BY <2>1, <2>2
<1>q. QED
  BY <1>1, <1>2, <1>4, <1>5, <1>7, <1>8, <1>9, <1>10, <1>11

\* A page that is not used yet is nobody's child.
LEMMA UnusedFacts ==
  ASSUME NEW pg, NEW al, Shape(pg, al), al <= NPages
  PROVE  /\ al \in Page /\ al \in Nat /\ al # Meta /\ al + 1 \in 1 .. NPages + 1
         /\ pg[al].leaf /\ ~LiveLeaf(pg, al) /\ pg[al] \in NodeSet
         /\ \A p \in Page : ~pg[p].leaf => al \notin Kids(pg[p])
<1>1. al \in 1 .. NPages + 1 /\ \A x \in Page : x >= al => pg[x].leaf /\ ~LiveLeaf(pg, x)
  BY DEF Shape, Used
<1>2. al \in Page /\ al \in Nat /\ al # Meta /\ al + 1 \in 1 .. NPages + 1
  BY <1>1, Numbers DEF Page, Meta
<1>3. pg[al].leaf /\ ~LiveLeaf(pg, al) /\ pg[al] \in NodeSet
  BY <1>1, <1>2 DEF Shape
<1>q. QED
  BY <1>2, <1>3 DEF LiveLeaf

\* A node without slots.
LEMMA EmptyNode ==
  ASSUME NEW last \in Page, NEW lower \in 0 .. NKeys, NEW upper \in 1 .. Inf
  PROVE  /\ Node(TRUE, Empty, last, lower, upper) \in NodeSet
         /\ Keys(Node(TRUE, Empty, last, lower, upper)) = {}
         /\ Node(FALSE, Empty, last, lower, upper) \in NodeSet
         /\ Keys(Node(FALSE, Empty, last, lower, upper)) = {}
         /\ Kids(Node(FALSE, Empty, last, lower, upper)) = {last}
<1>1. DOMAIN Empty = {}
  BY DEF Empty
<1>2. Empty \in Slots
  <2>1. Empty \in [{} -> Value \union Page]
    BY <1>1 DEF Empty
  <2>q. QED
    BY <2>1, SlotsHas
<1>q. QED
  BY <1>1, <1>2 DEF NodeSet, Node, Keys, Kids

\* trySplit below the meta data page.
LEMMA NewRootKeeps ==
  ASSUME NEW pg, NEW al, Shape(pg, al), al <= NPages, NEW nod, nod = pg[Meta].last,
         NEW qg, Rooted(qg, pg, al, nod)
  PROVE  Shape(qg, al + 1) /\ Spared(qg, pg, al, None) /\ StoredIn(qg) = StoredIn(pg)
<1> DEFINE root == Node(FALSE, Empty, nod, 0, Inf)
<1>1. /\ ~pg[Meta].leaf /\ Keys(pg[Meta]) = {} /\ pg[Meta].lower = 0 /\ pg[Meta].upper = Inf
      /\ Meta \in Page /\ pg \in [Page -> NodeSet] /\ pg[Meta] \in NodeSet
  BY Numbers DEF Shape
<1>2. Kids(pg[Meta]) = {nod}
  BY <1>1 DEF Kids
<1>3. /\ nod \in Page /\ nod \in Nat /\ nod < al /\ nod # Meta /\ al \in Nat
      /\ pg[nod].lower = 0 /\ pg[nod].upper = Inf /\ pg[nod] \in NodeSet
  <2>1. nod \in Kids(pg[Meta])
    BY <1>2
  <2>2. pg[nod].upper = Inf /\ ChildOK(pg, pg[Meta], nod)
    BY <1>1, <2>1, KidFacts DEF InnerOK
  <2>q. QED
    BY <1>1, <2>1, <2>2, KidFacts DEF ChildOK
<1>4. /\ al \in Page /\ al # Meta /\ al + 1 \in 1 .. NPages + 1 /\ pg[al].leaf
      /\ ~LiveLeaf(pg, al) /\ \A p \in Page : ~pg[p].leaf => al \notin Kids(pg[p])
  BY UnusedFacts
<1>5. root \in NodeSet /\ Keys(root) = {} /\ Kids(root) = {nod}
  <2>1. 0 \in 0 .. NKeys /\ Inf \in 1 .. Inf
    BY Numbers
  <2>2. ASSUME NEW c \in Page
        PROVE  /\ Node(FALSE, Empty, c, 0, Inf) \in NodeSet
               /\ Keys(Node(FALSE, Empty, c, 0, Inf)) = {}
               /\ Kids(Node(FALSE, Empty, c, 0, Inf)) = {c}
    BY <2>1, EmptyNode
  <2>q. QED
    BY <1>3, <2>2 DEF root
<1>6. /\ ~root.leaf /\ root.last = nod /\ root.lower = 0 /\ root.upper = Inf
  BY DEF Node
<1> HIDE DEF root
<1>7. /\ qg \in [Page -> NodeSet]
      /\ qg[Meta] = [pg[Meta] EXCEPT !.last = al]
      /\ qg[al] = root
      /\ \A x \in Page \ {Meta, al} : qg[x] = pg[x]
  <2>1. [pg[Meta] EXCEPT !.last = al] \in NodeSet
    BY <1>1, <1>4 DEF NodeSet
  <2>2. qg = [x \in Page |-> IF x = al THEN root
                            ELSE IF x = Meta THEN [pg[Meta] EXCEPT !.last = al] ELSE pg[x]]
    BY <1>1, <1>4 DEF Rooted, root
  <2>q. QED
    BY <1>1, <1>4, <1>5, <2>1, <2>2
<1>8. /\ ~qg[Meta].leaf /\ Keys(qg[Meta]) = {} /\ qg[Meta].lower = 0 /\ qg[Meta].upper = Inf
      /\ Kids(qg[Meta]) = {al} /\ qg[Meta].last = al
  <2>1. /\ qg[Meta].slot = pg[Meta].slot /\ qg[Meta].last = al /\ ~qg[Meta].leaf
        /\ qg[Meta].lower = 0 /\ qg[Meta].upper = Inf
    BY <1>1, <1>7 DEF NodeSet
  <2>q. QED
    BY <1>1, <2>1 DEF Kids, Keys
<1>9. \A x \in Page : /\ x # al => qg[x].leaf = pg[x].leaf
                      /\ x # al => qg[x].lower = pg[x].lower /\ qg[x].upper = pg[x].upper
                      /\ x \notin {Meta, al} => qg[x] = pg[x] /\ Kids(qg[x]) = Kids(pg[x])
  <2>1. \A x \in Page \ {Meta, al} : qg[x] = pg[x]
    BY <1>7
  <2>2. /\ qg[Meta].leaf = pg[Meta].leaf /\ qg[Meta].lower = pg[Meta].lower
        /\ qg[Meta].upper = pg[Meta].upper
    BY <1>1, <1>7 DEF NodeSet
  <2>q. QED
    BY <2>1, <2>2
<1>10. ASSUME NEW x PROVE LiveLeaf(qg, x) <=> LiveLeaf(pg, x)
  BY <1>1, <1>2, <1>4, <1>5, <1>6, <1>7, <1>8, <1>9 DEF LiveLeaf
<1>11. ASSUME NEW x \in Page, ~qg[x].leaf PROVE InnerOK(qg, qg[x])
  <2>1. InnerOK(pg, pg[Meta])
    BY <1>1 DEF Shape
  <2>2. CASE x = Meta
    <3>1. qg[al].upper = Inf /\ ChildOK(qg, qg[Meta], al)
      BY <1>4, <1>6, <1>7, <1>8, Numbers DEF ChildOK
    <3>q. QED
      BY <1>1, <1>8, <2>1, <2>2, <3>1 DEF InnerOK
  <2>3. CASE x = al
    <3>1. qg[nod].upper = Inf /\ qg[nod].lower = 0
      BY <1>3, <1>9
    <3>2. ChildOK(qg, root, nod)
      BY <1>3, <1>5, <1>6, <3>1, Numbers DEF ChildOK
    <3>q. QED
      BY <1>1, <1>5, <1>6, <1>7, <2>1, <2>3, <3>1, <3>2 DEF InnerOK
  <2>4. CASE x \notin {Meta, al}
    <3>1. ~pg[x].leaf /\ InnerOK(pg, pg[x]) /\ qg[x] = pg[x]
      BY <1>9, <1>11, <2>4 DEF Shape
    <3>2. ASSUME NEW c \in Kids(pg[x])
          PROVE  /\ ChildOK(qg, pg[x], c)
                 /\ qg[c].upper = pg[c].upper /\ qg[c].leaf = pg[c].leaf
      <4>1. ChildOK(pg, pg[x], c) /\ c # al
        BY <1>4, <3>1 DEF InnerOK
      <4>q. QED
        BY <1>9, <4>1 DEF ChildOK
    <3>q. QED
      BY <3>1, <3>2 DEF InnerOK, Kids
  <2>q. QED
    BY <2>2, <2>3, <2>4
<1>12. ASSUME NEW x \in Page, LiveLeaf(qg, x) PROVE LeafOK(qg, qg[x])
  <2>1. LiveLeaf(pg, x) /\ LeafOK(pg, pg[x]) /\ x # Meta /\ x # al
    BY <1>1, <1>4, <1>10, <1>12 DEF Shape, LiveLeaf
  <2>2. ASSUME pg[x].upper # Inf
        PROVE  LiveLeaf(qg, pg[x].last) /\ qg[pg[x].last].lower = pg[x].upper
    <3>1. LiveLeaf(pg, pg[x].last) /\ pg[pg[x].last].lower = pg[x].upper
      BY <2>1, <2>2 DEF LeafOK
    <3>2. pg[x].last \in Page /\ pg[x].last # al
      BY <1>4, <3>1 DEF LiveLeaf
    <3>q. QED
      BY <1>9, <1>10, <3>1, <3>2
  <2>3. qg[x] = pg[x]
    BY <1>9, <2>1
  <2>q. QED
    BY <2>1, <2>2, <2>3 DEF LeafOK
<1>13. Levels(qg)
  <2>1. PICK top \in Nat : \E level \in [Page -> 0 .. top] :
          \A x \in Page : ~pg[x].leaf => \A y \in Kids(pg[x]) : level[y] < level[x]
    BY DEF Shape, Levels
  <2>2. PICK level \in [Page -> 0 .. top] :
          \A x \in Page : ~pg[x].leaf => \A y \in Kids(pg[x]) : level[y] < level[x]
    BY <2>1
  <2> DEFINE lv == [x \in Page |-> IF x = Meta THEN top + 1
                                  ELSE IF x = al THEN level[Meta] ELSE level[x]]
  <2>3. lv \in [Page -> 0 .. top + 1] /\ top + 1 \in Nat
    BY <1>1, <2>1, <2>2
  <2>4. ASSUME NEW x \in Page, ~qg[x].leaf, NEW c \in Kids(qg[x]) PROVE lv[c] < lv[x]
    <3>1. CASE x = Meta
      <4>1. c = al /\ lv[c] = level[Meta] /\ level[Meta] \in 0 .. top /\ lv[x] = top + 1
        BY <1>1, <1>4, <1>8, <2>2, <2>4, <3>1
      <4>q. QED
        BY <2>1, <4>1
    <3>2. CASE x = al
      <4>1. c = nod /\ lv[c] = level[nod] /\ lv[x] = level[Meta]
        BY <1>3, <1>4, <1>5, <1>7, <2>4, <3>2
      <4>2. level[nod] < level[Meta]
        BY <1>1, <1>2, <2>2
      <4>q. QED
        BY <4>1, <4>2
    <3>3. CASE x \notin {Meta, al}
      <4>1. ~pg[x].leaf /\ c \in Kids(pg[x])
        BY <1>9, <2>4, <3>3
      <4>2. level[c] < level[x] /\ c \in Page /\ c # Meta /\ c # al
        BY <1>4, <2>2, <4>1, KidFacts
      <4>q. QED
        BY <3>3, <4>2
    <3>q. QED
      BY <3>1, <3>2, <3>3
  <2> HIDE DEF lv
  <2>q. QED
    BY <2>3, <2>4 DEF Levels
<1>14. Used(qg, al + 1)
  <2>1. ASSUME NEW x \in Page PROVE qg[x].last < al + 1
    <3>1. pg[x].last < al /\ pg[x].last \in Nat
      <4>1. pg[x] \in NodeSet
        BY <1>1
      <4>q. QED
        BY <4>1, NodeFacts, Numbers DEF Shape, Used
    <3>2. qg[x].last \in {al, nod, pg[x].last}
      BY <1>6, <1>7, <1>8
    <3>q. QED
      BY <1>3, <3>1, <3>2
  <2>2. ASSUME NEW x \in Page, x >= al + 1 PROVE qg[x].leaf /\ ~LiveLeaf(qg, x)
    <3>1. x \in Nat
      BY Numbers
    <3>2. x >= al /\ x # al
      BY <1>3, <2>2, <3>1
    <3>q. QED
      BY <1>9, <1>10, <3>2 DEF Shape, Used
  <2>q. QED
    BY <1>4, <2>1, <2>2 DEF Used
<1>15. ASSUME NEW x \in Page, NEW y \in Page, ~qg[x].leaf, ~qg[y].leaf, x # y
       PROVE  Kids(qg[x]) \cap Kids(qg[y]) = {}
  <2>1. ASSUME NEW z \in Page, ~qg[z].leaf
        PROVE  /\ z = Meta => Kids(qg[z]) = {al}
               /\ z = al => Kids(qg[z]) = {nod}
               /\ z \notin {Meta, al} => /\ Kids(qg[z]) = Kids(pg[z]) /\ ~pg[z].leaf
                                       /\ al \notin Kids(pg[z]) /\ nod \notin Kids(pg[z])
    BY <1>1, <1>2, <1>4, <1>5, <1>7, <1>8, <1>9, <2>1 DEF Shape
  <2>2. CASE x \in {Meta, al} \/ y \in {Meta, al}
    BY <1>3, <1>15, <2>1, <2>2
  <2>3. CASE x \notin {Meta, al} /\ y \notin {Meta, al}
    BY <1>15, <2>1, <2>3 DEF Shape
  <2>q. QED
    BY <2>2, <2>3
<1>16. ASSUME NEW x \in Page \ {Meta}, ~qg[x].leaf
       PROVE  \E y \in Page : ~qg[y].leaf /\ x \in Kids(qg[y])
  <2>1. CASE x = al
    BY <1>1, <1>8, <2>1
  <2>2. CASE x # al
    <3>1. PICK y \in Page : ~pg[y].leaf /\ x \in Kids(pg[y])
      BY <1>9, <1>16, <2>2 DEF Shape
    <3>2. CASE y = Meta
      BY <1>2, <1>4, <1>5, <1>6, <1>7, <3>1, <3>2
    <3>3. CASE y # Meta
      BY <1>4, <1>9, <3>1, <3>3
    <3>q. QED
      BY <3>2, <3>3
  <2>q. QED
    BY <2>1, <2>2
<1>p. Payloads(qg)
  BY <1>6, <1>7, <1>8, <1>9 DEF Shape, Payloads
<1>17. Shape(qg, al + 1)
  BY <1>7, <1>8, <1>11, <1>12, <1>13, <1>14, <1>15, <1>16, <1>p DEF Shape
<1>18. ASSUME NEW k \in Key
       PROVE  LeafIn(qg, k) = LeafIn(pg, k) /\ qg[LeafIn(pg, k)] = pg[LeafIn(pg, k)]
  <2>1. LiveLeaf(pg, LeafIn(pg, k)) /\ Encloses(pg[LeafIn(pg, k)], k)
    BY Search
  <2>2. qg[LeafIn(pg, k)] = pg[LeafIn(pg, k)]
    BY <1>1, <1>4, <1>9, <2>1 DEF LiveLeaf
  <2>q. QED
    BY <1>10, <1>17, <2>1, <2>2, Search
<1>19. StoredIn(qg) = StoredIn(pg)
  BY <1>18, SameStored
<1>20. \A x \in Page : x < al => qg[x].leaf = pg[x].leaf
  BY <1>3, <1>9
<1>21. Spared(qg, pg, al, None)
  BY <1>10, <1>20 DEF Spared
<1>q. QED
  BY <1>17, <1>19, <1>21
-----------------------------------------------------------------------------
\* A set of numbers with i smaller ones below each other has an i-th one.
LEMMA NthKeyIs ==
  ASSUME NEW S, S \subseteq Nat, IsFiniteSet(S), NEW i \in Nat, i < Cardinality(S)
  PROVE  NthKey(S, i) \in S /\ Cardinality({j \in S : j < NthKey(S, i)}) = i
<1> DEFINE Below(k) == {j \in S : j < k}
           Bad == {m \in Nat : m < Cardinality(S) /\ ~\E k \in S : Cardinality(Below(k)) = m}
<1>0. \A j \in S : j \in Nat
  OBVIOUS
<1>1. Bad = {}
  <2> SUFFICES ASSUME Bad # {} PROVE FALSE
    OBVIOUS
  <2>1. PICK m \in Bad : \A j \in Bad : m <= j
    BY LeastNat
  <2>2. m \in Nat /\ m < Cardinality(S) /\ ~\E k \in S : Cardinality(Below(k)) = m
    BY <2>1
  <2>3. Cardinality(S) \in Nat
    BY FS_CardinalityType
  <2>4. S # {}
    BY <2>2, FS_EmptySet
  <2>5. CASE m = 0
    <3>1. PICK k \in S : \A j \in S : k <= j
      BY <2>4, LeastNat
    <3>2. Below(k) = {}
      <4>1. ASSUME NEW j \in S PROVE ~(j < k)
        BY <1>0, <3>1
      <4>q. QED
        BY <4>1
    <3>q. QED
      BY <2>2, <2>5, <3>2, FS_EmptySet
  <2>6. CASE m # 0
    <3>1. m - 1 \in Nat /\ m - 1 < Cardinality(S) /\ ~(m <= m - 1)
      BY <2>2, <2>3, <2>6
    <3>2. m - 1 \notin Bad
      <4> HIDE DEF Bad
      <4>q. QED
        BY <2>1, <3>1
    <3>3. PICK k \in S : Cardinality(Below(k)) = m - 1
      BY <3>1, <3>2
    <3> DEFINE T == {j \in S : j > k}
    <3>4. Below(k) \union {k} \subseteq S /\ k \notin Below(k)
      OBVIOUS
    <3>5. IsFiniteSet(Below(k))
      BY <3>4, FS_Subset
    <3>6. Cardinality(Below(k) \union {k}) = m
      <4>1. Cardinality(Below(k) \union {k}) = Cardinality(Below(k)) + 1
        BY <3>4, <3>5, FS_AddElement
      <4>q. QED
        BY <2>2, <3>3, <4>1
    <3>7. T # {}
      <4>1. ASSUME T = {} PROVE S = Below(k) \union {k}
        <5>1. \A j \in S : j < k \/ j = k
          BY <1>0, <3>3, <4>1
        <5>q. QED
          BY <3>3, <5>1
      <4>2. Cardinality(S) # m
        BY <2>2, <2>3
      <4> HIDE DEF T, Below
      <4>q. QED
        BY <3>6, <4>1, <4>2
    <3>8. T \subseteq Nat
      OBVIOUS
    <3>9. PICK h \in T : \A j \in T : h <= j
      BY <3>7, <3>8, LeastNat
    <3>10. Below(h) = Below(k) \union {k}
      <4>1. h \in S /\ h > k /\ \A j \in S : j > k => h <= j
        BY <3>9
      <4>2. ASSUME NEW j \in S PROVE j < h <=> j < k \/ j = k
        BY <1>0, <3>3, <4>1
      <4>q. QED
        BY <3>3, <4>2
    <3>q. QED
      BY <2>2, <3>6, <3>9, <3>10
  <2>q. QED
    BY <2>5, <2>6
<1>2. i \notin Bad
  <2> HIDE DEF Bad
  <2>q. QED
    BY <1>1
<1>3. \E k \in S : Cardinality({j \in S : j < k}) = i
  BY <1>2
<1>q. QED
  BY <1>3 DEF NthKey

\* The keys of a page are few.
LEMMA KeysFinite ==
  ASSUME NEW n \in NodeSet
  PROVE  IsFiniteSet(Keys(n)) /\ Keys(n) \subseteq Nat /\ Count(n) \in Nat
<1>1. Keys(n) \subseteq Key /\ Key \subseteq Nat
  BY NodeFacts, Numbers
<1>2. IsFiniteSet(Key)
  BY TreeAssumption, FS_Interval DEF Key
<1>q. QED
  BY <1>1, <1>2, FS_Subset, FS_CardinalityType DEF Count

\* findSeparator finds something that leaves keys on both sides.
LEMMA SeparatorFacts ==
  ASSUME NEW n \in NodeSet, ~HasSpace(n),
         \A j \in Keys(n) : Encloses(n, j),
         ~n.leaf => \A j \in Keys(n) : j < n.upper /\ j < NKeys,
         NEW sep \in Separators(n)
  PROVE  /\ sep \in Key /\ n.lower < sep /\ sep < n.upper /\ sep < NKeys
         /\ ~n.leaf => sep \in Keys(n)
<1>1. /\ IsFiniteSet(Keys(n)) /\ Keys(n) \subseteq Nat /\ Count(n) \in Nat
      /\ Keys(n) \subseteq Key /\ n.lower \in Nat /\ n.upper \in Nat
  BY KeysFinite, NodeFacts
<1>2. ASSUME NEW i \in Nat, i < Count(n) PROVE NthKey(Keys(n), i) \in Keys(n)
  BY <1>1, <1>2, NthKeyIs DEF Count
<1>3. LeafCap >= 3 /\ InnerCap >= 2 /\ LeafCap \in Nat /\ InnerCap \in Nat /\ NKeys \in Nat
  BY TreeAssumption
<1>4. CASE n.leaf
  <2> DEFINE best == IF SplitOrdered THEN Count(n) - 2 ELSE (Count(n) - 1) \div 2
             a == NthKey(Keys(n), best)  b == NthKey(Keys(n), best + 1)
  <2>1. Count(n) >= 3
    BY <1>1, <1>3, <1>4 DEF HasSpace
  <2>2. best \in Nat /\ best + 1 \in Nat /\ best + 1 < Count(n) /\ best < Count(n)
    BY <1>1, <2>1
  <2>3. sep \in a .. b - 1
    BY <1>4 DEF Separators
  <2> HIDE DEF best
  <2>4. a \in Keys(n) /\ b \in Keys(n)
    BY <1>2, <2>2
  <2> HIDE DEF a, b
  <2>5. a \in Nat /\ b \in Nat /\ a \in Key /\ b \in Key /\ n.lower < a /\ b <= n.upper
    BY <1>1, <2>4 DEF Encloses
  <2>6. a >= 1 /\ b <= NKeys
    BY <1>3, <2>5 DEF Key
  <2>7. sep \in Int /\ a <= sep /\ sep <= b - 1
    BY <2>3, <2>5
  <2>8. n.lower < sep /\ sep < n.upper /\ sep < NKeys /\ sep \in 1 .. NKeys
    BY <1>1, <1>3, <2>5, <2>6, <2>7
  <2>q. QED
    BY <1>4, <2>8 DEF Key
<1>5. CASE ~n.leaf
  <2>1. Count(n) >= 2
    BY <1>1, <1>3, <1>5 DEF HasSpace
  <2>2. Count(n) \div 2 \in Nat /\ Count(n) \div 2 < Count(n)
    BY <1>1, <2>1
  <2>3. sep = NthKey(Keys(n), Count(n) \div 2)
    BY <1>5 DEF Separators
  <2>4. sep \in Keys(n)
    BY <1>2, <2>2, <2>3
  <2>q. QED
    BY <1>1, <1>5, <2>4 DEF Encloses
<1>q. QED
  BY <1>4, <1>5

\* A page with some of the slots of another one.
LEMMA RestrictFacts ==
  ASSUME NEW n \in NodeSet, NEW S
  PROVE  LET f == Restricted(n.slot, S) IN
         f \in Slots /\ DOMAIN f = Keys(n) \cap S /\ \A k \in Keys(n) \cap S : f[k] = n.slot[k]
<1> DEFINE f == Restricted(n.slot, S)
<1>1. f = [k \in Keys(n) \cap S |-> n.slot[k]]
  BY DEF Restricted, Keys
<1>2. f \in [Keys(n) \cap S -> Value \union Page]
  BY <1>1, NodeFacts
<1>3. Keys(n) \cap S \in SUBSET Key
  BY NodeFacts
<1>4. f \in Slots
  BY <1>2, <1>3, SlotsHas
<1>q. QED
  BY <1>1, <1>4

\* The left half of a split.
LEMMA LeftFacts ==
  ASSUME NEW n \in NodeSet, NEW sep \in Key, NEW right \in Page,
         ~n.leaf => sep \in Keys(n) /\ n.slot[sep] \in Page
  PROVE  LET m == SplitLeft(n, sep, right) IN
         /\ m \in NodeSet /\ m.leaf = n.leaf /\ m.lower = n.lower /\ m.upper = sep
         /\ m.last = IF n.leaf THEN right ELSE n.slot[sep]
         /\ Keys(m) = {k \in Keys(n) : IF n.leaf THEN k <= sep ELSE k < sep}
         /\ \A k \in Keys(m) : m.slot[k] = n.slot[k]
<1> DEFINE S == IF n.leaf THEN 0 .. sep ELSE 0 .. sep - 1
           f == Restricted(n.slot, S)
<1>1. sep \in Nat /\ Keys(n) \subseteq Nat /\ sep \in 1 .. Inf
  BY NodeFacts, Numbers
<1>2. f \in Slots /\ DOMAIN f = Keys(n) \cap S /\ \A k \in Keys(n) \cap S : f[k] = n.slot[k]
  BY RestrictFacts
<1>3. Keys(n) \cap S = {k \in Keys(n) : IF n.leaf THEN k <= sep ELSE k < sep}
  BY <1>1
<1>4. SplitLeft(n, sep, right) =
        Node(n.leaf, f, IF n.leaf THEN right ELSE n.slot[sep], n.lower, sep)
  BY DEF SplitLeft
<1> HIDE DEF f, S
<1>5. n.leaf \in BOOLEAN /\ n.lower \in 0 .. NKeys
  BY NodeFacts
<1>q. QED
  BY <1>1, <1>2, <1>3, <1>4, <1>5 DEF Node, NodeSet, Keys

\* The right half of a split.
LEMMA RightFacts ==
  ASSUME NEW n \in NodeSet, NEW sep \in Key
  PROVE  LET m == SplitRight(n, sep) IN
         /\ m \in NodeSet /\ m.leaf = n.leaf /\ m.lower = sep /\ m.upper = n.upper
         /\ m.last = n.last
         /\ Keys(m) = {k \in Keys(n) : k > sep}
         /\ \A k \in Keys(m) : m.slot[k] = n.slot[k]
<1> DEFINE S == sep + 1 .. NKeys
           f == Restricted(n.slot, S)
<1>1. sep \in Nat /\ Keys(n) \subseteq Nat /\ sep \in 0 .. NKeys /\ NKeys \in Nat
      /\ \A k \in Keys(n) : k <= NKeys
  BY NodeFacts, Numbers
<1>2. f \in Slots /\ DOMAIN f = Keys(n) \cap S /\ \A k \in Keys(n) \cap S : f[k] = n.slot[k]
  BY RestrictFacts
<1>3. Keys(n) \cap S = {k \in Keys(n) : k > sep}
  BY <1>1
<1>4. SplitRight(n, sep) = Node(n.leaf, f, n.last, sep, n.upper)
  BY DEF SplitRight
<1> HIDE DEF f, S
<1>5. n.leaf \in BOOLEAN /\ n.upper \in 1 .. Inf /\ n.last \in Page
  BY NodeFacts
<1>q. QED
  BY <1>1, <1>2, <1>3, <1>4, <1>5 DEF Node, NodeSet, Keys

\* No page is a child twice.
LEMMA KidsDiffer ==
  ASSUME NEW pg, NEW al, Shape(pg, al), NEW p \in Page, ~pg[p].leaf
  PROVE  LET n == pg[p] IN
         /\ \A s, r \in Keys(n) : n.slot[s] = n.slot[r] => s = r
         /\ \A s \in Keys(n) : n.slot[s] # n.last
<1> DEFINE n == pg[p]
<1>1. InnerOK(pg, n) /\ n \in NodeSet
  BY DEF Shape
<1>2. \A s \in Keys(n) : pg[n.slot[s]].upper = s /\ s < n.upper
  BY <1>1 DEF InnerOK
<1>3. pg[n.last].upper = n.upper /\ Keys(n) \subseteq Nat /\ n.upper \in Nat
  BY <1>1, NodeFacts, Numbers DEF InnerOK
<1>q. QED
  BY <1>2, <1>3

\* Where a search leaves a node, another page takes the place of the child.
LEMMA SwapFacts ==
  ASSUME NEW pg, NEW al, Shape(pg, al), NEW p \in Page, ~pg[p].leaf,
         NEW k \in Nat, NEW c, c = Child(pg[p], k), NEW q \in Page
  PROVE  LET n == pg[p]  m == SetChild(n, k, q) IN
         /\ m \in NodeSet /\ Keys(m) = Keys(n)
         /\ m.leaf = n.leaf /\ m.lower = n.lower /\ m.upper = n.upper
         /\ m.last = IF n.last = c THEN q ELSE n.last
         /\ \A s \in Keys(n) : m.slot[s] = IF n.slot[s] = c THEN q ELSE n.slot[s]
<1> DEFINE n == pg[p]  m == SetChild(n, k, q)  s == Least(Above(n, k))
<1>1. n \in NodeSet
  BY DEF Shape
<1>2. /\ m \in NodeSet /\ Keys(m) = Keys(n)
      /\ m.leaf = n.leaf /\ m.lower = n.lower /\ m.upper = n.upper
      /\ Above(n, k) = {} => m.last = q /\ \A j \in Keys(n) : m.slot[j] = n.slot[j]
      /\ Above(n, k) # {} => /\ m.last = n.last /\ m.slot[s] = q
                            /\ \A j \in Keys(n) : j # s => m.slot[j] = n.slot[j]
  BY <1>1, SetChildFacts
<1>3. /\ Above(n, k) = {} => c = n.last
      /\ Above(n, k) # {} => s \in Keys(n) /\ c = n.slot[s]
  BY <1>1, ChildFacts
<1>4. /\ \A i, j \in Keys(n) : n.slot[i] = n.slot[j] => i = j
      /\ \A i \in Keys(n) : n.slot[i] # n.last
  BY KidsDiffer
<1> HIDE DEF s, m, n
<1>5. /\ m.last = IF n.last = c THEN q ELSE n.last
      /\ \A j \in Keys(n) : m.slot[j] = IF n.slot[j] = c THEN q ELSE n.slot[j]
  <2>1. CASE Above(n, k) = {}
    BY <1>2, <1>3, <1>4, <2>1
  <2>2. CASE Above(n, k) # {}
    BY <1>2, <1>3, <1>4, <2>2
  <2>q. QED
    BY <2>1, <2>2
<1>q. QED
  BY <1>2, <1>5 DEF m, n

\* The parent of a split points to both halves.
LEMMA ParentFacts ==
  ASSUME NEW pg, NEW al, Shape(pg, al), NEW par \in Page, ~pg[par].leaf,
         NEW nod \in Kids(pg[par]), NEW sep \in Key, NEW right \in Page,
         pg[nod].lower < sep, sep < pg[nod].upper
  PROVE  LET n == pg[par]  m == SplitParent(n, sep, nod, right) IN
         /\ m \in NodeSet /\ Keys(m) = Keys(n) \union {sep} /\ sep \notin Keys(n)
         /\ m.leaf = n.leaf /\ m.lower = n.lower /\ m.upper = n.upper
         /\ m.last = IF n.last = nod THEN right ELSE n.last
         /\ m.slot[sep] = nod
         /\ \A s \in Keys(n) : m.slot[s] = IF n.slot[s] = nod THEN right ELSE n.slot[s]
         /\ Kids(m) = Kids(n) \union {right}
<1> DEFINE n == pg[par]  o == SetChild(n, sep, right)  m == Put(o, sep, nod)
<1>1. /\ n \in NodeSet /\ nod \in Page /\ pg[nod].lower \in Nat /\ pg[nod].upper \in Nat
      /\ ChildOK(pg, n, nod)
  BY KidFacts
<1>2. sep \in Nat
  BY Numbers
<1>3. Encloses(pg[nod], sep)
  BY <1>1, <1>2 DEF Encloses
<1>4. Child(n, sep) = nod
  BY <1>2, <1>3, EnclosedIsChild
<1>5. sep \notin Keys(n)
  BY <1>1 DEF ChildOK
<1>6. /\ o \in NodeSet /\ Keys(o) = Keys(n)
      /\ o.leaf = n.leaf /\ o.lower = n.lower /\ o.upper = n.upper
      /\ o.last = IF n.last = nod THEN right ELSE n.last
      /\ \A s \in Keys(n) : o.slot[s] = IF n.slot[s] = nod THEN right ELSE n.slot[s]
  BY <1>2, <1>4, SwapFacts
<1> HIDE DEF o
<1>7. /\ m \in NodeSet /\ Keys(m) = Keys(o) \union {sep}
      /\ m.slot[sep] = nod /\ \A j \in Keys(o) \ {sep} : m.slot[j] = o.slot[j]
      /\ m.leaf = o.leaf /\ m.last = o.last /\ m.lower = o.lower /\ m.upper = o.upper
  BY <1>1, <1>6, PutFacts
<1> HIDE DEF m
<1>8. Kids(m) = Kids(n) \union {right}
  <2>1. nod = n.last \/ \E s \in Keys(n) : nod = n.slot[s]
    BY DEF Kids
  <2>2. /\ Keys(m) = Keys(n) \union {sep} /\ m.slot[sep] = nod
        /\ m.last = IF n.last = nod THEN right ELSE n.last
        /\ \A s \in Keys(n) : m.slot[s] = IF n.slot[s] = nod THEN right ELSE n.slot[s]
    BY <1>5, <1>6, <1>7
  <2>3. ASSUME NEW c \in Kids(m) PROVE c \in Kids(n) \union {right}
    BY <2>1, <2>2, <2>3 DEF Kids
  <2>4. ASSUME NEW c \in Kids(n) PROVE c \in Kids(m)
    <3>1. CASE c = nod
      BY <2>2, <3>1 DEF Kids
    <3>2. CASE c # nod
      BY <2>2, <2>4, <3>2 DEF Kids
    <3>q. QED
      BY <3>1, <3>2
  <2>5. right \in Kids(m)
    BY <2>1, <2>2 DEF Kids
  <2>q. QED
    BY <2>3, <2>4, <2>5
<1>q. QED
  BY <1>5, <1>6, <1>7, <1>8 DEF SplitParent, m, o

\* The halves of an inner node share out its children.
LEMMA HalvesFacts ==
  ASSUME NEW pg, NEW al, Shape(pg, al), NEW p \in Page, ~pg[p].leaf,
         NEW sep \in Keys(pg[p]), NEW right \in Page
  PROVE  LET n == pg[p]  l == SplitLeft(n, sep, right)  r == SplitRight(n, sep) IN
         /\ Kids(l) = {c \in Kids(n) : pg[c].upper <= sep}
         /\ Kids(r) = {c \in Kids(n) : pg[c].upper > sep}
<1> DEFINE n == pg[p]  l == SplitLeft(n, sep, right)  r == SplitRight(n, sep)
<1>1. InnerOK(pg, n) /\ n \in NodeSet
  BY DEF Shape
<1>2. sep \in Key /\ sep \in Nat /\ Keys(n) \subseteq Nat /\ n.upper \in Nat
  BY <1>1, NodeFacts, Numbers
<1>3. /\ \A s \in Keys(n) : pg[n.slot[s]].upper = s /\ s < n.upper /\ n.slot[s] \in Page
      /\ pg[n.last].upper = n.upper
  BY <1>1 DEF InnerOK
<1>4. /\ l.last = n.slot[sep] /\ Keys(l) = {k \in Keys(n) : k < sep}
      /\ \A k \in Keys(l) : l.slot[k] = n.slot[k]
  BY <1>1, <1>2, <1>3, LeftFacts
<1>5. /\ r.last = n.last /\ Keys(r) = {k \in Keys(n) : k > sep}
      /\ \A k \in Keys(r) : r.slot[k] = n.slot[k]
  BY <1>1, <1>2, RightFacts
<1> HIDE DEF l, r
<1>6. ASSUME NEW c PROVE c \in Kids(l) <=> c \in Kids(n) /\ pg[c].upper <= sep
  <2>1. ASSUME c \in Kids(l) PROVE c \in Kids(n) /\ pg[c].upper <= sep
    <3>1. c = n.slot[sep] \/ \E k \in Keys(n) : k < sep /\ c = n.slot[k]
      BY <1>4, <2>1 DEF Kids
    <3>q. QED
      BY <1>2, <1>3, <3>1 DEF Kids
  <2>2. ASSUME c \in Kids(n), pg[c].upper <= sep PROVE c \in Kids(l)
    <3>1. c # n.last
      BY <1>2, <1>3, <2>2
    <3>2. PICK k \in Keys(n) : c = n.slot[k]
      BY <2>2, <3>1 DEF Kids
    <3>3. k < sep \/ k = sep
      BY <1>2, <1>3, <2>2, <3>2
    <3>q. QED
      BY <1>4, <3>2, <3>3 DEF Kids
  <2>q. QED
    BY <2>1, <2>2
<1>7. ASSUME NEW c PROVE c \in Kids(r) <=> c \in Kids(n) /\ pg[c].upper > sep
  <2>1. ASSUME c \in Kids(r) PROVE c \in Kids(n) /\ pg[c].upper > sep
    <3>1. c = n.last \/ \E k \in Keys(n) : k > sep /\ c = n.slot[k]
      BY <1>5, <2>1 DEF Kids
    <3>q. QED
      BY <1>2, <1>3, <3>1 DEF Kids
  <2>2. ASSUME c \in Kids(n), pg[c].upper > sep PROVE c \in Kids(r)
    <3>1. c = n.last \/ \E k \in Keys(n) : c = n.slot[k]
      BY <2>2 DEF Kids
    <3>2. CASE c = n.last
      BY <1>5, <3>2 DEF Kids
    <3>3. ASSUME NEW k \in Keys(n), c = n.slot[k] PROVE c \in Kids(r)
      <4>1. k > sep
        BY <1>3, <2>2, <3>3
      <4>q. QED
        BY <1>5, <3>3, <4>1 DEF Kids
    <3>q. QED
      BY <3>1, <3>2, <3>3
  <2>q. QED
    BY <2>1, <2>2
<1>q. QED
  BY <1>6, <1>7 DEF l, r

\* splitNode: a node and its parent change, and a page comes into use.
LEMMA SplitKeeps ==
  ASSUME NEW pg, NEW al, Shape(pg, al), al <= NPages,
         NEW par \in Page, ~pg[par].leaf, par # Meta,
         NEW nod \in Kids(pg[par]), NEW sep \in Key,
         pg[nod].lower < sep, sep < pg[nod].upper, sep < NKeys,
         ~pg[nod].leaf => sep \in Keys(pg[nod]),
         NEW qg, HasSplit(qg, pg, par, nod, sep, al)
  PROVE  Shape(qg, al + 1) /\ Spared(qg, pg, al, None) /\ StoredIn(qg) = StoredIn(pg)
<1> DEFINE n == pg[nod]
           l == SplitLeft(n, sep, al)
           r == SplitRight(n, sep)
           p == SplitParent(pg[par], sep, nod, al)
<1>1. /\ nod \in Page /\ nod \in Nat /\ nod < al /\ nod # Meta /\ nod # par /\ par < al
      /\ n \in NodeSet /\ n.lower \in Nat /\ n.upper \in Nat /\ n.lower < NKeys
      /\ al \in Nat /\ par \in Nat /\ pg \in [Page -> NodeSet] /\ Meta \in Page
      /\ Keys(n) \subseteq Nat /\ sep \in Nat
  <2>1. n \in NodeSet /\ n.lower \in Nat /\ n.upper \in Nat /\ n.lower < NKeys
    BY KidFacts
  <2>2. pg \in [Page -> NodeSet]
    BY DEF Shape
  <2>3. Keys(n) \subseteq Nat /\ sep \in Nat
    BY <2>1, NodeFacts, Numbers
  <2>q. QED
    BY <2>1, <2>2, <2>3, KidFacts, Numbers
<1>2. /\ al \in Page /\ al # Meta /\ al + 1 \in 1 .. NPages + 1 /\ pg[al].leaf
      /\ ~LiveLeaf(pg, al) /\ \A x \in Page : ~pg[x].leaf => al \notin Kids(pg[x])
  BY UnusedFacts
<1>3. /\ n.leaf => LiveLeaf(pg, nod) /\ LeafOK(pg, n)
      /\ ~n.leaf => InnerOK(pg, n) /\ n.slot[sep] \in Page
  <2>1. n.leaf => LiveLeaf(pg, nod)
    BY <1>1 DEF LiveLeaf
  <2>2. ~n.leaf => InnerOK(pg, n)
    BY <1>1 DEF Shape
  <2>q. QED
    BY <1>1, <2>1, <2>2 DEF Shape, InnerOK
<1>4. /\ l \in NodeSet /\ l.leaf = n.leaf /\ l.lower = n.lower /\ l.upper = sep
      /\ l.last = IF n.leaf THEN al ELSE n.slot[sep]
      /\ Keys(l) = {k \in Keys(n) : IF n.leaf THEN k <= sep ELSE k < sep}
      /\ \A k \in Keys(l) : l.slot[k] = n.slot[k]
  BY <1>1, <1>2, <1>3, LeftFacts
<1>5. /\ r \in NodeSet /\ r.leaf = n.leaf /\ r.lower = sep /\ r.upper = n.upper
      /\ r.last = n.last /\ Keys(r) = {k \in Keys(n) : k > sep}
      /\ \A k \in Keys(r) : r.slot[k] = n.slot[k]
  BY <1>1, RightFacts
<1>6. /\ p \in NodeSet /\ Keys(p) = Keys(pg[par]) \union {sep} /\ sep \notin Keys(pg[par])
      /\ p.leaf = pg[par].leaf /\ p.lower = pg[par].lower /\ p.upper = pg[par].upper
      /\ p.last = IF pg[par].last = nod THEN al ELSE pg[par].last
      /\ p.slot[sep] = nod
      /\ \A s \in Keys(pg[par]) :
           p.slot[s] = IF pg[par].slot[s] = nod THEN al ELSE pg[par].slot[s]
      /\ Kids(p) = Kids(pg[par]) \union {al}
  <2>1. al \in Page
    BY <1>2
  <2>q. QED
    BY <2>1, ParentFacts, SMTT(30)
<1>7. ~n.leaf => /\ Kids(l) = {c \in Kids(n) : pg[c].upper <= sep}
                 /\ Kids(r) = {c \in Kids(n) : pg[c].upper > sep}
  BY <1>1, <1>2, HalvesFacts
<1> HIDE DEF l, r, p
<1>8. /\ qg \in [Page -> NodeSet] /\ qg[nod] = l /\ qg[al] = r /\ qg[par] = p
      /\ \A x \in Page \ {nod, al, par} : qg[x] = pg[x]
  <2>1. qg = [x \in Page |-> IF x = par THEN p ELSE IF x = al THEN r
                            ELSE IF x = nod THEN l ELSE pg[x]]
    BY <1>1, <1>2 DEF HasSplit, l, r, p
  <2>q. QED
    BY <1>1, <1>2, <1>4, <1>5, <1>6, <2>1
<1>9. \A x \in Page :
        /\ x # al => qg[x].leaf = pg[x].leaf
        /\ x \notin {nod, al} => qg[x].lower = pg[x].lower /\ qg[x].upper = pg[x].upper
        /\ x # al => qg[x].lower = pg[x].lower
  BY <1>4, <1>6, <1>8
<1>10. ASSUME NEW x \in Page, ~pg[x].leaf, x \notin {nod, par}
       PROVE  /\ qg[x] = pg[x] /\ x # al
              /\ nod \notin Kids(pg[x]) /\ al \notin Kids(pg[x])
  BY <1>2, <1>8, <1>10 DEF Shape
<1>11. Meta # nod /\ Meta # al
  BY <1>1, <1>2
\* The inner nodes are the ones from before, and the right half of one.
<1>12. ASSUME NEW x \in Page
       PROVE  ~qg[x].leaf <=> ~pg[x].leaf \/ (x = al /\ ~n.leaf)
  BY <1>2, <1>5, <1>8, <1>9
<1>13. ASSUME NEW c PROVE
         (\E x \in Page : ~qg[x].leaf /\ c \in Kids(qg[x])) <=>
         (c = al \/ \E x \in Page : ~pg[x].leaf /\ c \in Kids(pg[x]))
  <2>1. ASSUME NEW x \in Page, ~qg[x].leaf, c \in Kids(qg[x])
        PROVE  c = al \/ \E y \in Page : ~pg[y].leaf /\ c \in Kids(pg[y])
    <3>1. CASE x = par
      BY <1>6, <1>8, <2>1, <3>1
    <3>2. CASE x \in {nod, al}
      <4>1. ~n.leaf
        BY <1>4, <1>5, <1>8, <2>1, <3>2
      <4>2. c \in Kids(n)
        BY <1>7, <1>8, <2>1, <3>2, <4>1
      <4>q. QED
        BY <1>1, <4>1, <4>2
    <3>3. CASE x \notin {par, nod, al}
      BY <1>8, <2>1, <3>3
    <3>q. QED
      BY <3>1, <3>2, <3>3
  <2>2. c = al => \E x \in Page : ~qg[x].leaf /\ c \in Kids(qg[x])
    BY <1>6, <1>8
  <2>3. ASSUME NEW x \in Page, ~pg[x].leaf, c \in Kids(pg[x])
        PROVE  \E y \in Page : ~qg[y].leaf /\ c \in Kids(qg[y])
    <3>1. CASE x = par
      BY <1>6, <1>8, <2>3, <3>1
    <3>2. CASE x = nod
      <4>1. c \in Kids(l) \/ c \in Kids(r)
        <5>1. pg[c].upper \in Nat
          BY <2>3, KidFacts
        <5>2. pg[c].upper <= sep \/ pg[c].upper > sep
          BY <1>1, <5>1
        <5>q. QED
          BY <1>7, <2>3, <3>2, <5>2
      <4>2. ~l.leaf /\ ~r.leaf
        BY <1>4, <1>5, <2>3, <3>2
      <4>q. QED
        BY <1>1, <1>2, <1>8, <4>1, <4>2
    <3>3. CASE x \notin {par, nod}
      BY <1>10, <2>3, <3>3
    <3>q. QED
      BY <3>1, <3>2, <3>3
  <2>q. QED
    BY <2>1, <2>2, <2>3
<1>14. ASSUME NEW x PROVE LiveLeaf(qg, x) <=> LiveLeaf(pg, x) \/ (x = al /\ n.leaf)
  <2>1. CASE x = al
    <3>1. \E y \in Page : ~qg[y].leaf /\ x \in Kids(qg[y])
      BY <1>13, <2>1
    <3>q. QED
      BY <1>2, <1>5, <1>8, <2>1, <3>1 DEF LiveLeaf
  <2>2. CASE x # al
    BY <1>9, <1>13, <2>2 DEF LiveLeaf
  <2>q. QED
    BY <2>1, <2>2
<1>15. InnerOK(qg, p)
  <2>1. /\ InnerOK(pg, pg[par]) /\ pg[par] \in NodeSet /\ Keys(pg[par]) \subseteq Nat
        /\ pg[par].lower \in Nat /\ pg[par].upper \in Nat /\ n.upper <= pg[par].upper
        /\ pg[par].lower <= n.lower /\ ChildOK(pg, pg[par], nod)
    <3>1. InnerOK(pg, pg[par]) /\ pg[par] \in NodeSet /\ n.upper <= pg[par].upper
          /\ pg[par].lower <= n.lower /\ ChildOK(pg, pg[par], nod)
      BY KidFacts
    <3>q. QED
      BY <3>1, NodeFacts, Numbers
  <2>2. /\ qg[al].upper = n.upper /\ qg[al].lower = sep
        /\ qg[nod].upper = sep /\ qg[nod].lower = n.lower
    BY <1>4, <1>5, <1>8
  <2>3. ASSUME NEW s \in Keys(p)
        PROVE  /\ p.lower < s /\ s < p.upper /\ s < NKeys
               /\ p.slot[s] \in Page /\ qg[p.slot[s]].upper = s
    <3>1. CASE s = sep
      BY <1>1, <1>6, <2>1, <2>2, <3>1
    <3>2. CASE s # sep
      <4>1. /\ s \in Keys(pg[par])
            /\ p.slot[s] = IF pg[par].slot[s] = nod THEN al ELSE pg[par].slot[s]
        BY <1>6, <2>3, <3>2
      <4>2. /\ pg[par].lower < s /\ s < pg[par].upper /\ s < NKeys
            /\ pg[par].slot[s] \in Page /\ pg[pg[par].slot[s]].upper = s
            /\ pg[par].slot[s] \in Kids(pg[par])
        BY <2>1, <4>1 DEF InnerOK, Kids
      <4>3. pg[par].slot[s] # al
        BY <1>2, <4>2
      <4>q. QED
        BY <1>2, <1>6, <1>9, <2>2, <4>1, <4>2, <4>3
    <3>q. QED
      BY <3>1, <3>2
  <2>4. qg[p.last].upper = p.upper
    <3>1. pg[par].last \in Kids(pg[par]) /\ pg[pg[par].last].upper = pg[par].upper
      BY <2>1 DEF Kids, InnerOK
    <3>2. pg[par].last # al /\ pg[par].last \in Page
      BY <1>2, <3>1, KidFacts
    <3>q. QED
      BY <1>6, <1>9, <2>2, <3>1, <3>2
  <2>5. ASSUME NEW c \in Kids(p) PROVE ChildOK(qg, p, c) /\ qg[c].leaf = n.leaf
    <3>1. CASE c = al
      <4>1. ASSUME NEW s \in Keys(p) PROVE ~(qg[c].lower < s /\ s < qg[c].upper)
        <5>1. s \in Keys(pg[par]) => ~(n.lower < s /\ s < n.upper)
          BY <2>1 DEF ChildOK
        <5>q. QED
          BY <1>1, <1>6, <2>1, <2>2, <3>1, <5>1
      <4>q. QED
        BY <1>2, <1>5, <1>6, <1>8, <2>2, <3>1, <4>1 DEF ChildOK
    <3>2. CASE c = nod
      <4>1. ASSUME NEW s \in Keys(p) PROVE ~(qg[c].lower < s /\ s < qg[c].upper)
        <5>1. s \in Keys(pg[par]) => ~(n.lower < s /\ s < n.upper)
          BY <2>1 DEF ChildOK
        <5>q. QED
          BY <1>1, <1>6, <2>1, <2>2, <3>2, <5>1
      <4>q. QED
        BY <1>1, <1>4, <1>6, <1>8, <2>1, <2>2, <3>2, <4>1 DEF ChildOK
    <3>3. CASE c \notin {al, nod}
      <4>1. c \in Kids(pg[par])
        BY <1>6, <3>3
      <4>2. /\ ChildOK(pg, pg[par], c) /\ c \in Page /\ pg[c].lower \in Nat /\ pg[c].upper \in Nat
            /\ pg[c].leaf = n.leaf
        BY <2>1, <4>1, KidFacts DEF InnerOK
      <4>3. ~(pg[c].lower < sep /\ sep < pg[c].upper)
        <5>1. SUFFICES ASSUME pg[c].lower < sep, sep < pg[c].upper PROVE FALSE
          OBVIOUS
        <5>2. Encloses(pg[c], sep) /\ Encloses(pg[nod], sep)
          BY <1>1, <4>2, <5>1 DEF Encloses
        <5>3. Child(pg[par], sep) = c /\ Child(pg[par], sep) = nod
          BY <1>1, <4>1, <5>2, EnclosedIsChild
        <5>q. QED
          BY <3>3, <5>3
      <4>q. QED
        BY <1>6, <1>9, <3>3, <4>2, <4>3 DEF ChildOK
    <3>q. QED
      BY <3>1, <3>2, <3>3
  <2>6. p.lower < p.upper /\ p.lower < NKeys
    BY <1>6, <2>1 DEF InnerOK
  <2>q. QED
    BY <2>3, <2>4, <2>5, <2>6 DEF InnerOK
<1>16. ASSUME ~n.leaf PROVE InnerOK(qg, l) /\ InnerOK(qg, r)
  <2>1. InnerOK(pg, n)
    BY <1>3, <1>16
  <2>2. ASSUME NEW c \in Kids(n)
        PROVE  /\ c \in Page /\ pg[c].lower \in Nat /\ pg[c].upper \in Nat /\ ChildOK(pg, n, c)
               /\ qg[c].lower = pg[c].lower /\ qg[c].upper = pg[c].upper
               /\ qg[c].leaf = pg[c].leaf
    <3>1. /\ c \in Page /\ c < al /\ c # nod /\ c \in Nat /\ ChildOK(pg, n, c)
          /\ pg[c].lower \in Nat /\ pg[c].upper \in Nat
      BY <1>1, <1>16, <2>2, KidFacts
    <3>q. QED
      BY <1>1, <1>9, <3>1
  <2>3. /\ n.slot[sep] \in Kids(n) /\ pg[n.slot[sep]].upper = sep
        /\ n.last \in Kids(n) /\ pg[n.last].upper = n.upper
    BY <1>16, <2>1 DEF InnerOK, Kids
  <2>4. ASSUME NEW s \in Keys(n)
        PROVE  /\ n.lower < s /\ s < n.upper /\ s < NKeys /\ s \in Nat
               /\ n.slot[s] \in Page /\ n.slot[s] \in Kids(n) /\ pg[n.slot[s]].upper = s
    BY <1>1, <2>1, <2>4 DEF InnerOK, Kids
  <2>5. InnerOK(qg, l)
    <3>1. ASSUME NEW c \in Kids(l) PROVE ChildOK(qg, l, c) /\ qg[c].leaf = pg[n.last].leaf
      <4>1. c \in Kids(n) /\ pg[c].upper <= sep
        BY <1>7, <1>16, <3>1
      <4>2. pg[c].lower \in Keys(l) \union {l.lower}
        BY <1>1, <1>4, <1>16, <2>2, <4>1 DEF ChildOK
      <4>3. pg[c].leaf = pg[n.last].leaf
        BY <2>1, <2>3, <4>1 DEF InnerOK
      <4>4. \A s \in Keys(l) : ~(pg[c].lower < s /\ s < pg[c].upper)
        BY <1>4, <2>2, <4>1 DEF ChildOK
      <4>5. c # Meta /\ pg[c].lower < pg[c].upper
        BY <2>2, <4>1 DEF ChildOK
      <4>q. QED
        BY <2>2, <4>1, <4>2, <4>3, <4>4, <4>5 DEF ChildOK
    <3>2. ASSUME NEW s \in Keys(l)
          PROVE  /\ l.lower < s /\ s < l.upper /\ s < NKeys
                 /\ l.slot[s] \in Page /\ qg[l.slot[s]].upper = s
      BY <1>4, <1>16, <2>2, <2>4, <3>2
    <3>3. qg[l.last].upper = l.upper
      BY <1>4, <1>16, <2>2, <2>3
    <3>q. QED
      BY <1>1, <1>4, <3>1, <3>2, <3>3 DEF InnerOK
  <2>6. InnerOK(qg, r)
    <3>1. ASSUME NEW c \in Kids(r) PROVE ChildOK(qg, r, c) /\ qg[c].leaf = pg[n.last].leaf
      <4>1. c \in Kids(n) /\ pg[c].upper > sep
        BY <1>7, <1>16, <3>1
      <4>2. ~(pg[c].lower < sep /\ sep < pg[c].upper)
        BY <1>16, <2>2, <4>1 DEF ChildOK
      <4>3. pg[c].lower >= sep
        BY <1>1, <2>2, <4>1, <4>2
      <4>4. pg[c].lower \in Keys(n) \union {n.lower}
        BY <2>2, <4>1 DEF ChildOK
      <4>5. pg[c].lower \in Keys(r) \union {r.lower}
        <5>1. CASE pg[c].lower = sep
          BY <1>5, <5>1
        <5>2. CASE pg[c].lower # sep
          BY <1>1, <1>5, <2>2, <4>1, <4>3, <4>4, <5>2
        <5>q. QED
          BY <5>1, <5>2
      <4>6. pg[c].leaf = pg[n.last].leaf
        BY <2>1, <2>3, <4>1 DEF InnerOK
      <4>7. \A s \in Keys(r) : ~(pg[c].lower < s /\ s < pg[c].upper)
        BY <1>5, <2>2, <4>1 DEF ChildOK
      <4>8. c # Meta /\ pg[c].lower < pg[c].upper
        BY <2>2, <4>1 DEF ChildOK
      <4>q. QED
        BY <2>2, <4>1, <4>5, <4>6, <4>7, <4>8 DEF ChildOK
    <3>2. ASSUME NEW s \in Keys(r)
          PROVE  /\ r.lower < s /\ s < r.upper /\ s < NKeys
                 /\ r.slot[s] \in Page /\ qg[r.slot[s]].upper = s
      <4>1. s \in Keys(n) /\ s > sep /\ r.slot[s] = n.slot[s]
        BY <1>5, <3>2
      <4>2. n.slot[s] \in Kids(n) /\ pg[n.slot[s]].upper = s /\ n.slot[s] \in Page
        BY <2>4, <4>1
      <4>3. qg[n.slot[s]].upper = s
        BY <2>2, <4>2
      <4>4. s < n.upper /\ s < NKeys
        BY <2>4, <4>1
      <4>q. QED
        BY <1>5, <4>1, <4>2, <4>3, <4>4
    <3>3. qg[r.last].upper = r.upper
      BY <1>5, <2>2, <2>3
    <3>q. QED
      BY <1>1, <1>5, <3>1, <3>2, <3>3 DEF InnerOK
  <2>q. QED
    BY <2>5, <2>6
<1>17. ASSUME NEW x \in Page, ~qg[x].leaf PROVE InnerOK(qg, qg[x])
  <2>1. CASE x = par
    BY <1>8, <1>15, <2>1
  <2>2. CASE x \in {nod, al}
    <3>1. ~n.leaf
      BY <1>4, <1>5, <1>8, <1>17, <2>2
    <3>q. QED
      BY <1>8, <1>16, <2>2, <3>1
  <2>3. CASE x \notin {par, nod, al}
    <3>1. ~pg[x].leaf /\ qg[x] = pg[x] /\ nod \notin Kids(pg[x]) /\ al \notin Kids(pg[x])
      BY <1>10, <1>12, <1>17, <2>3
    <3>2. InnerOK(pg, pg[x])
      BY <3>1 DEF Shape
    <3>3. ASSUME NEW c \in Kids(pg[x])
          PROVE  /\ ChildOK(qg, pg[x], c)
                 /\ qg[c].upper = pg[c].upper /\ qg[c].leaf = pg[c].leaf
      <4>1. ChildOK(pg, pg[x], c) /\ c # nod /\ c # al
        BY <3>1, <3>2 DEF InnerOK
      <4>q. QED
        BY <1>9, <4>1 DEF ChildOK
    <3>q. QED
      BY <3>1, <3>2, <3>3 DEF InnerOK, Kids
  <2>q. QED
    BY <2>1, <2>2, <2>3
<1>18. ASSUME NEW x \in Page, NEW y \in Page, ~qg[x].leaf, ~qg[y].leaf, NEW c,
              c \in Kids(qg[x]), c \in Kids(qg[y])
       PROVE  x = y
  \* The parent from before of a child that is not the new page.
  <2> DEFINE Was(z) == IF z = al THEN nod ELSE z
  <2>1. ASSUME NEW z \in Page, ~qg[z].leaf, c \in Kids(qg[z]), c # al
        PROVE  ~pg[Was(z)].leaf /\ c \in Kids(pg[Was(z)]) /\ Was(z) \in Page
    <3>1. CASE z = par
      BY <1>1, <1>6, <1>8, <2>1, <3>1
    <3>2. CASE z \in {nod, al}
      <4>1. ~n.leaf
        BY <1>4, <1>5, <1>8, <2>1, <3>2
      <4>2. c \in Kids(n)
        BY <1>7, <1>8, <2>1, <3>2, <4>1
      <4>q. QED
        BY <1>1, <3>2, <4>1, <4>2
    <3>3. CASE z \notin {par, nod, al}
      BY <1>8, <2>1, <3>3
    <3>q. QED
      BY <3>1, <3>2, <3>3
  <2>2. CASE c = al
    <3>1. ASSUME NEW z \in Page, ~qg[z].leaf, c \in Kids(qg[z]) PROVE z = par
      <4>1. CASE z \in {nod, al}
        <5>1. ~n.leaf
          BY <1>4, <1>5, <1>8, <3>1, <4>1
        <5>2. c \in Kids(n)
          BY <1>7, <1>8, <3>1, <4>1, <5>1
        <5>q. QED
          BY <1>1, <1>2, <2>2, <5>1, <5>2
      <4>2. CASE z \notin {nod, al, par}
        BY <1>2, <1>8, <2>2, <3>1, <4>2
      <4>q. QED
        BY <4>1, <4>2
    <3>q. QED
      BY <1>18, <3>1
  <2>3. CASE c # al
    <3>1. Was(x) = Was(y)
      BY <1>18, <2>1, <2>3 DEF Shape
    <3>2. CASE x \in {nod, al} /\ y \in {nod, al}
      <4>1. ~n.leaf
        BY <1>4, <1>5, <1>8, <1>18, <3>2
      <4>2. pg[c].upper \in Nat
        <5>1. c \in Kids(n)
          BY <1>7, <1>8, <1>18, <3>2, <4>1
        <5>q. QED
          BY <1>1, <4>1, <5>1, KidFacts
      <4>3. ~(c \in Kids(l) /\ c \in Kids(r))
        BY <1>1, <1>7, <4>1, <4>2
      <4>q. QED
        BY <1>8, <1>18, <3>2, <4>3
    <3>3. CASE ~(x \in {nod, al} /\ y \in {nod, al})
      BY <3>1, <3>3
    <3>q. QED
      BY <3>2, <3>3
  <2>q. QED
    BY <2>2, <2>3
<1>19. ASSUME NEW x \in Page \ {Meta}, ~qg[x].leaf
       PROVE  \E y \in Page : ~qg[y].leaf /\ x \in Kids(qg[y])
  <2>1. x = al \/ \E y \in Page : ~pg[y].leaf /\ x \in Kids(pg[y])
    BY <1>12, <1>19 DEF Shape
  <2>q. QED
    BY <1>13, <2>1
<1>20. ASSUME NEW x \in Page, LiveLeaf(qg, x) PROVE LeafOK(qg, qg[x])
  <2>1. ASSUME NEW y, LiveLeaf(pg, y)
        PROVE  LiveLeaf(qg, y) /\ qg[y].lower = pg[y].lower /\ y # al
    BY <1>2, <1>9, <1>14, <2>1 DEF LiveLeaf
  <2>2. CASE x = nod
    <3>1. n.leaf /\ LeafOK(pg, n)
      BY <1>3, <1>4, <1>8, <1>20, <2>2 DEF LiveLeaf
    <3>2. LiveLeaf(qg, al) /\ qg[al].lower = sep
      BY <1>5, <1>8, <1>14, <3>1
    <3>3. \A j \in Keys(l) : Encloses(l, j)
      BY <1>1, <1>4, <3>1 DEF LeafOK, Encloses
    <3>4. sep # Inf
      BY Numbers
    <3>q. QED
      BY <1>4, <1>8, <2>2, <3>1, <3>2, <3>3, <3>4 DEF LeafOK
  <2>3. CASE x = al
    <3>1. n.leaf /\ LeafOK(pg, n)
      BY <1>3, <1>5, <1>8, <1>20, <2>3 DEF LiveLeaf
    <3>2. \A j \in Keys(r) : Encloses(r, j)
      BY <1>1, <1>5, <3>1 DEF LeafOK, Encloses
    <3>q. QED
      BY <1>5, <1>8, <2>1, <2>3, <3>1, <3>2 DEF LeafOK
  <2>4. CASE x \notin {nod, al}
    <3>1. LiveLeaf(pg, x) /\ x # par
      BY <1>14, <1>20, <2>4 DEF LiveLeaf
    <3>2. LeafOK(pg, pg[x]) /\ qg[x] = pg[x]
      BY <1>8, <2>4, <3>1 DEF Shape
    <3>q. QED
      BY <2>1, <3>2 DEF LeafOK
  <2>q. QED
    BY <2>2, <2>3, <2>4
<1>21. Levels(qg)
  <2>1. PICK top \in Nat : \E level \in [Page -> 0 .. top] :
          \A x \in Page : ~pg[x].leaf => \A y \in Kids(pg[x]) : level[y] < level[x]
    BY DEF Shape, Levels
  <2>2. PICK level \in [Page -> 0 .. top] :
          \A x \in Page : ~pg[x].leaf => \A y \in Kids(pg[x]) : level[y] < level[x]
    BY <2>1
  <2> DEFINE lv == [x \in Page |-> IF x = al THEN level[nod] ELSE level[x]]
  <2>3. lv \in [Page -> 0 .. top]
    BY <1>1, <2>2
  <2>4. ASSUME NEW x \in Page, ~qg[x].leaf, NEW c \in Kids(qg[x]) PROVE lv[c] < lv[x]
    <3>1. CASE x = par
      <4>1. level[nod] < level[par]
        BY <2>2
      <4>2. c \in Kids(pg[par]) => c \in Page /\ c # al /\ level[c] < level[par]
        BY <1>2, <2>2, KidFacts
      <4>3. c \in Kids(pg[par]) \/ c = al
        BY <1>6, <1>8, <2>4, <3>1
      <4>4. lv[x] = level[par]
        BY <1>1, <3>1
      <4>q. QED
        BY <1>2, <4>1, <4>2, <4>3, <4>4
    <3>2. CASE x \in {nod, al}
      <4>1. ~n.leaf
        BY <1>4, <1>5, <1>8, <2>4, <3>2
      <4>2. c \in Kids(n)
        BY <1>7, <1>8, <2>4, <3>2, <4>1
      <4>3. c \in Page /\ c # al /\ level[c] < level[nod]
        BY <1>1, <1>2, <2>2, <4>1, <4>2, KidFacts
      <4>4. lv[x] = level[nod] /\ lv[c] = level[c]
        BY <1>1, <3>2, <4>3
      <4>q. QED
        BY <4>3, <4>4
    <3>3. CASE x \notin {par, nod, al}
      <4>1. ~pg[x].leaf /\ c \in Kids(pg[x])
        BY <1>8, <2>4, <3>3
      <4>2. c \in Page /\ c # al /\ level[c] < level[x]
        BY <1>2, <2>2, <4>1, KidFacts
      <4>q. QED
        BY <3>3, <4>2
    <3>q. QED
      BY <3>1, <3>2, <3>3
  <2> HIDE DEF lv
  <2>q. QED
    BY <2>1, <2>3, <2>4 DEF Levels
<1>22. Used(qg, al + 1)
  <2>1. ASSUME NEW x \in Page PROVE qg[x].last < al + 1
    <3>1. ASSUME NEW y \in Page PROVE pg[y].last < al /\ pg[y].last \in Nat
      <4>1. pg[y] \in NodeSet
        BY <1>1
      <4>q. QED
        BY <4>1, NodeFacts, Numbers DEF Shape, Used
    <3>2. ~n.leaf => n.slot[sep] \in Nat /\ n.slot[sep] < al
      <4>1. ASSUME ~n.leaf PROVE n.slot[sep] \in Kids(n)
        BY <4>1 DEF Kids
      <4>q. QED
        BY <1>1, <4>1, KidFacts
    <3>3. CASE x = nod
      BY <1>1, <1>4, <1>8, <3>2, <3>3
    <3>4. CASE x = al
      BY <1>1, <1>5, <1>8, <3>1, <3>4
    <3>5. CASE x = par
      BY <1>1, <1>6, <1>8, <3>1, <3>5
    <3>6. CASE x \notin {nod, al, par}
      BY <1>1, <1>8, <3>1, <3>6
    <3>q. QED
      BY <3>3, <3>4, <3>5, <3>6
  <2>2. ASSUME NEW x \in Page, x >= al + 1 PROVE qg[x].leaf /\ ~LiveLeaf(qg, x)
    <3>1. x \in Nat
      BY Numbers
    <3>2. x >= al /\ x # al
      BY <1>1, <2>2, <3>1
    <3>q. QED
      BY <1>9, <1>14, <3>2 DEF Shape, Used
  <2>q. QED
    BY <1>2, <2>1, <2>2 DEF Used
<1>23. /\ ~qg[Meta].leaf /\ Keys(qg[Meta]) = {} /\ qg[Meta].lower = 0 /\ qg[Meta].upper = Inf
  BY <1>1, <1>8, <1>11 DEF Shape
<1>p. Payloads(qg)
  <2>1. n.leaf => \A k \in Keys(n) : n.slot[k] \in Value
    BY <1>1 DEF Shape, Payloads
  <2>2. n.leaf => /\ \A k \in Keys(l) : l.slot[k] \in Value
                  /\ \A k \in Keys(r) : r.slot[k] \in Value
    BY <1>4, <1>5, <2>1
  <2>q. QED
    BY <1>4, <1>5, <1>6, <1>8, <2>2 DEF Shape, Payloads
<1>24. Shape(qg, al + 1)
  BY <1>8, <1>17, <1>18, <1>19, <1>20, <1>21, <1>22, <1>23, <1>p DEF Shape
<1>25. ASSUME NEW k \in Key
       PROVE  /\ k \in Keys(qg[LeafIn(qg, k)]) <=> k \in Keys(pg[LeafIn(pg, k)])
              /\ k \in Keys(pg[LeafIn(pg, k)]) =>
                   qg[LeafIn(qg, k)].slot[k] = pg[LeafIn(pg, k)].slot[k]
  <2> DEFINE o == LeafIn(pg, k)
  <2>1. LiveLeaf(pg, o) /\ Encloses(pg[o], k) /\ o \in Page /\ o # al /\ pg[o].leaf
    BY <1>2, Search DEF LiveLeaf
  <2>2. k \in Nat
    BY Numbers
  <2>3. CASE o # nod
    <3>1. qg[o] = pg[o]
      BY <1>8, <2>1, <2>3
    <3>2. LeafIn(qg, k) = o
      BY <1>14, <1>24, <2>1, <3>1, Search
    <3>q. QED
      BY <3>1, <3>2
  <2>4. CASE o = nod /\ k <= sep
    <3>1. LiveLeaf(qg, nod) /\ Encloses(qg[nod], k)
      BY <1>4, <1>8, <1>14, <2>1, <2>4 DEF Encloses
    <3>2. LeafIn(qg, k) = nod
      BY <1>24, <3>1, Search
    <3>q. QED
      BY <1>4, <1>8, <2>1, <2>4, <3>2
  <2>5. CASE o = nod /\ k > sep
    <3>1. LiveLeaf(qg, al) /\ Encloses(qg[al], k)
      BY <1>5, <1>8, <1>14, <2>1, <2>5 DEF Encloses
    <3>2. LeafIn(qg, k) = al
      BY <1>24, <3>1, Search
    <3>q. QED
      BY <1>5, <1>8, <2>1, <2>5, <3>2
  <2>q. QED
    BY <1>1, <2>2, <2>3, <2>4, <2>5
<1>26. StoredIn(qg) = StoredIn(pg)
  BY <1>25, SameStored
<1>27. \A x \in Page : x < al => qg[x].leaf = pg[x].leaf
  BY <1>1, <1>9
<1>28. Spared(qg, pg, al, None)
  BY <1>14, <1>27 DEF Spared
<1>q. QED
  BY <1>24, <1>26, <1>28
-----------------------------------------------------------------------------
\* The child to the right of the one that a search takes.
LEMMA RightOf ==
  ASSUME NEW pg, NEW al, Shape(pg, al), NEW par \in Page, ~pg[par].leaf,
         NEW k \in Key, Encloses(pg[par], k), Above(pg[par], k) # {}
  PROVE  LET s == Least(Above(pg[par], k))
             nod == Child(pg[par], k)
             right == RightChild(pg[par], k)
         IN  /\ s \in Keys(pg[par]) /\ s \in Key /\ s < NKeys /\ s + 1 \in Key
             /\ nod \in Kids(pg[par]) /\ nod = pg[par].slot[s] /\ pg[nod].upper = s
             /\ right = Child(pg[par], s + 1)
             /\ right \in Kids(pg[par]) /\ pg[right].lower = s /\ right # nod
             /\ pg[right].leaf = pg[nod].leaf
<1> DEFINE p == pg[par]  s == Least(Above(p, k))  nod == Child(p, k)  right == RightChild(p, k)
<1>1. p \in NodeSet /\ InnerOK(pg, p) /\ k \in Nat
  BY Numbers DEF Shape
<1>2. s \in Keys(p) /\ s >= k /\ nod = p.slot[s]
  BY <1>1, ChildFacts
<1>3. s \in Key /\ s \in Nat /\ NKeys \in Nat /\ p.lower \in Nat /\ p.upper \in Nat
  BY <1>1, <1>2, NodeFacts, Numbers
<1>4. /\ s < NKeys /\ s < p.upper /\ p.lower < s
      /\ nod \in Kids(p) /\ pg[nod].upper = s
  BY <1>1, <1>2 DEF InnerOK, Kids
<1>5. right = Child(p, s + 1)
  BY DEF RightChild
<1> HIDE DEF s, right
<1>6. s + 1 \in Key /\ s + 1 \in Nat /\ Encloses(p, s + 1)
  BY <1>3, <1>4 DEF Key, Encloses
<1>7. right \in Kids(p) /\ Encloses(pg[right], s + 1)
  BY <1>5, <1>6, ChildEncloses
<1>8. ChildOK(pg, p, right) /\ pg[right].lower \in Nat /\ pg[right].upper \in Nat
  BY <1>7, KidFacts
<1>9. pg[right].lower = s
  <2>1. pg[right].lower < s + 1 /\ s + 1 <= pg[right].upper
    BY <1>7 DEF Encloses
  <2>2. ~(pg[right].lower < s /\ s < pg[right].upper)
    BY <1>2, <1>8 DEF ChildOK
  <2>q. QED
    BY <1>3, <1>8, <2>1, <2>2
<1>10. pg[right].leaf = pg[nod].leaf
  BY <1>1, <1>4, <1>7 DEF InnerOK
<1>11. right # nod
  BY <1>3, <1>4, <1>8, <1>9 DEF ChildOK
<1>q. QED
  BY <1>2, <1>3, <1>4, <1>5, <1>6, <1>7, <1>9, <1>10, <1>11 DEF s, right

\* Two leaves in one.
LEMMA JoinFacts ==
  ASSUME NEW l \in NodeSet, NEW r \in NodeSet
  PROVE  LET m == MergedLeaf(l, r) IN
         /\ m \in NodeSet /\ m.leaf /\ m.last = r.last /\ m.lower = l.lower /\ m.upper = r.upper
         /\ Keys(m) = Keys(l) \union Keys(r)
         /\ \A k \in Keys(l) : m.slot[k] = l.slot[k]
         /\ \A k \in Keys(r) \ Keys(l) : m.slot[k] = r.slot[k]
<1> DEFINE f == Joined(l.slot, r.slot)
<1>1. f = [k \in Keys(l) \union Keys(r) |-> IF k \in Keys(l) THEN l.slot[k] ELSE r.slot[k]]
  BY DEF Joined, Keys
<1>2. /\ Keys(l) \subseteq Key /\ Keys(r) \subseteq Key
      /\ \A k \in Keys(l) : l.slot[k] \in Value \union Page
      /\ \A k \in Keys(r) : r.slot[k] \in Value \union Page
  BY NodeFacts
<1>3. f \in [Keys(l) \union Keys(r) -> Value \union Page]
  BY <1>1, <1>2
<1>4. f \in Slots
  BY <1>2, <1>3, SlotsHas
<1>5. /\ DOMAIN f = Keys(l) \union Keys(r)
      /\ \A k \in Keys(l) : f[k] = l.slot[k]
      /\ \A k \in Keys(r) \ Keys(l) : f[k] = r.slot[k]
  BY <1>1
<1>6. MergedLeaf(l, r) = Node(TRUE, f, r.last, l.lower, r.upper)
  BY DEF MergedLeaf
<1> HIDE DEF f
<1>7. r.last \in Page /\ l.lower \in 0 .. NKeys /\ r.upper \in 1 .. Inf
  BY NodeFacts
<1>q. QED
  BY <1>4, <1>5, <1>6, <1>7 DEF Node, NodeSet, Keys

\* The parent of a merge loses a slot and the right child.
LEMMA MergedParentFacts ==
  ASSUME NEW pg, NEW al, Shape(pg, al), NEW par \in Page, ~pg[par].leaf,
         NEW k \in Key, Encloses(pg[par], k), Above(pg[par], k) # {}
  PROVE  LET n == pg[par]
             s == Least(Above(n, k))
             nod == Child(n, k)
             right == RightChild(n, k)
             m == MergedParent(n, k, nod)
         IN  /\ m \in NodeSet /\ Keys(m) = Keys(n) \ {s}
             /\ m.leaf = n.leaf /\ m.lower = n.lower /\ m.upper = n.upper
             /\ m.last = IF n.last = right THEN nod ELSE n.last
             /\ \A j \in Keys(m) : m.slot[j] = IF n.slot[j] = right THEN nod ELSE n.slot[j]
             /\ Kids(m) = Kids(n) \ {right}
<1> DEFINE n == pg[par]
           s == Least(Above(n, k))
           nod == Child(n, k)
           right == RightChild(n, k)
           o == SetChild(n, s + 1, nod)
           m == RemoveSlot(o, s)
<1>0. /\ s \in Keys(n) /\ s + 1 \in Key /\ nod \in Kids(n) /\ nod = n.slot[s]
      /\ right = Child(n, s + 1) /\ right \in Kids(n) /\ right # nod
  BY RightOf, ZenonT(30)
<1>1. /\ s \in Keys(n) /\ s + 1 \in Nat /\ nod \in Kids(n) /\ nod = n.slot[s]
      /\ right = Child(n, s + 1) /\ right \in Kids(n) /\ right # nod
  <2>1. Key \subseteq Nat
    BY Numbers, Zenon
  <2> HIDE DEF s, nod, right
  <2>q. QED
    BY <1>0, <2>1, ZenonT(30)
<1>2. n \in NodeSet /\ nod \in Page
  BY <1>1, KidFacts
<1> HIDE DEF s, right, nod
<1>3. /\ o \in NodeSet /\ Keys(o) = Keys(n)
      /\ o.leaf = n.leaf /\ o.lower = n.lower /\ o.upper = n.upper
      /\ o.last = IF n.last = right THEN nod ELSE n.last
      /\ \A j \in Keys(n) : o.slot[j] = IF n.slot[j] = right THEN nod ELSE n.slot[j]
  BY <1>1, <1>2, SwapFacts
<1> HIDE DEF o
<1>4. /\ m \in NodeSet /\ Keys(m) = Keys(o) \ {s} /\ \A j \in Keys(m) : m.slot[j] = o.slot[j]
      /\ m.leaf = o.leaf /\ m.last = o.last /\ m.lower = o.lower /\ m.upper = o.upper
  BY <1>3, RemoveFacts
<1> HIDE DEF m
<1>5. \A j \in Keys(n) : n.slot[j] = nod => j = s
  BY <1>1, KidsDiffer
<1>6. nod # n.last
  BY <1>1, KidsDiffer
<1> HIDE DEF n
<1>7. Kids(m) = Kids(n) \ {right}
  <2>1. ASSUME NEW c \in Kids(m) PROVE c \in Kids(n) \ {right}
    <3>1. CASE c = m.last
      BY <1>1, <1>3, <1>4, <3>1 DEF Kids
    <3>2. ASSUME NEW j \in Keys(m), c = m.slot[j] PROVE c \in Kids(n) \ {right}
      BY <1>1, <1>3, <1>4, <3>2 DEF Kids
    <3>q. QED
      BY <2>1, <3>1, <3>2 DEF Kids
  <2>2. ASSUME NEW c \in Kids(n), c # right PROVE c \in Kids(m)
    <3>1. CASE c = nod
      <4>1. right = n.last \/ \E j \in Keys(n) : right = n.slot[j] /\ j # s
        BY <1>1 DEF Kids
      <4>q. QED
        BY <1>3, <1>4, <3>1, <4>1 DEF Kids
    <3>2. CASE c # nod
      <4>1. c = n.last \/ \E j \in Keys(n) : c = n.slot[j] /\ j # s
        BY <1>1, <2>2, <3>2 DEF Kids
      <4>q. QED
        BY <1>3, <1>4, <2>2, <4>1 DEF Kids
    <3>q. QED
      BY <3>1, <3>2
  <2>q. QED
    BY <2>1, <2>2
<1>8. MergedParent(n, k, nod) = m
  BY DEF MergedParent, m, o, s
<1>q. QED
  BY <1>3, <1>4, <1>7, <1>8 DEF n, s, right, nod

\* mergeNodes: the left leaf takes over, the parent forgets the right one.
LEMMA MergeKeeps ==
  ASSUME NEW pg, NEW al, Shape(pg, al), NEW par \in Page, NEW k \in Key,
         NEW nod, NEW right, Neighbours(pg, par, nod, right, k),
         NEW qg, HasMerged(qg, pg, par, nod, right, k)
  PROVE  Shape(qg, al) /\ Spared(qg, pg, al, right) /\ StoredIn(qg) = StoredIn(pg)
<1>a. ~pg[par].leaf /\ Encloses(pg[par], k) /\ Above(pg[par], k) # {} /\ pg[nod].leaf
  BY DEF Neighbours
<1>b. nod = Child(pg[par], k)
  BY DEF Neighbours
<1>c. right = RightChild(pg[par], k)
  BY DEF Neighbours
<1> USE <1>a, <1>b, <1>c
<1> DEFINE s == Least(Above(pg[par], k))
           l == pg[nod]
           r == pg[right]
           n == MergedLeaf(l, r)
           p == MergedParent(pg[par], k, nod)
<1>1. /\ s \in Keys(pg[par]) /\ s \in Key /\ s < NKeys /\ s + 1 \in Key
      /\ nod \in Kids(pg[par]) /\ l.upper = s
      /\ right \in Kids(pg[par]) /\ r.lower = s /\ right # nod /\ r.leaf
  BY RightOf
<1>2. /\ p \in NodeSet /\ Keys(p) = Keys(pg[par]) \ {s}
      /\ p.leaf = pg[par].leaf /\ p.lower = pg[par].lower /\ p.upper = pg[par].upper
      /\ p.last = IF pg[par].last = right THEN nod ELSE pg[par].last
      /\ \A j \in Keys(p) :
           p.slot[j] = IF pg[par].slot[j] = right THEN nod ELSE pg[par].slot[j]
      /\ Kids(p) = Kids(pg[par]) \ {right}
  <2> DEFINE c == Child(pg[par], k)  d == RightChild(pg[par], k)
             m == MergedParent(pg[par], k, c)
  <2>1. /\ m \in NodeSet /\ Keys(m) = Keys(pg[par]) \ {s}
        /\ m.leaf = pg[par].leaf /\ m.lower = pg[par].lower /\ m.upper = pg[par].upper
        /\ m.last = IF pg[par].last = d THEN c ELSE pg[par].last
        /\ \A j \in Keys(m) : m.slot[j] = IF pg[par].slot[j] = d THEN c ELSE pg[par].slot[j]
        /\ Kids(m) = Kids(pg[par]) \ {d}
    BY <1>a, MergedParentFacts, SMTT(30)
  <2>2. c = nod /\ d = right
    BY <1>b, <1>c
  <2> HIDE DEF c, d
  <2>q. QED
    BY <2>1, <2>2
<1> HIDE DEF s, p
<1>3. /\ nod \in Page /\ right \in Page /\ nod # par /\ right # par /\ nod # Meta /\ right # Meta
      /\ l \in NodeSet /\ r \in NodeSet /\ l.lower \in Nat /\ r.upper \in Nat
      /\ ChildOK(pg, pg[par], nod) /\ ChildOK(pg, pg[par], right)
  BY <1>1, KidFacts
<1>4. s \in Nat /\ Meta \in Page /\ pg \in [Page -> NodeSet] /\ l.lower < s /\ s < r.upper
  BY <1>1, <1>3, Numbers DEF Shape, ChildOK
<1>5. LiveLeaf(pg, nod) /\ LeafOK(pg, l) /\ LiveLeaf(pg, right) /\ LeafOK(pg, r)
  BY <1>1, <1>3 DEF Shape, LiveLeaf
<1>6. /\ n \in NodeSet /\ n.leaf /\ n.last = r.last /\ n.lower = l.lower /\ n.upper = r.upper
      /\ Keys(n) = Keys(l) \union Keys(r)
      /\ \A j \in Keys(l) : n.slot[j] = l.slot[j]
      /\ \A j \in Keys(r) \ Keys(l) : n.slot[j] = r.slot[j]
  BY <1>3, JoinFacts
<1> HIDE DEF n
<1>7. /\ qg \in [Page -> NodeSet] /\ qg[nod] = n /\ qg[par] = p
      /\ \A x \in Page \ {nod, par} : qg[x] = pg[x]
  <2>1. qg = [x \in Page |-> IF x = par THEN p ELSE IF x = nod THEN n ELSE pg[x]]
    BY <1>3, <1>4 DEF HasMerged, n, p
  <2>q. QED
    BY <1>2, <1>3, <1>4, <1>6, <2>1
<1>8. \A x \in Page : /\ qg[x].leaf = pg[x].leaf /\ qg[x].lower = pg[x].lower
                      /\ x # nod => qg[x].upper = pg[x].upper
  <2>1. \A x \in Page \ {nod, par} : qg[x] = pg[x]
    BY <1>7
  <2>2. qg[nod].leaf = l.leaf /\ qg[nod].lower = l.lower
    BY <1>6, <1>7
  <2>3. /\ qg[par].leaf = pg[par].leaf
        /\ qg[par].lower = pg[par].lower /\ qg[par].upper = pg[par].upper
    BY <1>2, <1>7
  <2>q. QED
    BY <2>1, <2>2, <2>3
<1>9. qg[nod].upper = r.upper
  BY <1>6, <1>7
<1>10. ASSUME NEW x \in Page, ~qg[x].leaf
       PROVE  /\ ~pg[x].leaf
              /\ x # par => /\ qg[x] = pg[x] /\ Kids(qg[x]) = Kids(pg[x])
                            /\ nod \notin Kids(pg[x]) /\ right \notin Kids(pg[x])
              /\ x = par => Kids(qg[x]) = Kids(pg[x]) \ {right}
  BY <1>1, <1>2, <1>7, <1>8, <1>10 DEF Shape
<1>11. ASSUME NEW c PROVE
         (\E x \in Page : ~qg[x].leaf /\ c \in Kids(qg[x])) <=>
         (c # right /\ \E x \in Page : ~pg[x].leaf /\ c \in Kids(pg[x]))
  BY <1>8, <1>10
<1>12. ASSUME NEW x PROVE LiveLeaf(qg, x) <=> LiveLeaf(pg, x) /\ x # right
  BY <1>8, <1>11 DEF LiveLeaf
<1>13. InnerOK(qg, p)
  <2>1. /\ InnerOK(pg, pg[par]) /\ pg[par] \in NodeSet /\ Keys(pg[par]) \subseteq Nat
    <3>1. InnerOK(pg, pg[par]) /\ pg[par] \in NodeSet
      BY <1>1, KidFacts
    <3>q. QED
      BY <3>1, NodeFacts, Numbers
  <2>2. ASSUME NEW j \in Keys(p)
        PROVE  /\ p.lower < j /\ j < p.upper /\ j < NKeys
               /\ p.slot[j] \in Page /\ qg[p.slot[j]].upper = j
    <3>1. j \in Keys(pg[par]) /\ j # s
      BY <1>2, <2>2
    <3>2. /\ pg[par].lower < j /\ j < pg[par].upper /\ j < NKeys
          /\ pg[par].slot[j] \in Page /\ pg[pg[par].slot[j]].upper = j
      BY <2>1, <3>1 DEF InnerOK
    <3>3. CASE pg[par].slot[j] = right
      BY <1>2, <1>3, <1>9, <2>2, <3>2, <3>3
    <3>4. CASE pg[par].slot[j] # right
      <4>1. pg[par].slot[j] # nod
        BY <1>1, <3>1, <3>2
      <4>q. QED
        BY <1>2, <1>8, <2>2, <3>2, <3>4, <4>1
    <3>q. QED
      BY <3>3, <3>4
  <2>3. qg[p.last].upper = p.upper
    <3>1. pg[pg[par].last].upper = pg[par].upper /\ pg[par].last \in Page
      BY <2>1, NodeFacts DEF InnerOK
    <3>2. pg[par].last # nod
      <4>1. s < pg[par].upper
        BY <1>1, <2>1 DEF InnerOK
      <4>q. QED
        BY <1>1, <1>4, <3>1, <4>1
    <3>q. QED
      BY <1>2, <1>8, <1>9, <3>1, <3>2
  <2>4. ASSUME NEW c \in Kids(p) PROVE ChildOK(qg, p, c) /\ qg[c].leaf = l.leaf
    <3>1. /\ c \in Kids(pg[par]) /\ c # right
      BY <1>2, <2>4
    <3>2. /\ ChildOK(pg, pg[par], c) /\ c \in Page /\ pg[c].lower \in Nat /\ pg[c].upper \in Nat
          /\ pg[c].leaf = l.leaf
      BY <1>1, <2>1, <3>1, KidFacts DEF InnerOK
    <3>3. pg[c].lower # s
      <4>1. SUFFICES ASSUME pg[c].lower = s PROVE FALSE
        OBVIOUS
      <4>2. Encloses(pg[c], s + 1) /\ Encloses(pg[right], s + 1) /\ s + 1 \in Nat
        BY <1>1, <1>3, <1>4, <3>2, <4>1 DEF Encloses, ChildOK
      <4>3. Child(pg[par], s + 1) = c /\ Child(pg[par], s + 1) = right
        BY <1>1, <3>1, <4>2, EnclosedIsChild
      <4>q. QED
        BY <3>1, <4>3
    <3>4. pg[c].lower \in Keys(p) \union {p.lower}
      BY <1>2, <3>2, <3>3 DEF ChildOK
    <3>5. \A j \in Keys(p) : ~(pg[c].lower < j /\ j < qg[c].upper)
      <4>1. CASE c = nod
        <5>1. ASSUME NEW j \in Keys(pg[par]), j # s
              PROVE  ~(l.lower < j /\ j < s) /\ ~(s < j /\ j < r.upper)
          BY <1>1, <1>3, <5>1 DEF ChildOK
        <5>q. QED
          BY <1>2, <1>3, <1>4, <1>9, <2>1, <4>1, <5>1
      <4>2. CASE c # nod
        BY <1>2, <1>8, <3>2, <4>2 DEF ChildOK
      <4>q. QED
        BY <4>1, <4>2
    <3>6. pg[c].lower < qg[c].upper /\ c # Meta
      <4>1. pg[c].lower < pg[c].upper /\ c # Meta
        BY <3>2 DEF ChildOK
      <4>2. CASE c = nod
        BY <1>3, <1>4, <1>9, <4>1, <4>2
      <4>3. CASE c # nod
        BY <1>8, <3>2, <4>1, <4>3
      <4>q. QED
        BY <4>2, <4>3, <4>1
    <3>q. QED
      BY <1>8, <3>2, <3>4, <3>5, <3>6 DEF ChildOK
  <2>5. p.lower < p.upper /\ p.lower < NKeys
    BY <1>2, <2>1 DEF InnerOK
  <2>q. QED
    BY <2>2, <2>3, <2>4, <2>5 DEF InnerOK
<1>14. ASSUME NEW x \in Page, ~qg[x].leaf PROVE InnerOK(qg, qg[x])
  <2>1. CASE x = par
    BY <1>7, <1>13, <2>1
  <2>2. CASE x # par
    <3>1. ~pg[x].leaf /\ qg[x] = pg[x] /\ nod \notin Kids(pg[x])
      BY <1>10, <1>14, <2>2
    <3>2. InnerOK(pg, pg[x])
      BY <3>1 DEF Shape
    <3>3. ASSUME NEW c \in Kids(pg[x])
          PROVE  /\ ChildOK(qg, pg[x], c)
                 /\ qg[c].upper = pg[c].upper /\ qg[c].leaf = pg[c].leaf
      <4>1. ChildOK(pg, pg[x], c) /\ c # nod
        BY <3>1, <3>2 DEF InnerOK
      <4>q. QED
        BY <1>8, <4>1 DEF ChildOK
    <3>q. QED
      BY <3>1, <3>2, <3>3 DEF InnerOK, Kids
  <2>q. QED
    BY <2>1, <2>2
<1>15. ASSUME NEW x \in Page, NEW y \in Page, ~qg[x].leaf, ~qg[y].leaf, x # y
       PROVE  Kids(qg[x]) \cap Kids(qg[y]) = {}
  <2>1. Kids(qg[x]) \subseteq Kids(pg[x]) /\ Kids(qg[y]) \subseteq Kids(pg[y])
        /\ ~pg[x].leaf /\ ~pg[y].leaf
    BY <1>10, <1>15
  <2>q. QED
    BY <1>15, <2>1 DEF Shape
<1>16. ASSUME NEW x \in Page \ {Meta}, ~qg[x].leaf
       PROVE  \E y \in Page : ~qg[y].leaf /\ x \in Kids(qg[y])
  <2>1. x # right /\ \E y \in Page : ~pg[y].leaf /\ x \in Kids(pg[y])
    BY <1>1, <1>8, <1>16 DEF Shape
  <2>q. QED
    BY <1>11, <2>1
<1>17. ASSUME NEW x \in Page, LiveLeaf(qg, x) PROVE LeafOK(qg, qg[x])
  <2>1. LiveLeaf(pg, x) /\ x # right /\ LeafOK(pg, pg[x]) /\ x # par
    BY <1>12, <1>17 DEF Shape, LiveLeaf
  <2>2. CASE x = nod
    <3>1. \A j \in Keys(n) : Encloses(n, j)
      <4>1. /\ \A j \in Keys(l) : l.lower < j /\ j <= s /\ j \in Nat
            /\ \A j \in Keys(r) : s < j /\ j <= r.upper /\ j \in Nat
        BY <1>1, <1>3, <1>5, NodeFacts, Numbers DEF LeafOK, Encloses
      <4>q. QED
        BY <1>3, <1>4, <1>6, <4>1 DEF Encloses
    <3>2. r.upper # Inf => LiveLeaf(qg, r.last) /\ qg[r.last].lower = r.upper
      <4>1. ASSUME r.upper # Inf PROVE LiveLeaf(pg, r.last) /\ pg[r.last].lower = r.upper
        BY <1>5, <4>1 DEF LeafOK
      <4>2. ASSUME r.upper # Inf PROVE r.last # right /\ r.last \in Page
        <5>1. r.lower # r.upper
          BY <1>1, <1>3, <1>4
        <5>q. QED
          BY <4>1, <4>2, <5>1 DEF LiveLeaf
      <4>q. QED
        BY <1>8, <1>12, <4>1, <4>2
    <3>q. QED
      BY <1>5, <1>6, <1>7, <2>2, <3>1, <3>2 DEF LeafOK
  <2>3. CASE x # nod
    <3>1. qg[x] = pg[x] /\ pg[x] \in NodeSet /\ pg[x].upper \in Nat
      <4>1. qg[x] = pg[x] /\ pg[x] \in NodeSet
        BY <1>4, <1>7, <2>1, <2>3
      <4>q. QED
        BY <4>1, NodeFacts
    <3>2. ASSUME pg[x].upper # Inf
          PROVE  LiveLeaf(qg, pg[x].last) /\ qg[pg[x].last].lower = pg[x].upper
      <4>1. LiveLeaf(pg, pg[x].last) /\ pg[pg[x].last].lower = pg[x].upper
        BY <2>1, <3>2 DEF LeafOK
      <4>2. pg[x].last # right
        <5>1. SUFFICES ASSUME pg[x].last = right PROVE FALSE
          OBVIOUS
        <5>2. pg[x].upper = s
          BY <1>1, <4>1, <5>1
        <5>3. Encloses(pg[x], s) /\ Encloses(pg[nod], s)
          <6>1. pg[x].lower < pg[x].upper
            BY <2>1, LiveFences
          <6>q. QED
            BY <1>1, <1>4, <5>2, <6>1 DEF Encloses
        <5>4. x = LeafIn(pg, s) /\ nod = LeafIn(pg, s)
          BY <1>1, <1>5, <2>1, <5>3, Search
        <5>q. QED
          BY <2>3, <5>4
      <4>q. QED
        BY <1>8, <1>12, <4>1, <4>2 DEF LiveLeaf
    <3>q. QED
      BY <2>1, <3>1, <3>2 DEF LeafOK
  <2>q. QED
    BY <2>2, <2>3
<1>18. Levels(qg)
  <2>1. PICK top \in Nat : \E level \in [Page -> 0 .. top] :
          \A x \in Page : ~pg[x].leaf => \A y \in Kids(pg[x]) : level[y] < level[x]
    BY DEF Shape, Levels
  <2>2. PICK level \in [Page -> 0 .. top] :
          \A x \in Page : ~pg[x].leaf => \A y \in Kids(pg[x]) : level[y] < level[x]
    BY <2>1
  <2>3. \A x \in Page : ~qg[x].leaf => \A y \in Kids(qg[x]) : level[y] < level[x]
    BY <1>10, <2>2
  <2>q. QED
    BY <2>1, <2>3 DEF Levels
<1>19. Used(qg, al)
  <2>1. \A x \in Page : pg[x].last < al
    BY DEF Shape, Used
  <2>2. nod < al
    BY <1>1, KidFacts
  <2>3. ASSUME NEW x \in Page PROVE qg[x].last < al
    BY <1>2, <1>3, <1>6, <1>7, <2>1, <2>2
  <2>4. ASSUME NEW x \in Page, x >= al PROVE qg[x].leaf /\ ~LiveLeaf(qg, x)
    BY <1>8, <1>12, <2>4 DEF Shape, Used
  <2>q. QED
    BY <2>3, <2>4 DEF Shape, Used
<1>20. /\ ~qg[Meta].leaf /\ Keys(qg[Meta]) = {} /\ qg[Meta].lower = 0 /\ qg[Meta].upper = Inf
  BY <1>2, <1>3, <1>4, <1>7, <1>8 DEF Shape
<1>p. Payloads(qg)
  <2>1. /\ \A j \in Keys(l) : l.slot[j] \in Value
        /\ \A j \in Keys(r) : r.slot[j] \in Value
    BY <1>1, <1>3 DEF Shape, Payloads
  <2>2. \A j \in Keys(n) : n.slot[j] \in Value
    BY <1>6, <2>1
  <2>q. QED
    BY <1>2, <1>7, <2>2 DEF Shape, Payloads
<1>21. Shape(qg, al)
  BY <1>7, <1>14, <1>15, <1>16, <1>17, <1>18, <1>19, <1>20, <1>p DEF Shape
<1>22. ASSUME NEW j \in Key
       PROVE  /\ j \in Keys(qg[LeafIn(qg, j)]) <=> j \in Keys(pg[LeafIn(pg, j)])
              /\ j \in Keys(pg[LeafIn(pg, j)]) =>
                   qg[LeafIn(qg, j)].slot[j] = pg[LeafIn(pg, j)].slot[j]
  <2> DEFINE o == LeafIn(pg, j)
  <2>1. LiveLeaf(pg, o) /\ Encloses(pg[o], j) /\ o \in Page /\ o # par
    BY Search DEF LiveLeaf
  <2>2. j \in Nat
    BY Numbers
  <2>3. /\ \A i \in Keys(l) : i <= s
        /\ \A i \in Keys(r) : s < i
    BY <1>1, <1>5 DEF LeafOK, Encloses
  <2>4. CASE o \notin {nod, right}
    <3>1. qg[o] = pg[o]
      BY <1>7, <2>1, <2>4
    <3>2. LeafIn(qg, j) = o
      BY <1>12, <1>21, <2>1, <2>4, <3>1, Search
    <3>q. QED
      BY <3>1, <3>2
  <2>5. CASE o = nod
    <3>1. LiveLeaf(qg, nod) /\ Encloses(qg[nod], j) /\ j <= s
      BY <1>1, <1>3, <1>4, <1>5, <1>6, <1>7, <1>12, <2>1, <2>2, <2>5 DEF Encloses
    <3>2. LeafIn(qg, j) = nod
      BY <1>21, <3>1, Search
    <3>3. ~(s < j)
      BY <1>4, <2>2, <3>1
    <3>q. QED
      BY <1>6, <1>7, <2>3, <2>5, <3>2, <3>3
  <2>6. CASE o = right
    <3>1. LiveLeaf(qg, nod) /\ Encloses(qg[nod], j) /\ s < j
      BY <1>1, <1>3, <1>4, <1>5, <1>6, <1>7, <1>12, <2>1, <2>2, <2>6 DEF Encloses
    <3>2. LeafIn(qg, j) = nod
      BY <1>21, <3>1, Search
    <3>3. ~(j <= s)
      BY <1>4, <2>2, <3>1
    <3>q. QED
      BY <1>6, <1>7, <2>3, <2>6, <3>2, <3>3
  <2>q. QED
    BY <2>4, <2>5, <2>6
<1>23. StoredIn(qg) = StoredIn(pg)
  BY <1>22, SameStored
<1>24. Spared(qg, pg, al, right)
  BY <1>8, <1>12 DEF Spared
<1>q. QED
  BY <1>21, <1>23, <1>24
-----------------------------------------------------------------------------
\* insertInPage or an update in the leaf of a key: the tree maps the key.
LEMMA PutKeeps ==
  ASSUME NEW pg, NEW al, Shape(pg, al), NEW p, LiveLeaf(pg, p),
         NEW k \in Key, Encloses(pg[p], k), NEW v \in Value,
         NEW qg, Wrote(qg, pg, p, Put(pg[p], k, v))
  PROVE  /\ Shape(qg, al) /\ Spared(qg, pg, al, None)
         /\ StoredIn(qg) = With(StoredIn(pg), k, v)
<1> DEFINE n == Put(pg[p], k, v)  db == StoredIn(pg)
<1>0. Wrote(qg, pg, p, n)
  OBVIOUS
<1>1. p \in Page /\ pg[p].leaf /\ pg[p] \in NodeSet /\ pg \in [Page -> NodeSet]
  BY LiveFences DEF Shape
<1>2. /\ n \in NodeSet /\ Keys(n) = Keys(pg[p]) \union {k}
      /\ n.slot[k] = v /\ \A j \in Keys(pg[p]) \ {k} : n.slot[j] = pg[p].slot[j]
      /\ n.leaf = pg[p].leaf /\ n.last = pg[p].last
      /\ n.lower = pg[p].lower /\ n.upper = pg[p].upper
  <2>1. v \in Value \union Page
    OBVIOUS
  <2>2. ASSUME NEW b \in NodeSet, NEW w \in Value \union Page
        PROVE  LET m == Put(b, k, w) IN
               /\ m \in NodeSet /\ Keys(m) = Keys(b) \union {k}
               /\ m.slot[k] = w /\ \A j \in Keys(b) \ {k} : m.slot[j] = b.slot[j]
               /\ m.leaf = b.leaf /\ m.last = b.last /\ m.lower = b.lower /\ m.upper = b.upper
    BY PutFacts
  <2> HIDE DEF n
  <2>3. n = Put(pg[p], k, v)
    BY DEF n
  <2>q. QED
    BY <1>1, <2>1, <2>2, <2>3, ZenonT(60)
<1> HIDE DEF n
<1>3. \A j \in Keys(n) : Encloses(n, j) /\ n.slot[j] \in Value
  <2>1. \A j \in Keys(pg[p]) : Encloses(pg[p], j) /\ pg[p].slot[j] \in Value
    BY <1>1 DEF Shape, LeafOK, Payloads
  <2>q. QED
    BY <1>2, <2>1 DEF Encloses
<1>4. /\ Shape(qg, al)
      /\ \A x : LiveLeaf(qg, x) <=> LiveLeaf(pg, x)
      /\ \A j \in Key : LeafIn(qg, j) = LeafIn(pg, j)
  <2>1. /\ n \in NodeSet /\ n.leaf /\ n.last = pg[p].last
        /\ n.lower = pg[p].lower /\ n.upper = pg[p].upper
    BY <1>1, <1>2
  <2>q. QED
    BY <1>0, <1>3, <2>1, WriteKeeps
<1>5. qg[p] = n /\ \A x \in Page \ {p} : qg[x] = pg[x]
  BY <1>0, <1>1 DEF Wrote
<1>6. \A x \in Page : qg[x].leaf = pg[x].leaf
  BY <1>2, <1>5
<1>7. LeafIn(pg, k) = p
  BY Search
<1>8. ASSUME NEW j \in Key, j # k
      PROVE  /\ j \in Keys(qg[LeafIn(qg, j)]) <=> j \in Keys(pg[LeafIn(pg, j)])
             /\ j \in Keys(pg[LeafIn(pg, j)]) =>
                  qg[LeafIn(qg, j)].slot[j] = pg[LeafIn(pg, j)].slot[j]
  <2>1. LeafIn(pg, j) \in Page
    BY Search DEF LiveLeaf
  <2>q. QED
    BY <1>2, <1>4, <1>5, <1>8, <2>1
<1>9. k \in Keys(qg[LeafIn(qg, k)]) /\ qg[LeafIn(qg, k)].slot[k] = v
  BY <1>2, <1>4, <1>5, <1>7
<1>10. StoredIn(qg) = [j \in DOMAIN db \union {k} |-> IF j = k THEN v ELSE db[j]]
  <2>1. DOMAIN StoredIn(qg) = DOMAIN db \union {k}
    BY <1>8, <1>9, StoredIs
  <2>2. ASSUME NEW j \in DOMAIN StoredIn(qg)
        PROVE  StoredIn(qg)[j] = IF j = k THEN v ELSE db[j]
    <3>1. j \in Key
      BY StoredIs
    <3>q. QED
      BY <1>8, <1>9, <2>1, <3>1, StoredAt
  <2>3. StoredIn(qg) = [j \in DOMAIN StoredIn(qg) |-> StoredIn(qg)[j]]
    BY StoredIs
  <2> HIDE DEF db
  <2>q. QED
    BY <2>1, <2>2, <2>3
<1>11. Spared(qg, pg, al, None)
  <2>1. ASSUME NEW x, LiveLeaf(pg, x) PROVE LiveLeaf(qg, x)
    BY <1>4, <2>1
  <2>q. QED
    BY <1>6, <2>1 DEF Spared
<1>12. StoredIn(qg) = With(StoredIn(pg), k, v)
  BY <1>10 DEF With
<1>q. QED
  BY <1>4, <1>11, <1>12

\* removeSlot in the leaf of a key: the tree does not map the key.
LEMMA RemoveKeeps ==
  ASSUME NEW pg, NEW al, Shape(pg, al), NEW p, LiveLeaf(pg, p),
         NEW k \in Key, Encloses(pg[p], k),
         NEW qg, Wrote(qg, pg, p, RemoveSlot(pg[p], k))
  PROVE  /\ Shape(qg, al) /\ Spared(qg, pg, al, None)
         /\ StoredIn(qg) = Without(StoredIn(pg), k)
<1> DEFINE n == RemoveSlot(pg[p], k)  db == StoredIn(pg)
<1>0. Wrote(qg, pg, p, n)
  OBVIOUS
<1>1. p \in Page /\ pg[p].leaf /\ pg[p] \in NodeSet /\ pg \in [Page -> NodeSet]
  BY LiveFences DEF Shape
<1>2. /\ n \in NodeSet /\ Keys(n) = Keys(pg[p]) \ {k}
      /\ \A j \in Keys(n) : n.slot[j] = pg[p].slot[j]
      /\ n.leaf = pg[p].leaf /\ n.last = pg[p].last
      /\ n.lower = pg[p].lower /\ n.upper = pg[p].upper
  BY <1>1, RemoveFacts
<1> HIDE DEF n
<1>3. \A j \in Keys(n) : Encloses(n, j) /\ n.slot[j] \in Value
  <2>1. \A j \in Keys(pg[p]) : Encloses(pg[p], j) /\ pg[p].slot[j] \in Value
    BY <1>1 DEF Shape, LeafOK, Payloads
  <2>q. QED
    BY <1>2, <2>1 DEF Encloses
<1>4. /\ Shape(qg, al)
      /\ \A x : LiveLeaf(qg, x) <=> LiveLeaf(pg, x)
      /\ \A j \in Key : LeafIn(qg, j) = LeafIn(pg, j)
  <2>1. /\ n \in NodeSet /\ n.leaf /\ n.last = pg[p].last
        /\ n.lower = pg[p].lower /\ n.upper = pg[p].upper
    BY <1>1, <1>2
  <2>q. QED
    BY <1>0, <1>3, <2>1, WriteKeeps
<1>5. qg[p] = n /\ \A x \in Page \ {p} : qg[x] = pg[x]
  BY <1>0, <1>1 DEF Wrote
<1>6. \A x \in Page : qg[x].leaf = pg[x].leaf
  BY <1>2, <1>5
<1>7. LeafIn(pg, k) = p
  BY Search
<1>8. ASSUME NEW j \in Key, j # k
      PROVE  /\ j \in Keys(qg[LeafIn(qg, j)]) <=> j \in Keys(pg[LeafIn(pg, j)])
             /\ j \in Keys(pg[LeafIn(pg, j)]) =>
                  qg[LeafIn(qg, j)].slot[j] = pg[LeafIn(pg, j)].slot[j]
  <2>1. LeafIn(pg, j) \in Page
    BY Search DEF LiveLeaf
  <2>q. QED
    BY <1>2, <1>4, <1>5, <1>8, <2>1
<1>9. k \notin Keys(qg[LeafIn(qg, k)])
  BY <1>2, <1>4, <1>5, <1>7
<1>10. StoredIn(qg) = [j \in DOMAIN db \ {k} |-> db[j]]
  <2>1. DOMAIN StoredIn(qg) = DOMAIN db \ {k}
    BY <1>8, <1>9, StoredIs
  <2>2. ASSUME NEW j \in DOMAIN StoredIn(qg) PROVE StoredIn(qg)[j] = db[j]
    <3>1. j \in Key
      BY StoredIs
    <3>q. QED
      BY <1>8, <2>1, <2>2, <3>1, StoredAt
  <2>3. StoredIn(qg) = [j \in DOMAIN StoredIn(qg) |-> StoredIn(qg)[j]]
    BY StoredIs
  <2> HIDE DEF db
  <2>q. QED
    BY <2>1, <2>2, <2>3
<1>11. Spared(qg, pg, al, None)
  <2>1. ASSUME NEW x, LiveLeaf(pg, x) PROVE LiveLeaf(qg, x)
    BY <1>4, <2>1
  <2>q. QED
    BY <1>6, <2>1 DEF Spared
<1>12. StoredIn(qg) = Without(StoredIn(pg), k)
  BY <1>10 DEF Without
<1>q. QED
  BY <1>4, <1>11, <1>12
=============================================================================
