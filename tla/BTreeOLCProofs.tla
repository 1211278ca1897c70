----------------------------- MODULE BTreeOLCProofs -----------------------------
(***************************************************************************)
(* What is proved of BTreeOLC for every number of threads, keys, pages and *)
(* slots, and for every order of their steps: the tree is a search tree at *)
(* every moment, and single-key calls are linearizable.                    *)
(*                                                                         *)
(* The inductive invariant says what a thread knows at each label.  A      *)
(* guard is quiet while nobody unlocked its page since it was taken, and   *)
(* nobody else holds it; what an optimistic thread has read is true as     *)
(* long as the guard it was read under is quiet.                           *)
(***************************************************************************)
EXTENDS BTreeShape

Answer == Value \union {"absent", "pending", "done"}
Local ==
  [op : Op \union {NoOp}, ans : Answer, par : Guard, nod : Guard,
   cand : Page, held : Page, key : 0 .. NKeys, target : Page]

Typed ==
  /\ xlock \in [Page -> SUBSET Thread]
  /\ slock \in [Page -> SUBSET Thread]
  /\ pc \in [Thread -> Label]
  /\ loc \in [Thread -> Local]
  /\ scene \in Scene
  /\ loaded \in Nat

\* The pages that a thread has locked exclusively.
OwnAt(x, l) ==
  CASE x \in {"release", "write"} -> {l.nod.pid}
    [] x \in {"lockNode", "unlockParent"} -> {l.par.pid}
    [] x \in {"split", "lockRight", "unlockNode"} -> {l.par.pid, l.nod.pid}
    [] x = "merge" -> {l.par.pid, l.nod.pid, l.cand}
    [] OTHER -> {}
Own(t) == OwnAt(pc[t], loc[t])

Latches ==
  \A p \in Page : \A t \in Thread :
    /\ xlock[p] = {t} \/ t \notin xlock[p]
    /\ xlock[p] = {t} <=> p \in Own(t)

\* Nobody has unlocked the page of the guard since it was taken, and nobody
\* else has locked it.
QPar(t) == loc[t].par.fresh /\ xlock[loc[t].par.pid] \subseteq {t}
QNod(t) == loc[t].nod.fresh /\ xlock[loc[t].nod.pid] \subseteq {t}

\* The parent is an inner node whose fences enclose the key; the candidate or
\* the node is the child with the key; the node is the leaf of the key.
Inside(t) == ~page[Par(t)].leaf /\ Encloses(page[Par(t)], K(t))
CandBelow(t) == Inside(t) /\ loc[t].cand = Child(page[Par(t)], K(t))
NodBelow(t) == Inside(t) /\ Nod(t) = Child(page[Par(t)], K(t))
Home(t) == LiveLeaf(page, Nod(t)) /\ Encloses(page[Nod(t)], K(t))
AtGoal(t) == page[Nod(t)].leaf \/ Nod(t) = loc[t].target

\* Pages that a thread has heard of are in use; the pages it has locked differ.
Bounds(t) ==
  /\ Par(t) < alloc /\ Nod(t) < alloc /\ loc[t].cand < alloc
  /\ pc[t] \in {"split", "lockRight", "merge", "unlockNode"} => Par(t) # Nod(t)
  /\ pc[t] = "merge" => loc[t].cand # Par(t) /\ loc[t].cand # Nod(t)

\* What the call of a thread is at its label.
Calls(t) ==
  LET l == loc[t]  x == pc[t] IN
  /\ x # "idle" => l.op \in Op /\ l.key \in Key
  /\ x = "idle" => l.ans # "pending"
  /\ x \notin {"idle", "unlockNode", "unlockParent"} => l.ans = "pending"
  /\ x \in {"unlockNode", "unlockParent"} => l.ans \in {"pending", "done"}
  /\ l.target # None => l.op.kind = "insert"
  /\ l.target = None /\ ~Scanning(l.op) /\ l.ans = "pending" => l.key = l.op.key
  /\ x \in {"visit", "lockNext", "next", "endScan", "stopScan"} => Scanning(l.op)
  /\ x \in {"lockParent", "lockNode", "checkNode", "checkParent", "release"} =>
       l.op.kind \in {"insert", "remove"}
  /\ x \in {"checkNode", "checkParent"} /\ l.target = None => l.op.kind = "remove"
  /\ x = "split" => l.op.kind = "insert"
  /\ x \in {"lockRight", "merge"} => l.op.kind = "remove"
  /\ x \in {"lockLeaf", "release", "write"} =>
       l.target = None /\ l.op.kind \in {"insert", "remove", "update"}

\* Where a thread is on its way down.
Keeping == {"leaf", "checkNode", "checkParent", "lockLeaf", "release", "lockParent"}
Way(t) ==
  LET x == pc[t] IN
  /\ x = "child" /\ QPar(t) => Inside(t)
  /\ x = "load" /\ QPar(t) => CandBelow(t)
  /\ x = "recheck" /\ QPar(t) => NodBelow(t)
  /\ x \in Keeping /\ KeepsParent(t) => AtGoal(t) /\ (QPar(t) => NodBelow(t))
  /\ x \in {"leaf", "lockLeaf"} /\ ~KeepsParent(t) /\ QNod(t) => Home(t)
  /\ x = "write" => Home(t)
  /\ x \in {"lockNode", "split", "lockRight", "merge"} => NodBelow(t) /\ AtGoal(t)

\* What a thread has found in the node.
Found(t) ==
  LET l == loc[t]  x == pc[t]  has == K(t) \in Keys(page[Nod(t)]) IN
  /\ /\ x \in {"lockLeaf", "lockParent", "release", "write", "lockNode"}
     /\ l.op.kind # "insert"
     => (QNod(t) => has)
  /\ x \in {"lockParent", "lockNode"} /\ l.op.kind = "remove" =>
       (QNod(t) /\ QPar(t) => Above(page[Par(t)], K(t)) # {})
  /\ x \in {"lockParent", "lockNode"} /\ l.op.kind = "insert" =>
       (QNod(t) => ~HasSpace(page[Nod(t)]))
  /\ x = "checkNode" /\ l.target = None => (QNod(t) => ~has)
  /\ x = "split" => ~HasSpace(page[Nod(t)])
  /\ x \in {"lockRight", "merge"} => has /\ Above(page[Par(t)], K(t)) # {}
  /\ x = "merge" => l.cand = RightChild(page[Par(t)], K(t))

\* The guards of locked pages are quiet.
Holds(t) ==
  /\ pc[t] \in {"release", "write", "split", "lockRight", "merge"} => QNod(t)
  /\ pc[t] \in {"lockNode", "split", "lockRight", "merge"} => QPar(t)

Knows(t) == Bounds(t) /\ Calls(t) /\ Way(t) /\ Found(t) /\ Holds(t)

IInv ==
  /\ Typed
  /\ Shape(page, alloc)
  /\ Latches
  /\ \A t \in Thread : Knows(t)

\* What a pending call may answer.
Answers(t) ==
  LET l == loc[t] IN
  l.ans = "pending" =>
    /\ At(StoredIn(page), l.op.key) \in seen[t]
    /\ l.op.kind = "insert" =>
         /\ l.op.key \notin DOMAIN StoredIn(page)
         /\ \A u \in Thread \ {t} :
              loc[u].ans = "pending" /\ loc[u].op.kind = "insert" => loc[u].op.key # l.op.key
    /\ pc[t] = "checkParent" /\ l.target = None => (QPar(t) => "absent" \in seen[t])
-----------------------------------------------------------------------------
\* Local variables that differ in the freshness of guards at most.  What a step
\* of thread t does to the others: it changes and unlocks only what
\* it has locked, it locks what nobody has locked, and a guard on a page that
\* it unlocks is not fresh any more.
Same(m, l) ==
  /\ m.op = l.op /\ m.ans = l.ans /\ m.cand = l.cand /\ m.held = l.held
  /\ m.key = l.key /\ m.target = l.target
  /\ m.par.pid = l.par.pid /\ m.nod.pid = l.nod.pid
Spares(t, u) ==
  LET l == loc[u]  m == loc'[u]  gone == Own(t) \ Own(t)' IN
  /\ pc'[u] = pc[u] /\ Same(m, l)
  /\ m.par.fresh <=> l.par.fresh /\ l.par.pid \notin gone
  /\ m.nod.fresh <=> l.nod.fresh /\ l.nod.pid \notin gone
Pages(t) ==
  /\ alloc \in Nat /\ alloc' \in Nat /\ alloc <= alloc'
  /\ \A p \in Page : p < alloc =>
       /\ page'[p].leaf <=> page[p].leaf
       /\ p \notin Own(t) => page'[p] = page[p] /\ (LiveLeaf(page, p) => LiveLeaf(page', p))
Locks(t) ==
  /\ \A p \in Page :
       xlock'[p] = IF p \in Own(t)' THEN {t} ELSE IF p \in Own(t) THEN {} ELSE xlock[p]
  /\ \A p \in Own(t)' \ Own(t) : xlock[p] = {}
Does(t) == Pages(t) /\ Locks(t) /\ \A u \in Thread \ {t} : Spares(t, u)

\* A step that keeps the invariant, as far as the thread that takes it goes.
Kept(t) == Does(t) /\ Typed' /\ Shape(page', alloc') /\ Knows(t)'

\* The latches stay exclusive.
LEMMA LatchesKept ==
  ASSUME Typed, Typed', Latches, NEW t \in Thread, Does(t)
  PROVE  Latches'
<1> SUFFICES ASSUME NEW p \in Page, NEW u \in Thread
             PROVE  /\ xlock'[p] = {u} \/ u \notin xlock'[p]
                    /\ xlock'[p] = {u} <=> p \in Own(u)'
  BY DEF Latches
<1>1. xlock[p] \in SUBSET Thread
  BY DEF Typed
<1>2. CASE u = t
  BY <1>1, <1>2 DEF Latches, Does, Locks
<1>3. CASE u # t
  <2>1. Own(u)' = Own(u)
    BY <1>3 DEF Does, Spares, Same, Own, OwnAt
  <2>2. CASE p \in Own(t)'
    <3>1. xlock'[p] = {t}
      BY <2>2 DEF Does, Locks
    <3>2. xlock[p] = {t} \/ xlock[p] = {}
      BY <2>2 DEF Does, Locks, Latches
    <3>q. QED
      BY <1>3, <2>1, <3>1, <3>2 DEF Latches
  <2>3. CASE p \notin Own(t)' /\ p \in Own(t)
    BY <1>3, <2>1, <2>3 DEF Does, Locks, Latches
  <2>4. CASE p \notin Own(t)' /\ p \notin Own(t)
    BY <1>3, <2>1, <2>4 DEF Does, Locks, Latches
  <2>q. QED
    BY <2>2, <2>3, <2>4
<1>q. QED
  BY <1>2, <1>3

\* A thread that has not locked a page has a guard on it that the check accepts,
\* if the guard is quiet.
LEMMA QuietIsOk ==
  ASSUME Typed, Latches, NEW t \in Thread, Own(t) = {}
  PROVE  /\ QPar(t) <=> CheckOk(loc[t].par)
         /\ QNod(t) <=> CheckOk(loc[t].nod)
<1>1. Par(t) \in Page /\ Nod(t) \in Page
  BY DEF Typed, Local, Guard, Par, Nod
<1>2. ASSUME NEW p \in Page PROVE xlock[p] \subseteq {t} <=> xlock[p] = {}
  BY DEF Latches
<1>q. QED
  BY <1>1, <1>2 DEF QPar, QNod, CheckOk, Par, Nod

\* A page that a step leaves as it was.
Untouched(p) == page'[p] = page[p] /\ (LiveLeaf(page, p) => LiveLeaf(page', p))

\* What another thread knows stays true: a quiet guard was quiet before, and its
\* page has not changed, nor has a page that the other thread has locked.
LEMMA QuietPage ==
  ASSUME Typed, Latches, NEW t \in Thread, NEW u \in Thread, u # t, Does(t), Bounds(u)
  PROVE  /\ QPar(u)' => QPar(u) /\ Untouched(Par(u))
         /\ QNod(u)' => QNod(u) /\ Untouched(Nod(u))
         /\ \A p \in Own(u) \cap Page : p < alloc => Untouched(p)
<1>1. Par(u) \in Page /\ Nod(u) \in Page /\ Par(u) < alloc /\ Nod(u) < alloc
  BY DEF Typed, Local, Guard, Par, Nod, Bounds
<1>2. Spares(t, u)
  BY DEF Does
<1>3. ASSUME NEW p \in Page, p < alloc, p \notin Own(t)
      PROVE  Untouched(p)
  BY <1>3 DEF Does, Pages, Untouched
<1>4. ASSUME NEW p \in Page, p \notin Own(t) \ Own(t)', xlock'[p] \subseteq {u}
      PROVE  p \notin Own(t) /\ xlock'[p] = xlock[p]
  BY <1>4 DEF Does, Locks
<1>5. ASSUME NEW p \in Own(u) \cap Page PROVE p \notin Own(t)
  BY <1>5 DEF Latches
<1>6. ASSUME QPar(u)' PROVE QPar(u) /\ Untouched(Par(u))
  <2>1. Par(u) \notin Own(t) /\ xlock'[Par(u)] = xlock[Par(u)] /\ loc[u].par.fresh
    BY <1>1, <1>2, <1>4, <1>6 DEF Spares, Same, QPar, Par
  <2>2. Untouched(Par(u))
    BY <1>1, <1>3, <2>1
  <2>q. QED
    BY <1>2, <1>6, <2>1, <2>2 DEF Spares, Same, QPar, Par
<1>7. ASSUME QNod(u)' PROVE QNod(u) /\ Untouched(Nod(u))
  <2>1. Nod(u) \notin Own(t) /\ xlock'[Nod(u)] = xlock[Nod(u)] /\ loc[u].nod.fresh
    BY <1>1, <1>2, <1>4, <1>7 DEF Spares, Same, QNod, Nod
  <2>2. Untouched(Nod(u))
    BY <1>1, <1>3, <2>1
  <2>q. QED
    BY <1>2, <1>7, <2>1, <2>2 DEF Spares, Same, QNod, Nod
<1>8. ASSUME NEW p \in Own(u) \cap Page, p < alloc PROVE Untouched(p)
  BY <1>3, <1>5, <1>8
<1>q. QED
  BY <1>6, <1>7, <1>8

\* The steps of a thread leave alone what the other threads know.
LEMMA OthersKnow ==
  ASSUME Typed, Latches, NEW t \in Thread, NEW u \in Thread, u # t, Does(t), Knows(u)
  PROVE  Knows(u)'
<1>1. Spares(t, u)
  BY DEF Does
<1> DEFINE samePar == Untouched(Par(u))
           sameNod == Untouched(Nod(u))
<1>2. /\ QPar(u)' => QPar(u) /\ samePar
      /\ QNod(u)' => QNod(u) /\ sameNod
  BY QuietPage DEF Knows
<1>3. /\ Par(u) \in Page /\ Nod(u) \in Page /\ Par(u) < alloc /\ Nod(u) < alloc
      /\ loc[u].cand \in Page
  BY DEF Typed, Local, Guard, Par, Nod, Bounds, Knows
<1>4. \A p \in Own(u) \cap Page : p < alloc => Untouched(p)
  BY QuietPage DEF Knows
<1>5. /\ pc[u] \in {"release", "write", "split", "lockRight", "merge", "unlockNode"} =>
           sameNod
      /\ pc[u] \in {"lockNode", "split", "lockRight", "merge", "unlockNode", "unlockParent"} =>
           samePar
  BY <1>3, <1>4 DEF Own, OwnAt, Par, Nod
<1>6. page'[Nod(u)].leaf <=> page[Nod(u)].leaf
  BY <1>3 DEF Does, Pages
<1>7. /\ pc'[u] = pc[u] /\ K(u)' = K(u) /\ Par(u)' = Par(u) /\ Nod(u)' = Nod(u)
      /\ loc'[u].op = loc[u].op /\ loc'[u].ans = loc[u].ans /\ loc'[u].cand = loc[u].cand
      /\ loc'[u].target = loc[u].target /\ loc'[u].key = loc[u].key
      /\ KeepsParent(u)' <=> KeepsParent(u)
      /\ AtGoal(u)' <=> AtGoal(u)
  BY <1>1, <1>6 DEF Spares, Same, K, Par, Nod, KeepsParent, AtGoal
<1>8. /\ samePar => /\ Inside(u)' <=> Inside(u)
                    /\ CandBelow(u)' <=> CandBelow(u)
                    /\ NodBelow(u)' <=> NodBelow(u)
      /\ sameNod => (Home(u) => Home(u)')
  BY <1>7 DEF Untouched, Inside, CandBelow, NodBelow, Home
<1>9. Bounds(u)'
  <2>1. alloc \in Nat /\ alloc' \in Nat /\ alloc <= alloc'
    BY DEF Does, Pages
  <2>2. Par(u) \in Nat /\ Nod(u) \in Nat /\ loc[u].cand \in Nat /\ loc[u].cand < alloc
    BY <1>3, Numbers DEF Knows, Bounds
  <2>q. QED
    BY <1>3, <1>7, <2>1, <2>2 DEF Knows, Bounds
<1>10. Calls(u)'
  BY <1>7 DEF Knows, Calls
<1>11. Way(u)'
  <2>1. Way(u) /\ Holds(u)
    BY DEF Knows
  <2> HIDE DEF samePar, sameNod
  <2>q. QED
    BY <1>2, <1>5, <1>7, <1>8, <2>1 DEF Way, Keeping, Holds
<1>12. Found(u)'
  <2>1. Found(u) /\ Holds(u)
    BY DEF Knows
  <2>2. /\ sameNod => (K(u)' \in Keys(page'[Nod(u)'])  <=> K(u) \in Keys(page[Nod(u)]))
        /\ sameNod => (HasSpace(page[Nod(u)])' <=> HasSpace(page[Nod(u)]))
        /\ samePar => Above(page[Par(u)], K(u))' = Above(page[Par(u)], K(u))
        /\ samePar => RightChild(page[Par(u)], K(u))' = RightChild(page[Par(u)], K(u))
    BY <1>7 DEF Untouched
  <2> HIDE DEF samePar, sameNod
  <2>q. QED
    BY <1>2, <1>5, <1>7, <2>1, <2>2 DEF Found, Holds
<1>13. Holds(u)'
  <2>1. Par(u) \in Own(u) => (QPar(u) => QPar(u)')
    <3>1. ASSUME Par(u) \in Own(u) PROVE xlock[Par(u)] = {u} /\ Par(u) \notin Own(t)
      BY <1>3, <3>1 DEF Latches
    <3>2. ASSUME Par(u) \in Own(u) PROVE Par(u) \notin Own(t)'
      BY <1>3, <3>1, <3>2 DEF Does, Locks
    <3>q. QED
      BY <1>1, <1>3, <1>7, <3>1, <3>2, SMTT(30) DEF Does, Locks, QPar, Spares, Same, Par
  <2>2. Nod(u) \in Own(u) => (QNod(u) => QNod(u)')
    <3>1. ASSUME Nod(u) \in Own(u) PROVE xlock[Nod(u)] = {u} /\ Nod(u) \notin Own(t)
      BY <1>3, <3>1 DEF Latches
    <3>2. ASSUME Nod(u) \in Own(u) PROVE Nod(u) \notin Own(t)'
      BY <1>3, <3>1, <3>2 DEF Does, Locks
    <3>q. QED
      BY <1>1, <1>3, <1>7, <3>1, <3>2, SMTT(30) DEF Does, Locks, QNod, Spares, Same, Nod
  <2>3. /\ pc[u] \in {"release", "write", "split", "lockRight", "merge"} => Nod(u) \in Own(u)
        /\ pc[u] \in {"lockNode", "split", "lockRight", "merge"} => Par(u) \in Own(u)
    BY DEF Own, OwnAt, Par, Nod
  <2>q. QED
    BY <1>7, <2>1, <2>2, <2>3 DEF Knows, Holds
<1>q. QED
  BY <1>9, <1>10, <1>11, <1>12, <1>13 DEF Knows

\* A step that changes no page and no latch, only where the thread is and its
\* local variables.
LEMMA PlainStep ==
  ASSUME Typed, Shape(page, alloc), Latches, NEW t \in Thread,
         NEW l \in Local, NEW x \in Label,
         loc' = [loc EXCEPT ![t] = l], pc' = [pc EXCEPT ![t] = x],
         OwnAt(x, l) = Own(t),
         page' = page, alloc' = alloc, xlock' = xlock, scene' = scene,
         slock' \in [Page -> SUBSET Thread], loaded' \in Nat
  PROVE  Does(t) /\ Typed' /\ Shape(page', alloc') /\ loc'[t] = l /\ pc'[t] = x
<1>1. loc'[t] = l /\ pc'[t] = x
  BY DEF Typed
<1>2. Own(t)' = Own(t)
  BY <1>1 DEF Own
<1>3. Typed'
  BY DEF Typed
<1>4. ASSUME NEW u \in Thread, u # t PROVE Spares(t, u)
  <2>1. loc'[u] = loc[u] /\ pc'[u] = pc[u]
    BY <1>4 DEF Typed
  <2>q. QED
    BY <1>2, <2>1 DEF Spares, Same
<1>5. Locks(t)
  <2>1. \A p \in Page :
          xlock[p] = IF p \in Own(t) THEN {t} ELSE IF p \in Own(t) THEN {} ELSE xlock[p]
    BY DEF Latches
  <2>q. QED
    BY <1>2, <2>1 DEF Locks
<1>6. Pages(t)
  BY Numbers DEF Pages, Shape, Used
<1>q. QED
  BY <1>1, <1>3, <1>4, <1>5, <1>6 DEF Does

\* A call starts from the root, and a call that has returned knows nothing.
LEMMA StartKnows ==
  ASSUME NEW t \in Thread, NEW l \in Local, alloc' \in Nat, alloc' > 0,
         pc'[t] = "start", loc'[t] = l,
         l.par.pid = None, l.nod.pid = None, l.cand = None,
         l.op \in Op, l.key \in Key, l.ans = "pending",
         l.target # None => l.op.kind = "insert",
         l.target = None /\ ~Scanning(l.op) => l.key = l.op.key
  PROVE  Knows(t)'
<1>1. Bounds(t)'
  BY DEF Bounds, Par, Nod, None
<1>2. Calls(t)'
  BY DEF Calls
<1>3. Way(t)' /\ Found(t)' /\ Holds(t)'
  BY DEF Way, Found, Holds, Keeping
<1>q. QED
  BY <1>1, <1>2, <1>3 DEF Knows

\* A thread whose call has returned need not know anything.
LEMMA IdleKnows ==
  ASSUME NEW t \in Thread, NEW l \in Local, alloc' \in Nat, alloc' > 0,
         pc'[t] = "idle", loc'[t] = l, l.ans # "pending", l.target = None,
         l.par.pid = None, l.nod.pid = None, l.cand = None
  PROVE  Knows(t)'
<1>1. Bounds(t)'
  BY DEF Bounds, Par, Nod, None
<1>2. Calls(t)'
  BY DEF Calls
<1>3. Way(t)' /\ Found(t)' /\ Holds(t)'
  BY DEF Way, Found, Holds, Keeping
<1>q. QED
  BY <1>1, <1>2, <1>3 DEF Knows

\* The records that the steps make.
LEMMA LocalFacts ==
  ASSUME NEW l \in Local
  PROVE  /\ l.op \in Op \union {NoOp} /\ l.ans \in Answer /\ l.par \in Guard /\ l.nod \in Guard
         /\ l.cand \in Page /\ l.held \in Page /\ l.key \in 0 .. NKeys /\ l.target \in Page
         /\ l.par.pid \in Page /\ l.nod.pid \in Page
         /\ l.par.fresh \in BOOLEAN /\ l.nod.fresh \in BOOLEAN
         /\ NoGuard \in Guard /\ NoGuard.pid = None /\ NoGuard.fresh = FALSE
         /\ Start(l) \in Local /\ Start(l).op = l.op /\ Start(l).ans = l.ans
         /\ Start(l).key = l.key /\ Start(l).target = l.target
         /\ Start(l).par = NoGuard /\ Start(l).nod = NoGuard /\ Start(l).cand = None
         /\ \A a \in Answer :
              LET r == Returned(l, a) IN
              /\ r \in Local /\ r.op = l.op /\ r.ans = a /\ r.target = None
              /\ r.par = NoGuard /\ r.nod = NoGuard /\ r.cand = None
<1>1. 0 \in 0 .. Cardinality(Thread)
  BY TreeAssumption, FS_CardinalityType
<1>2. NoGuard \in Guard /\ NoGuard.pid = None /\ NoGuard.fresh = FALSE
  BY <1>1, Numbers DEF NoGuard, Guard
<1>3. /\ l.op \in Op \union {NoOp} /\ l.ans \in Answer /\ l.par \in Guard /\ l.nod \in Guard
      /\ l.cand \in Page /\ l.held \in Page /\ l.key \in 0 .. NKeys /\ l.target \in Page
  BY DEF Local
<1>4. /\ Start(l) \in Local /\ Start(l).op = l.op /\ Start(l).ans = l.ans
      /\ Start(l).key = l.key /\ Start(l).target = l.target
      /\ Start(l).par = NoGuard /\ Start(l).nod = NoGuard /\ Start(l).cand = None
  BY <1>2, <1>3, Numbers DEF Start, Local
<1>5. ASSUME NEW a \in Answer
      PROVE  LET r == Returned(l, a) IN
             /\ r \in Local /\ r.op = l.op /\ r.ans = a /\ r.target = None
             /\ r.par = NoGuard /\ r.nod = NoGuard /\ r.cand = None
  <2>1. 0 \in 0 .. NKeys
    BY Numbers
  <2>q. QED
    BY <1>2, <1>3, <1>5, <2>1, Numbers DEF Returned, NoLocal, Local
<1>6. /\ l.par.pid \in Page /\ l.nod.pid \in Page
      /\ l.par.fresh \in BOOLEAN /\ l.nod.fresh \in BOOLEAN
  BY <1>3 DEF Guard
<1>q. QED
  BY <1>2, <1>3, <1>4, <1>5, <1>6

\* A guard on a page, as it is taken.
LEMMA NewGuardIs ==
  ASSUME Typed, NEW p \in Page
  PROVE  NewGuard(p) \in Guard /\ NewGuard(p).pid = p /\ NewGuard(p).fresh = TRUE
<1>1. slock[p] \subseteq Thread
  BY DEF Typed
<1>2. Cardinality(slock[p]) \in 0 .. Cardinality(Thread)
  BY <1>1, TreeAssumption, FS_Subset, FS_CardinalityType
<1>q. QED
  BY <1>2 DEF NewGuard, Guard

\* unlockX.
LEMMA ExpireFacts ==
  ASSUME NEW l \in [Thread -> Local], NEW p, NEW m, m = Expire(l, p)
  PROVE  /\ m \in [Thread -> Local]
         /\ \A u \in Thread :
              /\ Same(m[u], l[u])
              /\ m[u].par.fresh <=> l[u].par.fresh /\ l[u].par.pid # p
              /\ m[u].nod.fresh <=> l[u].nod.fresh /\ l[u].nod.pid # p
<1> DEFINE one(u) == [l[u] EXCEPT !.par.fresh = @ /\ l[u].par.pid # p,
                                  !.nod.fresh = @ /\ l[u].nod.pid # p]
<1>1. Expire(l, p) = [u \in Thread |-> one(u)]
  BY DEF Expire
<1>2. ASSUME NEW u \in Thread
      PROVE  /\ one(u) \in Local /\ Same(one(u), l[u])
             /\ one(u).par.fresh <=> l[u].par.fresh /\ l[u].par.pid # p
             /\ one(u).nod.fresh <=> l[u].nod.fresh /\ l[u].nod.pid # p
  <2>1. l[u] \in Local
    OBVIOUS
  <2> DEFINE r == l[u]
  <2>2. r \in Local
    BY <2>1
  <2> HIDE DEF r
  <2> DEFINE pf == (r.par.fresh /\ r.par.pid # p)  nf == (r.nod.fresh /\ r.nod.pid # p)
  <2>3. pf \in BOOLEAN /\ nf \in BOOLEAN
    BY <2>2, LocalFacts
  <2>4. one(u) = [r EXCEPT !.par.fresh = pf, !.nod.fresh = nf]
    BY DEF r
  <2> HIDE DEF pf, nf, one
  <2>5. [r.par EXCEPT !.fresh = pf] \in Guard /\ [r.nod EXCEPT !.fresh = nf] \in Guard
    <3>1. ASSUME NEW g \in Guard, NEW b \in BOOLEAN PROVE [g EXCEPT !.fresh = b] \in Guard
      BY DEF Guard
    <3>2. r.par \in Guard /\ r.nod \in Guard
      BY <2>2, LocalFacts
    <3>q. QED
      BY <2>3, <3>1, <3>2
  <2>6. one(u) \in Local
    BY <2>2, <2>4, <2>5 DEF Local
  <2>7. /\ one(u).op = r.op /\ one(u).ans = r.ans /\ one(u).cand = r.cand
        /\ one(u).held = r.held /\ one(u).key = r.key /\ one(u).target = r.target
        /\ one(u).par = [r.par EXCEPT !.fresh = pf] /\ one(u).nod = [r.nod EXCEPT !.fresh = nf]
    BY <2>2, <2>4 DEF Local
  <2>8. /\ one(u).par.pid = r.par.pid /\ one(u).nod.pid = r.nod.pid
        /\ one(u).par.fresh = pf /\ one(u).nod.fresh = nf
    BY <2>2, <2>7 DEF Local, Guard
  <2>q. QED
    BY <2>6, <2>7, <2>8 DEF r, pf, nf, Same
<1> HIDE DEF one
<1>q. QED
  BY <1>1, <1>2
-----------------------------------------------------------------------------
(***************************************************************************)
(* The steps, one by one, as far as the thread that takes them goes.       *)
(***************************************************************************)
\* What the invariant says of a thread.
LEMMA Mine ==
  ASSUME IInv, NEW t \in Thread
  PROVE  /\ Typed /\ Shape(page, alloc) /\ Latches /\ Knows(t)
         /\ loc \in [Thread -> Local] /\ loc[t] \in Local
         /\ pc \in [Thread -> Label] /\ pc[t] \in Label
         /\ xlock \in [Page -> SUBSET Thread] /\ slock \in [Page -> SUBSET Thread]
         /\ loaded \in Nat
         /\ page \in [Page -> NodeSet] /\ alloc \in Nat /\ alloc > 0
         /\ Par(t) \in Page /\ Nod(t) \in Page /\ loc[t].cand \in Page /\ loc[t].target \in Page
         /\ Par(t) < alloc /\ Nod(t) < alloc /\ loc[t].cand < alloc
         /\ pc[t] # "idle" => loc[t].op \in Op /\ loc[t].key \in Key /\ K(t) \in Key /\ K(t) \in Nat
<1>1. Typed /\ Shape(page, alloc) /\ Latches /\ Knows(t)
  BY DEF IInv
<1>2. loc[t] \in Local /\ pc[t] \in Label
  BY <1>1 DEF Typed
<1>3. alloc \in Nat /\ alloc > 0
  BY <1>1, Numbers DEF Shape, Used
<1>4. Par(t) \in Page /\ Nod(t) \in Page /\ loc[t].cand \in Page /\ loc[t].target \in Page
  BY <1>2, LocalFacts DEF Par, Nod
<1>q. QED
  BY <1>1, <1>2, <1>3, <1>4, Numbers DEF Typed, Shape, Knows, Bounds, Calls, K

\* The child of a parent whose fences enclose the key.
LEMMA Below ==
  ASSUME IInv, NEW t \in Thread, K(t) \in Key, Inside(t)
  PROVE  LET c == Child(page[Par(t)], K(t)) IN
         /\ c \in Kids(page[Par(t)]) /\ c \in Page /\ c # Meta /\ c < alloc /\ c # Par(t)
         /\ Encloses(page[c], K(t))
         /\ page[c].leaf => LiveLeaf(page, c)
<1> DEFINE c == Child(page[Par(t)], K(t))
<1>1. Shape(page, alloc) /\ Par(t) \in Page /\ ~page[Par(t)].leaf
      /\ K(t) \in Nat /\ Encloses(page[Par(t)], K(t))
  BY Mine, Numbers DEF Inside
<1>2. c \in Kids(page[Par(t)]) /\ c \in Page /\ c # Meta /\ Encloses(page[c], K(t))
  BY <1>1, ChildEncloses
<1> HIDE DEF c
<1>3. c < alloc /\ c # Par(t)
  BY <1>1, <1>2, KidFacts
<1>4. page[c].leaf => LiveLeaf(page, c)
  BY <1>1, <1>2 DEF LiveLeaf
<1>q. QED
  BY <1>2, <1>3, <1>4 DEF c

\* A thread starts its call again.
LEMMA RestartStep ==
  ASSUME IInv, NEW t \in Thread, Restart(t), Own(t) = {},
         pc[t] \notin {"idle", "unlockNode", "unlockParent"},
         page' = page, alloc' = alloc, xlock' = xlock, scene' = scene,
         slock' = slock, loaded' = loaded
  PROVE  Kept(t)
<1> DEFINE l == Start(loc[t])
<1>1. /\ l \in Local /\ l.op = loc[t].op /\ l.ans = loc[t].ans
      /\ l.key = loc[t].key /\ l.target = loc[t].target
      /\ l.par.pid = None /\ l.nod.pid = None /\ l.cand = None
  <2>1. loc[t] \in Local
    BY Mine
  <2>2. NoGuard.pid = None
    BY DEF NoGuard
  <2>q. QED
    BY <2>1, <2>2, LocalFacts
<1>2. loc' = [loc EXCEPT ![t] = l] /\ pc' = [pc EXCEPT ![t] = "start"]
  BY DEF Restart, Goto
<1>3. OwnAt("start", l) = Own(t)
  BY DEF OwnAt
<1>4. "start" \in Label
  BY DEF Label
<1> HIDE DEF l
<1>5. Does(t) /\ Typed' /\ Shape(page', alloc') /\ loc'[t] = l /\ pc'[t] = "start"
  BY <1>1, <1>2, <1>3, <1>4, Mine, PlainStep
<1>6. Calls(t)
  BY Mine DEF Knows
<1>7. Knows(t)'
  BY <1>1, <1>5, <1>6, Mine, StartKnows DEF Calls
<1>q. QED
  BY <1>5, <1>7 DEF Kept

\* A call returns.
LEMMA ReturnStep ==
  ASSUME IInv, NEW t \in Thread, NEW a \in Answer, Return(t, a), a # "pending",
         Own(t) = {},
         page' = page, alloc' = alloc, xlock' = xlock, scene' = scene,
         slock' \in [Page -> SUBSET Thread], loaded' = loaded
  PROVE  Kept(t) /\ loc' = [loc EXCEPT ![t] = Returned(@, a)]
<1> DEFINE l == Returned(loc[t], a)
<1>1. /\ l \in Local /\ l.op = loc[t].op /\ l.ans = a /\ l.target = None
      /\ l.par.pid = None /\ l.nod.pid = None /\ l.cand = None
  <2>1. loc[t] \in Local
    BY Mine
  <2>2. NoGuard.pid = None
    BY DEF NoGuard
  <2>3. /\ l \in Local /\ l.op = loc[t].op /\ l.ans = a /\ l.target = None
        /\ l.par = NoGuard /\ l.nod = NoGuard /\ l.cand = None
    <3> HIDE DEF l
    <3>1. ASSUME NEW r \in Local
          PROVE  LET m == Returned(r, a) IN
                 /\ m \in Local /\ m.op = r.op /\ m.ans = a /\ m.target = None
                 /\ m.par = NoGuard /\ m.nod = NoGuard /\ m.cand = None
      BY LocalFacts, ZenonT(30)
    <3>q. QED
      BY <2>1, <3>1 DEF l
  <2>q. QED
    BY <2>2, <2>3
<1>2. loc' = [loc EXCEPT ![t] = l] /\ pc' = [pc EXCEPT ![t] = "idle"]
  BY DEF Return, Goto
<1>3. OwnAt("idle", l) = Own(t)
  BY DEF OwnAt
<1>4. "idle" \in Label
  BY DEF Label
<1> HIDE DEF l
<1>5. Does(t) /\ Typed' /\ Shape(page', alloc') /\ loc'[t] = l /\ pc'[t] = "idle"
  BY <1>1, <1>2, <1>3, <1>4, Mine, PlainStep
<1>6. Knows(t)'
  BY <1>1, <1>5, Mine, IdleKnows
<1>q. QED
  BY <1>2, <1>5, <1>6 DEF Kept, l

\* A call begins with no guard, under a key of its own or one to insert.
LEMMA BeginStep ==
  ASSUME IInv, NEW t \in Thread, Begin(t)
  PROVE  Kept(t)
<1>1. PICK o : /\ o \in IF loaded < Len(scene.load)
                          THEN {[kind |-> "insert", key |-> scene.load[loaded + 1], val |-> "v0"]}
                          ELSE scene.ops
               /\ loc' = [loc EXCEPT ![t] =
                    [NoLocal EXCEPT !.op = o, !.ans = "pending", !.key = o.key]]
  BY DEF Begin
<1>2. scene \in Scene /\ loaded \in Nat
  BY DEF IInv, Typed
<1>3. o \in Op
  <2>1. CASE loaded < Len(scene.load)
    <3>1. scene.load \in Seq(Key) /\ loaded + 1 \in 1 .. Len(scene.load)
      BY <1>2, <2>1, TreeAssumption
    <3>2. scene.load[loaded + 1] \in Key
      BY <3>1
    <3>q. QED
      BY <1>1, <2>1, <3>2 DEF Op, Kind, Value
  <2>2. CASE ~(loaded < Len(scene.load))
    BY <1>1, <1>2, <2>2, TreeAssumption
  <2>q. QED
    BY <2>1, <2>2
<1> DEFINE l == [NoLocal EXCEPT !.op = o, !.ans = "pending", !.key = o.key]
<1>4. o.key \in Key /\ o.key \in 0 .. NKeys
  BY <1>3, Numbers DEF Op
<1>5. l \in Local /\ l.op = o /\ l.key = o.key /\ l.ans = "pending" /\ l.target = None
      /\ l.par.pid = None /\ l.nod.pid = None /\ l.cand = None
  <2>1. NoGuard \in Guard /\ NoGuard.pid = None /\ "pending" \in Answer /\ "done" \in Answer
    BY Mine, LocalFacts DEF Answer
  <2>2. NoLocal \in Local /\ NoLocal.par = NoGuard /\ NoLocal.nod = NoGuard
        /\ NoLocal.cand = None /\ NoLocal.target = None
    BY <2>1, Numbers DEF NoLocal, Local
  <2>q. QED
    BY <1>3, <1>4, <2>1, <2>2 DEF Local
<1>6. pc[t] = "idle" /\ pc' = [pc EXCEPT ![t] = "start"]
      /\ page' = page /\ alloc' = alloc /\ xlock' = xlock /\ slock' = slock /\ scene' = scene
  BY DEF Begin, Goto, tree, latch
<1>7. loaded' \in Nat
  BY <1>2 DEF Begin
<1>8. loc' = [loc EXCEPT ![t] = l]
  BY <1>1
<1>9. OwnAt("start", l) = Own(t)
  BY <1>6 DEF OwnAt, Own
<1>10. "start" \in Label
  BY DEF Label
<1> HIDE DEF l
<1>11. Does(t) /\ Typed' /\ Shape(page', alloc') /\ loc'[t] = l /\ pc'[t] = "start"
  BY <1>5, <1>6, <1>7, <1>8, <1>9, <1>10, Mine, PlainStep
<1>12. Knows(t)'
  BY <1>3, <1>4, <1>5, <1>6, <1>11, Mine, StartKnows
<1>q. QED
  BY <1>11, <1>12 DEF Kept

\* The meta page encloses every key: a new guard on it is inside.
LEMMA LoadMetaStep ==
  ASSUME IInv, NEW t \in Thread, LoadMeta(t)
  PROVE  Kept(t)
<1> DEFINE l == [loc[t] EXCEPT !.par = NewGuard(Meta)]
<1>1. NewGuard(Meta) \in Guard /\ NewGuard(Meta).pid = Meta
  BY Mine, Numbers, NewGuardIs
<1>2. l \in Local /\ l.op = loc[t].op /\ l.key = loc[t].key /\ l.ans = loc[t].ans
      /\ l.target = loc[t].target /\ l.nod = loc[t].nod /\ l.cand = loc[t].cand
      /\ l.par.pid = Meta
  BY <1>1, Mine DEF Local
<1>3. pc[t] = "start" /\ pc' = [pc EXCEPT ![t] = "child"] /\ loc' = [loc EXCEPT ![t] = l]
      /\ page' = page /\ alloc' = alloc /\ xlock' = xlock /\ slock' = slock /\ scene' = scene
      /\ loaded' = loaded
  BY DEF LoadMeta, Goto, tree, latch, load
<1>4. OwnAt("child", l) = Own(t) /\ "child" \in Label
  BY <1>3 DEF OwnAt, Own, Label
<1> HIDE DEF l
<1>5. Does(t) /\ Typed' /\ Shape(page', alloc') /\ loc'[t] = l /\ pc'[t] = "child"
  BY <1>2, <1>3, <1>4, Mine, PlainStep
<1>6. Inside(t)'
  <2>1. ~page[Meta].leaf /\ page[Meta].lower = 0 /\ page[Meta].upper = Inf
    BY Mine DEF Shape
  <2>2. K(t) > 0 /\ K(t) <= Inf
    BY <1>3, Mine, Numbers
  <2>q. QED
    BY <1>2, <1>3, <1>5, <2>1, <2>2 DEF Inside, Encloses, Par, K
<1>7. Bounds(t)'
  <2>1. loc[t].nod.pid < alloc /\ loc[t].cand < alloc /\ Meta < alloc
    BY Mine DEF Nod, Meta
  <2>q. QED
    BY <1>2, <1>3, <1>5, <2>1 DEF Bounds, Par, Nod
<1>8. Calls(t)'
  BY <1>2, <1>3, <1>5, Mine DEF Calls, Knows
<1>9. Way(t)' /\ Found(t)' /\ Holds(t)'
  BY <1>5, <1>6 DEF Way, Found, Holds, Keeping
<1>q. QED
  BY <1>5, <1>7, <1>8, <1>9 DEF Kept, Knows

\* The child is read under a guard that is still quiet: it has the key.
LEMMA ReadChildStep ==
  ASSUME IInv, NEW t \in Thread, ReadChild(t)
  PROVE  Kept(t)
<1>1. pc[t] = "child" /\ Own(t) = {} /\ page' = page /\ alloc' = alloc /\ xlock' = xlock
      /\ slock' = slock /\ scene' = scene /\ loaded' = loaded
  BY DEF ReadChild, tree, latch, load, Own, OwnAt
<1>2. CASE ~CheckOk(loc[t].par)
  BY <1>1, <1>2, RestartStep DEF ReadChild
<1>3. CASE CheckOk(loc[t].par)
  <2> DEFINE c == Child(page[Par(t)], K(t))
             l == [loc[t] EXCEPT !.cand = c]
  <2>1. Inside(t)
    BY <1>1, <1>3, Mine, QuietIsOk DEF Knows, Way
  <2>2. c \in Page /\ c < alloc
    BY <1>1, <2>1, Below, Mine
  <2> HIDE DEF c
  <2>3. l \in Local /\ l.op = loc[t].op /\ l.key = loc[t].key /\ l.ans = loc[t].ans
        /\ l.target = loc[t].target /\ l.nod = loc[t].nod /\ l.cand = c /\ l.par = loc[t].par
    BY <2>2, Mine DEF Local
  <2>4. loc' = [loc EXCEPT ![t] = l] /\ pc' = [pc EXCEPT ![t] = "load"]
    BY <1>3 DEF ReadChild, Goto, c
  <2>5. OwnAt("load", l) = Own(t) /\ "load" \in Label
    BY <1>1 DEF OwnAt, Label
  <2> HIDE DEF l
  <2>6. Does(t) /\ Typed' /\ Shape(page', alloc') /\ loc'[t] = l /\ pc'[t] = "load"
    BY <1>1, <2>3, <2>4, <2>5, Mine, PlainStep
  <2>7. CandBelow(t)'
    BY <1>1, <2>1, <2>3, <2>6 DEF CandBelow, Inside, Par, K, c
  <2>8. Bounds(t)'
    BY <1>1, <2>2, <2>3, <2>6, Mine DEF Bounds, Par, Nod
  <2>9. Calls(t)'
    BY <1>1, <2>3, <2>6, Mine DEF Calls, Knows
  <2>10. Way(t)' /\ Found(t)' /\ Holds(t)'
    BY <2>6, <2>7 DEF Way, Found, Holds, Keeping
  <2>q. QED
    BY <2>6, <2>8, <2>9, <2>10 DEF Kept, Knows
<1>q. QED
  BY <1>2, <1>3

\* The guard on the child is taken; the parent's says whether it is the child.
LEMMA LoadChildStep ==
  ASSUME IInv, NEW t \in Thread, LoadChild(t)
  PROVE  Kept(t)
<1> DEFINE c == loc[t].cand
           x == IF KeepsParent(t) /\ Goal(t, c) THEN "leaf" ELSE "recheck"
           l == [loc[t] EXCEPT !.nod = NewGuard(c)]
<1>1. pc[t] = "load" /\ Own(t) = {} /\ page' = page /\ alloc' = alloc /\ xlock' = xlock
      /\ slock' = slock /\ scene' = scene /\ loaded' = loaded
      /\ loc' = [loc EXCEPT ![t] = l] /\ pc' = [pc EXCEPT ![t] = x]
  BY DEF LoadChild, Goto, tree, latch, load, Own, OwnAt
<1>2. c \in Page /\ c < alloc
  BY Mine
<1>3. NewGuard(c) \in Guard /\ NewGuard(c).pid = c
  BY <1>2, Mine, NewGuardIs
<1>4. x \in {"leaf", "recheck"} /\ (x = "leaf" <=> KeepsParent(t) /\ Goal(t, c))
  OBVIOUS
<1> HIDE DEF c, x
<1>5. l \in Local /\ l.op = loc[t].op /\ l.key = loc[t].key /\ l.ans = loc[t].ans
      /\ l.target = loc[t].target /\ l.nod.pid = c /\ l.cand = c /\ l.par = loc[t].par
  BY <1>2, <1>3, Mine DEF Local, c
<1>6. OwnAt(x, l) = Own(t) /\ x \in Label
  BY <1>1, <1>4 DEF OwnAt, Label
<1> HIDE DEF l
<1>7. Does(t) /\ Typed' /\ Shape(page', alloc') /\ loc'[t] = l /\ pc'[t] = x
  BY <1>1, <1>5, <1>6, Mine, PlainStep
<1>8. QPar(t)' => NodBelow(t)'
  <2>1. QPar(t) => CandBelow(t)
    BY <1>1, Mine DEF Knows, Way
  <2>q. QED
    BY <1>1, <1>5, <1>7, <2>1 DEF CandBelow, NodBelow, Inside, Par, Nod, K, QPar, c
<1>9. Bounds(t)'
  BY <1>1, <1>2, <1>4, <1>5, <1>7, Mine DEF Bounds, Par, Nod
<1>10. Calls(t)'
  BY <1>1, <1>4, <1>5, <1>7, Mine DEF Calls, Knows
<1>11. Way(t)'
  <2>1. x = "leaf" => KeepsParent(t)' /\ AtGoal(t)'
    BY <1>1, <1>4, <1>5, <1>7 DEF KeepsParent, AtGoal, Goal, Nod
  <2>q. QED
    BY <1>4, <1>7, <1>8, <2>1 DEF Way, Keeping
<1>12. Found(t)' /\ Holds(t)'
  BY <1>4, <1>7 DEF Found, Holds
<1>q. QED
  BY <1>7, <1>9, <1>10, <1>11, <1>12 DEF Kept, Knows

\* The parent is checked after the child's guard was taken: the child it has
\* is the one that has the key, and a leaf among them is the key's home.
LEMMA RecheckStep ==
  ASSUME IInv, NEW t \in Thread, Recheck(t)
  PROVE  Kept(t)
<1>1. pc[t] = "recheck" /\ Own(t) = {} /\ page' = page /\ alloc' = alloc /\ xlock' = xlock
      /\ slock' = slock /\ scene' = scene /\ loaded' = loaded
  BY DEF Recheck, tree, latch, load, Own, OwnAt
<1>2. CASE ~CheckOk(loc[t].par)
  BY <1>1, <1>2, RestartStep DEF Recheck
<1>3. CASE CheckOk(loc[t].par)
  <2> DEFINE goal == Goal(t, Nod(t))
             l == [loc[t] EXCEPT !.par = IF goal THEN NoGuard ELSE loc[t].nod,
                                 !.nod = IF goal THEN @ ELSE NoGuard,
                                 !.cand = None]
             x == IF goal THEN "leaf" ELSE "child"
  <2>1. NodBelow(t)
    BY <1>1, <1>3, Mine, QuietIsOk DEF Knows, Way
  <2>2. /\ Nod(t) # Meta /\ Encloses(page[Nod(t)], K(t))
        /\ page[Nod(t)].leaf => LiveLeaf(page, Nod(t))
    BY <1>1, <2>1, Below, Mine DEF NodBelow
  <2>3. loc' = [loc EXCEPT ![t] = l] /\ pc' = [pc EXCEPT ![t] = x]
    BY <1>3 DEF Recheck, Goto
  <2>4. loc[t].par \in Guard /\ loc[t].nod \in Guard /\ NoGuard \in Guard
        /\ NoGuard.pid = None /\ NoGuard.fresh = FALSE
    BY Mine, LocalFacts
  <2>5. l \in Local /\ l.op = loc[t].op /\ l.key = loc[t].key /\ l.ans = loc[t].ans
        /\ l.target = loc[t].target /\ l.cand = None
        /\ l.par = (IF goal THEN NoGuard ELSE loc[t].nod)
        /\ l.nod = (IF goal THEN loc[t].nod ELSE NoGuard)
    <3> HIDE DEF goal
    <3>q. QED
      BY <2>4, Mine, Numbers DEF Local
  <2>6. OwnAt(x, l) = Own(t) /\ x \in Label
    BY <1>1 DEF OwnAt, Label
  <2>7. goal <=> page[Nod(t)].leaf \/ Nod(t) = loc[t].target
    BY DEF Goal
  <2>8. (x = "leaf" <=> goal) /\ (x = "child" <=> ~goal)
    OBVIOUS
  <2> HIDE DEF l, goal, x
  <2>9. Does(t) /\ Typed' /\ Shape(page', alloc') /\ loc'[t] = l /\ pc'[t] = x
    BY <1>1, <2>3, <2>5, <2>6, Mine, PlainStep
  <2>10. Bounds(t)'
    BY <1>1, <2>4, <2>5, <2>8, <2>9, Mine DEF Bounds, Par, Nod, None
  <2>11. Calls(t)'
    BY <1>1, <2>5, <2>8, <2>9, Mine DEF Calls, Knows
  <2>12. CASE goal
    <3>1. AtGoal(t)'
      BY <1>1, <2>5, <2>7, <2>9, <2>12 DEF AtGoal, Nod
    <3>2. ~QPar(t)'
      BY <2>4, <2>5, <2>9, <2>12 DEF QPar
    <3>3. ~KeepsParent(t)' => Home(t)'
      BY <1>1, <2>2, <2>5, <2>7, <2>9, <2>12 DEF Home, KeepsParent, Nod, K, Meta, None
    <3>q. QED
      BY <2>8, <2>9, <2>10, <2>11, <2>12, <3>1, <3>2, <3>3
      DEF Kept, Knows, Way, Keeping, Found, Holds
  <2>13. CASE ~goal
    <3>1. Inside(t)'
      BY <1>1, <2>2, <2>5, <2>7, <2>9, <2>13 DEF Inside, Par, Nod, K
    <3>q. QED
      BY <2>8, <2>9, <2>10, <2>11, <2>13, <3>1 DEF Kept, Knows, Way, Keeping, Found, Holds
  <2>q. QED
    BY <2>12, <2>13
<1>q. QED
  BY <1>2, <1>3

\* A step that only goes on, after a read that it does not remember.
LEMMA GotoStep ==
  ASSUME IInv, NEW t \in Thread, NEW x \in Label, Goto(t, x), loc' = loc,
         x \notin {"idle", "split", "lockRight", "merge", "unlockNode"},
         OwnAt(x, loc[t]) = Own(t),
         page' = page, alloc' = alloc, xlock' = xlock, scene' = scene,
         slock' \in [Page -> SUBSET Thread], loaded' = loaded
  PROVE  /\ Does(t) /\ Typed' /\ Shape(page', alloc') /\ pc'[t] = x /\ Bounds(t)'
         /\ QPar(t)' <=> QPar(t)
         /\ QNod(t)' <=> QNod(t)
         /\ KeepsParent(t)' <=> KeepsParent(t)
         /\ AtGoal(t)' <=> AtGoal(t)
         /\ NodBelow(t)' <=> NodBelow(t)
         /\ Home(t)' <=> Home(t)
         /\ Par(t)' = Par(t) /\ Nod(t)' = Nod(t) /\ K(t)' = K(t)
<1>1. loc' = [loc EXCEPT ![t] = loc[t]] /\ pc' = [pc EXCEPT ![t] = x]
  BY Mine DEF Goto
<1>2. Does(t) /\ Typed' /\ Shape(page', alloc') /\ pc'[t] = x
  BY <1>1, Mine, PlainStep
<1>3. Bounds(t)'
  BY <1>2, Mine DEF Bounds, Par, Nod
<1>4. /\ QPar(t)' <=> QPar(t)
      /\ QNod(t)' <=> QNod(t)
      /\ KeepsParent(t)' <=> KeepsParent(t)
      /\ Par(t)' = Par(t) /\ Nod(t)' = Nod(t) /\ K(t)' = K(t)
  BY DEF QPar, QNod, KeepsParent, Par, Nod, K
<1>5. /\ AtGoal(t)' <=> AtGoal(t)
      /\ NodBelow(t)' <=> NodBelow(t)
      /\ Home(t)' <=> Home(t)
  BY <1>4 DEF AtGoal, NodBelow, Inside, Home
<1>q. QED
  BY <1>2, <1>3, <1>4, <1>5

\* A lookup answers under a quiet guard, or starts again.
LEMMA LookupStep ==
  ASSUME IInv, NEW t \in Thread, Lookup(t)
  PROVE  Kept(t)
<1>1. pc[t] = "leaf" /\ Own(t) = {} /\ page' = page /\ alloc' = alloc /\ xlock' = xlock
      /\ slock' = slock /\ scene' = scene /\ loaded' = loaded
  BY DEF Lookup, AtLeaf, tree, latch, load, Own, OwnAt
<1>2. CASE ~CheckOk(loc[t].nod)
  BY <1>1, <1>2, RestartStep DEF Lookup
<1>3. CASE CheckOk(loc[t].nod)
  <2> DEFINE a == At(page[Nod(t)].slot, K(t))
  <2>1. QNod(t) /\ Home(t)
    BY <1>1, <1>3, Mine, QuietIsOk DEF Knows, Way, Lookup, AtLeaf, KeepsParent
  <2>2. page[Nod(t)].leaf
    BY <2>1 DEF Home, LiveLeaf
  <2>3. a \in Value \union {"absent"}
    BY <2>2, Mine DEF Shape, Payloads, At, Keys
  <2>4. a \in Answer /\ a # "pending" /\ Return(t, a)
    BY <1>3, <2>3 DEF Answer, Value, Lookup
  <2> HIDE DEF a
  <2>q. QED
    BY <1>1, <2>4, Mine, ReturnStep
<1>q. QED
  BY <1>2, <1>3

\* An update has found its key, or answers that there is none.
LEMMA UpdateStep ==
  ASSUME IInv, NEW t \in Thread, Update(t)
  PROVE  Kept(t)
<1>1. pc[t] = "leaf" /\ Own(t) = {} /\ page' = page /\ alloc' = alloc /\ xlock' = xlock
      /\ slock' = slock /\ scene' = scene /\ loaded' = loaded
      /\ loc[t].op.kind = "update" /\ loc[t].target = None
  BY DEF Update, AtLeaf, tree, latch, load, Own, OwnAt
<1> DEFINE has == K(t) \in Keys(page[Nod(t)])
<1>2. PICK found \in Told(loc[t].nod, has) :
        \/ found /\ Goto(t, "lockLeaf") /\ UNCHANGED <<loc, history>>
        \/ ~found /\ CheckOk(loc[t].nod) /\ Return(t, "absent")
        \/ ~found /\ ~CheckOk(loc[t].nod) /\ Restart(t) /\ UNCHANGED history
  BY DEF Update
<1>3. CASE found /\ Goto(t, "lockLeaf") /\ UNCHANGED <<loc, history>>
  <2>1. OwnAt("lockLeaf", loc[t]) = Own(t) /\ "lockLeaf" \in Label
    BY <1>1 DEF OwnAt, Label
  <2>2. /\ Does(t) /\ Typed' /\ Shape(page', alloc') /\ pc'[t] = "lockLeaf" /\ Bounds(t)'
        /\ QNod(t)' <=> QNod(t)
        /\ KeepsParent(t)' <=> KeepsParent(t)
        /\ Home(t)' <=> Home(t)
        /\ Nod(t)' = Nod(t) /\ K(t)' = K(t)
    BY <1>1, <1>3, <2>1, Mine, GotoStep
  <2>3. ~KeepsParent(t) /\ (QNod(t) => Home(t))
    BY <1>1, Mine DEF KeepsParent, Knows, Way
  <2>4. QNod(t) => has
    BY <1>1, <1>2, <1>3, Mine, QuietIsOk DEF Told
  <2>5. Calls(t)'
    BY <1>1, <1>3, <2>2, Mine DEF Calls, Knows
  <2>6. Way(t)'
    BY <2>2, <2>3 DEF Way, Keeping
  <2>7. Found(t)' /\ Holds(t)'
    BY <1>1, <2>2, <2>4 DEF Found, Holds
  <2>q. QED
    BY <2>2, <2>5, <2>6, <2>7 DEF Kept, Knows
<1>4. CASE ~found /\ CheckOk(loc[t].nod) /\ Return(t, "absent")
  <2>1. "absent" \in Answer
    BY DEF Answer
  <2>q. QED
    BY <1>1, <1>4, <2>1, Mine, ReturnStep
<1>5. CASE ~found /\ ~CheckOk(loc[t].nod) /\ Restart(t) /\ UNCHANGED history
  BY <1>1, <1>5, RestartStep
<1>q. QED
  BY <1>2, <1>3, <1>4, <1>5

\* An insert locks a leaf with space, or goes on to split it.
LEMMA InsertStep ==
  ASSUME IInv, NEW t \in Thread, Insert(t)
  PROVE  Kept(t)
<1>1. pc[t] = "leaf" /\ Own(t) = {} /\ page' = page /\ alloc' = alloc /\ xlock' = xlock
      /\ slock' = slock /\ scene' = scene /\ loaded' = loaded /\ loc' = loc
      /\ loc[t].op.kind = "insert" /\ loc[t].target = None
  BY DEF Insert, AtLeaf, tree, latch, load, Own, OwnAt
<1>2. PICK space \in Told(loc[t].nod, HasSpace(page[Nod(t)])) :
        Goto(t, IF space THEN "lockLeaf" ELSE "lockParent")
  BY DEF Insert
<1> DEFINE x == IF space THEN "lockLeaf" ELSE "lockParent"
<1>3. x \in {"lockLeaf", "lockParent"} /\ (x = "lockParent" <=> ~space) /\ Goto(t, x)
  BY <1>2
<1> HIDE DEF x
<1>4. OwnAt(x, loc[t]) = Own(t) /\ x \in Label
  BY <1>1, <1>3 DEF OwnAt, Label
<1>5. /\ Does(t) /\ Typed' /\ Shape(page', alloc') /\ pc'[t] = x /\ Bounds(t)'
      /\ QPar(t)' <=> QPar(t)
      /\ QNod(t)' <=> QNod(t)
      /\ KeepsParent(t)' <=> KeepsParent(t)
      /\ AtGoal(t)' <=> AtGoal(t)
      /\ NodBelow(t)' <=> NodBelow(t)
      /\ Nod(t)' = Nod(t)
  BY <1>1, <1>3, <1>4, Mine, GotoStep
<1>6. KeepsParent(t) /\ AtGoal(t) /\ (QPar(t) => NodBelow(t))
  BY <1>1, Mine DEF KeepsParent, Knows, Way, Keeping
<1>7. x = "lockParent" => (QNod(t) => ~HasSpace(page[Nod(t)]))
  BY <1>1, <1>2, <1>3, Mine, QuietIsOk DEF Told
<1>8. Calls(t)'
  BY <1>1, <1>3, <1>5, Mine DEF Calls, Knows
<1>9. Way(t)'
  BY <1>3, <1>5, <1>6 DEF Way, Keeping
<1>10. Found(t)' /\ Holds(t)'
  BY <1>1, <1>3, <1>5, <1>7 DEF Found, Holds
<1>q. QED
  BY <1>5, <1>8, <1>9, <1>10 DEF Kept, Knows

\* What a remove has read of the leaf and of its parent, while they are quiet.
LEMMA RemoveStep ==
  ASSUME IInv, NEW t \in Thread, Remove(t)
  PROVE  Kept(t)
<1>1. pc[t] = "leaf" /\ Own(t) = {} /\ page' = page /\ alloc' = alloc /\ xlock' = xlock
      /\ slock' = slock /\ scene' = scene /\ loaded' = loaded /\ loc' = loc
      /\ loc[t].op.kind = "remove" /\ loc[t].target = None
  BY DEF Remove, AtLeaf, tree, latch, load, Own, OwnAt
<1> DEFINE has == K(t) \in Keys(page[Nod(t)])
           may == MayMerge(page[Nod(t)], page[Par(t)], K(t))
           merges == IF CheckOk(loc[t].nod) THEN Told(loc[t].par, may) ELSE BOOLEAN
<1>2. PICK found \in Told(loc[t].nod, has) : \E merge \in merges :
        Goto(t, IF ~found THEN "checkNode"
                ELSE IF merge /\ Par(t) # Meta THEN "lockParent" ELSE "lockLeaf")
  BY DEF Remove
<1>3. PICK merge \in merges :
        Goto(t, IF ~found THEN "checkNode"
                ELSE IF merge /\ Par(t) # Meta THEN "lockParent" ELSE "lockLeaf")
  BY <1>2
<1> DEFINE x == IF ~found THEN "checkNode"
                ELSE IF merge /\ Par(t) # Meta THEN "lockParent" ELSE "lockLeaf"
<1>4. /\ x \in {"lockLeaf", "lockParent", "checkNode"} /\ Goto(t, x)
      /\ x # "checkNode" => found
      /\ x = "checkNode" => ~found
      /\ x = "lockParent" => merge
  BY <1>3
<1>5. QNod(t) => (found <=> has)
  BY <1>1, <1>2, Mine, QuietIsOk DEF Told
<1>6. QNod(t) /\ QPar(t) => (merge => Above(page[Par(t)], K(t)) # {})
  <2>1. QNod(t) /\ QPar(t) => (merge => may)
    BY <1>1, <1>3, Mine, QuietIsOk DEF Told
  <2>2. may => Above(page[Par(t)], K(t)) # {}
    BY FS_EmptySet DEF MayMerge
  <2>q. QED
    BY <2>1, <2>2
<1> HIDE DEF x, has, may
<1>7. OwnAt(x, loc[t]) = Own(t) /\ x \in Label
  BY <1>1, <1>4 DEF OwnAt, Label
<1>8. /\ Does(t) /\ Typed' /\ Shape(page', alloc') /\ pc'[t] = x /\ Bounds(t)'
      /\ QPar(t)' <=> QPar(t)
      /\ QNod(t)' <=> QNod(t)
      /\ KeepsParent(t)' <=> KeepsParent(t)
      /\ AtGoal(t)' <=> AtGoal(t)
      /\ NodBelow(t)' <=> NodBelow(t)
      /\ Par(t)' = Par(t) /\ Nod(t)' = Nod(t) /\ K(t)' = K(t)
  BY <1>1, <1>4, <1>7, Mine, GotoStep
<1>9. KeepsParent(t) /\ AtGoal(t) /\ (QPar(t) => NodBelow(t))
  BY <1>1, Mine DEF KeepsParent, Knows, Way, Keeping
<1>10. Calls(t)'
  BY <1>1, <1>4, <1>8, Mine DEF Calls, Knows
<1>11. Way(t)'
  BY <1>4, <1>8, <1>9 DEF Way, Keeping
<1>12. Found(t)' /\ Holds(t)'
  BY <1>1, <1>4, <1>5, <1>6, <1>8 DEF Found, Holds, has
<1>q. QED
  BY <1>8, <1>10, <1>11, <1>12 DEF Kept, Knows

\* ensureSpace has arrived at the node to split, or the node has gone.
LEMMA EnsureSpaceStep ==
  ASSUME IInv, NEW t \in Thread, EnsureSpace(t)
  PROVE  Kept(t)
<1>1. pc[t] = "leaf" /\ Own(t) = {} /\ page' = page /\ alloc' = alloc /\ xlock' = xlock
      /\ slock' = slock /\ scene' = scene /\ loaded' = loaded /\ loc' = loc
      /\ loc[t].target # None
  BY DEF EnsureSpace, tree, latch, load, Own, OwnAt
<1>2. PICK space \in Told(loc[t].nod, HasSpace(page[Nod(t)])) :
        Goto(t, IF Nod(t) # loc[t].target \/ space THEN "checkNode" ELSE "lockParent")
  BY DEF EnsureSpace
<1> DEFINE x == IF Nod(t) # loc[t].target \/ space THEN "checkNode" ELSE "lockParent"
<1>3. x \in {"checkNode", "lockParent"} /\ (x = "lockParent" => ~space) /\ Goto(t, x)
  BY <1>2
<1> HIDE DEF x
<1>4. OwnAt(x, loc[t]) = Own(t) /\ x \in Label
  BY <1>1, <1>3 DEF OwnAt, Label
<1>5. /\ Does(t) /\ Typed' /\ Shape(page', alloc') /\ pc'[t] = x /\ Bounds(t)'
      /\ QPar(t)' <=> QPar(t)
      /\ QNod(t)' <=> QNod(t)
      /\ KeepsParent(t)' <=> KeepsParent(t)
      /\ AtGoal(t)' <=> AtGoal(t)
      /\ NodBelow(t)' <=> NodBelow(t)
      /\ Nod(t)' = Nod(t)
  BY <1>1, <1>3, <1>4, Mine, GotoStep
<1>6. loc[t].op.kind = "insert" /\ KeepsParent(t) /\ AtGoal(t) /\ (QPar(t) => NodBelow(t))
  BY <1>1, Mine DEF KeepsParent, Knows, Way, Keeping, Calls
<1>7. x = "lockParent" => (QNod(t) => ~HasSpace(page[Nod(t)]))
  BY <1>1, <1>2, <1>3, Mine, QuietIsOk DEF Told
<1>8. Calls(t)'
  BY <1>1, <1>3, <1>5, <1>6, Mine DEF Calls, Knows
<1>9. Way(t)'
  BY <1>3, <1>5, <1>6 DEF Way, Keeping
<1>10. Found(t)' /\ Holds(t)'
  BY <1>1, <1>3, <1>5, <1>6, <1>7 DEF Found, Holds
<1>q. QED
  BY <1>5, <1>8, <1>9, <1>10 DEF Kept, Knows

\* What was found in a node holds if the node is as it was.
LEMMA CheckNodeStep ==
  ASSUME IInv, NEW t \in Thread, CheckNode(t)
  PROVE  Kept(t)
<1>1. pc[t] = "checkNode" /\ Own(t) = {} /\ page' = page /\ alloc' = alloc /\ xlock' = xlock
      /\ slock' = slock /\ scene' = scene /\ loaded' = loaded
  BY DEF CheckNode, tree, latch, load, Own, OwnAt
<1>2. CASE ~CheckOk(loc[t].nod)
  BY <1>1, <1>2, RestartStep DEF CheckNode
<1>3. CASE CheckOk(loc[t].nod)
  <2>1. Goto(t, "checkParent") /\ loc' = loc
    BY <1>3 DEF CheckNode
  <2>2. OwnAt("checkParent", loc[t]) = Own(t) /\ "checkParent" \in Label
    BY <1>1 DEF OwnAt, Label
  <2>3. /\ Does(t) /\ Typed' /\ Shape(page', alloc') /\ pc'[t] = "checkParent" /\ Bounds(t)'
        /\ QPar(t)' <=> QPar(t)
        /\ KeepsParent(t)' <=> KeepsParent(t)
        /\ AtGoal(t)' <=> AtGoal(t)
        /\ NodBelow(t)' <=> NodBelow(t)
    BY <1>1, <2>1, <2>2, Mine, GotoStep
  <2>4. Calls(t)'
    BY <1>1, <2>1, <2>3, Mine DEF Calls, Knows
  <2>5. Way(t)'
    BY <1>1, <2>3, Mine DEF Way, Keeping, Knows
  <2>6. Found(t)' /\ Holds(t)'
    BY <2>3 DEF Found, Holds
  <2>q. QED
    BY <2>3, <2>4, <2>5, <2>6 DEF Kept, Knows
<1>q. QED
  BY <1>2, <1>3

\* What was found holds if the parent still has the node.
LEMMA CheckParentStep ==
  ASSUME IInv, NEW t \in Thread, CheckParent(t)
  PROVE  Kept(t)
<1>1. pc[t] = "checkParent" /\ Own(t) = {} /\ page' = page /\ alloc' = alloc /\ xlock' = xlock
      /\ slock' = slock /\ scene' = scene /\ loaded' = loaded
  BY DEF CheckParent, tree, latch, load, Own, OwnAt
<1>2. CASE ~CheckOk(loc[t].par)
  BY <1>1, <1>2, RestartStep DEF CheckParent
<1>3. CASE CheckOk(loc[t].par) /\ loc[t].target = None
  <2>1. "absent" \in Answer /\ Return(t, "absent")
    BY <1>3 DEF Answer, CheckParent
  <2>q. QED
    BY <1>1, <2>1, Mine, ReturnStep
<1>4. CASE CheckOk(loc[t].par) /\ loc[t].target # None
  <2> DEFINE l == Again(loc[t])
  <2>1. loc' = [loc EXCEPT ![t] = l] /\ pc' = [pc EXCEPT ![t] = "start"]
    BY <1>4 DEF CheckParent, Goto
  <2>2. Start(loc[t]) \in Local /\ Start(loc[t]).op = loc[t].op /\ Start(loc[t]).ans = loc[t].ans
        /\ Start(loc[t]).par = NoGuard /\ Start(loc[t]).nod = NoGuard /\ Start(loc[t]).cand = None
    BY Mine, LocalFacts
  <2>3. loc[t].op \in Op /\ loc[t].op.key \in Key /\ loc[t].op.key \in 0 .. NKeys
    BY <1>1, Mine, Numbers DEF Op
  <2>4. l \in Local /\ l.op = loc[t].op /\ l.ans = loc[t].ans /\ l.key = loc[t].op.key
        /\ l.target = None /\ l.par.pid = None /\ l.nod.pid = None /\ l.cand = None
    BY <2>2, <2>3, Numbers, Mine, LocalFacts DEF Again, Local
  <2>5. OwnAt("start", l) = Own(t) /\ "start" \in Label
    BY <1>1 DEF OwnAt, Label
  <2> HIDE DEF l
  <2>6. Does(t) /\ Typed' /\ Shape(page', alloc') /\ loc'[t] = l /\ pc'[t] = "start"
    BY <1>1, <2>1, <2>4, <2>5, Mine, PlainStep
  <2>7. l.ans = "pending"
    BY <1>1, <2>4, Mine DEF Knows, Calls
  <2>8. Knows(t)'
    BY <1>1, <2>3, <2>4, <2>6, <2>7, Mine, StartKnows
  <2>q. QED
    BY <2>6, <2>8 DEF Kept
<1>q. QED
  BY <1>2, <1>3, <1>4

\* A thread locks a page that nobody has locked.
LEMMA LockStep ==
  ASSUME IInv, NEW t \in Thread, NEW p \in Page, NEW x \in Label, NEW l \in Local,
         xlock[p] = {}, xlock' = [xlock EXCEPT ![p] = {t}],
         loc' = [loc EXCEPT ![t] = l], pc' = [pc EXCEPT ![t] = x],
         OwnAt(x, l) = Own(t) \union {p},
         page' = page, alloc' = alloc, scene' = scene, slock' = slock, loaded' = loaded
  PROVE  Does(t) /\ Typed' /\ Shape(page', alloc') /\ loc'[t] = l /\ pc'[t] = x /\ xlock'[p] = {t}
<1>1. loc'[t] = l /\ pc'[t] = x /\ xlock'[p] = {t}
  BY Mine
<1>2. Own(t)' = Own(t) \union {p}
  BY <1>1 DEF Own
<1>3. Typed'
  BY Mine DEF Typed
<1>4. p \notin Own(t)
  BY Mine DEF Latches
<1>5. ASSUME NEW u \in Thread, u # t PROVE Spares(t, u)
  <2>1. loc'[u] = loc[u] /\ pc'[u] = pc[u]
    BY <1>5, Mine
  <2>q. QED
    BY <1>2, <2>1 DEF Spares, Same
<1>6. Locks(t)
  <2>1. ASSUME NEW q \in Page
        PROVE  xlock'[q] = IF q \in Own(t)' THEN {t} ELSE IF q \in Own(t) THEN {} ELSE xlock[q]
    <3>1. CASE q = p
      BY <1>1, <1>2, <3>1
    <3>2. CASE q # p
      <4>1. xlock'[q] = xlock[q] /\ (q \in Own(t)' <=> q \in Own(t))
        BY <1>2, <3>2, Mine
      <4>2. q \in Own(t) => xlock[q] = {t}
        BY Mine DEF Latches
      <4>q. QED
        BY <4>1, <4>2
    <3>q. QED
      BY <3>1, <3>2
  <2>q. QED
    BY <1>2, <2>1 DEF Locks
<1>7. Pages(t) /\ Shape(page', alloc')
  BY Mine DEF Pages
<1>q. QED
  BY <1>1, <1>3, <1>5, <1>6, <1>7 DEF Does

Drops(t, l, p) == loc' = Expire([loc EXCEPT ![t] = l], p)
Unlocks(t, p, x, l) ==
  /\ p \in Own(t) /\ xlock' = [xlock EXCEPT ![p] = {}]
  /\ Drops(t, l, p) /\ pc' = [pc EXCEPT ![t] = x] /\ OwnAt(x, l) = Own(t) \ {p}
  /\ scene' = scene /\ slock' = slock /\ loaded' = loaded

\* A thread unlocks a page that it has locked.
LEMMA UnlockStep ==
  ASSUME IInv, NEW t \in Thread, NEW p \in Page, NEW x \in Label, NEW l \in Local,
         Unlocks(t, p, x, l), Pages(t), Shape(page', alloc')
  PROVE  /\ Does(t) /\ Typed' /\ Shape(page', alloc') /\ pc'[t] = x
         /\ xlock'[p] = {} /\ \A q \in Page \ {p} : xlock'[q] = xlock[q]
         /\ loc'[t] \in Local /\ Same(loc'[t], l)
         /\ loc'[t].par.fresh <=> l.par.fresh /\ l.par.pid # p
         /\ loc'[t].nod.fresh <=> l.nod.fresh /\ l.nod.pid # p
<1> USE DEF Unlocks
<1> DEFINE ll == [loc EXCEPT ![t] = l]
<1>1. ll \in [Thread -> Local] /\ ll[t] = l /\ \A u \in Thread \ {t} : ll[u] = loc[u]
  BY Mine
<1> HIDE DEF ll
<1>2. /\ loc' \in [Thread -> Local]
      /\ \A u \in Thread :
           /\ Same(loc'[u], ll[u])
           /\ loc'[u].par.fresh <=> ll[u].par.fresh /\ ll[u].par.pid # p
           /\ loc'[u].nod.fresh <=> ll[u].nod.fresh /\ ll[u].nod.pid # p
  <2>1. loc' = Expire(ll, p)
    BY DEF ll, Drops
  <2>q. QED
    BY <1>1, <2>1, ExpireFacts
<1>3. /\ loc'[t] \in Local /\ Same(loc'[t], l)
      /\ loc'[t].par.fresh <=> l.par.fresh /\ l.par.pid # p
      /\ loc'[t].nod.fresh <=> l.nod.fresh /\ l.nod.pid # p
  BY <1>1, <1>2
<1>4. /\ pc'[t] = x /\ xlock'[p] = {} /\ \A q \in Page \ {p} : xlock'[q] = xlock[q]
      /\ \A u \in Thread \ {t} : pc'[u] = pc[u]
  BY Mine
<1>5. Own(t)' = Own(t) \ {p}
  <2>1. OwnAt(x, loc'[t]) = OwnAt(x, l)
    BY <1>3 DEF OwnAt, Same
  <2>q. QED
    BY <1>4, <2>1 DEF Own
<1>6. Typed'
  BY <1>2, Mine DEF Typed
<1>7. ASSUME NEW u \in Thread, u # t PROVE Spares(t, u)
  <2>1. Own(t) \ Own(t)' = {p}
    BY <1>5
  <2>2. loc[u] = ll[u] /\ pc'[u] = pc[u]
    BY <1>1, <1>4, <1>7
  <2>3. /\ Same(loc'[u], loc[u])
        /\ loc'[u].par.fresh <=> loc[u].par.fresh /\ loc[u].par.pid # p
        /\ loc'[u].nod.fresh <=> loc[u].nod.fresh /\ loc[u].nod.pid # p
    BY <1>2, <2>2
  <2>q. QED
    BY <2>1, <2>2, <2>3 DEF Spares
<1>8. Locks(t)
  <2>1. ASSUME NEW q \in Page
        PROVE  xlock'[q] = IF q \in Own(t)' THEN {t} ELSE IF q \in Own(t) THEN {} ELSE xlock[q]
    <3>1. q \in Own(t) => xlock[q] = {t}
      BY Mine DEF Latches
    <3>q. QED
      BY <1>4, <1>5, <3>1
  <2>q. QED
    BY <1>5, <2>1 DEF Locks
<1>q. QED
  BY <1>3, <1>4, <1>6, <1>7, <1>8 DEF Does

\* A thread unlocks a page and starts its call again.
LEMMA AbandonStep ==
  ASSUME IInv, NEW t \in Thread, NEW p \in Page, Own(t) = {p}, pc[t] # "idle",
         loc[t].ans = "pending",
         xlock' = [xlock EXCEPT ![p] = {}], Goto(t, "start"),
         Drops(t, Start(loc[t]), p),
         page' = page, alloc' = alloc, scene' = scene, slock' = slock, loaded' = loaded
  PROVE  Kept(t)
<1> DEFINE l == Start(loc[t])
<1>1. /\ l \in Local /\ l.op = loc[t].op /\ l.ans = loc[t].ans
      /\ l.key = loc[t].key /\ l.target = loc[t].target
      /\ l.par.pid = None /\ l.nod.pid = None /\ l.cand = None
  <2>1. loc[t] \in Local
    BY Mine
  <2>2. NoGuard.pid = None
    BY DEF NoGuard
  <2>q. QED
    BY <2>1, <2>2, LocalFacts
<1>2. Drops(t, l, p) /\ pc' = [pc EXCEPT ![t] = "start"]
  BY DEF Goto
<1> HIDE DEF l
<1>3. OwnAt("start", l) = Own(t) \ {p} /\ p \in Own(t) /\ "start" \in Label
  BY DEF OwnAt, Label
<1>4. Pages(t) /\ Shape(page', alloc')
  BY Mine DEF Pages
<1>5. /\ Does(t) /\ Typed' /\ Shape(page', alloc') /\ pc'[t] = "start"
      /\ loc'[t] \in Local /\ Same(loc'[t], l)
  <2>1. Unlocks(t, p, "start", l)
    BY <1>2, <1>3 DEF Unlocks
  <2>q. QED
    BY <1>1, <1>3, <1>4, <2>1, UnlockStep
<1>6. Calls(t)
  BY Mine DEF Knows
<1>7. Knows(t)'
  <2> DEFINE m == loc'[t]
  <2>1. m \in Local /\ loc'[t] = m /\ m.op \in Op /\ m.key \in Key /\ m.ans = "pending"
        /\ (m.target # None => m.op.kind = "insert")
        /\ (m.target = None /\ ~Scanning(m.op) => m.key = m.op.key)
        /\ m.par.pid = None /\ m.nod.pid = None /\ m.cand = None
    BY <1>1, <1>5, <1>6, Mine DEF Calls, Same
  <2> HIDE DEF m
  <2>q. QED
    BY <1>5, <2>1, Mine, StartKnows
<1>q. QED
  BY <1>5, <1>7 DEF Kept

\* Only a fresh guard is upgraded: the locked leaf is as it was when found.
LEMMA LockLeafStep ==
  ASSUME IInv, NEW t \in Thread, LockLeaf(t)
  PROVE  Kept(t)
<1>1. pc[t] = "lockLeaf" /\ Own(t) = {} /\ page' = page /\ alloc' = alloc
      /\ slock' = slock /\ scene' = scene /\ loaded' = loaded
  BY DEF LockLeaf, tree, load, Own, OwnAt
<1>2. CASE ~loc[t].nod.fresh
  BY <1>1, <1>2, RestartStep DEF LockLeaf
<1>3. CASE loc[t].nod.fresh
  <2> DEFINE x == IF KeepsParent(t) THEN "release" ELSE "write"
  <2>1. xlock[Nod(t)] = {} /\ xlock' = [xlock EXCEPT ![Nod(t)] = {t}] /\ loc' = loc
        /\ pc' = [pc EXCEPT ![t] = x] /\ loc' = [loc EXCEPT ![t] = loc[t]]
    BY <1>3, Mine DEF LockLeaf, CanLock, Locked, Goto
  <2>2. x \in {"release", "write"} /\ (x = "release" <=> KeepsParent(t))
    OBVIOUS
  <2> HIDE DEF x
  <2>3. OwnAt(x, loc[t]) = Own(t) \union {Nod(t)} /\ x \in Label
    BY <1>1, <2>2 DEF OwnAt, Label, Nod
  <2>4. Does(t) /\ Typed' /\ Shape(page', alloc') /\ pc'[t] = x /\ xlock'[Nod(t)] = {t}
    BY <1>1, <2>1, <2>3, Mine, LockStep
  <2>5. /\ Par(t)' = Par(t) /\ Nod(t)' = Nod(t) /\ K(t)' = K(t)
        /\ KeepsParent(t)' <=> KeepsParent(t)
        /\ AtGoal(t)' <=> AtGoal(t)
        /\ NodBelow(t)' <=> NodBelow(t)
        /\ Home(t)' <=> Home(t)
    BY <1>1, <2>1 DEF Par, Nod, K, KeepsParent, AtGoal, NodBelow, Inside, Home
  <2>6. QNod(t) /\ QNod(t)'
    BY <1>3, <2>1, <2>4 DEF QNod, Nod
  <2>7. QPar(t)' => QPar(t)
    <3>1. CASE Par(t) = Nod(t)
      BY <2>1, <3>1 DEF QPar, Par
    <3>2. CASE Par(t) # Nod(t)
      BY <2>1, <3>2, Mine DEF QPar, Par
    <3>q. QED
      BY <3>1, <3>2
  <2>8. Way(t) /\ Found(t) /\ Calls(t) /\ Bounds(t)
    BY Mine DEF Knows
  <2>9. Bounds(t)'
    BY <1>1, <2>1, <2>2, <2>4, <2>5, <2>8 DEF Bounds
  <2>10. Calls(t)'
    BY <1>1, <2>1, <2>2, <2>4, <2>8 DEF Calls, KeepsParent
  <2>11. Way(t)'
    BY <1>1, <2>2, <2>4, <2>5, <2>6, <2>7, <2>8 DEF Way, Keeping
  <2>12. Found(t)'
    BY <1>1, <2>1, <2>2, <2>4, <2>5, <2>6, <2>8 DEF Found
  <2>13. Holds(t)'
    BY <2>2, <2>4, <2>6 DEF Holds
  <2>q. QED
    BY <2>4, <2>9, <2>10, <2>11, <2>12, <2>13 DEF Kept, Knows
<1>q. QED
  BY <1>2, <1>3

\* The parent is let go if it still has the leaf that is locked.
LEMMA ReleaseParentStep ==
  ASSUME IInv, NEW t \in Thread, ReleaseParent(t)
  PROVE  Kept(t)
<1>1. pc[t] = "release" /\ Own(t) = {Nod(t)} /\ page' = page /\ alloc' = alloc
      /\ slock' = slock /\ scene' = scene /\ loaded' = loaded
  BY DEF ReleaseParent, tree, load, Own, OwnAt, Nod
<1>2. Way(t) /\ Found(t) /\ Calls(t) /\ Bounds(t) /\ Holds(t)
  BY Mine DEF Knows
<1>3. CASE ~CheckOk(loc[t].par)
  <2>1. loc[t].ans = "pending"
    BY <1>1, <1>2 DEF Calls
  <2>2. /\ xlock' = [xlock EXCEPT ![Nod(t)] = {}] /\ Goto(t, "start")
        /\ Drops(t, Start(loc[t]), Nod(t))
    BY <1>3 DEF ReleaseParent, Unlocked, Drops
  <2>q. QED
    BY <1>1, <2>1, <2>2, Mine, AbandonStep
<1>4. CASE CheckOk(loc[t].par)
  <2>1. xlock' = xlock /\ loc' = loc /\ Goto(t, "write")
    BY <1>4 DEF ReleaseParent
  <2>2. OwnAt("write", loc[t]) = Own(t) /\ "write" \in Label
    BY <1>1 DEF OwnAt, Label, Nod
  <2>3. /\ Does(t) /\ Typed' /\ Shape(page', alloc') /\ pc'[t] = "write" /\ Bounds(t)'
        /\ QNod(t)' <=> QNod(t)
        /\ Home(t)' <=> Home(t)
        /\ Nod(t)' = Nod(t) /\ K(t)' = K(t)
    BY <1>1, <2>1, <2>2, Mine, GotoStep
  <2>4. QPar(t)
    BY <1>4 DEF QPar, CheckOk
  <2>5. NodBelow(t) /\ page[Nod(t)].leaf
    <3>1. KeepsParent(t) /\ loc[t].target = None
      BY <1>1, <1>2 DEF Calls, KeepsParent
    <3>2. NodBelow(t) /\ AtGoal(t)
      BY <1>1, <1>2, <2>4, <3>1 DEF Way, Keeping
    <3>3. Nod(t) # Meta
      BY <1>1, <3>2, Mine, Below DEF NodBelow
    <3>q. QED
      BY <3>1, <3>2, <3>3 DEF AtGoal, Meta, None
  <2>6. Home(t)
    BY <1>1, <2>5, Mine, Below DEF NodBelow, Home
  <2>7. Calls(t)'
    BY <1>1, <1>2, <2>1, <2>3 DEF Calls
  <2>8. Way(t)'
    BY <2>3, <2>6 DEF Way, Keeping
  <2>9. Found(t)' /\ Holds(t)'
    BY <1>1, <1>2, <2>1, <2>3 DEF Found, Holds
  <2>q. QED
    BY <2>3, <2>7, <2>8, <2>9 DEF Kept, Knows
<1>q. QED
  BY <1>3, <1>4

\* The parent is locked first, as it was when the node was found.
LEMMA LockParentStep ==
  ASSUME IInv, NEW t \in Thread, LockParent(t)
  PROVE  Kept(t)
<1>1. pc[t] = "lockParent" /\ Own(t) = {} /\ page' = page /\ alloc' = alloc
      /\ slock' = slock /\ scene' = scene /\ loaded' = loaded
  BY DEF LockParent, tree, load, Own, OwnAt
<1>2. CASE ~loc[t].par.fresh
  BY <1>1, <1>2, RestartStep DEF LockParent
<1>3. CASE loc[t].par.fresh
  <2>1. xlock[Par(t)] = {} /\ xlock' = [xlock EXCEPT ![Par(t)] = {t}] /\ loc' = loc
        /\ pc' = [pc EXCEPT ![t] = "lockNode"] /\ loc' = [loc EXCEPT ![t] = loc[t]]
    BY <1>3, Mine DEF LockParent, CanLock, Locked, Goto
  <2>2. OwnAt("lockNode", loc[t]) = Own(t) \union {Par(t)} /\ "lockNode" \in Label
    BY <1>1 DEF OwnAt, Label, Par
  <2>3. Does(t) /\ Typed' /\ Shape(page', alloc') /\ pc'[t] = "lockNode" /\ xlock'[Par(t)] = {t}
    BY <1>1, <2>1, <2>2, Mine, LockStep
  <2>4. /\ Par(t)' = Par(t) /\ Nod(t)' = Nod(t) /\ K(t)' = K(t)
        /\ AtGoal(t)' <=> AtGoal(t)
        /\ NodBelow(t)' <=> NodBelow(t)
    BY <1>1, <2>1 DEF Par, Nod, K, AtGoal, NodBelow, Inside
  <2>5. QPar(t) /\ QPar(t)'
    BY <1>3, <2>1, <2>3 DEF QPar, Par
  <2>6. QNod(t)' => QNod(t)
    <3>1. CASE Par(t) = Nod(t)
      BY <2>1, <3>1 DEF QNod, Nod
    <3>2. CASE Par(t) # Nod(t)
      BY <2>1, <3>2, Mine DEF QNod, Nod
    <3>q. QED
      BY <3>1, <3>2
  <2>7. Way(t) /\ Found(t) /\ Calls(t) /\ Bounds(t)
    BY Mine DEF Knows
  <2>8. KeepsParent(t)
    BY <1>1, <2>7 DEF Calls, KeepsParent
  <2>9. Bounds(t)'
    BY <1>1, <2>1, <2>3, <2>4, <2>7 DEF Bounds
  <2>10. Calls(t)'
    BY <1>1, <2>1, <2>3, <2>7 DEF Calls
  <2>11. Way(t)'
    BY <1>1, <2>3, <2>4, <2>5, <2>7, <2>8 DEF Way, Keeping
  <2>12. Found(t)'
    BY <1>1, <2>1, <2>3, <2>4, <2>5, <2>6, <2>7 DEF Found
  <2>13. Holds(t)'
    BY <2>3, <2>5 DEF Holds
  <2>q. QED
    BY <2>3, <2>9, <2>10, <2>11, <2>12, <2>13 DEF Kept, Knows
<1>q. QED
  BY <1>2, <1>3

\* Then the node: both guards are quiet, so it is the parent's child.
LEMMA LockNodeStep ==
  ASSUME IInv, NEW t \in Thread, LockNode(t)
  PROVE  Kept(t)
<1>1. pc[t] = "lockNode" /\ Own(t) = {Par(t)} /\ page' = page /\ alloc' = alloc
      /\ slock' = slock /\ scene' = scene /\ loaded' = loaded
  BY DEF LockNode, tree, load, Own, OwnAt, Par
<1>2. Way(t) /\ Found(t) /\ Calls(t) /\ Bounds(t) /\ Holds(t)
  BY Mine DEF Knows
<1>3. CASE ~loc[t].nod.fresh
  <2>1. loc[t].ans = "pending"
    BY <1>1, <1>2 DEF Calls
  <2>2. /\ xlock' = [xlock EXCEPT ![Par(t)] = {}] /\ Goto(t, "start")
        /\ Drops(t, Start(loc[t]), Par(t))
    BY <1>3 DEF LockNode, Unlocked, Drops
  <2>q. QED
    BY <1>1, <2>1, <2>2, Mine, AbandonStep
<1>4. CASE loc[t].nod.fresh
  <2> DEFINE x == IF loc[t].op.kind = "remove" THEN "lockRight" ELSE "split"
  <2>1. xlock[Nod(t)] = {} /\ xlock' = [xlock EXCEPT ![Nod(t)] = {t}] /\ loc' = loc
        /\ pc' = [pc EXCEPT ![t] = x] /\ loc' = [loc EXCEPT ![t] = loc[t]]
    BY <1>4, Mine DEF LockNode, CanLock, Locked, Goto
  <2>2. x \in {"lockRight", "split"} /\ (x = "lockRight" <=> loc[t].op.kind = "remove")
    OBVIOUS
  <2> HIDE DEF x
  <2>3. OwnAt(x, loc[t]) = Own(t) \union {Nod(t)} /\ x \in Label
    BY <1>1, <2>2 DEF OwnAt, Label, Nod, Par
  <2>4. Does(t) /\ Typed' /\ Shape(page', alloc') /\ pc'[t] = x /\ xlock'[Nod(t)] = {t}
    BY <1>1, <2>1, <2>3, Mine, LockStep
  <2>5. /\ Par(t)' = Par(t) /\ Nod(t)' = Nod(t) /\ K(t)' = K(t)
        /\ AtGoal(t)' <=> AtGoal(t)
        /\ NodBelow(t)' <=> NodBelow(t)
    BY <1>1, <2>1 DEF Par, Nod, K, AtGoal, NodBelow, Inside
  <2>6. QNod(t) /\ QNod(t)'
    BY <1>4, <2>1, <2>4 DEF QNod, Nod
  <2>7. Par(t) # Nod(t) /\ QPar(t) /\ QPar(t)'
    <3>1. xlock[Par(t)] = {t}
      BY <1>1, Mine DEF Latches
    <3>2. Par(t) # Nod(t)
      BY <2>1, <3>1
    <3>q. QED
      BY <1>1, <1>2, <2>1, <3>1, <3>2, Mine DEF Holds, QPar, Par
  <2>8. Bounds(t)'
    BY <1>1, <1>2, <2>1, <2>2, <2>4, <2>5, <2>7 DEF Bounds
  <2>9. Calls(t)'
    BY <1>1, <1>2, <2>1, <2>2, <2>4 DEF Calls
  <2>10. Way(t)'
    BY <1>1, <1>2, <2>2, <2>4, <2>5 DEF Way, Keeping
  <2>11. Found(t)'
    BY <1>1, <1>2, <2>1, <2>2, <2>4, <2>5, <2>6, <2>7 DEF Found, Calls
  <2>12. Holds(t)'
    BY <2>2, <2>4, <2>6, <2>7 DEF Holds
  <2>q. QED
    BY <2>4, <2>8, <2>9, <2>10, <2>11, <2>12 DEF Kept, Knows
<1>q. QED
  BY <1>3, <1>4

\* A step that changes what the thread has locked, and spares the live leaves.
LEMMA PagesSpared ==
  ASSUME IInv, NEW t \in Thread, alloc' \in Nat, alloc <= alloc',
         NEW gone \in Own(t) \union {None}, Spared(page', page, alloc, gone),
         \A p \in Page : p < alloc /\ p \notin Own(t) => page'[p] = page[p]
  PROVE  Pages(t)
<1>1. ~LiveLeaf(page, None)
  BY Mine DEF Shape, LiveLeaf, Meta, None
<1>2. ASSUME NEW p \in Page, p < alloc
      PROVE  /\ page'[p].leaf <=> page[p].leaf
             /\ p \notin Own(t) => page'[p] = page[p] /\ (LiveLeaf(page, p) => LiveLeaf(page', p))
  <2>1. page'[p].leaf = page[p].leaf /\ (LiveLeaf(page, p) /\ p # gone => LiveLeaf(page', p))
    BY <1>2 DEF Spared
  <2>q. QED
    BY <1>1, <1>2, <2>1
<1>q. QED
  BY <1>2, Mine DEF Pages

\* What the insert, the removal or the update of a leaf does to the pages.
LEMMA WriteLeafPages ==
  ASSUME IInv, NEW t \in Thread, WriteLeaf(t)
  PROVE  /\ Pages(t) /\ Shape(page', alloc')
         /\ LiveLeaf(page, Nod(t)) /\ Encloses(page[Nod(t)], K(t))
         /\ loc[t].op.kind = "remove" => StoredIn(page') = Without(StoredIn(page), K(t))
         /\ loc[t].op.kind # "remove" =>
              StoredIn(page') = With(StoredIn(page), K(t), loc[t].op.val)
<1>1. pc[t] = "write" /\ alloc' = alloc
  BY DEF WriteLeaf
<1>2. LiveLeaf(page, Nod(t)) /\ Encloses(page[Nod(t)], K(t)) /\ Shape(page, alloc)
  BY <1>1, Mine DEF Knows, Way, Home
<1>3. K(t) \in Key /\ loc[t].op.val \in Value
  BY <1>1, Mine DEF Op
<1>4. /\ Shape(page', alloc) /\ Spared(page', page, alloc, None)
      /\ loc[t].op.kind = "remove" => StoredIn(page') = Without(StoredIn(page), K(t))
      /\ loc[t].op.kind # "remove" =>
           StoredIn(page') = With(StoredIn(page), K(t), loc[t].op.val)
  <2>1. CASE loc[t].op.kind = "remove"
    <3>1. Wrote(page', page, Nod(t), RemoveSlot(page[Nod(t)], K(t)))
      BY <2>1 DEF WriteLeaf, Wrote
    <3>q. QED
      BY <1>2, <1>3, <2>1, <3>1, RemoveKeeps
  <2>2. CASE loc[t].op.kind # "remove"
    <3>1. Wrote(page', page, Nod(t), Put(page[Nod(t)], K(t), loc[t].op.val))
      BY <2>2 DEF WriteLeaf, Wrote
    <3>q. QED
      BY <1>2, <1>3, <2>2, <3>1, PutKeeps
  <2>q. QED
    BY <2>1, <2>2
<1>5. Own(t) = {Nod(t)}
  BY <1>1 DEF Own, OwnAt, Nod
<1>6. \A p \in Page : p < alloc /\ p \notin Own(t) => page'[p] = page[p]
  BY <1>5, Mine DEF WriteLeaf
<1>7. Pages(t)
  BY <1>1, <1>4, <1>6, Mine, PagesSpared
<1>q. QED
  BY <1>1, <1>2, <1>4, <1>7

\* The slot is written in the leaf of the key, and no other thread has it.
LEMMA WriteLeafStep ==
  ASSUME IInv, NEW t \in Thread, WriteLeaf(t)
  PROVE  Kept(t)
<1> DEFINE l == Returned(loc[t], "done")
<1>1. /\ pc[t] = "write" /\ alloc' = alloc /\ slock' = slock /\ scene' = scene
      /\ loaded' = loaded /\ xlock' = [xlock EXCEPT ![Nod(t)] = {}]
      /\ pc' = [pc EXCEPT ![t] = "idle"] /\ Drops(t, l, Nod(t))
  BY DEF WriteLeaf, Unlocked, Goto, load, Drops
<1>2. Pages(t) /\ Shape(page', alloc')
  BY WriteLeafPages
<1>3. /\ l \in Local /\ l.ans = "done" /\ l.target = None
      /\ l.par.pid = None /\ l.nod.pid = None /\ l.cand = None
  <2>1. loc[t] \in Local /\ "done" \in Answer
    BY Mine DEF Answer
  <2>2. NoGuard.pid = None
    BY DEF NoGuard
  <2>3. /\ l \in Local /\ l.ans = "done" /\ l.target = None
        /\ l.par = NoGuard /\ l.nod = NoGuard /\ l.cand = None
    BY <2>1, LocalFacts
  <2>q. QED
    BY <2>2, <2>3
<1> HIDE DEF l
<1>4. Own(t) = {Nod(t)}
  BY <1>1 DEF Own, OwnAt, Nod
<1>5. OwnAt("idle", l) = Own(t) \ {Nod(t)} /\ Nod(t) \in Own(t) /\ "idle" \in Label
  BY <1>4 DEF OwnAt, Label
<1>6. /\ Does(t) /\ Typed' /\ Shape(page', alloc') /\ pc'[t] = "idle"
      /\ loc'[t] \in Local /\ Same(loc'[t], l)
  <2> DEFINE p == Nod(t)
  <2>1. Unlocks(t, p, "idle", l)
    BY <1>1, <1>2, <1>3, <1>5 DEF Unlocks
  <2>2. p \in Page /\ l \in Local /\ "idle" \in Label /\ Pages(t) /\ Shape(page', alloc')
    BY <1>1, <1>2, <1>3, <1>5, Mine
  <2> HIDE DEF p
  <2>q. QED
    BY <2>1, <2>2, UnlockStep
<1>7. Knows(t)'
  <2> DEFINE m == loc'[t]
  <2>1. /\ m \in Local /\ loc'[t] = m /\ m.ans # "pending" /\ m.target = None
        /\ m.par.pid = None /\ m.nod.pid = None /\ m.cand = None
    BY <1>3, <1>6 DEF Same
  <2> HIDE DEF m
  <2>q. QED
    BY <1>1, <1>6, <2>1, Mine, IdleKnows
<1>q. QED
  BY <1>6, <1>7 DEF Kept

\* What a new root does to the pages.
LEMMA NewRootPages ==
  ASSUME IInv, NEW t \in Thread, NewRoot(t)
  PROVE  /\ Pages(t) /\ Shape(page', alloc') /\ StoredIn(page') = StoredIn(page)
         /\ alloc \in Page /\ alloc # Meta /\ Nod(t) # Meta /\ Nod(t) # alloc
         /\ page'[alloc] = Node(FALSE, Empty, Nod(t), 0, Inf)
         /\ page'[Nod(t)] = page[Nod(t)]
<1>1. /\ pc[t] = "split" /\ Par(t) = Meta /\ alloc <= NPages /\ alloc' = alloc + 1
      /\ Rooted(page', page, alloc, Nod(t))
  BY DEF NewRoot, Rooted
<1>2. NodBelow(t) /\ Bounds(t)
  BY <1>1, Mine DEF Knows, Way
<1>3. Nod(t) = page[Meta].last
  <2>1. Keys(page[Meta]) = {}
    BY Mine DEF Shape
  <2>q. QED
    BY <1>1, <1>2, <2>1 DEF NodBelow, Child, Above
<1>4. Shape(page, alloc)
  BY Mine
<1>5. /\ Shape(page', alloc + 1) /\ Spared(page', page, alloc, None)
      /\ StoredIn(page') = StoredIn(page)
  BY <1>1, <1>3, <1>4, NewRootKeeps
<1>6. alloc \in Page /\ alloc # Meta /\ alloc + 1 \in Nat /\ alloc <= alloc + 1
  BY <1>1, Mine, UnusedFacts
<1>7. Own(t) = {Meta, Nod(t)}
  BY <1>1 DEF Own, OwnAt, Par, Nod
<1>8. Nod(t) # Meta /\ Nod(t) # alloc
  <2>1. Nod(t) < alloc /\ Nod(t) \in Nat /\ alloc \in Nat
    BY Mine, Numbers
  <2>2. Par(t) # Nod(t)
    BY <1>1, <1>2 DEF Bounds
  <2>q. QED
    BY <1>1, <2>1, <2>2
<1>9. \A p \in Page : p # Meta /\ p # alloc => page'[p] = page[p]
  BY <1>1, Mine DEF Rooted
<1>10. page'[alloc] = Node(FALSE, Empty, Nod(t), 0, Inf)
  BY <1>1, <1>6, Mine DEF Rooted
<1>11. \A p \in Page : p < alloc /\ p \notin Own(t) => page'[p] = page[p]
  <2>1. ASSUME NEW p \in Page, p < alloc PROVE p # alloc
    BY <2>1, Mine, Numbers
  <2>q. QED
    BY <1>7, <1>9, <2>1
<1>12. Pages(t)
  BY <1>1, <1>5, <1>6, <1>11, PagesSpared
<1>q. QED
  BY <1>1, <1>5, <1>6, <1>8, <1>9, <1>10, <1>12, Mine

\* The guard of the parent, moved to the new root.
LEMMA ReparentFacts ==
  ASSUME NEW l \in Local, NEW p \in Page
  PROVE  LET m == [l EXCEPT !.par.pid = p] IN
         /\ m \in Local /\ m.op = l.op /\ m.key = l.key /\ m.ans = l.ans
         /\ m.target = l.target /\ m.nod = l.nod /\ m.cand = l.cand
         /\ m.par.pid = p /\ m.par.fresh = l.par.fresh
<1> DEFINE m == [l EXCEPT !.par.pid = p]
           g == [l.par EXCEPT !.pid = p]
<1>1. g \in Guard /\ g.pid = p /\ g.fresh = l.par.fresh
  <2>1. l.par \in Guard
    BY LocalFacts
  <2>q. QED
    BY <2>1 DEF Guard
<1>2. m = [l EXCEPT !.par = g]
  OBVIOUS
<1> HIDE DEF m, g
<1>3. /\ m \in Local /\ m.op = l.op /\ m.key = l.key /\ m.ans = l.ans
      /\ m.target = l.target /\ m.nod = l.nod /\ m.cand = l.cand
      /\ m.par.pid = p /\ m.par.fresh = l.par.fresh
  BY <1>1, <1>2 DEF Local
<1>q. QED
  BY <1>3 DEF m

\* A root over the node to split; the thread's parent is that root now.
LEMMA NewRootStep ==
  ASSUME IInv, NEW t \in Thread, NewRoot(t)
  PROVE  Kept(t)
<1> DEFINE l == [loc[t] EXCEPT !.par.pid = alloc]
           ll == [loc EXCEPT ![t] = l]
<1>1. /\ pc[t] = "split" /\ Par(t) = Meta /\ slock' = slock /\ scene' = scene
      /\ loaded' = loaded /\ pc' = pc /\ alloc' = alloc + 1
      /\ xlock' = [xlock EXCEPT ![Meta] = {}, ![alloc] = {t}]
      /\ loc' = Expire(ll, Meta)
  BY DEF NewRoot, load
<1>2. /\ Pages(t) /\ Shape(page', alloc')
      /\ alloc \in Page /\ alloc # Meta /\ Nod(t) # Meta /\ Nod(t) # alloc
      /\ page'[alloc] = Node(FALSE, Empty, Nod(t), 0, Inf)
      /\ page'[Nod(t)] = page[Nod(t)]
  BY NewRootPages
<1>3. Way(t) /\ Found(t) /\ Calls(t) /\ Bounds(t) /\ Holds(t)
  BY Mine DEF Knows
<1>4. /\ l \in Local /\ l.op = loc[t].op /\ l.key = loc[t].key /\ l.ans = loc[t].ans
      /\ l.target = loc[t].target /\ l.nod = loc[t].nod /\ l.cand = loc[t].cand
      /\ l.par.pid = alloc /\ l.par.fresh = loc[t].par.fresh
  BY <1>2, Mine, ReparentFacts
<1> HIDE DEF l
<1>5. ll \in [Thread -> Local] /\ ll[t] = l /\ \A u \in Thread \ {t} : ll[u] = loc[u]
  BY <1>4, Mine
<1> HIDE DEF ll
<1>6. /\ loc' \in [Thread -> Local]
      /\ \A u \in Thread :
           /\ Same(loc'[u], ll[u])
           /\ loc'[u].par.fresh <=> ll[u].par.fresh /\ ll[u].par.pid # Meta
           /\ loc'[u].nod.fresh <=> ll[u].nod.fresh /\ ll[u].nod.pid # Meta
  BY <1>1, <1>5, ExpireFacts
<1>7. Own(t) = {Meta, Nod(t)} /\ Own(t)' = {alloc, Nod(t)}
  <2>1. loc'[t].par.pid = alloc /\ loc'[t].nod.pid = loc[t].nod.pid
    BY <1>4, <1>5, <1>6 DEF Same
  <2>q. QED
    BY <1>1, <2>1 DEF Own, OwnAt, Par, Nod
<1>8. Typed'
  BY <1>1, <1>2, <1>6, Mine, Numbers DEF Typed
<1>9. ASSUME NEW u \in Thread, u # t PROVE Spares(t, u)
  <2>1. Own(t) \ Own(t)' = {Meta}
    BY <1>2, <1>7
  <2>2. /\ Same(loc'[u], loc[u]) /\ pc'[u] = pc[u]
        /\ loc'[u].par.fresh <=> loc[u].par.fresh /\ loc[u].par.pid # Meta
        /\ loc'[u].nod.fresh <=> loc[u].nod.fresh /\ loc[u].nod.pid # Meta
    BY <1>1, <1>5, <1>6, <1>9
  <2>q. QED
    BY <2>1, <2>2 DEF Spares
<1>10. xlock[alloc] = {}
  <2>1. ASSUME NEW u \in xlock[alloc] PROVE FALSE
    <3>1. u \in Thread
      BY <1>2, Mine
    <3>2. alloc \in Own(u)
      BY <1>2, <3>1, Mine DEF Latches
    <3>3. Knows(u) /\ loc[u] \in Local
      BY <3>1, Mine
    <3>4. loc[u].par.pid < alloc /\ loc[u].nod.pid < alloc /\ loc[u].cand < alloc
      BY <3>3 DEF Knows, Bounds, Par, Nod
    <3>5. alloc \in {loc[u].par.pid, loc[u].nod.pid, loc[u].cand}
      BY <3>2 DEF Own, OwnAt
    <3>q. QED
      BY <3>4, <3>5, Mine
  <2>q. QED
    BY <2>1
<1>11. /\ xlock'[Meta] = {} /\ xlock'[alloc] = {t}
       /\ \A q \in Page \ {Meta, alloc} : xlock'[q] = xlock[q]
  BY <1>1, <1>2, Mine, Numbers
<1>12. Locks(t)
  <2>1. ASSUME NEW q \in Page
        PROVE  xlock'[q] = IF q \in Own(t)' THEN {t} ELSE IF q \in Own(t) THEN {} ELSE xlock[q]
    <3>1. q \in Own(t) => xlock[q] = {t}
      BY Mine DEF Latches
    <3>q. QED
      BY <1>2, <1>7, <1>11, <3>1
  <2>q. QED
    BY <1>7, <1>10, <2>1 DEF Locks
<1>13. /\ loc'[t].op = loc[t].op /\ loc'[t].ans = loc[t].ans /\ loc'[t].target = loc[t].target
       /\ loc'[t].key = loc[t].key /\ loc'[t].cand = loc[t].cand
       /\ Par(t)' = alloc /\ Nod(t)' = Nod(t) /\ K(t)' = K(t) /\ pc'[t] = "split"
       /\ loc'[t].par.fresh <=> loc[t].par.fresh
       /\ loc'[t].nod.fresh <=> loc[t].nod.fresh
  BY <1>1, <1>2, <1>4, <1>5, <1>6 DEF Same, Par, Nod, K
<1>14. QPar(t)' /\ QNod(t)'
  <2>1. QPar(t) /\ QNod(t)
    BY <1>1, <1>3 DEF Holds
  <2>2. xlock'[Nod(t)] = xlock[Nod(t)]
    BY <1>2, <1>11, Mine
  <2>q. QED
    BY <1>11, <1>13, <2>1, <2>2 DEF QPar, QNod, Par, Nod
<1>15. NodBelow(t)' /\ AtGoal(t)'
  <2>1. AtGoal(t) /\ K(t) > 0 /\ K(t) <= Inf
    BY <1>1, <1>3, Mine, Numbers DEF Way
  <2>2. ~page'[alloc].leaf /\ page'[alloc].last = Nod(t) /\ page'[alloc].lower = 0
        /\ page'[alloc].upper = Inf /\ Keys(page'[alloc]) = {}
    BY <1>2 DEF Node, Keys, Empty
  <2>3. Inside(t)'
    BY <1>13, <2>1, <2>2 DEF Inside, Encloses
  <2>4. Child(page'[alloc], K(t)) = Nod(t)
    BY <2>2 DEF Child, Above
  <2>5. Child(page[Par(t)], K(t))' = Nod(t)
    BY <1>13, <2>4
  <2>q. QED
    BY <1>2, <1>13, <2>1, <2>3, <2>5 DEF NodBelow, AtGoal
<1>16. Bounds(t)'
  <2>1. Nod(t) < alloc + 1 /\ loc[t].cand < alloc + 1 /\ alloc < alloc + 1
    <3>1. /\ alloc \in Nat /\ Nod(t) \in Nat /\ loc[t].cand \in Nat
          /\ Nod(t) < alloc /\ loc[t].cand < alloc
      BY Mine, Numbers
    <3>q. QED
      BY <3>1
  <2>q. QED
    BY <1>1, <1>2, <1>13, <2>1 DEF Bounds
<1>17. Calls(t)'
  BY <1>1, <1>3, <1>13 DEF Calls
<1>18. Way(t)' /\ Found(t)' /\ Holds(t)'
  <2>1. ~HasSpace(page[Nod(t)])'
    BY <1>1, <1>2, <1>3, <1>13 DEF Found
  <2>q. QED
    BY <1>13, <1>14, <1>15, <2>1 DEF Way, Found, Holds, Keeping
<1>q. QED
  BY <1>2, <1>8, <1>9, <1>12, <1>16, <1>17, <1>18 DEF Kept, Knows, Does

\* The separator that a full node is split at.
LEMMA SplitsAt ==
  ASSUME IInv, NEW t \in Thread, pc[t] = "split", NEW sep \in Separators(page[Nod(t)])
  PROVE  LET n == page[Nod(t)] IN
         /\ sep \in Key /\ n.lower < sep /\ sep < n.upper /\ sep < NKeys
         /\ ~n.leaf => sep \in Keys(n)
         /\ ~page[Par(t)].leaf /\ Nod(t) \in Kids(page[Par(t)]) /\ Nod(t) # Meta
<1> DEFINE n == page[Nod(t)]
<1>1. NodBelow(t) /\ ~HasSpace(n) /\ K(t) \in Key /\ n \in NodeSet /\ Shape(page, alloc)
      /\ Nod(t) \in Page
  BY Mine DEF Knows, Way, Found
<1>2. /\ ~page[Par(t)].leaf /\ Nod(t) \in Kids(page[Par(t)]) /\ Nod(t) # Meta
      /\ n.leaf => LiveLeaf(page, Nod(t))
  BY <1>1, Below DEF NodBelow, Inside
<1>3. \A j \in Keys(n) : Encloses(n, j) /\ (~n.leaf => j < n.upper /\ j < NKeys)
  <2>1. CASE n.leaf
    BY <1>1, <1>2, <2>1 DEF Shape, LeafOK
  <2>2. CASE ~n.leaf
    <3>1. InnerOK(page, n)
      BY <1>1, <2>2 DEF Shape
    <3>2. ASSUME NEW j \in Keys(n) PROVE n.lower < j /\ j < n.upper /\ j < NKeys /\ j <= n.upper
      <4>1. n.lower < j /\ j < n.upper /\ j < NKeys
        BY <3>1 DEF InnerOK
      <4>2. j \in Nat /\ n.upper \in Nat
        BY <1>1, NodeFacts, Numbers
      <4>q. QED
        BY <4>1, <4>2
    <3>q. QED
      BY <2>2, <3>2 DEF Encloses
  <2>q. QED
    BY <2>1, <2>2
<1> HIDE DEF n
<1>4. /\ sep \in Key /\ n.lower < sep /\ sep < n.upper /\ sep < NKeys
      /\ ~n.leaf => sep \in Keys(n)
  <2>1. sep \in Separators(n)
    BY DEF n
  <2>q. QED
    BY <1>1, <1>3, <2>1, SeparatorFacts
<1>q. QED
  BY <1>2, <1>4 DEF n

\* What a split does to the pages: no key moves.
LEMMA SplitPages ==
  ASSUME IInv, NEW t \in Thread, Split(t)
  PROVE  Pages(t) /\ Shape(page', alloc') /\ StoredIn(page') = StoredIn(page)
<1>1. pc[t] = "split" /\ Par(t) # Meta /\ alloc <= NPages /\ alloc' = alloc + 1
  BY DEF Split
<1>2. PICK sep \in Separators(page[Nod(t)]) :
        HasSplit(page', page, Par(t), Nod(t), sep, alloc)
  BY DEF Split, HasSplit
<1>3. /\ sep \in Key /\ page[Nod(t)].lower < sep /\ sep < page[Nod(t)].upper /\ sep < NKeys
      /\ ~page[Nod(t)].leaf => sep \in Keys(page[Nod(t)])
      /\ ~page[Par(t)].leaf /\ Nod(t) \in Kids(page[Par(t)])
  BY <1>1, <1>2, SplitsAt
<1>4. Shape(page, alloc) /\ Par(t) \in Page
  BY Mine
<1>5. /\ Shape(page', alloc + 1) /\ Spared(page', page, alloc, None)
      /\ StoredIn(page') = StoredIn(page)
  BY <1>1, <1>2, <1>3, <1>4, SplitKeeps
<1>6. Own(t) = {Par(t), Nod(t)}
  BY <1>1 DEF Own, OwnAt, Par, Nod
<1>7. \A p \in Page : p < alloc /\ p \notin Own(t) => page'[p] = page[p]
  <2>1. \A p \in Page : p # Nod(t) /\ p # alloc /\ p # Par(t) => page'[p] = page[p]
    BY <1>2, Mine DEF HasSplit
  <2>2. ASSUME NEW p \in Page, p < alloc PROVE p # alloc
    BY <2>2, Mine, Numbers
  <2>q. QED
    BY <1>6, <2>1, <2>2
<1>8. alloc' \in Nat /\ alloc <= alloc'
  BY <1>1, Mine
<1>9. Pages(t)
  BY <1>1, <1>5, <1>7, <1>8, PagesSpared
<1>q. QED
  BY <1>1, <1>5, <1>9

\* A step that changes what a thread has locked, and locks and unlocks nothing.
LEMMA WriteStep ==
  ASSUME IInv, NEW t \in Thread, NEW l \in Local, NEW x \in Label,
         loc' = [loc EXCEPT ![t] = l], pc' = [pc EXCEPT ![t] = x],
         OwnAt(x, l) = Own(t), Pages(t), Shape(page', alloc'),
         xlock' = xlock, scene' = scene, slock' = slock, loaded' = loaded
  PROVE  Does(t) /\ Typed' /\ loc'[t] = l /\ pc'[t] = x
<1>1. loc'[t] = l /\ pc'[t] = x
  BY Mine
<1>2. Own(t)' = Own(t)
  BY <1>1 DEF Own
<1>3. Typed'
  BY Mine DEF Typed
<1>4. ASSUME NEW u \in Thread, u # t PROVE Spares(t, u)
  <2>1. loc'[u] = loc[u] /\ pc'[u] = pc[u]
    BY <1>4, Mine
  <2>q. QED
    BY <1>2, <2>1 DEF Spares, Same
<1>5. Locks(t)
  <2>1. \A p \in Page : p \in Own(t) => xlock[p] = {t}
    BY Mine DEF Latches
  <2>q. QED
    BY <1>2, <2>1 DEF Locks
<1>q. QED
  BY <1>1, <1>3, <1>4, <1>5 DEF Does

\* The halves and the separator are written under both locks.
LEMMA SplitStep ==
  ASSUME IInv, NEW t \in Thread, Split(t)
  PROVE  Kept(t)
<1> DEFINE l == [loc[t] EXCEPT !.target = None, !.key = loc[t].op.key]
<1>1. /\ pc[t] = "split" /\ alloc' = alloc + 1
      /\ loc' = [loc EXCEPT ![t] = l] /\ pc' = [pc EXCEPT ![t] = "unlockNode"]
      /\ xlock' = xlock /\ slock' = slock /\ scene' = scene /\ loaded' = loaded
  BY Mine DEF Split, Goto, latch, load
<1>2. Pages(t) /\ Shape(page', alloc')
  BY SplitPages
<1>3. Bounds(t) /\ Calls(t)
  BY Mine DEF Knows
<1>4. loc[t].op \in Op /\ loc[t].op.key \in Key /\ loc[t].op.key \in 0 .. NKeys
  BY <1>1, Mine, Numbers DEF Op
<1>5. /\ l \in Local /\ l.op = loc[t].op /\ l.ans = loc[t].ans /\ l.cand = loc[t].cand
      /\ l.key = loc[t].op.key /\ l.target = None /\ l.par = loc[t].par /\ l.nod = loc[t].nod
  BY <1>4, Mine, Numbers DEF Local
<1>6. OwnAt("unlockNode", l) = Own(t) /\ "unlockNode" \in Label
  BY <1>1, <1>5 DEF OwnAt, Own, Label
<1> HIDE DEF l
<1>7. Does(t) /\ Typed' /\ loc'[t] = l /\ pc'[t] = "unlockNode"
  BY <1>1, <1>2, <1>5, <1>6, WriteStep
<1>8. Bounds(t)'
  <2>1. Par(t) < alloc + 1 /\ Nod(t) < alloc + 1 /\ loc[t].cand < alloc + 1
    <3>1. /\ alloc \in Nat /\ Par(t) \in Nat /\ Nod(t) \in Nat /\ loc[t].cand \in Nat
          /\ Par(t) < alloc /\ Nod(t) < alloc /\ loc[t].cand < alloc
      BY Mine, Numbers
    <3>q. QED
      BY <3>1
  <2>q. QED
    BY <1>1, <1>3, <1>5, <1>7, <2>1 DEF Bounds, Par, Nod
<1>9. Calls(t)'
  BY <1>1, <1>3, <1>4, <1>5, <1>7 DEF Calls
<1>10. Way(t)' /\ Found(t)' /\ Holds(t)'
  BY <1>7 DEF Way, Found, Holds, Keeping
<1>q. QED
  BY <1>2, <1>7, <1>8, <1>9, <1>10 DEF Kept, Knows

\* The parent has no space for a separator: ensureSpace splits it first.
LEMMA SplitFirstStep ==
  ASSUME IInv, NEW t \in Thread, SplitFirst(t)
  PROVE  Kept(t)
<1>1. /\ pc[t] = "split" /\ Par(t) # Meta /\ pc' = [pc EXCEPT ![t] = "unlockNode"]
      /\ page' = page /\ alloc' = alloc
      /\ xlock' = xlock /\ slock' = slock /\ scene' = scene /\ loaded' = loaded
  BY DEF SplitFirst, Goto, tree, latch, load
<1>2. PICK sep \in Separators(page[Nod(t)]) :
        loc' = [loc EXCEPT ![t].target = Par(t), ![t].key = sep]
  BY DEF SplitFirst
<1> DEFINE l == [loc[t] EXCEPT !.target = Par(t), !.key = sep]
<1>3. sep \in Key /\ sep \in 0 .. NKeys
  BY <1>1, <1>2, SplitsAt, Numbers
<1>4. loc' = [loc EXCEPT ![t] = l]
  BY <1>2, Mine
<1>5. Bounds(t) /\ Calls(t)
  BY Mine DEF Knows
<1>6. /\ l \in Local /\ l.op = loc[t].op /\ l.ans = loc[t].ans /\ l.cand = loc[t].cand
      /\ l.key = sep /\ l.target = Par(t) /\ l.par = loc[t].par /\ l.nod = loc[t].nod
  BY <1>3, Mine DEF Local
<1>7. OwnAt("unlockNode", l) = Own(t) /\ "unlockNode" \in Label
  BY <1>1, <1>6 DEF OwnAt, Own, Label
<1> HIDE DEF l
<1>8. Does(t) /\ Typed' /\ Shape(page', alloc') /\ loc'[t] = l /\ pc'[t] = "unlockNode"
  BY <1>1, <1>4, <1>6, <1>7, Mine, PlainStep
<1>9. Bounds(t)'
  BY <1>1, <1>5, <1>6, <1>8 DEF Bounds, Par, Nod
<1>10. Calls(t)'
  BY <1>1, <1>3, <1>5, <1>6, <1>8 DEF Calls, Meta, None
<1>11. Way(t)' /\ Found(t)' /\ Holds(t)'
  BY <1>8 DEF Way, Found, Holds, Keeping
<1>q. QED
  BY <1>8, <1>9, <1>10, <1>11 DEF Kept, Knows

\* The right neighbour is locked, too, and differs from the other two.
LEMMA LockRightStep ==
  ASSUME IInv, NEW t \in Thread, LockRight(t)
  PROVE  Kept(t)
<1> DEFINE right == RightChild(page[Par(t)], K(t))
           l == [loc[t] EXCEPT !.cand = right]
<1>1. /\ pc[t] = "lockRight" /\ Own(t) = {Par(t), Nod(t)}
      /\ page' = page /\ alloc' = alloc /\ slock' = slock /\ scene' = scene /\ loaded' = loaded
      /\ xlock[right] = {} /\ xlock' = [xlock EXCEPT ![right] = {t}]
      /\ pc' = [pc EXCEPT ![t] = "merge"]
      /\ loc' = [loc EXCEPT ![t] = l]
  BY Mine DEF LockRight, CanLock, Locked, Goto, tree, load, Own, OwnAt, Par, Nod
<1>2. Bounds(t) /\ Calls(t) /\ Way(t) /\ Found(t) /\ Holds(t)
  BY Mine DEF Knows
<1>3. NodBelow(t) /\ AtGoal(t) /\ K(t) \in Keys(page[Nod(t)])
      /\ Above(page[Par(t)], K(t)) # {} /\ QPar(t) /\ QNod(t)
  BY <1>1, <1>2 DEF Way, Found, Holds
<1>4. right \in Kids(page[Par(t)])
  <2>1. ~page[Par(t)].leaf /\ Encloses(page[Par(t)], K(t))
    BY <1>3 DEF NodBelow, Inside
  <2>2. Shape(page, alloc) /\ Par(t) \in Page /\ K(t) \in Key
    BY <1>1, Mine
  <2> HIDE DEF right
  <2>3. RightChild(page[Par(t)], K(t)) \in Kids(page[Par(t)])
    BY <1>3, <2>1, <2>2, RightOf
  <2>q. QED
    BY <2>3 DEF right
<1> HIDE DEF right
<1>5. right \in Page /\ right < alloc
  BY <1>3, <1>4, Mine, KidFacts DEF NodBelow, Inside
<1>6. right # Par(t) /\ right # Nod(t)
  <2>1. xlock[Par(t)] = {t} /\ xlock[Nod(t)] = {t}
    BY <1>1, Mine DEF Latches
  <2>q. QED
    BY <1>1, <2>1
<1>7. /\ l \in Local /\ l.op = loc[t].op /\ l.ans = loc[t].ans /\ l.cand = right
      /\ l.key = loc[t].key /\ l.target = loc[t].target
      /\ l.par = loc[t].par /\ l.nod = loc[t].nod
  BY <1>5, Mine DEF Local
<1>8. OwnAt("merge", l) = Own(t) \union {right} /\ "merge" \in Label
  BY <1>1, <1>7 DEF OwnAt, Label, Par, Nod
<1> HIDE DEF l
<1>9. /\ Does(t) /\ Typed' /\ Shape(page', alloc') /\ loc'[t] = l /\ pc'[t] = "merge"
      /\ xlock'[right] = {t}
  BY <1>1, <1>5, <1>7, <1>8, LockStep
<1>10. /\ Par(t)' = Par(t) /\ Nod(t)' = Nod(t) /\ K(t)' = K(t)
       /\ AtGoal(t)' <=> AtGoal(t)
       /\ NodBelow(t)' <=> NodBelow(t)
  BY <1>1, <1>7, <1>9 DEF Par, Nod, K, AtGoal, NodBelow, Inside
<1>11. QPar(t)' /\ QNod(t)'
  BY <1>1, <1>3, <1>6, <1>7, <1>9, Mine DEF QPar, QNod, Par, Nod
<1>12. Bounds(t)'
  BY <1>1, <1>2, <1>5, <1>6, <1>7, <1>9, <1>10 DEF Bounds
<1>13. Calls(t)'
  BY <1>1, <1>2, <1>7, <1>9 DEF Calls
<1>14. Way(t)' /\ Holds(t)'
  BY <1>3, <1>9, <1>10, <1>11 DEF Way, Holds, Keeping
<1>15. Found(t)'
  <2>1. loc'[t].cand = RightChild(page'[Par(t)'], K(t)')
    BY <1>1, <1>7, <1>9, <1>10 DEF right
  <2>q. QED
    BY <1>1, <1>3, <1>9, <1>10, <2>1 DEF Found
<1>q. QED
  BY <1>9, <1>12, <1>13, <1>14, <1>15 DEF Kept, Knows

\* What a remove that may merge knows of its node and of the leaf to the right.
LEMMA MergeKnows ==
  ASSUME IInv, NEW t \in Thread, pc[t] = "merge"
  PROVE  /\ page[Nod(t)].leaf /\ LiveLeaf(page, Nod(t)) /\ Encloses(page[Nod(t)], K(t))
         /\ Nod(t) = Child(page[Par(t)], K(t)) /\ loc[t].cand = RightChild(page[Par(t)], K(t))
         /\ ~page[Par(t)].leaf /\ Encloses(page[Par(t)], K(t))
         /\ Above(page[Par(t)], K(t)) # {} /\ K(t) \in Keys(page[Nod(t)])
         /\ Own(t) = {Par(t), Nod(t), loc[t].cand}
         /\ Par(t) # Nod(t) /\ loc[t].cand # Par(t) /\ loc[t].cand # Nod(t)
         /\ loc[t].op.kind = "remove" /\ loc[t].target = None /\ K(t) = loc[t].op.key
<1>1. Bounds(t) /\ Calls(t) /\ Way(t) /\ Found(t)
  BY Mine DEF Knows
<1>2. NodBelow(t) /\ AtGoal(t) /\ loc[t].cand = RightChild(page[Par(t)], K(t))
      /\ Above(page[Par(t)], K(t)) # {} /\ K(t) \in Keys(page[Nod(t)])
  BY <1>1 DEF Way, Found
<1>3. /\ Nod(t) # Meta /\ Encloses(page[Nod(t)], K(t))
      /\ page[Nod(t)].leaf => LiveLeaf(page, Nod(t))
  BY <1>2, Mine, Below DEF NodBelow
<1>4. loc[t].op.kind = "remove" /\ loc[t].target = None /\ loc[t].ans = "pending"
  BY <1>1 DEF Calls
<1>5. page[Nod(t)].leaf
  BY <1>2, <1>3, <1>4 DEF AtGoal, Meta, None
<1>6. K(t) = loc[t].op.key
  BY <1>1, <1>4 DEF Calls, Scanning, K
<1>7. Own(t) = {Par(t), Nod(t), loc[t].cand}
  BY DEF Own, OwnAt, Par, Nod
<1>8. Par(t) # Nod(t) /\ loc[t].cand # Par(t) /\ loc[t].cand # Nod(t)
  BY <1>1 DEF Bounds
<1>q. QED
  BY <1>2, <1>3, <1>4, <1>5, <1>6, <1>7, <1>8 DEF NodBelow, Inside

\* What the removal of a slot and a merge do to the pages: the key goes, and no
\* other key moves.
LEMMA MergePages ==
  ASSUME IInv, NEW t \in Thread, Merge(t)
  PROVE  /\ Pages(t) /\ Shape(page', alloc')
         /\ StoredIn(page') = Without(StoredIn(page), K(t))
<1> DEFINE n == RemoveSlot(page[Nod(t)], K(t))
           right == page[loc[t].cand]
           fits == Count(right) <= Sparse /\ Count(n) + Count(right) <= LeafCap
           pg1 == [page EXCEPT ![Nod(t)] = n]
<1>1. pc[t] = "merge" /\ alloc' = alloc
      /\ page' = [page EXCEPT ![Nod(t)] = IF fits THEN MergedLeaf(n, right) ELSE n,
                              ![Par(t)] = IF fits THEN MergedParent(@, K(t), Nod(t)) ELSE @]
  BY DEF Merge
<1>2. /\ page[Nod(t)].leaf /\ LiveLeaf(page, Nod(t)) /\ Encloses(page[Nod(t)], K(t))
      /\ Nod(t) = Child(page[Par(t)], K(t)) /\ loc[t].cand = RightChild(page[Par(t)], K(t))
      /\ ~page[Par(t)].leaf /\ Encloses(page[Par(t)], K(t))
      /\ Above(page[Par(t)], K(t)) # {}
      /\ Own(t) = {Par(t), Nod(t), loc[t].cand}
      /\ Par(t) # Nod(t) /\ loc[t].cand # Par(t) /\ loc[t].cand # Nod(t)
  BY <1>1, MergeKnows
<1>3. /\ Shape(page, alloc) /\ Par(t) \in Page /\ Nod(t) \in Page /\ loc[t].cand \in Page
      /\ K(t) \in Key /\ page \in [Page -> NodeSet]
  BY <1>1, Mine
<1>4. Wrote(pg1, page, Nod(t), n)
  BY DEF Wrote
<1>5. pg1[Nod(t)] = n /\ pg1[Par(t)] = page[Par(t)] /\ pg1[loc[t].cand] = right
      /\ \A p \in Page \ {Nod(t)} : pg1[p] = page[p]
  BY <1>2, <1>3
<1>6. n.leaf
  BY <1>2, <1>3, RemoveFacts
<1> HIDE DEF n, right, pg1, fits
<1>7. /\ Shape(pg1, alloc) /\ Spared(pg1, page, alloc, None)
      /\ StoredIn(pg1) = Without(StoredIn(page), K(t))
  <2>1. Wrote(pg1, page, Nod(t), RemoveSlot(page[Nod(t)], K(t)))
    BY <1>4 DEF n
  <2>q. QED
    BY <1>2, <1>3, <2>1, RemoveKeeps
<1>8. CASE fits
  <2>1. HasMerged(page', pg1, Par(t), Nod(t), loc[t].cand, K(t))
    <3>1. page' = [pg1 EXCEPT ![Nod(t)] = MergedLeaf(n, right),
                              ![Par(t)] = MergedParent(page[Par(t)], K(t), Nod(t))]
      BY <1>1, <1>2, <1>3, <1>8 DEF pg1
    <3>q. QED
      BY <1>5, <3>1 DEF HasMerged
  <2>2. /\ Shape(page', alloc) /\ Spared(page', pg1, alloc, loc[t].cand)
        /\ StoredIn(page') = StoredIn(pg1)
    <3> DEFINE par == Par(t)  nod == Nod(t)  c == loc[t].cand  k == K(t)
    <3>1. /\ par \in Page /\ k \in Key /\ Shape(pg1, alloc)
          /\ Neighbours(pg1, par, nod, c, k)
          /\ HasMerged(page', pg1, par, nod, c, k)
      BY <1>2, <1>3, <1>5, <1>6, <1>7, <2>1 DEF Neighbours
    <3> HIDE DEF par, nod, c, k
    <3>2. Shape(page', alloc) /\ Spared(page', pg1, alloc, c) /\ StoredIn(page') = StoredIn(pg1)
      BY <3>1, MergeKeeps
    <3>q. QED
      BY <3>2 DEF c
  <2>3. Spared(page', page, alloc, loc[t].cand)
    <3>1. ~LiveLeaf(page, None)
      BY <1>3 DEF Shape, LiveLeaf, Meta, None
    <3>q. QED
      BY <1>7, <2>2, <3>1 DEF Spared
  <2>4. \A p \in Page : p \notin Own(t) => page'[p] = page[p]
    BY <1>2, <1>3, <1>1
  <2>5. Pages(t)
    <3> DEFINE c == loc[t].cand
    <3>1. /\ alloc' \in Nat /\ alloc <= alloc' /\ c \in Own(t) \union {None}
          /\ Spared(page', page, alloc, c)
          /\ \A p \in Page : p < alloc /\ p \notin Own(t) => page'[p] = page[p]
      BY <1>1, <1>2, <2>3, <2>4, Mine
    <3> HIDE DEF c
    <3>q. QED
      BY <3>1, PagesSpared
  <2>q. QED
    BY <1>1, <1>7, <2>2, <2>5
<1>9. CASE ~fits
  <2>1. page' = pg1
    BY <1>1, <1>2, <1>3, <1>9 DEF pg1
  <2>2. \A p \in Page : p \notin Own(t) => page'[p] = page[p]
    BY <1>2, <1>5, <2>1
  <2>3. Shape(page', alloc) /\ Spared(page', page, alloc, None)
    BY <1>7, <2>1
  <2>4. Pages(t)
    <3>1. /\ alloc' \in Nat /\ alloc <= alloc' /\ None \in Own(t) \union {None}
          /\ \A p \in Page : p < alloc /\ p \notin Own(t) => page'[p] = page[p]
      BY <1>1, <2>2, Mine
    <3>q. QED
      BY <2>3, <3>1, PagesSpared
  <2>q. QED
    BY <1>1, <1>7, <2>1, <2>4
<1>q. QED
  BY <1>8, <1>9

\* The slot goes, and if both fit the right leaf goes into the left one.
LEMMA MergeStep ==
  ASSUME IInv, NEW t \in Thread, Merge(t)
  PROVE  Kept(t)
<1> DEFINE l == [loc[t] EXCEPT !.ans = "done"]
<1>1. /\ pc[t] = "merge" /\ alloc' = alloc /\ slock' = slock /\ scene' = scene
      /\ loaded' = loaded /\ xlock' = [xlock EXCEPT ![loc[t].cand] = {}]
      /\ pc' = [pc EXCEPT ![t] = "unlockNode"]
  BY DEF Merge, Unlocked, Goto, load
<1>2. Pages(t) /\ Shape(page', alloc')
  BY MergePages
<1>3. Drops(t, l, loc[t].cand)
  <2>1. [loc EXCEPT ![t].ans = "done"] = [loc EXCEPT ![t] = l]
    BY Mine
  <2>q. QED
    BY <2>1 DEF Drops, Merge
<1>4. /\ l \in Local /\ l.op = loc[t].op /\ l.ans = "done" /\ l.cand = loc[t].cand
      /\ l.key = loc[t].key /\ l.target = loc[t].target
      /\ l.par = loc[t].par /\ l.nod = loc[t].nod
  BY Mine DEF Local, Answer
<1> HIDE DEF l
<1>5. /\ Own(t) = {Par(t), Nod(t), loc[t].cand} /\ loc[t].target = None
      /\ Par(t) # Nod(t) /\ loc[t].cand # Par(t) /\ loc[t].cand # Nod(t)
  BY <1>1, MergeKnows
<1>6. OwnAt("unlockNode", l) = Own(t) \ {loc[t].cand} /\ loc[t].cand \in Own(t)
      /\ "unlockNode" \in Label /\ loc[t].cand \in Page
  BY <1>4, <1>5, Mine DEF OwnAt, Label, Par, Nod
<1>7. /\ Does(t) /\ Typed' /\ pc'[t] = "unlockNode" /\ Same(loc'[t], l)
  <2> DEFINE c == loc[t].cand
  <2>1. /\ c \in Page /\ c \in Own(t) /\ xlock' = [xlock EXCEPT ![c] = {}]
        /\ Drops(t, l, c) /\ OwnAt("unlockNode", l) = Own(t) \ {c} /\ "unlockNode" \in Label
    BY <1>1, <1>3, <1>6
  <2>2. /\ pc' = [pc EXCEPT ![t] = "unlockNode"] /\ scene' = scene /\ slock' = slock
        /\ loaded' = loaded /\ l \in Local
    BY <1>1, <1>4
  <2>3. Unlocks(t, c, "unlockNode", l)
    BY <2>1, <2>2 DEF Unlocks
  <2> HIDE DEF c
  <2>q. QED
    BY <1>2, <2>1, <2>2, <2>3, UnlockStep
<1>8. Bounds(t) /\ Calls(t)
  BY Mine DEF Knows
<1>9. Bounds(t)'
  BY <1>1, <1>4, <1>5, <1>7, <1>8 DEF Bounds, Same, Par, Nod
<1>10. Calls(t)'
  BY <1>1, <1>4, <1>5, <1>7, <1>8 DEF Calls, Same
<1>11. Way(t)' /\ Found(t)' /\ Holds(t)'
  BY <1>7 DEF Way, Found, Holds, Keeping
<1>q. QED
  BY <1>2, <1>7, <1>9, <1>10, <1>11 DEF Kept, Knows

\* A split or a merge is over: the node is let go first.
LEMMA UnlockNodeStep ==
  ASSUME IInv, NEW t \in Thread, UnlockNode(t)
  PROVE  Kept(t)
<1> DEFINE l == loc[t]
<1>1. /\ pc[t] = "unlockNode" /\ page' = page /\ alloc' = alloc /\ slock' = slock
      /\ scene' = scene /\ loaded' = loaded /\ xlock' = [xlock EXCEPT ![Nod(t)] = {}]
      /\ pc' = [pc EXCEPT ![t] = "unlockParent"] /\ loc' = Expire(loc, Nod(t))
  BY DEF UnlockNode, Unlocked, Goto, load, tree
<1>2. Drops(t, l, Nod(t))
  <2>1. loc = [loc EXCEPT ![t] = l]
    BY Mine
  <2>q. QED
    BY <1>1, <2>1 DEF Drops
<1>3. Bounds(t) /\ Calls(t)
  BY Mine DEF Knows
<1>4. Own(t) = {Par(t), Nod(t)} /\ Par(t) # Nod(t)
  BY <1>1, <1>3 DEF Own, OwnAt, Par, Nod, Bounds
<1>5. OwnAt("unlockParent", l) = Own(t) \ {Nod(t)} /\ Nod(t) \in Own(t)
      /\ "unlockParent" \in Label
  BY <1>4 DEF OwnAt, Label, Par
<1>6. Pages(t) /\ Shape(page', alloc')
  BY <1>1, Mine DEF Pages
<1>7. l \in Local
  BY Mine
<1> HIDE DEF l
<1>8. Does(t) /\ Typed' /\ pc'[t] = "unlockParent" /\ Same(loc'[t], l)
  <2> DEFINE p == Nod(t)
  <2>1. Unlocks(t, p, "unlockParent", l)
    BY <1>1, <1>2, <1>5 DEF Unlocks
  <2>2. p \in Page /\ "unlockParent" \in Label
    BY <1>5, Mine
  <2> HIDE DEF p
  <2>q. QED
    BY <1>6, <1>7, <2>1, <2>2, UnlockStep
<1>9. Bounds(t)'
  BY <1>1, <1>3, <1>8 DEF Bounds, Same, Par, Nod, l
<1>10. Calls(t)'
  BY <1>1, <1>3, <1>8 DEF Calls, Same, l
<1>11. Way(t)' /\ Found(t)' /\ Holds(t)'
  BY <1>8 DEF Way, Found, Holds, Keeping
<1>q. QED
  BY <1>6, <1>8, <1>9, <1>10, <1>11 DEF Kept, Knows

\* Then the parent: the call is done, or starts again with space.
LEMMA UnlockParentStep ==
  ASSUME IInv, NEW t \in Thread, UnlockParent(t)
  PROVE  Kept(t)
<1>1. /\ pc[t] = "unlockParent" /\ page' = page /\ alloc' = alloc /\ slock' = slock
      /\ scene' = scene /\ loaded' = loaded /\ xlock' = [xlock EXCEPT ![Par(t)] = {}]
  BY DEF UnlockParent, Unlocked, load, tree
<1>2. Own(t) = {Par(t)}
  BY <1>1 DEF Own, OwnAt, Par
<1>3. CASE /\ loc[t].ans = "done"
           /\ Goto(t, "idle")
           /\ loc' = Expire([loc EXCEPT ![t] = Returned(@, "done")], Par(t))
  <2> DEFINE l == Returned(loc[t], "done")
  <2>1. Drops(t, l, Par(t)) /\ pc' = [pc EXCEPT ![t] = "idle"]
    BY <1>3 DEF Drops, Goto
  <2>2. /\ l \in Local /\ l.ans = "done" /\ l.target = None
        /\ l.par.pid = None /\ l.nod.pid = None /\ l.cand = None
    <3>1. loc[t] \in Local /\ "done" \in Answer
      BY Mine DEF Answer
    <3>2. NoGuard.pid = None
      BY DEF NoGuard
    <3>3. /\ l \in Local /\ l.ans = "done" /\ l.target = None
          /\ l.par = NoGuard /\ l.nod = NoGuard /\ l.cand = None
      BY <3>1, LocalFacts
    <3>q. QED
      BY <3>2, <3>3
  <2> HIDE DEF l
  <2>3. OwnAt("idle", l) = Own(t) \ {Par(t)} /\ Par(t) \in Own(t) /\ "idle" \in Label
    BY <1>2 DEF OwnAt, Label
  <2>4. Pages(t) /\ Shape(page', alloc')
    BY <1>1, Mine DEF Pages
  <2>5. /\ Does(t) /\ Typed' /\ pc'[t] = "idle" /\ loc'[t] \in Local /\ Same(loc'[t], l)
    <3> DEFINE p == Par(t)
    <3>1. Unlocks(t, p, "idle", l)
      BY <1>1, <2>1, <2>2, <2>3 DEF Unlocks
    <3>2. p \in Page /\ l \in Local /\ "idle" \in Label
      BY <2>2, <2>3, Mine
    <3> HIDE DEF p
    <3>q. QED
      BY <2>4, <3>1, <3>2, UnlockStep
  <2>6. Knows(t)'
    <3> DEFINE m == loc'[t]
    <3>1. /\ m \in Local /\ loc'[t] = m /\ m.ans # "pending" /\ m.target = None
          /\ m.par.pid = None /\ m.nod.pid = None /\ m.cand = None
      BY <2>2, <2>5 DEF Same
    <3> HIDE DEF m
    <3>q. QED
      BY <1>1, <2>5, <3>1, Mine, IdleKnows
  <2>q. QED
    BY <2>4, <2>5, <2>6 DEF Kept
<1>4. CASE /\ loc[t].ans = "pending"
           /\ Goto(t, "start")
           /\ loc' = Expire([loc EXCEPT ![t] = Start(@)], Par(t))
  <2>1. Drops(t, Start(loc[t]), Par(t)) /\ loc[t].ans = "pending" /\ Goto(t, "start")
    BY <1>4 DEF Drops
  <2>q. QED
    BY <1>1, <1>2, <2>1, Mine, AbandonStep
<1>q. QED
  BY <1>3, <1>4 DEF UnlockParent

\* GuardS: a thread shares a page, or shares it no more.
LEMMA SharedTyped ==
  ASSUME slock \in [Page -> SUBSET Thread], NEW t \in Thread, NEW p, Share(t, p) \/ Unshare(t, p)
  PROVE  slock' \in [Page -> SUBSET Thread]
BY DEF Share, Unshare

\* A scan takes a shared latch: it changes no page and no guard.
LEMMA ScanLockStep ==
  ASSUME IInv, NEW t \in Thread, ScanLock(t)
  PROVE  Kept(t)
<1>1. /\ pc[t] = "leaf" /\ Own(t) = {} /\ page' = page /\ alloc' = alloc /\ xlock' = xlock
      /\ scene' = scene /\ loaded' = loaded
      /\ loc[t].op.kind \in {"scan", "scanDesc"} /\ loc[t].target = None
  BY DEF ScanLock, AtLeaf, tree, load, Own, OwnAt
<1>2. CASE Restart(t) /\ slock' = slock
  BY <1>1, <1>2, RestartStep
<1>3. CASE /\ Share(t, Nod(t)) /\ loc' = loc
           /\ Goto(t, IF loc[t].held = None THEN "visit" ELSE "next")
  <2> DEFINE x == IF loc[t].held = None THEN "visit" ELSE "next"
  <2>1. x \in {"visit", "next"} /\ Goto(t, x)
    BY <1>3
  <2> HIDE DEF x
  <2>2. OwnAt(x, loc[t]) = Own(t) /\ x \in Label
    BY <1>1, <2>1 DEF OwnAt, Label
  <2>3. slock' \in [Page -> SUBSET Thread]
    BY <1>3, Mine, SharedTyped
  <2>4. Does(t) /\ Typed' /\ Shape(page', alloc') /\ pc'[t] = x /\ Bounds(t)'
    BY <1>1, <1>3, <2>1, <2>2, <2>3, Mine, GotoStep
  <2>5. Calls(t)'
    BY <1>1, <1>3, <2>1, <2>4, Mine DEF Calls, Knows, Scanning
  <2>6. Way(t)' /\ Found(t)' /\ Holds(t)'
    BY <2>1, <2>4 DEF Way, Found, Holds, Keeping
  <2>q. QED
    BY <2>4, <2>5, <2>6 DEF Kept, Knows
<1>q. QED
  BY <1>2, <1>3 DEF ScanLock

\* A scan reads a leaf and goes on along the chain, or from the root.
LEMMA VisitStep ==
  ASSUME IInv, NEW t \in Thread, Visit(t)
  PROVE  Kept(t)
<1>1. /\ pc[t] = "visit" /\ Own(t) = {} /\ page' = page /\ alloc' = alloc /\ xlock' = xlock
      /\ slock' = slock /\ scene' = scene /\ loaded' = loaded
  BY DEF Visit, tree, latch, load, Own, OwnAt
<1>2. Bounds(t) /\ Calls(t)
  BY Mine DEF Knows
<1>3. /\ page[Nod(t)].last \in Page /\ page[Nod(t)].last < alloc
      /\ page[Nod(t)].lower \in 0 .. NKeys
  <2>1. Nod(t) \in Page /\ page[Nod(t)] \in NodeSet /\ Used(page, alloc)
    BY Mine DEF Shape
  <2>q. QED
    BY <2>1, NodeFacts DEF Used
<1>4. CASE /\ loc' = [loc EXCEPT ![t].held = Nod(t), ![t].cand = page[Nod(t)].last]
           /\ Goto(t, "lockNext")
  <2> DEFINE last == page[Nod(t)].last
             l == [loc[t] EXCEPT !.held = Nod(t), !.cand = last]
  <2>1. loc' = [loc EXCEPT ![t] = l] /\ pc' = [pc EXCEPT ![t] = "lockNext"]
    BY <1>4, Mine DEF Goto
  <2>2. last \in Page /\ last < alloc
    BY <1>3
  <2> HIDE DEF last
  <2>3. /\ l \in Local /\ l.op = loc[t].op /\ l.ans = loc[t].ans /\ l.cand = last
        /\ l.key = loc[t].key /\ l.target = loc[t].target
        /\ l.par = loc[t].par /\ l.nod = loc[t].nod
    BY <2>2, Mine DEF Local
  <2>4. OwnAt("lockNext", l) = Own(t) /\ "lockNext" \in Label
    BY <1>1 DEF OwnAt, Label
  <2> HIDE DEF l
  <2>5. Does(t) /\ Typed' /\ Shape(page', alloc') /\ loc'[t] = l /\ pc'[t] = "lockNext"
    BY <1>1, <2>1, <2>3, <2>4, Mine, PlainStep
  <2>6. Bounds(t)'
    BY <1>1, <1>2, <2>2, <2>3, <2>5 DEF Bounds, Par, Nod
  <2>7. Calls(t)'
    BY <1>1, <1>2, <2>3, <2>5 DEF Calls
  <2>8. Way(t)' /\ Found(t)' /\ Holds(t)'
    BY <2>5 DEF Way, Found, Holds, Keeping
  <2>q. QED
    BY <2>5, <2>6, <2>7, <2>8 DEF Kept, Knows
<1>5. CASE /\ loc[t].op.kind = "scanDesc" /\ page[Nod(t)].lower # 0
           /\ loc' = [loc EXCEPT ![t] = [Start(@) EXCEPT !.held = Nod(t),
                                                         !.key = page[Nod(t)].lower]]
           /\ Goto(t, "start")
  <2> DEFINE m == Start(loc[t])
             l == [m EXCEPT !.held = Nod(t), !.key = page[Nod(t)].lower]
  <2>1. loc' = [loc EXCEPT ![t] = l] /\ pc' = [pc EXCEPT ![t] = "start"]
    BY <1>5 DEF Goto
  <2>2. page[Nod(t)].lower \in Key
    BY <1>3, <1>5, Numbers DEF Key
  <2>3. /\ m \in Local /\ m.op = loc[t].op /\ m.ans = loc[t].ans /\ m.target = loc[t].target
        /\ m.par = NoGuard /\ m.nod = NoGuard /\ m.cand = None /\ NoGuard.pid = None
    BY Mine, LocalFacts
  <2> HIDE DEF m
  <2>4. /\ l \in Local /\ l.op = loc[t].op /\ l.ans = loc[t].ans
        /\ l.key \in Key /\ l.target = loc[t].target
        /\ l.par.pid = None /\ l.nod.pid = None /\ l.cand = None
    BY <1>3, <2>2, <2>3, Mine DEF Local
  <2>5. OwnAt("start", l) = Own(t) /\ "start" \in Label
    BY <1>1 DEF OwnAt, Label
  <2> HIDE DEF l
  <2>6. Does(t) /\ Typed' /\ Shape(page', alloc') /\ loc'[t] = l /\ pc'[t] = "start"
    BY <1>1, <2>1, <2>4, <2>5, Mine, PlainStep
  <2>7. /\ l.op \in Op /\ l.ans = "pending" /\ (l.target # None => l.op.kind = "insert")
        /\ Scanning(l.op)
    BY <1>1, <1>2, <1>5, <2>4, Mine DEF Calls, Scanning
  <2>8. Knows(t)'
    BY <1>1, <2>4, <2>6, <2>7, Mine, StartKnows
  <2>q. QED
    BY <2>6, <2>8 DEF Kept
<1>6. CASE Goto(t, "endScan") /\ loc' = loc
  <2>1. OwnAt("endScan", loc[t]) = Own(t) /\ "endScan" \in Label
    BY <1>1 DEF OwnAt, Label
  <2>2. Does(t) /\ Typed' /\ Shape(page', alloc') /\ pc'[t] = "endScan" /\ Bounds(t)'
    BY <1>1, <1>6, <2>1, Mine, GotoStep
  <2>3. Calls(t)'
    BY <1>1, <1>2, <1>6, <2>2 DEF Calls
  <2>4. Way(t)' /\ Found(t)' /\ Holds(t)'
    BY <2>2 DEF Way, Found, Holds, Keeping
  <2>q. QED
    BY <2>2, <2>3, <2>4 DEF Kept, Knows
<1>q. QED
  BY <1>4, <1>5, <1>6 DEF Visit

\* The caller has seen enough.
LEMMA StopStep ==
  ASSUME IInv, NEW t \in Thread, Stop(t)
  PROVE  Kept(t)
<1>1. /\ pc[t] = "visit" /\ Own(t) = {} /\ page' = page /\ alloc' = alloc /\ xlock' = xlock
      /\ slock' = slock /\ scene' = scene /\ loaded' = loaded /\ loc' = loc
      /\ Goto(t, "stopScan")
  BY DEF Stop, tree, latch, load, Own, OwnAt
<1>2. OwnAt("stopScan", loc[t]) = Own(t) /\ "stopScan" \in Label
  BY <1>1 DEF OwnAt, Label
<1>3. Does(t) /\ Typed' /\ Shape(page', alloc') /\ pc'[t] = "stopScan" /\ Bounds(t)'
  BY <1>1, <1>2, Mine, GotoStep
<1>4. Calls(t)'
  BY <1>1, <1>3, Mine DEF Calls, Knows
<1>5. Way(t)' /\ Found(t)' /\ Holds(t)'
  BY <1>3 DEF Way, Found, Holds, Keeping
<1>q. QED
  BY <1>3, <1>4, <1>5 DEF Kept, Knows

\* The scan moves on to the next leaf.
LEMMA LockNextStep ==
  ASSUME IInv, NEW t \in Thread, LockNext(t)
  PROVE  Kept(t)
<1> DEFINE c == loc[t].cand
           l == [loc[t] EXCEPT !.nod.pid = c]
<1>1. /\ pc[t] = "lockNext" /\ Own(t) = {} /\ page' = page /\ alloc' = alloc /\ xlock' = xlock
      /\ scene' = scene /\ loaded' = loaded /\ Share(t, c)
      /\ pc' = [pc EXCEPT ![t] = "next"]
  BY DEF LockNext, Goto, tree, load, Own, OwnAt
<1>2. loc' = [loc EXCEPT ![t] = l]
  BY Mine DEF LockNext
<1>3. c \in Page /\ c < alloc
  BY Mine
<1> HIDE DEF c
<1>4. /\ l \in Local /\ l.op = loc[t].op /\ l.ans = loc[t].ans /\ l.cand = loc[t].cand
      /\ l.key = loc[t].key /\ l.target = loc[t].target
      /\ l.par = loc[t].par /\ l.nod.pid = c
  <2>1. ASSUME NEW g \in Guard, NEW p \in Page
        PROVE  [g EXCEPT !.pid = p] \in Guard /\ [g EXCEPT !.pid = p].pid = p
    BY DEF Guard
  <2>2. loc[t].nod \in Guard
    BY Mine, LocalFacts
  <2> DEFINE g == [loc[t].nod EXCEPT !.pid = c]
  <2>3. l = [loc[t] EXCEPT !.nod = g]
    BY DEF g
  <2>4. g \in Guard /\ g.pid = c
    BY <1>3, <2>1, <2>2
  <2> HIDE DEF l, g
  <2>q. QED
    BY <2>3, <2>4, Mine DEF Local
<1>5. OwnAt("next", l) = Own(t) /\ "next" \in Label
  BY <1>1 DEF OwnAt, Label
<1> HIDE DEF l
<1>6. slock' \in [Page -> SUBSET Thread]
  BY <1>1, Mine, SharedTyped
<1>7. Does(t) /\ Typed' /\ Shape(page', alloc') /\ loc'[t] = l /\ pc'[t] = "next"
  BY <1>1, <1>2, <1>4, <1>5, <1>6, Mine, PlainStep
<1>8. Bounds(t)'
  BY <1>1, <1>3, <1>4, <1>7, Mine DEF Bounds, Par, Nod, Knows
<1>9. Calls(t)'
  BY <1>1, <1>4, <1>7, Mine DEF Calls, Knows
<1>10. Way(t)' /\ Found(t)' /\ Holds(t)'
  BY <1>7 DEF Way, Found, Holds, Keeping
<1>q. QED
  BY <1>7, <1>8, <1>9, <1>10 DEF Kept, Knows

\* The scan lets its last leaf go.
LEMMA UnlockLastStep ==
  ASSUME IInv, NEW t \in Thread, UnlockLast(t)
  PROVE  Kept(t)
<1>1. /\ pc[t] = "next" /\ Own(t) = {} /\ page' = page /\ alloc' = alloc /\ xlock' = xlock
      /\ scene' = scene /\ loaded' = loaded /\ loc' = loc
      /\ Unshare(t, loc[t].held) /\ Goto(t, "visit")
  BY DEF UnlockLast, tree, load, Own, OwnAt
<1>2. OwnAt("visit", loc[t]) = Own(t) /\ "visit" \in Label
  BY <1>1 DEF OwnAt, Label
<1>3. slock' \in [Page -> SUBSET Thread]
  BY <1>1, Mine, SharedTyped
<1>4. Does(t) /\ Typed' /\ Shape(page', alloc') /\ pc'[t] = "visit" /\ Bounds(t)'
  BY <1>1, <1>2, <1>3, Mine, GotoStep
<1>5. Calls(t)'
  BY <1>1, <1>4, Mine DEF Calls, Knows
<1>6. Way(t)' /\ Found(t)' /\ Holds(t)'
  BY <1>4 DEF Way, Found, Holds, Keeping
<1>q. QED
  BY <1>4, <1>5, <1>6 DEF Kept, Knows

\* A scan that is over returns.
LEMMA EndScanStep ==
  ASSUME IInv, NEW t \in Thread, EndScan(t)
  PROVE  Kept(t)
<1>1. /\ pc[t] \in {"endScan", "stopScan"} /\ Own(t) = {} /\ page' = page /\ alloc' = alloc
      /\ xlock' = xlock /\ scene' = scene /\ loaded' = loaded
      /\ Unshare(t, Nod(t)) /\ Return(t, "done") /\ "done" \in Answer
  BY DEF EndScan, tree, load, Own, OwnAt, Answer
<1>2. slock' \in [Page -> SUBSET Thread]
  BY <1>1, Mine, SharedTyped
<1>q. QED
  BY <1>1, <1>2, ReturnStep
-----------------------------------------------------------------------------
\* Every step of a thread keeps what is known.
LEMMA Steps ==
  ASSUME IInv, NEW t \in Thread, Step(t)
  PROVE  Kept(t)
<1>1. CASE Begin(t) \/ LoadMeta(t) \/ ReadChild(t) \/ LoadChild(t) \/ Recheck(t)
  BY <1>1, BeginStep, LoadMetaStep, ReadChildStep, LoadChildStep, RecheckStep
<1>2. CASE Lookup(t) \/ Update(t) \/ Insert(t) \/ Remove(t) \/ EnsureSpace(t)
  BY <1>2, LookupStep, UpdateStep, InsertStep, RemoveStep, EnsureSpaceStep
<1>3. CASE CheckNode(t) \/ CheckParent(t) \/ LockLeaf(t) \/ ReleaseParent(t)
  BY <1>3, CheckNodeStep, CheckParentStep, LockLeafStep, ReleaseParentStep
<1>4. CASE WriteLeaf(t) \/ LockParent(t) \/ LockNode(t) \/ NewRoot(t) \/ Split(t)
  BY <1>4, WriteLeafStep, LockParentStep, LockNodeStep, NewRootStep, SplitStep
<1>5. CASE SplitFirst(t) \/ LockRight(t) \/ Merge(t) \/ UnlockNode(t) \/ UnlockParent(t)
  BY <1>5, SplitFirstStep, LockRightStep, MergeStep, UnlockNodeStep, UnlockParentStep
<1>6. CASE ScanLock(t) \/ Visit(t) \/ Stop(t) \/ LockNext(t) \/ UnlockLast(t) \/ EndScan(t)
  BY <1>6, ScanLockStep, VisitStep, StopStep, LockNextStep, UnlockLastStep, EndScanStep
<1>q. QED
  BY <1>1, <1>2, <1>3, <1>4, <1>5, <1>6 DEF Step

\* The tree that BTree's constructor makes: one leaf, the root, below the meta data.
LEMMA InitShape ==
  ASSUME Init
  PROVE  Shape(page, alloc)
<1> DEFINE top == Node(FALSE, Empty, 1, 0, Inf)
           leaf == Node(TRUE, Empty, None, 0, Inf)
<1>1. 1 \in Page /\ Meta \in Page /\ None \in Page /\ 0 \in 0 .. NKeys /\ Inf \in 1 .. Inf
  BY TreeAssumption, Numbers DEF Page
<1>2. /\ top \in NodeSet /\ Keys(top) = {} /\ Kids(top) = {1} /\ ~top.leaf
      /\ top.last = 1 /\ top.lower = 0 /\ top.upper = Inf
  BY <1>1, EmptyNode DEF Node
<1>3. /\ leaf \in NodeSet /\ Keys(leaf) = {} /\ leaf.leaf
      /\ leaf.last = None /\ leaf.lower = 0 /\ leaf.upper = Inf
  BY <1>1, EmptyNode DEF Node
<1>4. page = [p \in Page |-> IF p = Meta THEN top ELSE leaf] /\ alloc = 2
  BY DEF Init
<1> HIDE DEF top, leaf
<1>5. /\ page \in [Page -> NodeSet] /\ page[Meta] = top /\ page[1] = leaf
      /\ \A p \in Page : p # Meta => page[p] = leaf
      /\ \A p \in Page : ~page[p].leaf <=> p = Meta
  BY <1>1, <1>2, <1>3, <1>4 DEF Meta
<1>6. \A p : LiveLeaf(page, p) <=> p = 1
  BY <1>1, <1>2, <1>3, <1>5 DEF LiveLeaf
<1>7. InnerOK(page, top)
  <2>1. 0 < Inf /\ 0 < NKeys
    BY TreeAssumption, Numbers
  <2>2. ChildOK(page, top, 1)
    BY <1>1, <1>2, <1>3, <1>5, <2>1 DEF ChildOK, Meta
  <2>q. QED
    BY <1>2, <1>3, <1>5, <2>1, <2>2 DEF InnerOK
<1>8. LeafOK(page, leaf)
  BY <1>3 DEF LeafOK
<1>9. Payloads(page)
  BY <1>3, <1>5 DEF Payloads
<1>10. Levels(page)
  <2> DEFINE level == [p \in Page |-> IF p = Meta THEN 1 ELSE 0]
  <2>1. level \in [Page -> 0 .. 1] /\ level[Meta] = 1 /\ level[1] = 0
    BY <1>1 DEF Meta
  <2> HIDE DEF level
  <2>2. \A p \in Page : ~page[p].leaf => \A c \in Kids(page[p]) : level[c] < level[p]
    BY <1>2, <1>5, <2>1
  <2>q. QED
    BY <2>1, <2>2 DEF Levels
<1>11. Used(page, alloc)
  <2>1. alloc \in 1 .. NPages + 1
    BY <1>4, TreeAssumption
  <2>2. \A p \in Page : page[p].last < alloc
    BY <1>2, <1>3, <1>4, <1>5 DEF None
  <2>3. \A p \in Page : p >= alloc => page[p].leaf /\ ~LiveLeaf(page, p)
    BY <1>4, <1>5, <1>6, Numbers DEF Meta
  <2>q. QED
    BY <2>1, <2>2, <2>3 DEF Used
<1>q. QED
  BY <1>2, <1>5, <1>6, <1>7, <1>8, <1>9, <1>10, <1>11 DEF Shape

\* The invariant holds at first, when every thread is idle.
LEMMA InitIInv == Init => IInv
<1> SUFFICES ASSUME Init PROVE IInv
  OBVIOUS
<1>1. Shape(page, alloc)
  BY InitShape
<1>2. /\ xlock = [p \in Page |-> {}] /\ slock = [p \in Page |-> {}]
      /\ pc = [t \in Thread |-> "idle"] /\ loc = [t \in Thread |-> NoLocal]
      /\ scene \in Scene /\ loaded = 0 /\ alloc = 2
  BY DEF Init
<1>3. /\ NoLocal \in Local /\ NoLocal.par.pid = None /\ NoLocal.nod.pid = None
      /\ NoLocal.cand = None /\ NoLocal.target = None /\ NoLocal.ans = "done"
  <2>1. NoGuard \in Guard /\ NoGuard.pid = None
    <3>1. 0 \in 0 .. Cardinality(Thread)
      BY TreeAssumption, FS_CardinalityType
    <3>q. QED
      BY <3>1, Numbers DEF NoGuard, Guard
  <2>q. QED
    BY <2>1, Numbers DEF NoLocal, Local, Answer
<1>4. Typed
  BY <1>2, <1>3 DEF Typed, Label
<1>5. \A t \in Thread : pc[t] = "idle" /\ loc[t] = NoLocal /\ Own(t) = {}
  BY <1>2 DEF Own, OwnAt
<1>6. Latches
  BY <1>2, <1>5 DEF Latches
<1>7. ASSUME NEW t \in Thread PROVE Knows(t)
  <2>1. Bounds(t)
    BY <1>2, <1>3, <1>5 DEF Bounds, Par, Nod, None
  <2>2. Calls(t)
    BY <1>3, <1>5 DEF Calls
  <2>3. Way(t) /\ Found(t) /\ Holds(t)
    BY <1>5 DEF Way, Found, Holds, Keeping
  <2>q. QED
    BY <2>1, <2>2, <2>3 DEF Knows
<1>q. QED
  BY <1>1, <1>4, <1>6, <1>7 DEF IInv

\* A step of the program, or none, keeps the invariant.
LEMMA StepIInv == IInv /\ [Next]_vars => IInv'
<1> SUFFICES ASSUME IInv, [Next]_vars PROVE IInv'
  OBVIOUS
<1>1. ASSUME NEW t \in Thread, Step(t) PROVE IInv'
  <2>1. Does(t) /\ Typed' /\ Shape(page', alloc') /\ Knows(t)'
    BY <1>1, Steps DEF Kept
  <2>2. Typed /\ Latches
    BY DEF IInv
  <2>3. Latches'
    BY <2>1, <2>2, LatchesKept
  <2>4. ASSUME NEW u \in Thread PROVE Knows(u)'
    <3>1. Knows(u)
      BY DEF IInv
    <3>q. QED
      BY <2>1, <2>2, <3>1, OthersKnow
  <2>q. QED
    BY <2>1, <2>3, <2>4 DEF IInv
<1>2. CASE UNCHANGED vars
  <2>1. /\ page' = page /\ alloc' = alloc /\ xlock' = xlock /\ slock' = slock
        /\ pc' = pc /\ loc' = loc /\ scene' = scene /\ loaded' = loaded
    BY <1>2 DEF vars
  <2>2. Typed' /\ Shape(page', alloc')
    BY <2>1 DEF IInv, Typed
  <2>3. Latches'
    BY <2>1 DEF IInv, Latches, Own
  <2>4. ASSUME NEW t \in Thread PROVE Knows(t)'
    <3>1. Bounds(t)' /\ Calls(t)'
      BY <2>1 DEF IInv, Knows, Bounds, Calls, Par, Nod, K
    <3>2. Way(t)'
      BY <2>1 DEF IInv, Knows, Way, Par, Nod, K, QPar, QNod, Inside, CandBelow, NodBelow, Home,
                  AtGoal, KeepsParent
    <3>3. Found(t)'
      BY <2>1 DEF IInv, Knows, Found, Par, Nod, K, QPar, QNod, AtGoal, KeepsParent
    <3>4. Holds(t)'
      BY <2>1 DEF IInv, Knows, Holds, Par, Nod, K, QPar, QNod
    <3>q. QED
      BY <3>1, <3>2, <3>3, <3>4 DEF Knows
  <2>q. QED
    BY <2>2, <2>3, <2>4 DEF IInv
<1>q. QED
  BY <1>1, <1>2 DEF Next, Finished

\* The tree and what threads know of it is right at every moment.
THEOREM Inductive == Spec => []IInv
BY InitIInv, StepIInv, PTL DEF Spec

\* The model-checked invariant: types, and a search tree at every moment.
LEMMA IsTree == IInv => TreeInv
<1> SUFFICES ASSUME IInv PROVE TreeInv
  OBVIOUS
<1>1. Typed /\ Shape(page, alloc)
  BY DEF IInv
<1>2. ASSUME NEW p \in Page
      PROVE  /\ page[p].leaf \in BOOLEAN
             /\ Keys(page[p]) \subseteq Key
             /\ \A k \in Keys(page[p]) :
                  page[p].slot[k] \in IF page[p].leaf THEN Value ELSE Page
             /\ page[p].last \in Page
             /\ page[p].lower \in 0 .. NKeys /\ page[p].upper \in 1 .. Inf
  <2>1. page[p] \in NodeSet
    BY <1>1 DEF Shape
  <2>2. page[p].leaf => \A k \in Keys(page[p]) : page[p].slot[k] \in Value
    BY <1>1 DEF Shape, Payloads
  <2>3. ~page[p].leaf => \A k \in Keys(page[p]) : page[p].slot[k] \in Page
    BY <1>1 DEF Shape, InnerOK
  <2>q. QED
    BY <2>1, <2>2, <2>3, NodeFacts
<1>3. alloc \in 1 .. NPages + 1
  BY <1>1 DEF Shape, Used
<1>4. ASSUME NEW t \in Thread
      PROVE  /\ loc[t].op \in Op \union {NoOp}
             /\ loc[t].ans \in Value \union {"absent", "pending", "done"}
             /\ {loc[t].par, loc[t].nod} \subseteq Guard
             /\ {loc[t].cand, loc[t].held, loc[t].target} \subseteq Page
             /\ loc[t].key \in 0 .. NKeys
  <2>1. loc[t] \in Local
    BY <1>1 DEF Typed
  <2>2. /\ loc[t].op \in Op \union {NoOp} /\ loc[t].ans \in Answer
        /\ loc[t].par \in Guard /\ loc[t].nod \in Guard /\ loc[t].cand \in Page
        /\ loc[t].held \in Page /\ loc[t].key \in 0 .. NKeys /\ loc[t].target \in Page
    BY <2>1, LocalFacts
  <2>q. QED
    BY <2>2 DEF Answer
<1>5. TypeOK
  BY <1>1, <1>2, <1>3, <1>4 DEF TypeOK, Typed
<1> DEFINE leafOf == [k \in Key |-> LeafIn(page, k)]
<1>6. ASSUME NEW k \in Key
      PROVE  LET n == page[leafOf[k]] IN
             /\ n.leaf
             /\ n.lower < k /\ k <= n.upper
             /\ \A j \in Keys(n) : n.lower < j /\ j <= n.upper
             /\ n.last = IF n.upper = Inf THEN None ELSE leafOf[n.upper + 1]
  <2> DEFINE n == page[LeafIn(page, k)]
  <2>1. /\ n.leaf /\ n.lower < k /\ k <= n.upper
        /\ \A j \in Keys(n) : n.lower < j /\ j <= n.upper
        /\ n.upper # Inf => n.upper + 1 \in Key
        /\ n.last = IF n.upper = Inf THEN None ELSE LeafIn(page, n.upper + 1)
    BY <1>1, SearchTree
  <2>2. leafOf[k] = LeafIn(page, k)
    OBVIOUS
  <2>3. n.upper # Inf => leafOf[n.upper + 1] = LeafIn(page, n.upper + 1)
    BY <2>1
  <2> HIDE DEF leafOf
  <2>q. QED
    BY <2>1, <2>2, <2>3
<1>q. QED
  BY <1>5, <1>6 DEF TreeInv

\* A search for a key, at any moment and whatever splits and merges are under
\* way, ends in the one leaf whose fences enclose it; leaves hold keys between
\* their fences only, and their chain is the order of the search (btree.hpp:
\* lookupInner, splitNode, mergeNodes).
THEOREM SearchTreeAlways == Spec => []TreeInv
BY Inductive, IsTree, PTL
-----------------------------------------------------------------------------
(***************************************************************************)
(* Single-key calls are linearizable.  To the store, a step begins a call, *)
(* answers one, changes a key, or is silent.                               *)
(***************************************************************************)
Answered == seen = [t \in Thread |-> seen[t]] /\ \A t \in Thread : Answers(t)

\* The store's steps, as steps of the tree.
Begins(t) ==
  LET o == loc'[t].op  db == StoredIn(page) IN
  /\ StoredIn(page') = db
  /\ loc[t].ans # "pending" /\ loc'[t].ans = "pending" /\ o \in Op
  /\ o.kind = "insert" =>
       /\ o.key \notin DOMAIN db
       /\ \A u \in Thread :
            loc[u].ans = "pending" => loc[u].op.kind # "insert" \/ loc[u].op.key # o.key
  /\ seen' = [seen EXCEPT ![t] = {At(db, o.key)}]
  /\ pc'[t] # "checkParent"
Reads(t) ==
  LET o == loc[t].op IN
  /\ StoredIn(page') = StoredIn(page)
  /\ loc[t].ans = "pending" /\ loc'[t].ans # "pending" /\ loc'[t].op = o
  /\ o.kind \in {"lookup", "remove", "update", "scan", "scanDesc"}
  /\ o.kind = "lookup" => loc'[t].ans \in seen[t]
  /\ Scanning(o) => loc'[t].ans = "done"
  /\ o.kind \in {"remove", "update"} => loc'[t].ans = "absent" /\ "absent" \in seen[t]
  /\ seen' = [seen EXCEPT ![t] = {}]
Writes(t) ==
  LET o == loc[t].op  db == StoredIn(page) IN
  /\ loc[t].ans = "pending" /\ loc'[t].ans = "done" /\ loc'[t].op = o /\ o \in Op
  /\ o.kind \in {"insert", "remove", "update"}
  /\ o.kind = "insert" => o.key \notin DOMAIN db
  /\ o.kind # "insert" => o.key \in DOMAIN db
  /\ StoredIn(page') = IF o.kind = "remove" THEN Without(db, o.key) ELSE With(db, o.key, o.val)
  /\ seen' = [u \in Thread |->
                IF u = t THEN {}
                ELSE IF loc[u].ans = "pending" /\ loc[u].op.key = o.key
                       THEN seen[u] \union {At(StoredIn(page'), o.key)} ELSE seen[u]]
Silent(t) ==
  /\ StoredIn(page') = StoredIn(page) /\ seen' = seen
  /\ loc'[t].op = loc[t].op /\ loc'[t].ans = loc[t].ans
  /\ pc'[t] = "checkParent" /\ loc'[t].target = None /\ QPar(t)' => "absent" \in seen[t]

\* The leaf of the key holds what the tree holds.
LEMMA AtHome ==
  ASSUME IInv, NEW t \in Thread, K(t) \in Key, Home(t)
  PROVE  /\ K(t) \in DOMAIN StoredIn(page) <=> K(t) \in Keys(page[Nod(t)])
         /\ At(StoredIn(page), K(t)) = At(page[Nod(t)].slot, K(t))
<1>1. Nod(t) = LeafIn(page, K(t))
  BY Mine, Search DEF Home
<1>q. QED
  BY <1>1, StoredAt

\* A single-key call goes for the key it was given when it looks at a leaf.
LEMMA OwnKey ==
  ASSUME IInv, NEW t \in Thread, loc[t].ans = "pending", loc[t].target = None,
         ~Scanning(loc[t].op)
  PROVE  K(t) = loc[t].op.key /\ K(t) \in Key
BY Mine DEF Knows, Calls, K

\* Steps that write no page.
LEMMA BeginBegins ==
  ASSUME IInv, NEW t \in Thread, Begin(t)
  PROVE  Begins(t)
<1>1. PICK o : /\ o.kind = "insert" =>
                    /\ o.key \notin DOMAIN StoredIn(page)
                    /\ \A u \in Thread : pc[u] # "idle" => loc[u].op.kind # "insert"
                                                           \/ loc[u].op.key # o.key
               /\ loc' = [loc EXCEPT ![t] =
                    [NoLocal EXCEPT !.op = o, !.ans = "pending", !.key = o.key]]
               /\ seen' = [seen EXCEPT ![t] = {At(StoredIn(page), o.key)}]
  BY DEF Begin
<1>2. loc'[t].op = o /\ loc'[t].ans = "pending"
  BY <1>1, Mine DEF NoLocal
<1>3. loc'[t].op \in Op
  <2>1. pc'[t] = "start" /\ Knows(t)'
    BY BeginStep, Mine DEF Kept, Begin, Goto
  <2>q. QED
    BY <2>1 DEF Knows, Calls
<1>4. \A u \in Thread : loc[u].ans = "pending" => pc[u] # "idle"
  BY Mine DEF Knows, Calls
<1>5. pc[t] = "idle" /\ page' = page /\ pc'[t] = "start"
  BY Mine DEF Begin, tree, Goto
<1>q. QED
  BY <1>1, <1>2, <1>3, <1>4, <1>5 DEF Begins

\* A call that returns without effect.
LEMMA ReturnReads ==
  ASSUME IInv, NEW t \in Thread, NEW a, a # "pending", Return(t, a), page' = page,
         loc[t].ans = "pending",
         loc[t].op.kind \in {"lookup", "remove", "update", "scan", "scanDesc"},
         loc[t].op.kind = "lookup" => a \in seen[t],
         Scanning(loc[t].op) => a = "done",
         loc[t].op.kind \in {"remove", "update"} => a = "absent" /\ a \in seen[t]
  PROVE  Reads(t)
<1>1. loc'[t] = Returned(loc[t], a) /\ seen' = [seen EXCEPT ![t] = {}]
  BY Mine DEF Return
<1>2. loc'[t].op = loc[t].op /\ loc'[t].ans = a
  BY <1>1 DEF Returned, NoLocal
<1>q. QED
  BY <1>1, <1>2 DEF Reads

\* A call that starts again.
LEMMA RestartSilent ==
  ASSUME IInv, NEW t \in Thread, Restart(t), page' = page, seen' = seen
  PROVE  Silent(t)
<1>1. loc'[t] = Start(loc[t]) /\ pc'[t] = "start"
  BY Mine DEF Restart, Goto
<1>2. loc'[t].op = loc[t].op /\ loc'[t].ans = loc[t].ans
  <2>1. Start(loc[t]).op = loc[t].op /\ Start(loc[t]).ans = loc[t].ans
    BY Mine, LocalFacts
  <2>q. QED
    BY <1>1, <2>1
<1>q. QED
  BY <1>1, <1>2 DEF Silent

\* A lookup's answer is what its key has in the tree at that moment, while the
\* guard is quiet; otherwise it starts again.
LEMMA LookupReads ==
  ASSUME IInv, Answered, NEW t \in Thread, Lookup(t)
  PROVE  Reads(t) \/ Silent(t)
<1>1. /\ pc[t] = "leaf" /\ Own(t) = {} /\ page' = page /\ loc[t].op.kind = "lookup"
      /\ loc[t].target = None
  BY DEF Lookup, AtLeaf, tree, Own, OwnAt
<1>2. CASE ~CheckOk(loc[t].nod)
  BY <1>1, <1>2, RestartSilent DEF Lookup, history
<1>3. CASE CheckOk(loc[t].nod)
  <2> DEFINE a == At(page[Nod(t)].slot, K(t))
  <2>1. Home(t)
    BY <1>1, <1>3, Mine, QuietIsOk DEF Knows, Way, KeepsParent
  <2>2. loc[t].ans = "pending" /\ ~Scanning(loc[t].op)
    BY <1>1, Mine DEF Knows, Calls, Scanning
  <2>3. K(t) = loc[t].op.key /\ K(t) \in Key
    BY <1>1, <2>2, OwnKey
  <2>4. a = At(StoredIn(page), loc[t].op.key)
    BY <2>1, <2>3, AtHome
  <2>5. a \in seen[t]
    BY <2>2, <2>4 DEF Answered, Answers
  <2>6. a # "pending"
    <3>1. a \in Value \union {"absent"}
      BY <2>1, Mine DEF Home, LiveLeaf, Shape, Payloads, At, Keys
    <3>q. QED
      BY <3>1 DEF Value
  <2>7. Return(t, a)
    BY <1>3 DEF Lookup
  <2> HIDE DEF a
  <2>q. QED
    BY <1>1, <2>2, <2>5, <2>6, <2>7, ReturnReads
<1>q. QED
  BY <1>2, <1>3

\* An update without its key answers under a quiet guard, or starts again.
LEMMA UpdateReads ==
  ASSUME IInv, Answered, NEW t \in Thread, Update(t)
  PROVE  Reads(t) \/ Silent(t)
<1>1. /\ pc[t] = "leaf" /\ Own(t) = {} /\ page' = page /\ loc[t].op.kind = "update"
      /\ loc[t].target = None
  BY DEF Update, AtLeaf, tree, Own, OwnAt
<1> DEFINE has == K(t) \in Keys(page[Nod(t)])
<1>2. PICK found \in Told(loc[t].nod, has) :
        \/ found /\ Goto(t, "lockLeaf") /\ UNCHANGED <<loc, history>>
        \/ ~found /\ CheckOk(loc[t].nod) /\ Return(t, "absent")
        \/ ~found /\ ~CheckOk(loc[t].nod) /\ Restart(t) /\ UNCHANGED history
  BY DEF Update
<1>3. CASE found /\ Goto(t, "lockLeaf") /\ UNCHANGED <<loc, history>>
  <2>1. pc'[t] = "lockLeaf"
    BY <1>3, Mine DEF Goto
  <2>q. QED
    BY <1>1, <1>3, <2>1 DEF Silent, history
<1>4. CASE ~found /\ CheckOk(loc[t].nod) /\ Return(t, "absent")
  <2>1. Home(t) /\ ~has
    BY <1>1, <1>2, <1>4, Mine, QuietIsOk DEF Knows, Way, KeepsParent, Told
  <2>2. loc[t].ans = "pending" /\ ~Scanning(loc[t].op)
    BY <1>1, Mine DEF Knows, Calls, Scanning
  <2>3. K(t) = loc[t].op.key /\ K(t) \in Key
    BY <1>1, <2>2, OwnKey
  <2>4. At(StoredIn(page), loc[t].op.key) = "absent"
    BY <2>1, <2>3, AtHome DEF At
  <2>5. "absent" \in seen[t]
    BY <2>2, <2>4 DEF Answered, Answers
  <2>q. QED
    BY <1>1, <1>4, <2>2, <2>5, ReturnReads
<1>5. CASE ~found /\ ~CheckOk(loc[t].nod) /\ Restart(t) /\ UNCHANGED history
  BY <1>1, <1>5, RestartSilent DEF history
<1>q. QED
  BY <1>2, <1>3, <1>4, <1>5

\* A remove that has found its leaf without the key, and then the leaf where the
\* parent says, has seen a moment without the key.
LEMMA CheckNodeSilent ==
  ASSUME IInv, Answered, NEW t \in Thread, CheckNode(t)
  PROVE  Silent(t)
<1>1. pc[t] = "checkNode" /\ Own(t) = {} /\ page' = page /\ seen' = seen /\ xlock' = xlock
  BY DEF CheckNode, tree, history, latch, Own, OwnAt
<1>2. CASE ~CheckOk(loc[t].nod)
  BY <1>1, <1>2, RestartSilent DEF CheckNode
<1>3. CASE CheckOk(loc[t].nod)
  <2>1. pc'[t] = "checkParent" /\ loc' = loc
    BY <1>3, Mine DEF CheckNode, Goto
  <2>2. ASSUME loc[t].target = None, QPar(t) PROVE "absent" \in seen[t]
    <3>1. Way(t) /\ Found(t) /\ Calls(t)
      BY Mine DEF Knows
    <3>2. K(t) \notin Keys(page[Nod(t)])
      BY <1>1, <1>3, <2>2, <3>1, Mine, QuietIsOk DEF Found
    <3>3. loc[t].op.kind = "remove" /\ loc[t].ans = "pending"
      BY <1>1, <2>2, <3>1 DEF Calls
    <3>4. NodBelow(t) /\ AtGoal(t)
      BY <1>1, <2>2, <3>1, <3>3 DEF Way, Keeping, KeepsParent
    <3>5. K(t) = loc[t].op.key /\ K(t) \in Key
      BY <2>2, <3>3, OwnKey DEF Scanning
    <3>6. Nod(t) # Meta /\ Encloses(page[Nod(t)], K(t))
          /\ (page[Nod(t)].leaf => LiveLeaf(page, Nod(t)))
      BY <3>4, <3>5, Below DEF NodBelow
    <3>7. Home(t)
      BY <2>2, <3>4, <3>6 DEF Home, AtGoal, Meta, None
    <3>8. At(StoredIn(page), loc[t].op.key) = "absent"
      BY <3>2, <3>5, <3>7, AtHome DEF At
    <3>q. QED
      BY <3>3, <3>8 DEF Answered, Answers
  <2>3. QPar(t)' <=> QPar(t)
    BY <1>1, <2>1 DEF QPar
  <2>q. QED
    BY <1>1, <2>1, <2>2, <2>3 DEF Silent
<1>q. QED
  BY <1>2, <1>3

\* A remove that has not found its key answers what was true when it looked.
LEMMA CheckParentReads ==
  ASSUME IInv, Answered, NEW t \in Thread, CheckParent(t)
  PROVE  Reads(t) \/ Silent(t)
<1>1. pc[t] = "checkParent" /\ Own(t) = {} /\ page' = page
  BY DEF CheckParent, tree, Own, OwnAt
<1>2. CASE ~CheckOk(loc[t].par)
  BY <1>1, <1>2, RestartSilent DEF CheckParent, history
<1>3. CASE CheckOk(loc[t].par) /\ loc[t].target = None
  <2>1. Return(t, "absent")
    BY <1>3 DEF CheckParent
  <2>2. loc[t].op.kind = "remove" /\ loc[t].ans = "pending"
    BY <1>1, <1>3, Mine DEF Knows, Calls
  <2>3. QPar(t)
    BY <1>1, <1>3, Mine, QuietIsOk
  <2>4. "absent" \in seen[t]
    BY <1>1, <1>3, <2>2, <2>3 DEF Answered, Answers
  <2>q. QED
    BY <1>1, <2>1, <2>2, <2>4, ReturnReads DEF Scanning
<1>4. CASE CheckOk(loc[t].par) /\ loc[t].target # None
  <2>1. pc'[t] = "start" /\ loc'[t] = Again(loc[t]) /\ seen' = seen
    BY <1>4, Mine DEF CheckParent, Goto, history
  <2>2. Start(loc[t]) \in Local /\ Start(loc[t]).op = loc[t].op /\ Start(loc[t]).ans = loc[t].ans
    BY Mine, LocalFacts
  <2>3. loc'[t].op = loc[t].op /\ loc'[t].ans = loc[t].ans
    BY <2>1, <2>2 DEF Again, Local
  <2>q. QED
    BY <1>1, <2>1, <2>3 DEF Silent
<1>q. QED
  BY <1>2, <1>3, <1>4

\* A scan that is over answers nothing.
LEMMA EndScanReads ==
  ASSUME IInv, NEW t \in Thread, EndScan(t)
  PROVE  Reads(t)
<1>1. pc[t] \in {"endScan", "stopScan"} /\ page' = page /\ Return(t, "done")
  BY DEF EndScan, tree
<1>2. loc[t].ans = "pending" /\ Scanning(loc[t].op)
  BY <1>1, Mine DEF Knows, Calls
<1>3. loc[t].op.kind \in {"scan", "scanDesc"}
  BY <1>2 DEF Scanning
<1>q. QED
  BY <1>1, <1>2, <1>3, ReturnReads

\* A call that changes its key.
LEMMA ChangeWrites ==
  ASSUME IInv, Answered, NEW t \in Thread, Effect(t), Home(t),
         loc[t].ans = "pending", loc[t].target = None, loc[t].op \in Op,
         loc[t].op.kind \in {"insert", "remove", "update"},
         loc[t].op.kind # "insert" => K(t) \in Keys(page[Nod(t)]),
         loc'[t].op = loc[t].op, loc'[t].ans = "done",
         loc[t].op.kind = "remove" => StoredIn(page') = Without(StoredIn(page), K(t)),
         loc[t].op.kind # "remove" =>
           StoredIn(page') = With(StoredIn(page), K(t), loc[t].op.val)
  PROVE  Writes(t)
<1>1. K(t) = loc[t].op.key /\ K(t) \in Key
  BY OwnKey DEF Scanning
<1>2. loc[t].op.kind = "insert" => loc[t].op.key \notin DOMAIN StoredIn(page)
  BY DEF Answered, Answers
<1>3. loc[t].op.kind # "insert" => loc[t].op.key \in DOMAIN StoredIn(page)
  BY <1>1, AtHome
<1>4. seen' = [u \in Thread |->
                 IF u = t THEN {}
                 ELSE IF loc[u].ans = "pending" /\ loc[u].op.key = loc[t].op.key
                        THEN seen[u] \union {At(StoredIn(page'), loc[t].op.key)} ELSE seen[u]]
  BY DEF Effect
<1>q. QED
  BY <1>1, <1>2, <1>3, <1>4 DEF Writes

\* The answer that remains when a page is unlocked.
LEMMA DropsAns ==
  ASSUME IInv, NEW t \in Thread, NEW p, NEW l \in Local, Drops(t, l, p)
  PROVE  loc'[t].op = l.op /\ loc'[t].ans = l.ans
<1> DEFINE ll == [loc EXCEPT ![t] = l]
<1>1. ll \in [Thread -> Local] /\ ll[t] = l /\ loc' = Expire(ll, p)
  BY Mine DEF Drops
<1> HIDE DEF ll
<1>2. Same(loc'[t], ll[t])
  BY <1>1, ExpireFacts
<1>q. QED
  BY <1>1, <1>2 DEF Same

\* insertInPage, removeSlot and update are the moment of their calls.
LEMMA WriteLeafWrites ==
  ASSUME IInv, Answered, NEW t \in Thread, WriteLeaf(t)
  PROVE  Writes(t)
<1>1. pc[t] = "write" /\ Effect(t) /\ Drops(t, Returned(loc[t], "done"), Nod(t))
  BY DEF WriteLeaf, Drops
<1>2. Calls(t) /\ Way(t) /\ Found(t) /\ Holds(t)
  BY Mine DEF Knows
<1>3. /\ loc[t].ans = "pending" /\ loc[t].target = None /\ loc[t].op \in Op /\ Home(t)
      /\ loc[t].op.kind \in {"insert", "remove", "update"}
      /\ loc[t].op.kind # "insert" => K(t) \in Keys(page[Nod(t)])
  BY <1>1, <1>2 DEF Calls, Way, Found, Holds
<1>4. Returned(loc[t], "done") \in Local /\ Returned(loc[t], "done").op = loc[t].op
      /\ Returned(loc[t], "done").ans = "done"
  <2>1. loc[t] \in Local /\ "done" \in Answer
    BY Mine DEF Answer
  <2> DEFINE l == Returned(loc[t], "done")
  <2>2. /\ l \in Local /\ l.op = loc[t].op /\ l.ans = "done" /\ l.target = None
        /\ l.par = NoGuard /\ l.nod = NoGuard /\ l.cand = None
    BY <2>1, LocalFacts
  <2>q. QED
    BY <2>2
<1>5. loc'[t].op = loc[t].op /\ loc'[t].ans = "done"
  <2>1. /\ loc'[t].op = Returned(loc[t], "done").op
        /\ loc'[t].ans = Returned(loc[t], "done").ans
    BY <1>1, <1>4, DropsAns
  <2>q. QED
    BY <1>4, <2>1
<1>6. /\ loc[t].op.kind = "remove" => StoredIn(page') = Without(StoredIn(page), K(t))
      /\ loc[t].op.kind # "remove" =>
           StoredIn(page') = With(StoredIn(page), K(t), loc[t].op.val)
  BY WriteLeafPages
<1>q. QED
  BY <1>1, <1>3, <1>5, <1>6, ChangeWrites

\* A remove that merges takes effect with the merge.
LEMMA MergeWrites ==
  ASSUME IInv, Answered, NEW t \in Thread, Merge(t)
  PROVE  Writes(t)
<1> DEFINE l == [loc[t] EXCEPT !.ans = "done"]
<1>1. pc[t] = "merge" /\ Effect(t)
  BY DEF Merge
<1>2. Drops(t, l, loc[t].cand)
  <2>1. [loc EXCEPT ![t].ans = "done"] = [loc EXCEPT ![t] = l]
    BY Mine
  <2>q. QED
    BY <2>1 DEF Drops, Merge
<1>3. l \in Local /\ l.op = loc[t].op /\ l.ans = "done"
  BY Mine DEF Local, Answer
<1> HIDE DEF l
<1>4. loc'[t].op = loc[t].op /\ loc'[t].ans = "done"
  <2>1. loc'[t].op = l.op /\ loc'[t].ans = l.ans
    BY <1>2, <1>3, DropsAns
  <2>q. QED
    BY <1>3, <2>1
<1>5. /\ Home(t) /\ K(t) \in Keys(page[Nod(t)])
      /\ loc[t].op.kind = "remove" /\ loc[t].target = None
  BY <1>1, MergeKnows DEF Home
<1>6. loc[t].ans = "pending" /\ loc[t].op \in Op
  BY <1>1, Mine DEF Knows, Calls
<1>7. StoredIn(page') = Without(StoredIn(page), K(t))
  BY MergePages
<1>q. QED
  BY <1>1, <1>4, <1>5, <1>6, <1>7, ChangeWrites

\* Steps on the way down, and locks: nothing changes but where the thread is.
LEMMA WaySilent ==
  ASSUME IInv, NEW t \in Thread,
         LoadMeta(t) \/ ReadChild(t) \/ LoadChild(t) \/ Recheck(t)
  PROVE  Silent(t)
<1>1. page' = page /\ seen' = seen
  BY DEF LoadMeta, ReadChild, LoadChild, Recheck, tree, history
<1>2. loc[t] \in Local /\ Start(loc[t]).op = loc[t].op /\ Start(loc[t]).ans = loc[t].ans
  BY Mine, LocalFacts
<1>3. CASE Restart(t)
  BY <1>1, <1>3, RestartSilent
<1>4. CASE ~Restart(t)
  <2>1. loc'[t].op = loc[t].op /\ loc'[t].ans = loc[t].ans
    BY <1>2, <1>4, Mine DEF LoadMeta, ReadChild, LoadChild, Recheck, Local
  <2>2. pc'[t] # "checkParent"
    BY <1>4, Mine DEF LoadMeta, ReadChild, LoadChild, Recheck, Goto
  <2>q. QED
    BY <1>1, <2>1, <2>2 DEF Silent
<1>q. QED
  BY <1>3, <1>4

\* Choosing and locking what to write is silent.
LEMMA LeafSilent ==
  ASSUME IInv, NEW t \in Thread,
         \/ Insert(t) \/ Remove(t) \/ EnsureSpace(t) \/ LockLeaf(t) \/ LockParent(t)
         \/ Stop(t) \/ UnlockLast(t) \/ ScanLock(t)
  PROVE  Silent(t)
<1>1. page' = page /\ seen' = seen
  BY DEF Insert, Remove, EnsureSpace, LockLeaf, LockParent, Stop, UnlockLast, ScanLock,
         tree, history
<1>2. CASE Restart(t)
  BY <1>1, <1>2, RestartSilent
<1>3. CASE ~Restart(t)
  <2>1. loc' = loc
    BY <1>3 DEF Insert, Remove, EnsureSpace, LockLeaf, LockParent, Stop, UnlockLast, ScanLock
  <2>2. pc'[t] # "checkParent"
    <3>1. CASE Insert(t) \/ LockLeaf(t) \/ LockParent(t) \/ Stop(t) \/ UnlockLast(t) \/ ScanLock(t)
      BY <1>3, <3>1, Mine
      DEF Insert, LockLeaf, LockParent, Stop, UnlockLast, ScanLock, Goto
    <3>2. CASE Remove(t)
      <4>1. \E x \in {"checkNode", "lockParent", "lockLeaf"} : Goto(t, x)
        BY <3>2 DEF Remove
      <4>q. QED
        BY <4>1, Mine DEF Goto
    <3>3. CASE EnsureSpace(t)
      BY <3>3, Mine DEF EnsureSpace, Goto
    <3>q. QED
      BY <3>1, <3>2, <3>3
  <2>q. QED
    BY <1>1, <2>1, <2>2 DEF Silent
<1>q. QED
  BY <1>2, <1>3

\* So is locking and unlocking around it.
LEMMA LockedSilent ==
  ASSUME IInv, NEW t \in Thread,
         \/ ReleaseParent(t) \/ LockNode(t) \/ LockRight(t) \/ UnlockNode(t) \/ UnlockParent(t)
  PROVE  Silent(t)
<1>1. page' = page /\ seen' = seen
  BY DEF ReleaseParent, LockNode, LockRight, UnlockNode, UnlockParent, tree, history
<1>2. loc[t] \in Local /\ "done" \in Answer /\ loc = [loc EXCEPT ![t] = loc[t]]
  BY Mine DEF Answer
<1>3. /\ Start(loc[t]) \in Local /\ Start(loc[t]).op = loc[t].op
      /\ Start(loc[t]).ans = loc[t].ans
  BY <1>2, LocalFacts
<1>4. pc'[t] # "checkParent"
  BY Mine DEF ReleaseParent, LockNode, LockRight, UnlockNode, UnlockParent, Goto
<1>5. CASE loc' = loc \/ LockRight(t)
  <2>1. loc'[t].op = loc[t].op /\ loc'[t].ans = loc[t].ans
    BY <1>2, <1>5, Mine DEF LockRight, Local
  <2>q. QED
    BY <1>1, <1>4, <2>1 DEF Silent
<1>6. ASSUME NEW p, NEW l \in Local, Drops(t, l, p), l.op = loc[t].op, l.ans = loc[t].ans
      PROVE  Silent(t)
  <2>1. loc'[t].op = l.op /\ loc'[t].ans = l.ans
    BY <1>6, DropsAns
  <2>q. QED
    BY <1>1, <1>4, <1>6, <2>1 DEF Silent
<1>7. CASE ReleaseParent(t) \/ LockNode(t)
  BY <1>3, <1>5, <1>6, <1>7 DEF ReleaseParent, LockNode, Drops
<1>8. CASE UnlockNode(t)
  <2>1. Drops(t, loc[t], Nod(t))
    BY <1>2, <1>8 DEF UnlockNode, Drops
  <2>q. QED
    BY <1>2, <1>6, <2>1
<1>9. CASE UnlockParent(t)
  <2> DEFINE l == Returned(loc[t], "done")
  <2>1. /\ l \in Local /\ l.op = loc[t].op /\ l.ans = "done" /\ l.target = None
        /\ l.par = NoGuard /\ l.nod = NoGuard /\ l.cand = None
    BY <1>2, LocalFacts, ZenonT(30)
  <2>2. \/ loc[t].ans = "done" /\ Drops(t, l, Par(t))
        \/ Drops(t, Start(loc[t]), Par(t))
    BY <1>9 DEF UnlockParent, Drops
  <2> HIDE DEF l
  <2>q. QED
    BY <1>3, <1>6, <2>1, <2>2
<1>q. QED
  BY <1>5, <1>7, <1>8, <1>9

\* Splits change where keys are, not what the tree holds.
LEMMA SplitSilent ==
  ASSUME IInv, NEW t \in Thread, NewRoot(t) \/ Split(t) \/ SplitFirst(t)
  PROVE  Silent(t)
<1>1. StoredIn(page') = StoredIn(page)
  BY NewRootPages, SplitPages DEF SplitFirst, tree
<1>2. seen' = seen /\ pc'[t] # "checkParent"
  BY Mine DEF NewRoot, Split, SplitFirst, history, Goto
<1>3. loc'[t].op = loc[t].op /\ loc'[t].ans = loc[t].ans
  <2>1. CASE NewRoot(t)
    <3> DEFINE l == [loc[t] EXCEPT !.par.pid = alloc]
    <3>1. alloc \in Page
      BY <2>1, NewRootPages
    <3>2. l \in Local /\ l.op = loc[t].op /\ l.ans = loc[t].ans
      <4>1. ASSUME NEW r \in Local
            PROVE  LET m == [r EXCEPT !.par.pid = alloc] IN
                   m \in Local /\ m.op = r.op /\ m.ans = r.ans
        BY <3>1, ReparentFacts, ZenonT(30)
      <4>q. QED
        BY <4>1, Mine
    <3>3. Drops(t, l, Meta)
      <4>1. [loc EXCEPT ![t].par.pid = alloc] = [loc EXCEPT ![t] = l]
        BY Mine
      <4>q. QED
        BY <2>1, <4>1 DEF NewRoot, Drops
    <3> HIDE DEF l
    <3>4. loc'[t].op = l.op /\ loc'[t].ans = l.ans
      BY <3>2, <3>3, DropsAns
    <3>q. QED
      BY <3>2, <3>4
  <2>2. CASE Split(t) \/ SplitFirst(t)
    BY <2>2, Mine DEF Split, SplitFirst, Local
  <2>q. QED
    BY <2>1, <2>2
<1>q. QED
  BY <1>1, <1>2, <1>3 DEF Silent

\* Scans change nothing.
LEMMA VisitSilent ==
  ASSUME IInv, NEW t \in Thread, Visit(t) \/ LockNext(t)
  PROVE  Silent(t)
<1>1. page' = page /\ seen' = seen /\ pc'[t] # "checkParent"
  BY Mine DEF Visit, LockNext, tree, history, Goto
<1>2. loc[t] \in Local /\ Start(loc[t]) \in Local /\ Start(loc[t]).op = loc[t].op
      /\ Start(loc[t]).ans = loc[t].ans
  BY Mine, LocalFacts
<1>3. loc'[t].op = loc[t].op /\ loc'[t].ans = loc[t].ans
  <2> DEFINE m == Start(loc[t])
  <2>1. m \in Local /\ m.op = loc[t].op /\ m.ans = loc[t].ans
    BY <1>2
  <2>2. \/ loc' = loc
        \/ loc' = [loc EXCEPT ![t].held = Nod(t), ![t].cand = page[Nod(t)].last]
        \/ loc' = [loc EXCEPT ![t] = [m EXCEPT !.held = Nod(t), !.key = page[Nod(t)].lower]]
        \/ loc' = [loc EXCEPT ![t].nod.pid = loc[t].cand]
    BY DEF Visit, LockNext
  <2> HIDE DEF m
  <2>q. QED
    BY <1>2, <2>1, <2>2, Mine, ZenonT(60) DEF Local
<1>q. QED
  BY <1>1, <1>3 DEF Silent

\* Every step is one of the store's, or silent.
LEMMA StepsAre ==
  ASSUME IInv, Answered, NEW t \in Thread, Step(t)
  PROVE  Begins(t) \/ Reads(t) \/ Writes(t) \/ Silent(t)
<1>1. CASE Begin(t)
  BY <1>1, BeginBegins
<1>2. CASE LoadMeta(t) \/ ReadChild(t) \/ LoadChild(t) \/ Recheck(t)
  BY <1>2, WaySilent
<1>3. CASE Lookup(t) \/ Update(t) \/ CheckParent(t) \/ CheckNode(t) \/ EndScan(t)
  BY <1>3, LookupReads, UpdateReads, CheckParentReads, CheckNodeSilent, EndScanReads
<1>4. CASE \/ Insert(t) \/ Remove(t) \/ EnsureSpace(t) \/ LockLeaf(t) \/ LockParent(t)
           \/ Stop(t) \/ UnlockLast(t) \/ ScanLock(t)
  BY <1>4, LeafSilent
<1>5. CASE \/ ReleaseParent(t) \/ LockNode(t) \/ LockRight(t) \/ UnlockNode(t)
           \/ UnlockParent(t)
  BY <1>5, LockedSilent
<1>6. CASE NewRoot(t) \/ Split(t) \/ SplitFirst(t)
  BY <1>6, SplitSilent
<1>7. CASE WriteLeaf(t) \/ Merge(t)
  BY <1>7, WriteLeafWrites, MergeWrites
<1>8. CASE Visit(t) \/ LockNext(t)
  BY <1>8, VisitSilent
<1>q. QED
  BY <1>1, <1>2, <1>3, <1>4, <1>5, <1>6, <1>7, <1>8 DEF Step

\* A step of one thread, as the others and the store see it.
LEMMA OthersCalls ==
  ASSUME IInv, NEW t \in Thread, Step(t)
  PROVE  \A u \in Thread : u # t =>
           /\ loc'[u].op = loc[u].op /\ loc'[u].ans = loc[u].ans
           /\ loc'[u].target = loc[u].target /\ pc'[u] = pc[u]
           /\ QPar(u)' => QPar(u)
<1>1. Does(t)
  BY Steps DEF Kept
<1>2. ASSUME NEW u \in Thread, u # t
      PROVE  /\ loc'[u].op = loc[u].op /\ loc'[u].ans = loc[u].ans
             /\ loc'[u].target = loc[u].target /\ pc'[u] = pc[u]
  BY <1>1, <1>2 DEF Does, Spares, Same
<1>3. ASSUME NEW u \in Thread, u # t PROVE QPar(u)' => QPar(u)
  <2>1. Typed /\ Latches /\ Bounds(u)
    BY Mine DEF Knows
  <2>q. QED
    BY <1>1, <1>3, <2>1, QuietPage
<1>q. QED
  BY <1>2, <1>3

\* A pending call can answer with the truth after every step, too.
LEMMA StillAnswered ==
  ASSUME IInv, Answered, NEW t \in Thread, Step(t)
  PROVE  Answered'
<1>1. \A u \in Thread : u # t =>
           /\ loc'[u].op = loc[u].op /\ loc'[u].ans = loc[u].ans
           /\ loc'[u].target = loc[u].target /\ pc'[u] = pc[u]
           /\ QPar(u)' => QPar(u)
  BY OthersCalls
<1>2. seen = [u \in Thread |-> seen[u]] /\ \A u \in Thread : Answers(u)
  BY DEF Answered
<1>3. CASE Begins(t)
  <2>1. seen' = [u \in Thread |-> seen'[u]] /\ \A u \in Thread : u # t => seen'[u] = seen[u]
        /\ seen'[t] = {At(StoredIn(page), loc'[t].op.key)}
    BY <1>2, <1>3 DEF Begins
  <2>2. ASSUME NEW u \in Thread, u # t PROVE Answers(u)'
    BY <1>1, <1>2, <1>3, <2>1, <2>2 DEF Answers, Begins
  <2>3. Answers(t)'
    <3>1. At(StoredIn(page'), loc'[t].op.key) \in seen'[t]
      BY <1>3, <2>1 DEF Begins
    <3>q. QED
      BY <1>1, <1>3, <3>1 DEF Answers, Begins
  <2>q. QED
    BY <2>1, <2>2, <2>3 DEF Answered
<1>4. CASE Reads(t)
  <2>1. seen' = [u \in Thread |-> seen'[u]] /\ \A u \in Thread : u # t => seen'[u] = seen[u]
    BY <1>2, <1>4 DEF Reads
  <2>2. ASSUME NEW u \in Thread, u # t PROVE Answers(u)'
    BY <1>1, <1>2, <1>4, <2>1, <2>2 DEF Answers, Reads
  <2>3. Answers(t)'
    BY <1>4 DEF Answers, Reads
  <2>q. QED
    BY <2>1, <2>2, <2>3 DEF Answered
<1>5. CASE Silent(t)
  <2>1. ASSUME NEW u \in Thread, u # t PROVE Answers(u)'
    BY <1>1, <1>2, <1>5, <2>1 DEF Answers, Silent
  <2>2. ASSUME loc'[t].ans = "pending" PROVE Answers(t)'
    <3>1. /\ loc'[t].op = loc[t].op /\ loc[t].ans = "pending"
          /\ StoredIn(page') = StoredIn(page) /\ seen' = seen
      BY <1>5, <2>2 DEF Silent
    <3>2. /\ At(StoredIn(page), loc[t].op.key) \in seen[t]
          /\ loc[t].op.kind = "insert" =>
               /\ loc[t].op.key \notin DOMAIN StoredIn(page)
               /\ \A u \in Thread \ {t} :
                    loc[u].ans = "pending" /\ loc[u].op.kind = "insert"
                      => loc[u].op.key # loc[t].op.key
      BY <1>2, <3>1 DEF Answers
    <3>3. pc'[t] = "checkParent" /\ loc'[t].target = None => (QPar(t)' => "absent" \in seen'[t])
      BY <1>5, <3>1 DEF Silent
    <3>4. At(StoredIn(page'), loc'[t].op.key) \in seen'[t]
      BY <3>1, <3>2
    <3>5. loc'[t].op.kind = "insert" =>
            /\ loc'[t].op.key \notin DOMAIN StoredIn(page')
            /\ \A u \in Thread \ {t} :
                 loc'[u].ans = "pending" /\ loc'[u].op.kind = "insert"
                   => loc'[u].op.key # loc'[t].op.key
      BY <1>1, <3>1, <3>2
    <3>q. QED
      BY <3>3, <3>4, <3>5 DEF Answers
  <2>3. Answers(t)'
    BY <2>2 DEF Answers
  <2>q. QED
    BY <1>2, <1>5, <2>1, <2>3 DEF Answered, Silent
<1>6. CASE Writes(t)
  <2> DEFINE o == loc[t].op
             db == StoredIn(page)
             db2 == StoredIn(page')
  <2>1. /\ o.kind # "remove" => DOMAIN db2 = DOMAIN db \union {o.key}
        /\ o.kind = "remove" => DOMAIN db2 = DOMAIN db \ {o.key}
        /\ \A j : j # o.key => At(db2, j) = At(db, j)
    <3>1. db2 = IF o.kind = "remove" THEN Without(db, o.key) ELSE With(db, o.key, o.val)
      BY <1>6 DEF Writes
    <3> HIDE DEF db, db2, o
    <3>2. /\ DOMAIN With(db, o.key, o.val) = DOMAIN db \union {o.key}
          /\ \A j : j # o.key => At(With(db, o.key, o.val), j) = At(db, j)
          /\ DOMAIN Without(db, o.key) = DOMAIN db \ {o.key}
          /\ \A j : j # o.key => At(Without(db, o.key), j) = At(db, j)
      BY DEF With, Without, At
    <3>q. QED
      BY <3>1, <3>2
  <2>2. /\ seen' = [u \in Thread |-> seen'[u]]
        /\ \A u \in Thread : u # t =>
             seen'[u] = IF loc[u].ans = "pending" /\ loc[u].op.key = o.key
                          THEN seen[u] \union {At(db2, o.key)} ELSE seen[u]
    BY <1>6 DEF Writes
  <2>3. /\ loc[t].ans = "pending" /\ loc'[t].ans = "done"
        /\ o.kind # "insert" => o.key \in DOMAIN db
    BY <1>6 DEF Writes
  <2>4. ASSUME NEW u \in Thread, u # t, loc[u].ans = "pending" PROVE Answers(u)'
    <3>1. At(db2, loc[u].op.key) \in seen'[u] /\ seen[u] \subseteq seen'[u]
      <4>1. At(db, loc[u].op.key) \in seen[u]
        BY <1>2, <2>4 DEF Answers
      <4>q. QED
        BY <2>1, <2>2, <2>4, <4>1
    <3>2. ASSUME loc[u].op.kind = "insert" PROVE loc[u].op.key \notin DOMAIN db2
      <4>1. /\ loc[u].op.key \notin DOMAIN db
            /\ o.kind = "insert" => o.key # loc[u].op.key
        BY <1>2, <2>3, <2>4, <3>2 DEF Answers
      <4>q. QED
        BY <2>1, <2>3, <4>1
    <3>3. ASSUME loc[u].op.kind = "insert", NEW w \in Thread \ {u},
                 loc'[w].ans = "pending", loc'[w].op.kind = "insert"
          PROVE  loc'[w].op.key # loc[u].op.key
      <4>1. w # t
        BY <2>3, <3>3
      <4>q. QED
        BY <1>1, <1>2, <2>4, <3>3, <4>1 DEF Answers
    <3>4. pc[u] = "checkParent" /\ loc[u].target = None => (QPar(u)' => "absent" \in seen'[u])
      BY <1>1, <1>2, <2>4, <3>1 DEF Answers
    <3>q. QED
      BY <1>1, <2>4, <3>1, <3>2, <3>3, <3>4 DEF Answers
  <2>5. ASSUME NEW u \in Thread PROVE Answers(u)'
    <3>1. u = t \/ loc[u].ans # "pending" => ~(loc'[u].ans = "pending")
      BY <1>1, <2>3
    <3>q. QED
      BY <2>4, <3>1 DEF Answers
  <2>q. QED
    BY <2>2, <2>5 DEF Answered
<1>q. QED
  BY <1>3, <1>4, <1>5, <1>6, StepsAre

\* What the tree's step is to the store.
LEMMA StoreSteps ==
  ASSUME IInv, Answered, NEW t \in Thread, Step(t)
  PROVE  Store!Next \/ UNCHANGED Store!vars
<1> DEFINE op == [u \in Thread |-> loc[u].op]
           ans == [u \in Thread |-> loc[u].ans]
           op2 == [u \in Thread |-> loc'[u].op]
           ans2 == [u \in Thread |-> loc'[u].ans]
<1>1. \A u \in Thread : u # t => loc'[u].op = loc[u].op /\ loc'[u].ans = loc[u].ans
  BY OthersCalls
<1>2. /\ op2 = [op EXCEPT ![t] = op2[t]] /\ ans2 = [ans EXCEPT ![t] = ans2[t]]
      /\ op2[t] = loc'[t].op /\ ans2[t] = loc'[t].ans
      /\ \A u \in Thread : op[u] = loc[u].op /\ ans[u] = loc[u].ans
  BY <1>1
<1>3. loc'[t].op = loc[t].op => op2 = op
  BY <1>1
<1>4. CASE Silent(t)
  <2>1. ans2 = ans
    BY <1>1, <1>4 DEF Silent
  <2>q. QED
    BY <1>3, <1>4, <2>1 DEF Silent, Store!vars
<1> HIDE DEF op, ans, op2, ans2
<1>5. CASE Begins(t)
  <2> DEFINE o == loc'[t].op  db == StoredIn(page)
  <2>1. op2[t] = o /\ ans[t] = loc[t].ans /\ ans2[t] = "pending"
    BY <1>2, <1>5 DEF Begins
  <2>2. /\ ans[t] # "pending" /\ ans2 = [ans EXCEPT ![t] = "pending"]
        /\ op2 = [op EXCEPT ![t] = op2[t]]
    BY <1>2, <1>5, <2>1 DEF Begins
  <2>3. op2[t] \in Store!Op
    BY <1>5, <2>1 DEF Begins, Op, Kind, Store!Op, Store!Scans
  <2>4. op2[t].kind = "insert" =>
          /\ op2[t].key \notin DOMAIN db
          /\ \A u \in Thread :
               ans[u] = "pending" => op[u].kind # "insert" \/ op[u].key # op2[t].key
    BY <1>2, <1>5, <2>1 DEF Begins
  <2>5. seen' = [seen EXCEPT ![t] = {Store!At(db, op2[t].key)}] /\ StoredIn(page') = db
    BY <1>5, <2>1 DEF Begins, Store!At, Store!Absent, At
  <2>6. Store!Call(t)
    BY <2>2, <2>3, <2>4, <2>5 DEF Store!Call, Store!Pending, op, ans, op2, ans2
  <2>q. QED
    BY <2>6 DEF Store!Next
<1>6. CASE Reads(t)
  <2>1. Store!Read(t)
    BY <1>2, <1>3, <1>6
    DEF Reads, Store!Read, Store!Answer, Store!Pending, Store!Scans, Store!Done, Store!Absent,
        Scanning, op, ans, op2, ans2
  <2>q. QED
    BY <2>1 DEF Store!Next
<1>7. CASE Writes(t)
  <2> DEFINE o == loc[t].op  db == StoredIn(page)  db2 == StoredIn(page')
  <2>1. /\ op[t] = o /\ ans[t] = "pending" /\ ans2 = [ans EXCEPT ![t] = "done"] /\ op2 = op
        /\ o.kind \in {"insert", "remove", "update"}
        /\ o.kind = "insert" => o.key \notin DOMAIN db
        /\ o.kind # "insert" => o.key \in DOMAIN db
    BY <1>2, <1>3, <1>7 DEF Writes
  <2>2. \/ o.kind = "insert" /\ db2 = [j \in DOMAIN db \union {o.key} |->
                                        IF j = o.key THEN o.val ELSE db[j]]
        \/ o.kind = "remove" /\ db2 = [j \in DOMAIN db \ {o.key} |-> db[j]]
        \/ o.kind = "update" /\ db2 = [db EXCEPT ![o.key] = o.val]
    <3>1. db2 = IF o.kind = "remove" THEN Without(db, o.key) ELSE With(db, o.key, o.val)
      BY <1>7 DEF Writes
    <3>2. db = [j \in DOMAIN db |-> db[j]]
      BY StoredIs
    <3> HIDE DEF db, db2, o
    <3>3. o.kind = "update" => With(db, o.key, o.val) = [db EXCEPT ![o.key] = o.val]
      BY <2>1, <3>2 DEF With
    <3>q. QED
      BY <2>1, <3>1, <3>3 DEF With, Without
  <2>3. seen' = [u \in Thread |->
                   IF u = t THEN {}
                   ELSE IF ans[u] = "pending" /\ op[u].key = o.key
                          THEN seen[u] \union {Store!At(db2, o.key)} ELSE seen[u]]
    <3>1. Store!At(db2, o.key) = At(db2, o.key)
      BY DEF Store!At, Store!Absent, At
    <3> HIDE DEF db2
    <3>q. QED
      BY <1>2, <1>7, <3>1 DEF Writes, db2
  <2>4. Store!Effect(t)
    BY <2>1, <2>2, <2>3
    DEF Store!Effect, Store!Answer, Store!Pending, Store!Done, op, ans, op2, ans2
  <2>q. QED
    BY <2>4 DEF Store!Next
<1>q. QED
  BY <1>4, <1>5, <1>6, <1>7, StepsAre

\* The empty tree holds nothing, and no call is pending.
LEMMA InitStore ==
  ASSUME Init
  PROVE  Answered /\ Store!Init
<1>1. Shape(page, alloc)
  BY InitShape
<1>2. \A p \in Page : Keys(page[p]) = {}
  <2> DEFINE top == Node(FALSE, Empty, 1, 0, Inf)
             leaf == Node(TRUE, Empty, None, 0, Inf)
  <2>1. Keys(top) = {} /\ Keys(leaf) = {}
    <3>1. 1 \in Page /\ None \in Page /\ 0 \in 0 .. NKeys /\ Inf \in 1 .. Inf
      BY TreeAssumption, Numbers DEF Page
    <3>q. QED
      BY <3>1, EmptyNode
  <2>2. page = [p \in Page |-> IF p = Meta THEN top ELSE leaf]
    BY DEF Init
  <2> HIDE DEF top, leaf
  <2>q. QED
    BY <2>1, <2>2
<1>3. DOMAIN StoredIn(page) = {} /\ StoredIn(page) = [k \in {} |-> StoredIn(page)[k]]
  <2>1. \A k \in Key : LeafIn(page, k) \in Page
    BY <1>1, Search DEF LiveLeaf
  <2>2. \A k \in Key : Keys(page[LeafIn(page, k)]) = {}
    BY <1>2, <2>1
  <2>q. QED
    BY <2>2, StoredIs
<1>4. StoredIn(page) = << >>
  BY <1>3
<1>5. \A t \in Thread : loc[t].op = NoOp /\ loc[t].ans = "done"
  BY DEF Init, NoLocal
<1>6. seen = [t \in Thread |-> {}]
  BY DEF Init
<1>7. Answered
  BY <1>5, <1>6 DEF Answered, Answers
<1>8. Store!Init
  BY <1>4, <1>5, <1>6 DEF Store!Init, Store!Done, NoOp
<1>q. QED
  BY <1>7, <1>8

\* Every step keeps what pending calls may answer, and is one of the store's
\* or changes nothing of it.
LEMMA StepStore ==
  IInv /\ Answered /\ [Next]_vars => Answered' /\ [Store!Next]_(Store!vars)
<1> SUFFICES ASSUME IInv, Answered, [Next]_vars PROVE Answered' /\ [Store!Next]_(Store!vars)
  OBVIOUS
<1>1. ASSUME NEW t \in Thread, Step(t) PROVE Answered' /\ [Store!Next]_(Store!vars)
  BY <1>1, StillAnswered, StoreSteps
<1>2. CASE UNCHANGED vars
  <2>1. page' = page /\ loc' = loc /\ pc' = pc /\ seen' = seen
    BY <1>2 DEF vars, tree, history
  <2>2. ASSUME NEW t \in Thread PROVE Answers(t)'
    <3>1. Answers(t)
      BY DEF Answered
    <3>2. QPar(t)' => QPar(t)
      BY <1>2 DEF QPar, vars
    <3>q. QED
      BY <2>1, <3>1, <3>2 DEF Answers
  <2>3. Answered'
    BY <2>1, <2>2 DEF Answered
  <2>4. UNCHANGED Store!vars
    BY <2>1 DEF Store!vars
  <2>q. QED
    BY <2>3, <2>4
<1>q. QED
  BY <1>1, <1>2 DEF Next, Finished

\* Insert, remove, update and lookup are linearizable: the tree implements a
\* map on which each call that changes something takes effect at one instant
\* of the call, and each answer was right at some instant of it (btree.hpp:
\* BTree's insert, remove, update and lookup).  No split, merge, restart or
\* truncated separator changes what the tree holds.
THEOREM Implements == Spec => ImplementsStore
<1>1. Init => Answered /\ Store!Init
  BY InitStore
<1>2. IInv /\ Answered /\ [Next]_vars => Answered' /\ [Store!Next]_(Store!vars)
  BY StepStore
<1>q. QED
  BY <1>1, <1>2, Inductive, PTL DEF Spec, ImplementsStore, Store!Spec
=============================================================================
