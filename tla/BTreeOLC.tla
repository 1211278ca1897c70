------------------------------- MODULE BTreeOLC -------------------------------
(***************************************************************************)
(* The B-tree (btree.hpp: BTree, BTreeNode) over page latches: threads     *)
(* look up, insert, update, remove and scan, with optimistic lock coupling *)
(* on the way down, splits and merges.                                     *)
(*                                                                         *)
(* The latch is the one that PageLatch proves: a page has one exclusive    *)
(* owner or readers, and a validated read of a page happens at one         *)
(* instant, so a read and the check after it are one step here.  What      *)
(* counts of a version is whether the page was unlocked by a writer since  *)
(* the version was loaded: a guard is fresh until then.  Pages hold sorted *)
(* slots; the space in a page is counted in slots.                         *)
(***************************************************************************)
EXTENDS Integers, FiniteSets, Sequences

CONSTANTS
  Thread,       \* worker threads
  NKeys,        \* keys are 1 .. NKeys
  NPages,       \* virtCount - 1: pages after the meta data page
  LeafCap,      \* slots in a leaf
  InnerCap,     \* slots in an inner node
  Underfull,    \* slots in a leaf that underFullSize calls underfull
  Sparse,       \* slots in a right sibling with enough space for a merge
  SplitOrdered, \* BTree::splitOrdered
  Scene,        \* bound: keys that are loaded, in this order, before the
                \* threads start, and the calls they choose from then
  MaxOps        \* bound: calls of a thread

Key == 1 .. NKeys
Page == 0 .. NPages
Meta == 0                  \* metadataPageId
None == 0                  \* no page: the meta data page is nobody's child
Inf == NKeys + 1           \* upper fence of the last leaf
Value == {"v0", "v1"}
Kind == {"insert", "remove", "update", "lookup", "scan", "scanDesc"}
Op == [kind : Kind, key : Key, val : Value]
NoOp == [kind |-> "none", key |-> 0, val |-> "v0"]

ASSUME TreeAssumption ==
  /\ IsFiniteSet(Thread)
  /\ NKeys \in Nat \ {0}
  /\ NPages \in Nat \ {0}
  /\ LeafCap \in Nat /\ LeafCap >= 3
  /\ InnerCap \in Nat /\ InnerCap >= 2
  /\ Underfull \in 0 .. LeafCap
  /\ Sparse \in 0 .. LeafCap
  /\ SplitOrdered \in BOOLEAN
  /\ \A s \in Scene : s.load \in Seq(Key) /\ s.ops \subseteq Op
  /\ MaxOps \in Nat

VARIABLES
  page,    \* page[p]: the node in page p; page[Meta].last is the root
  alloc,   \* BufferManager.allocCount
  xlock,   \* xlock[p]: the exclusive owner of p, or the empty set
  slock,   \* slock[p]: the threads that share p
  pc,      \* pc[t]: where thread t is
  loc,     \* loc[t]: its local variables
  seen,    \* seen[t]: values its key had during the call (history)
  scan,    \* scan[t]: what its scan has visited and must visit (history)
  scene,   \* the member of Scene that this behaviour plays
  loaded,  \* keys of scene.load already given to a thread
  left     \* left[t]: calls thread t may still make

tree == <<page, alloc>>
latch == <<xlock, slock>>
history == <<seen, scan>>
load == <<scene, loaded, left>>
vars == <<page, alloc, xlock, slock, pc, loc, seen, scan, scene, loaded, left>>
-----------------------------------------------------------------------------
(***************************************************************************)
(* Nodes.  A slot of a leaf maps a key to its payload, a slot of an inner  *)
(* node a separator to the child with the keys up to it; last is the union *)
(* upperInnerNode / nextLeafNode; lower is exclusive, upper inclusive.     *)
(***************************************************************************)
Keys(n) == DOMAIN n.slot
Count(n) == Cardinality(Keys(n))
Node(leaf, slot, last, lower, upper) ==
  [leaf |-> leaf, slot |-> slot, last |-> last, lower |-> lower, upper |-> upper]
Empty == << >>

NthKey(S, i) == CHOOSE k \in S : Cardinality({j \in S : j < k}) = i
Least(S) == CHOOSE k \in S : \A j \in S : k <= j
Above(n, k) == {s \in Keys(n) : s >= k}

\* lookupInner
Child(n, k) ==
  LET above == Above(n, k) IN IF above = {} THEN n.last ELSE n.slot[Least(above)]

SetChild(n, k, p) ==
  IF Above(n, k) = {} THEN [n EXCEPT !.last = p]
                      ELSE [n EXCEPT !.slot[Least(Above(n, k))] = p]

HasSpace(n) == Count(n) < IF n.leaf THEN LeafCap ELSE InnerCap

\* insertInPage (the value that is put comes first) and removeSlot
Joined(f, g) ==
  [k \in DOMAIN f \union DOMAIN g |-> IF k \in DOMAIN f THEN f[k] ELSE g[k]]
Put(n, k, v) == [n EXCEPT !.slot = Joined([j \in {k} |-> v], n.slot)]
Restricted(f, S) == [k \in DOMAIN f \cap S |-> f[k]]
RemoveSlot(n, k) == [n EXCEPT !.slot = Restricted(n.slot, Keys(n) \ {k})]

\* findSeparator: a separator of a leaf may be truncated to something
\* between the keys it separates.
Separators(n) ==
  LET best == IF SplitOrdered THEN Count(n) - 2 ELSE (Count(n) - 1) \div 2
  IN  IF n.leaf
        THEN NthKey(Keys(n), best) .. NthKey(Keys(n), best + 1) - 1
        ELSE {NthKey(Keys(n), Count(n) \div 2)}

\* splitNode: the two halves, and the parent that points to both.
SplitLeft(n, sep, right) ==
  Node(n.leaf, Restricted(n.slot, IF n.leaf THEN 0 .. sep ELSE 0 .. sep - 1),
       IF n.leaf THEN right ELSE n.slot[sep], n.lower, sep)
SplitRight(n, sep) ==
  Node(n.leaf, Restricted(n.slot, sep + 1 .. NKeys), n.last, sep, n.upper)
SplitParent(n, sep, l, right) == Put(SetChild(n, sep, right), sep, l)

\* mergeNodes: the left leaf takes the slots of the right one.
MergedLeaf(l, r) == Node(TRUE, Joined(l.slot, r.slot), r.last, l.lower, r.upper)
\* Seeded fault: the separator goes, the right slot keeps its page.
BugKeepRight(n, k, p) == RemoveSlot(n, Least(Above(n, k)))
MergedParent(n, k, p) ==
  LET s == Least(Above(n, k))
  IN  RemoveSlot(SetChild(n, s + 1, p), s)
RightChild(n, k) == Child(n, Least(Above(n, k)) + 1)
-----------------------------------------------------------------------------
(***************************************************************************)
(* Guards.  readers is the state part of the version a GuardO has loaded.  *)
(***************************************************************************)
Guard == [pid : Page, fresh : BOOLEAN, readers : 0 .. Cardinality(Thread)]
NoGuard == [pid |-> None, fresh |-> FALSE, readers |-> 0]
NewGuard(p) == [pid |-> p, fresh |-> TRUE, readers |-> Cardinality(slock[p])]

NoLocal == [op |-> NoOp, ans |-> "done", par |-> NoGuard, nod |-> NoGuard,
            cand |-> None, held |-> None, key |-> 0, target |-> None]

\* checkVersionAndRestart: readers do not matter.
CheckOk(g) == g.fresh /\ xlock[g.pid] = {}

\* What an optimistic read tells: the truth about page g.pid if the check
\* would succeed now; else anything, and a later check fails.
Told(g, truth) == IF CheckOk(g) THEN {truth} ELSE BOOLEAN

\* unlockX gives page p a new version: no guard on it is fresh any more.
Expire(l, p) ==
  [u \in Thread |->
     [l[u] EXCEPT !.par.fresh = @ /\ l[u].par.pid # p,
                  !.nod.fresh = @ /\ l[u].nod.pid # p]]
Locked(t, p) == xlock' = [xlock EXCEPT ![p] = {t}]
Unlocked(p) == xlock' = [xlock EXCEPT ![p] = {}]

\* The contents of the tree, as a search that nothing disturbs finds them.
LeafIn(pg, k) ==
  LET leaf[p \in Page] == IF pg[p].leaf THEN p ELSE leaf[Child(pg[p], k)]
  IN  leaf[Meta]
StoredIn(pg) ==
  LET leaf == [k \in Key |-> pg[LeafIn(pg, k)]]
  IN  [k \in {j \in Key : j \in Keys(leaf[j])} |-> leaf[k].slot[k]]
At(m, k) == IF k \in DOMAIN m THEN m[k] ELSE "absent"

Init ==
  /\ page = [p \in Page |->
               IF p = Meta THEN Node(FALSE, Empty, 1, 0, Inf)
               ELSE Node(TRUE, Empty, None, 0, Inf)]
  /\ alloc = 2
  /\ xlock = [p \in Page |-> {}]
  /\ slock = [p \in Page |-> {}]
  /\ pc = [t \in Thread |-> "idle"]
  /\ loc = [t \in Thread |-> NoLocal]
  /\ seen = [t \in Thread |-> {}]
  /\ scan = [t \in Thread |-> [got |-> << >>, must |-> {}]]
  /\ scene \in Scene
  /\ loaded = 0
  /\ left = [t \in Thread |-> MaxOps]
-----------------------------------------------------------------------------
Goto(t, l) == pc' = [pc EXCEPT ![t] = l]
K(t) == loc[t].key
Par(t) == loc[t].par.pid
Nod(t) == loc[t].nod.pid
Scanning(o) == o.kind \in {"scan", "scanDesc"}

\* OLCRestartException is caught: from the root again, with the same call
\* (or, in ensureSpace, with the same node to split).
Start(l) == [l EXCEPT !.par = NoGuard, !.nod = NoGuard, !.cand = None]
Restart(t) ==
  /\ Goto(t, "start")
  /\ loc' = [loc EXCEPT ![t] = Start(@)]

\* The call returns.
Returned(l, a) == [NoLocal EXCEPT !.op = l.op, !.ans = a]
Return(t, a) ==
  /\ Goto(t, "idle")
  /\ loc' = [loc EXCEPT ![t] = Returned(@, a)]
  /\ seen' = [seen EXCEPT ![t] = {}]
  /\ UNCHANGED scan

\* A call takes effect: every pending call on the key, and every scan, may
\* see it.
Effect(t) ==
  LET k == loc[t].op.key
      v == At(StoredIn(page'), k)
  IN  /\ seen' = [u \in Thread |->
                    IF u = t THEN {}
                    ELSE IF loc[u].ans = "pending" /\ loc[u].op.key = k
                           THEN seen[u] \union {v} ELSE seen[u]]
      /\ scan' = [u \in Thread |->
                    IF v = "absent" THEN [scan[u] EXCEPT !.must = @ \ {k}]
                                    ELSE scan[u]]

Begin(t) ==
  LET db == StoredIn(page) IN
  /\ pc[t] = "idle"
  /\ IF loaded < Len(scene.load)
       THEN /\ \A u \in Thread : pc[u] = "idle"
            /\ loaded' = loaded + 1
            /\ UNCHANGED left
       ELSE /\ left[t] > 0
            /\ left' = [left EXCEPT ![t] = @ - 1]
            /\ UNCHANGED loaded
  /\ \E o \in IF loaded < Len(scene.load)
               THEN {[kind |-> "insert", key |-> scene.load[loaded + 1], val |-> "v0"]}
               ELSE scene.ops :
       /\ o.kind = "insert" =>
            /\ o.key \notin DOMAIN db
            /\ \A u \in Thread : pc[u] # "idle" => loc[u].op.kind # "insert"
                                                   \/ loc[u].op.key # o.key
       /\ loc' = [loc EXCEPT ![t] =
                    [NoLocal EXCEPT !.op = o, !.ans = "pending", !.key = o.key]]
       /\ seen' = [seen EXCEPT ![t] = {At(db, o.key)}]
       /\ scan' = [scan EXCEPT ![t] =
                     IF Scanning(o)
                       THEN [got |-> << >>, must |-> DOMAIN db]
                       ELSE [got |-> << >>, must |-> {}]]
  /\ Goto(t, "start")
  /\ UNCHANGED <<tree, latch, scene>>
-----------------------------------------------------------------------------
(***************************************************************************)
(* The way down: GuardO meta, then from guard to guard.  insert, remove    *)
(* and ensureSpace keep the parent's guard when they reach their goal; the *)
(* others check the parent once more and let it go.                        *)
(***************************************************************************)
KeepsParent(t) == loc[t].target # None \/ loc[t].op.kind \in {"insert", "remove"}
Goal(t, p) == page[p].leaf \/ p = loc[t].target

LoadMeta(t) ==
  /\ pc[t] = "start"
  /\ xlock[Meta] = {}
  /\ loc' = [loc EXCEPT ![t].par = NewGuard(Meta)]
  /\ Goto(t, "child")
  /\ UNCHANGED <<tree, latch, history, load>>

\* GuardO(pid, parent): the child's id is read from the parent, then checked.
ReadChild(t) ==
  /\ pc[t] = "child"
  /\ \/ /\ CheckOk(loc[t].par)
        /\ loc' = [loc EXCEPT ![t].cand = Child(page[Par(t)], K(t))]
        /\ Goto(t, "load")
     \/ /\ ~CheckOk(loc[t].par)
        /\ Restart(t)
  /\ UNCHANGED <<tree, latch, history, load>>

\* GuardO::init waits until the child is not locked.
LoadChild(t) ==
  /\ pc[t] = "load"
  /\ xlock[loc[t].cand] = {}
  /\ loc' = [loc EXCEPT ![t].nod = NewGuard(loc[t].cand)]
  /\ Goto(t, IF KeepsParent(t) /\ Goal(t, loc[t].cand) THEN "leaf" ELSE "recheck")
  /\ UNCHANGED <<tree, latch, history, load>>

\* Seeded fault: the parent is not checked after the child's version is known.
BugNoRecheck(t) ==
  /\ pc[t] = "recheck"
  /\ loc' = [loc EXCEPT ![t].par = IF Goal(t, Nod(t)) THEN NoGuard ELSE loc[t].nod,
                        ![t].nod = IF Goal(t, Nod(t)) THEN @ ELSE NoGuard]
  /\ Goto(t, IF Goal(t, Nod(t)) THEN "leaf" ELSE "child")
  /\ UNCHANGED <<tree, latch, history, load>>

\* Move assignment of a GuardO, and its release, check the old version.
Recheck(t) ==
  /\ pc[t] = "recheck"
  /\ \/ /\ CheckOk(loc[t].par)
        /\ loc' = [loc EXCEPT ![t].par = IF Goal(t, Nod(t)) THEN NoGuard ELSE loc[t].nod,
                              ![t].nod = IF Goal(t, Nod(t)) THEN @ ELSE NoGuard,
                              ![t].cand = None]
        /\ Goto(t, IF Goal(t, Nod(t)) THEN "leaf" ELSE "child")
     \/ /\ ~CheckOk(loc[t].par)
        /\ Restart(t)
  /\ UNCHANGED <<tree, latch, history, load>>

AtLeaf(t, kinds) ==
  /\ pc[t] = "leaf"
  /\ loc[t].op.kind \in kinds
  /\ loc[t].target = None

\* Seeded fault: the answer is not validated.
BugUncheckedLookup(t) ==
  /\ AtLeaf(t, {"lookup"})
  /\ Return(t, At(page[Nod(t)].slot, K(t)))
  /\ UNCHANGED <<tree, latch, load>>

Lookup(t) ==
  /\ AtLeaf(t, {"lookup"})
  /\ \/ /\ CheckOk(loc[t].nod)
        /\ Return(t, At(page[Nod(t)].slot, K(t)))
     \/ /\ ~CheckOk(loc[t].nod)
        /\ Restart(t)
        /\ UNCHANGED history
  /\ UNCHANGED <<tree, latch, load>>

\* updateInPlace: what it finds decides whether to lock the leaf.
Update(t) ==
  /\ AtLeaf(t, {"update"})
  /\ \E found \in Told(loc[t].nod, K(t) \in Keys(page[Nod(t)])) :
       \/ /\ found
          /\ Goto(t, "lockLeaf")
          /\ UNCHANGED <<loc, history>>
       \/ /\ ~found
          /\ CheckOk(loc[t].nod)
          /\ Return(t, "absent")
       \/ /\ ~found
          /\ ~CheckOk(loc[t].nod)
          /\ Restart(t)
          /\ UNCHANGED history
  /\ UNCHANGED <<tree, latch, load>>

\* insert: a leaf with space is locked alone, else its parent first.
Insert(t) ==
  /\ AtLeaf(t, {"insert"})
  /\ \E space \in Told(loc[t].nod, HasSpace(page[Nod(t)])) :
       Goto(t, IF space THEN "lockLeaf" ELSE "lockParent")
  /\ UNCHANGED <<tree, latch, loc, history, load>>

\* remove: without the key it only checks its guards; an underfull leaf whose
\* right sibling has a separator is locked with its parent.
MayMerge(n, par, k) ==
  /\ Count(n) - 1 <= Underfull
  /\ Cardinality(Above(par, k)) >= 2
Remove(t) ==
  /\ AtLeaf(t, {"remove"})
  /\ \E found \in Told(loc[t].nod, K(t) \in Keys(page[Nod(t)])) :
       \E merge \in IF CheckOk(loc[t].nod)
                      THEN Told(loc[t].par, MayMerge(page[Nod(t)], page[Par(t)], K(t)))
                      ELSE BOOLEAN :
         Goto(t, IF ~found THEN "checkNode"
                 ELSE IF merge /\ Par(t) # Meta THEN "lockParent" ELSE "lockLeaf")
  /\ UNCHANGED <<tree, latch, loc, history, load>>

\* ensureSpace: the node to split is gone, or has space again, or is split.
EnsureSpace(t) ==
  /\ pc[t] = "leaf"
  /\ loc[t].target # None
  /\ \E space \in Told(loc[t].nod, HasSpace(page[Nod(t)])) :
       Goto(t, IF Nod(t) # loc[t].target \/ space THEN "checkNode" ELSE "lockParent")
  /\ UNCHANGED <<tree, latch, loc, history, load>>

\* Seeded fault: ensureSpace never returns.
BugEnsureAgain(l) == Start(l)

\* ensureSpace is done: its caller tries the call again.
Again(l) == [Start(l) EXCEPT !.target = None, !.key = l.op.key]

\* The destructors of node and parent, as remove or ensureSpace returns.
CheckNode(t) ==
  /\ pc[t] = "checkNode"
  /\ \/ /\ CheckOk(loc[t].nod)
        /\ Goto(t, "checkParent")
        /\ UNCHANGED loc
     \/ /\ ~CheckOk(loc[t].nod)
        /\ Restart(t)
  /\ UNCHANGED <<tree, latch, history, load>>

CheckParent(t) ==
  /\ pc[t] = "checkParent"
  /\ \/ /\ CheckOk(loc[t].par)
        /\ loc[t].target = None
        /\ Return(t, "absent")
     \/ /\ CheckOk(loc[t].par)
        /\ loc[t].target # None
        /\ Goto(t, "start")
        /\ loc' = [loc EXCEPT ![t] = Again(@)]
        /\ UNCHANGED history
     \/ /\ ~CheckOk(loc[t].par)
        /\ Restart(t)
        /\ UNCHANGED history
  /\ UNCHANGED <<tree, latch, load>>
-----------------------------------------------------------------------------
(***************************************************************************)
(* GuardX(GuardO&&): waits while the page is locked or shared; a new       *)
(* version throws, and unwinding unlocks what the thread has locked.       *)
(***************************************************************************)
CanLock(p) == xlock[p] = {} /\ slock[p] = {}

LockLeaf(t) ==
  /\ pc[t] = "lockLeaf"
  /\ \/ /\ loc[t].nod.fresh
        /\ CanLock(Nod(t))
        /\ Locked(t, Nod(t))
        /\ Goto(t, IF KeepsParent(t) THEN "release" ELSE "write")
        /\ UNCHANGED loc
     \/ /\ ~loc[t].nod.fresh
        /\ Restart(t)
        /\ UNCHANGED xlock
  /\ UNCHANGED <<tree, slock, history, load>>

\* parent.release(): the leaf still is where the parent says.
ReleaseParent(t) ==
  /\ pc[t] = "release"
  /\ \/ /\ CheckOk(loc[t].par)
        /\ Goto(t, "write")
        /\ UNCHANGED <<xlock, loc>>
     \/ /\ ~CheckOk(loc[t].par)
        /\ Goto(t, "start")
        /\ loc' = Expire([loc EXCEPT ![t] = Start(@)], Nod(t))
        /\ Unlocked(Nod(t))
  /\ UNCHANGED <<tree, slock, history, load>>

\* insertInPage, removeSlot or the caller's update, and the unlock.
WriteLeaf(t) ==
  LET n == page[Nod(t)] IN
  /\ pc[t] = "write"
  /\ page' = [page EXCEPT ![Nod(t)] =
                IF loc[t].op.kind = "remove" THEN RemoveSlot(n, K(t))
                                             ELSE Put(n, K(t), loc[t].op.val)]
  /\ Unlocked(Nod(t))
  /\ loc' = Expire([loc EXCEPT ![t] = Returned(@, "done")], Nod(t))
  /\ Goto(t, "idle")
  /\ Effect(t)
  /\ UNCHANGED <<alloc, slock, load>>

LockParent(t) ==
  /\ pc[t] = "lockParent"
  /\ \/ /\ loc[t].par.fresh
        /\ CanLock(Par(t))
        /\ Locked(t, Par(t))
        /\ Goto(t, "lockNode")
        /\ UNCHANGED loc
     \/ /\ ~loc[t].par.fresh
        /\ Restart(t)
        /\ UNCHANGED xlock
  /\ UNCHANGED <<tree, slock, history, load>>

LockNode(t) ==
  /\ pc[t] = "lockNode"
  /\ \/ /\ loc[t].nod.fresh
        /\ CanLock(Nod(t))
        /\ Locked(t, Nod(t))
        /\ Goto(t, IF loc[t].op.kind = "remove" THEN "lockRight" ELSE "split")
        /\ UNCHANGED loc
     \/ /\ ~loc[t].nod.fresh
        /\ Goto(t, "start")
        /\ loc' = Expire([loc EXCEPT ![t] = Start(@)], Par(t))
        /\ Unlocked(Par(t))
  /\ UNCHANGED <<tree, slock, history, load>>

\* trySplit below the meta data page: a new root takes the place of the
\* parent, and the meta data page is unlocked before the split.
NewRoot(t) ==
  /\ pc[t] = "split"
  /\ Par(t) = Meta
  /\ alloc <= NPages
  /\ alloc' = alloc + 1
  /\ page' = [page EXCEPT ![Meta].last = alloc,
                          ![alloc] = Node(FALSE, Empty, Nod(t), 0, Inf)]
  /\ xlock' = [xlock EXCEPT ![Meta] = {}, ![alloc] = {t}]
  /\ loc' = Expire([loc EXCEPT ![t].par.pid = alloc], Meta)
  /\ UNCHANGED <<slock, pc, history, load>>

\* trySplit, splitNode: the new page is locked and unlocked out of sight.
Split(t) ==
  LET n == page[Nod(t)] IN
  /\ pc[t] = "split"
  /\ Par(t) # Meta
  /\ HasSpace(page[Par(t)])
  /\ alloc <= NPages
  /\ alloc' = alloc + 1
  /\ \E sep \in Separators(n) :
       page' = [page EXCEPT
         ![Nod(t)] = SplitLeft(n, sep, alloc),
         ![alloc] = SplitRight(n, sep),
         ![Par(t)] = SplitParent(page[Par(t)], sep, Nod(t), alloc)]
  /\ loc' = [loc EXCEPT ![t].target = None, ![t].key = loc[t].op.key]
  /\ Goto(t, "unlockNode")
  /\ UNCHANGED <<latch, history, load>>

\* trySplit: no space for the separator, the parent is to be split first.
SplitFirst(t) ==
  /\ pc[t] = "split"
  /\ Par(t) # Meta
  /\ ~HasSpace(page[Par(t)])
  /\ \E sep \in Separators(page[Nod(t)]) :
       loc' = [loc EXCEPT ![t].target = Par(t), ![t].key = sep]
  /\ Goto(t, "unlockNode")
  /\ UNCHANGED <<tree, latch, history, load>>

\* remove: GuardX(parent->getChild(pos + 1)), by fixX.
LockRight(t) ==
  LET right == RightChild(page[Par(t)], K(t)) IN
  /\ pc[t] = "lockRight"
  /\ CanLock(right)
  /\ Locked(t, right)
  /\ loc' = [loc EXCEPT ![t].cand = right]
  /\ Goto(t, "merge")
  /\ UNCHANGED <<tree, slock, history, load>>

\* remove: the slot goes, and the right leaf moves into the left one if it
\* is sparse and both fit.
Merge(t) ==
  LET n == RemoveSlot(page[Nod(t)], K(t))
      right == page[loc[t].cand]
      fits == Count(right) <= Sparse /\ Count(n) + Count(right) <= LeafCap
  IN
  /\ pc[t] = "merge"
  /\ page' = [page EXCEPT
       ![Nod(t)] = IF fits THEN MergedLeaf(n, right) ELSE n,
       ![Par(t)] = IF fits THEN MergedParent(@, K(t), Nod(t)) ELSE @]
  /\ Unlocked(loc[t].cand)
  /\ loc' = Expire([loc EXCEPT ![t].ans = "done"], loc[t].cand)
  /\ Goto(t, "unlockNode")
  /\ Effect(t)
  /\ UNCHANGED <<alloc, slock, load>>

\* Seeded fault: the leaf stays locked when the call has changed it.
BugUnlockNode(t) ==
  /\ pc[t] = "unlockNode"
  /\ loc' = Expire(loc, Nod(t))
  /\ Goto(t, "unlockParent")
  /\ UNCHANGED <<tree, latch, history, load>>

UnlockNode(t) ==
  /\ pc[t] = "unlockNode"
  /\ Unlocked(Nod(t))
  /\ loc' = Expire(loc, Nod(t))
  /\ Goto(t, "unlockParent")
  /\ UNCHANGED <<tree, slock, history, load>>

\* A remove returns; a split is followed by another try, or by ensureSpace.
UnlockParent(t) ==
  /\ pc[t] = "unlockParent"
  /\ Unlocked(Par(t))
  /\ \/ /\ loc[t].ans = "done"
        /\ Goto(t, "idle")
        /\ loc' = Expire([loc EXCEPT ![t] = Returned(@, "done")], Par(t))
     \/ /\ loc[t].ans = "pending"
        /\ Goto(t, "start")
        /\ loc' = Expire([loc EXCEPT ![t] = Start(@)], Par(t))
  /\ UNCHANGED <<tree, slock, history, load>>
-----------------------------------------------------------------------------
(***************************************************************************)
(* Scans.  A leaf is visited under a GuardS, so its slots are visited in   *)
(* one step; fn may end the scan after any of them.                        *)
(***************************************************************************)
Share(t, p) == slock' = [slock EXCEPT ![p] = @ \union {t}]
Unshare(t, p) == slock' = [slock EXCEPT ![p] = @ \ {t}]
Ascending(S) == [i \in 1 .. Cardinality(S) |-> NthKey(S, i - 1)]
Reversed(q) == [i \in 1 .. Len(q) |-> q[Len(q) + 1 - i]]

\* GuardS(GuardO&&): one try on the very word the GuardO loaded.  scanDesc
\* unlocks the leaf it came from when it has the next one.
ScanLock(t) ==
  /\ AtLeaf(t, {"scan", "scanDesc"})
  /\ \/ /\ CheckOk(loc[t].nod)
        /\ Cardinality(slock[Nod(t)]) = loc[t].nod.readers
        /\ Share(t, Nod(t))
        /\ Goto(t, IF loc[t].held = None THEN "visit" ELSE "next")
        /\ UNCHANGED loc
     \/ /\ ~CheckOk(loc[t].nod) \/ Cardinality(slock[Nod(t)]) # loc[t].nod.readers
        /\ Restart(t)
        /\ UNCHANGED slock
  /\ UNCHANGED <<tree, xlock, history, load>>

\* The slots of the leaf that the scan visits.
ToVisit(t) ==
  LET n == page[Nod(t)]
      first == loc[t].held = None
  IN  IF loc[t].op.kind = "scan"
        THEN Ascending({k \in Keys(n) : first => k >= K(t)})
        ELSE Reversed(Ascending(
               {k \in Keys(n) : first =>
                  \A s \in Above(n, K(t)) : k <= s}))

\* Seeded fault: the leaf is unlocked before the next one is locked.
BugUncoupled(t) ==
  /\ pc[t] = "visit"
  /\ scan' = [scan EXCEPT ![t].got = @ \o ToVisit(t)]
  /\ \/ /\ loc[t].op.kind = "scan"
        /\ page[Nod(t)].last # None
        /\ loc' = [loc EXCEPT ![t].held = Nod(t), ![t].cand = page[Nod(t)].last]
        /\ Goto(t, "lockNext")
     \/ /\ loc[t].op.kind = "scanDesc"
        /\ page[Nod(t)].lower # 0
        /\ loc' = [loc EXCEPT ![t] = [Start(@) EXCEPT !.held = Nod(t),
                                                      !.key = page[Nod(t)].lower]]
        /\ Goto(t, "start")
     \/ /\ IF loc[t].op.kind = "scan" THEN page[Nod(t)].last = None
                                      ELSE page[Nod(t)].lower = 0
        /\ Goto(t, "endScan")
        /\ UNCHANGED loc
  /\ Unshare(t, Nod(t))
  /\ UNCHANGED <<page, alloc, xlock, seen, load>>

Visit(t) ==
  /\ pc[t] = "visit"
  /\ scan' = [scan EXCEPT ![t].got = @ \o ToVisit(t)]
  /\ \/ /\ loc[t].op.kind = "scan"
        /\ page[Nod(t)].last # None
        /\ loc' = [loc EXCEPT ![t].held = Nod(t), ![t].cand = page[Nod(t)].last]
        /\ Goto(t, "lockNext")
     \/ /\ loc[t].op.kind = "scanDesc"
        /\ page[Nod(t)].lower # 0
        /\ loc' = [loc EXCEPT ![t] = [Start(@) EXCEPT !.held = Nod(t),
                                                      !.key = page[Nod(t)].lower]]
        /\ Goto(t, "start")
     \/ /\ IF loc[t].op.kind = "scan" THEN page[Nod(t)].last = None
                                      ELSE page[Nod(t)].lower = 0
        /\ Goto(t, "endScan")
        /\ UNCHANGED loc
  /\ UNCHANGED <<tree, latch, seen, load>>

\* fn returns false: the scan visits some of the slots and no more.
Stop(t) ==
  /\ pc[t] = "visit"
  /\ \E i \in 1 .. Len(ToVisit(t)) :
       scan' = [scan EXCEPT ![t].got = @ \o SubSeq(ToVisit(t), 1, i)]
  /\ Goto(t, "stopScan")
  /\ UNCHANGED <<tree, latch, loc, seen, load>>

\* scanAsc: fixS of the next leaf, while the last one is still shared.
LockNext(t) ==
  /\ pc[t] = "lockNext"
  /\ xlock[loc[t].cand] = {}
  /\ Share(t, loc[t].cand)
  /\ loc' = [loc EXCEPT ![t].nod.pid = loc[t].cand]
  /\ Goto(t, "next")
  /\ UNCHANGED <<tree, xlock, history, load>>

\* The move assignment of the GuardS unlocks the last leaf.
UnlockLast(t) ==
  /\ pc[t] = "next"
  /\ Unshare(t, loc[t].held)
  /\ Goto(t, "visit")
  /\ UNCHANGED <<tree, xlock, loc, history, load>>

EndScan(t) ==
  /\ pc[t] \in {"endScan", "stopScan"}
  /\ Unshare(t, Nod(t))
  /\ Return(t, "done")
  /\ UNCHANGED <<tree, xlock, load>>
-----------------------------------------------------------------------------
Step(t) ==
  \/ Begin(t) \/ LoadMeta(t) \/ ReadChild(t) \/ LoadChild(t) \/ Recheck(t)
  \/ Lookup(t) \/ Update(t) \/ Insert(t) \/ Remove(t) \/ EnsureSpace(t)
  \/ CheckNode(t) \/ CheckParent(t) \/ LockLeaf(t) \/ ReleaseParent(t)
  \/ WriteLeaf(t) \/ LockParent(t) \/ LockNode(t) \/ NewRoot(t) \/ Split(t)
  \/ SplitFirst(t) \/ LockRight(t) \/ Merge(t) \/ UnlockNode(t) \/ UnlockParent(t)
  \/ ScanLock(t) \/ Visit(t) \/ Stop(t) \/ LockNext(t) \/ UnlockLast(t) \/ EndScan(t)

Finished ==
  /\ loaded = Len(scene.load)
  /\ \A t \in Thread : pc[t] = "idle" /\ left[t] = 0
  /\ UNCHANGED vars

Next == (\E t \in Thread : Step(t)) \/ Finished

Spec == Init /\ [][Next]_vars

\* Every thread keeps being scheduled.
FairSpec == Spec /\ \A t \in Thread : WF_vars(Step(t))
-----------------------------------------------------------------------------
Label == {"idle", "start", "child", "load", "recheck", "leaf", "checkNode",
          "checkParent", "lockLeaf", "release", "write", "lockParent",
          "lockNode", "split", "lockRight", "merge", "unlockNode",
          "unlockParent", "visit", "lockNext", "next", "endScan", "stopScan"}

TypeOK ==
  /\ \A p \in Page :
       /\ page[p].leaf \in BOOLEAN
       /\ Keys(page[p]) \subseteq Key
       /\ \A k \in Keys(page[p]) :
            page[p].slot[k] \in IF page[p].leaf THEN Value ELSE Page
       /\ page[p].last \in Page
       /\ page[p].lower \in 0 .. NKeys /\ page[p].upper \in 1 .. Inf
  /\ alloc \in 1 .. NPages + 1
  /\ xlock \in [Page -> SUBSET Thread]
  /\ slock \in [Page -> SUBSET Thread]
  /\ pc \in [Thread -> Label]
  /\ \A t \in Thread :
       /\ loc[t].op \in Op \union {NoOp}
       /\ loc[t].ans \in Value \union {"absent", "pending", "done"}
       /\ {loc[t].par, loc[t].nod} \subseteq Guard
       /\ {loc[t].cand, loc[t].held, loc[t].target} \subseteq Page
       /\ loc[t].key \in 0 .. NKeys

\* The tree is a search tree at every moment: a search for a key ends in a
\* leaf whose fences enclose it, leaves hold keys between their fences only,
\* and the chain of leaves is the order of the search.
TreeInv ==
  TypeOK /\
  LET leafOf == [k \in Key |-> LeafIn(page, k)] IN
  \A k \in Key :
    LET n == page[leafOf[k]] IN
    /\ n.leaf
    /\ n.lower < k /\ k <= n.upper
    /\ \A j \in Keys(n) : n.lower < j /\ j <= n.upper
    /\ n.last = IF n.upper = Inf THEN None ELSE leafOf[n.upper + 1]

\* Single-key calls are linearizable: the tree implements KVStore.  No split,
\* merge or restart changes what the tree holds.
Store == INSTANCE KVStore WITH
  db <- StoredIn(page),
  op <- [t \in Thread |-> loc[t].op],
  ans <- [t \in Thread |-> loc[t].ans]
ImplementsStore == Store!Spec

\* A scan visits keys in order and once, visits only keys that are there at
\* that moment, and passes over no key that was there all the time, though
\* leaves are split and merged before and behind it.
Before(o, j, k) == IF o.kind = "scan" THEN j < k ELSE j > k
Visited(t) == {scan[t].got[i] : i \in 1 .. Len(scan[t].got)}
Passed(t, k) ==
  pc[t] = "endScan" \/ \E j \in Visited(t) : Before(loc[t].op, k, j)
ScanComplete ==
  \A t \in Thread : Scanning(loc[t].op) =>
    /\ \A i, j \in 1 .. Len(scan[t].got) :
         i < j => Before(loc[t].op, scan[t].got[i], scan[t].got[j])
    /\ pc[t] = "visit" =>
         \A i \in 1 .. Len(ToVisit(t)) :
           LET k == ToVisit(t)[i] IN k \in Keys(page[LeafIn(page, k)])
    /\ \A k \in scan[t].must \ Visited(t) :
         k = loc[t].op.key \/ Before(loc[t].op, loc[t].op.key, k) => ~Passed(t, k)

\* Threads block each other in one way only: a descending scan holds on to a
\* leaf while it goes down from the root to the one before (btree.hpp:1305)
\* and waits there for a page that an insert or a remove has locked, while
\* that call waits for the scan's leaf, to split or to merge it.  Ascending
\* scans and calls that lock two or three pages leave no lock behind and
\* never wait in a circle.
WaitsForLeaf(u, p) ==
  \/ pc[u] = "lockNode" /\ Nod(u) = p
  \/ pc[u] = "lockRight" /\ RightChild(page[Par(u)], K(u)) = p
OnlyScanDescBlocks ==
  \/ ENABLED Next
  \/ \E t, u \in Thread :
       /\ loc[t].op.kind = "scanDesc"
       /\ loc[t].held # None
       /\ t \in slock[loc[t].held]
       /\ WaitsForLeaf(u, loc[t].held)

\* A call ends when the other threads are done: no lock was left behind,
\* restarts stop, and ensureSpace makes the space that insert waits for.
Alone(t) == \A u \in Thread \ {t} : pc[u] = "idle" /\ left[u] = 0
LastCallEnds ==
  \A t \in Thread : pc[t] # "idle" /\ Alone(t) ~> pc[t] = "idle"
=============================================================================
