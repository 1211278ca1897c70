------------------------------ MODULE BTreePages ------------------------------
(***************************************************************************)
(* The B-tree down to the bytes of its pages (btree.hpp: insert, remove,   *)
(* trySplit, ensureSpace on BTreeNode), with keys of different lengths.    *)
(* One call runs at a time; how calls interleave is BTreeOLC's subject,    *)
(* which counts the space of a page in slots.  An assertion that fails     *)
(* ends the program.                                                       *)
(***************************************************************************)
EXTENDS BTreeNode

CONSTANTS
  NPages, \* virtCount - 1: pages after the meta data page
  Scene,  \* bound: calls that come first, in this order, and then the keys
          \* and payload lengths that calls choose from
  MaxOps  \* bound: calls after the first ones

Pid == 1 .. NPages
Absent == -1
NoCall == [key |-> << >>, payloadLen |-> Absent]
NoFrame == [pid |-> None, key |-> << >>]

VARIABLES
  node,    \* node[p]: the page, for the pages that are allocated
  root,    \* MetaDataPage.roots[slotId]
  alloc,   \* BufferManager.allocCount
  call,    \* the insert that runs
  ensure,  \* its ensureSpace(toSplit, key), if one is called
  aborted, \* an assertion has failed
  stored,  \* stored[k]: the length of k's payload (history)
  scene,   \* the member of Scene that this behaviour plays
  calls    \* calls so far

tree == <<node, root, alloc>>
vars == <<tree, call, ensure, aborted, stored, scene, calls>>

ASSUME PagesAssumption ==
  /\ NPages \in Nat \ {0} /\ MaxOps \in Nat
  /\ \A s \in Scene : s.splitOrdered \in BOOLEAN

AllKeys == scene.keys \union {scene.load[i].key : i \in DOMAIN scene.load}

Init ==
  /\ node = [p \in Pid |-> Node(TRUE)]
  /\ root = 1 /\ alloc = 2
  /\ call = NoCall /\ ensure = NoFrame /\ aborted = FALSE
  /\ scene \in Scene
  /\ stored = [k \in AllKeys |-> Absent]
  /\ calls = 0

AtRest == call = NoCall /\ ~aborted
-----------------------------------------------------------------------------
\* The pages from the root to the leaf where a search for key ends.
PathFrom(pages, from, key) ==
  LET path[p \in Pid] ==
        IF pages[p].isLeaf THEN <<p>> ELSE <<p>> \o path[lookupInner(pages[p], key)]
  IN  path[from]
Path(key) == PathFrom(node, root, key)
Leaf(key) == node[Last(Path(key))]

\* The page above p on a path, the meta data page above the root.
Above(path, p) ==
  LET i == CHOOSE j \in DOMAIN path : path[j] = p
  IN  IF i = 1 THEN None ELSE path[i - 1]

Fits(n) == n.dataOffset >= SlotsEnd(n)

\* The assertions of findSeparator, splitNode and copyKeyValueRange.
SplitHolds(n, parent, p, sep, left, right) ==
  /\ Count(n) > 1
  /\ sep.slot > 0
  /\ Fits(setFences(Node(n.isLeaf), n.lower, sep.key))
  /\ Fits(setFences(Node(n.isLeaf), sep.key, n.upper))
  /\ getChild(parent, lowerBound(parent, sep.key).pos) = p
  /\ Fits(left) /\ Fits(right)

\* The tree once it has a page above p.
GrownTree(p, above) ==
  IF above # None
  THEN [pages |-> node, parent |-> above, root |-> root, alloc |-> alloc]
  ELSE [pages |-> [node EXCEPT ![alloc] = [Node(FALSE) EXCEPT !.link = p]],
        parent |-> alloc, root |-> alloc, alloc |-> alloc + 1]

\* trySplit(p, above): p is split if its parent has space for the separator, or
\* else the call restarts by way of ensureSpace(parent).
trySplit(p, above) ==
  LET grown == GrownTree(p, above)
      parent == grown.pages[grown.parent]
      n == node[p]
      sep == findSeparator(n, scene.splitOrdered)
      new == grown.alloc
      left == SplitLeft(n, sep.slot, sep.key, new)
      right == SplitRight(n, sep.slot, sep.key)
  IN  /\ root' = grown.root
      /\ IF Count(n) > 1 /\ ~hasSpaceFor(parent, sep.key, PidSize)
         THEN /\ ensure' = [pid |-> grown.parent, key |-> sep.key]
              /\ node' = grown.pages /\ alloc' = grown.alloc
              /\ UNCHANGED aborted
         ELSE /\ new \in Pid
              /\ aborted' = ~SplitHolds(n, parent, p, sep, left, right)
              /\ node' = IF aborted' THEN grown.pages
                         ELSE [grown.pages EXCEPT
                                 ![p] = left, ![new] = right,
                                 ![grown.parent] = SplitParent(@, sep.key, p, new)]
              /\ alloc' = new + 1
              /\ ensure' = NoFrame

\* The callers of insert bring a key that is not there, of at most maxKVSize
\* with its payload.
MayInsert(key, payloadLen) ==
  /\ calls < Len(scene.load) => scene.load[calls + 1] = [key |-> key, payloadLen |-> payloadLen]
  /\ calls >= Len(scene.load) => key \in scene.keys /\ payloadLen \in scene.payloads
  /\ stored[key] = Absent
  /\ Len(key) + payloadLen <= maxKVSize

Payloads == scene.payloads \union {scene.load[i].payloadLen : i \in DOMAIN scene.load}

BeginInsert ==
  /\ AtRest /\ calls < Len(scene.load) + MaxOps
  /\ \E key \in AllKeys, payloadLen \in Payloads :
       /\ MayInsert(key, payloadLen)
       /\ call' = [key |-> key, payloadLen |-> payloadLen]
  /\ calls' = calls + 1
  /\ UNCHANGED <<tree, ensure, aborted, stored, scene>>

InsertInLeaf ==
  LET p == Last(Path(call.key)) IN
  /\ call # NoCall /\ ensure = NoFrame /\ ~aborted
  /\ hasSpaceFor(node[p], call.key, call.payloadLen)
  /\ node' = [node EXCEPT ![p] = insertInPage(@, call.key, call.payloadLen, None)]
  /\ stored' = [stored EXCEPT ![call.key] = call.payloadLen]
  /\ call' = NoCall
  /\ UNCHANGED <<root, alloc, ensure, aborted, scene, calls>>

SplitLeaf ==
  LET path == Path(call.key) IN
  /\ call # NoCall /\ ensure = NoFrame /\ ~aborted
  /\ ~hasSpaceFor(node[Last(path)], call.key, call.payloadLen)
  /\ trySplit(Last(path), Above(path, Last(path)))
  /\ UNCHANGED <<call, stored, scene, calls>>

\* ensureSpace looks for the page from the root again.  Its early returns are for
\* what other calls did in between: with one call at a time, the page is found,
\* and as full as it was, or the call would be stuck here.
EnsureSpace ==
  LET path == Path(ensure.key) IN
  /\ ensure # NoFrame /\ ~aborted
  /\ ensure.pid \in Range(path)
  /\ ~hasSpaceFor(node[ensure.pid], ensure.key, PidSize)
  /\ trySplit(ensure.pid, Above(path, ensure.pid))
  /\ UNCHANGED <<call, stored, scene, calls>>

\* Whether remove tries to merge the leaf p, below slot pos of above, with the
\* next one.
Underfull(p, s, above, pos) ==
  /\ freeSpaceAfterCompaction(node[p]) + Len(s.key) + s.payloadLen >= UnderFullSize
  /\ above # None
  /\ Count(node[above]) >= 2
  /\ pos + 1 < Count(node[above])

RemoveKey ==
  /\ AtRest /\ calls >= Len(scene.load) /\ calls < Len(scene.load) + MaxOps
  /\ \E key \in scene.keys :
       LET path == Path(key)
           p == Last(path)
           above == Above(path, p)
           hit == lowerBound(node[p], key)
           left == removeSlot(node[p], hit.pos)
           pos == lowerBound(node[above], key).pos
           right == node[getChild(node[above], pos + 1)]
       IN  /\ hit.found
           /\ stored' = [stored EXCEPT ![key] = Absent]
           /\ IF /\ Underfull(p, node[p].slot[hit.pos + 1], above, pos)
                 /\ freeSpaceAfterCompaction(right) >= PageSize - UnderFullSize
                 /\ MergeFits(left, right)
              THEN node' = [node EXCEPT ![p] = Merged(left, right),
                                        ![above] = MergedParent(@, pos, p)]
              ELSE node' = [node EXCEPT ![p] = left]
  /\ calls' = calls + 1
  /\ UNCHANGED <<root, alloc, call, ensure, aborted, scene>>

Finished ==
  /\ aborted \/ (AtRest /\ calls = Len(scene.load) + MaxOps)
  /\ UNCHANGED vars

Next == BeginInsert \/ InsertInLeaf \/ SplitLeaf \/ EnsureSpace \/ RemoveKey \/ Finished

Spec == Init /\ [][Next]_vars
-----------------------------------------------------------------------------
FullKey(n, s) == Prefix(n) \o s.key
SpaceOf(n) ==
  FoldLeft(LAMBDA sum, s : sum + Len(s.key) + s.payloadLen, Len(n.lower) + Len(n.upper), n.slot)

TypeOK ==
  /\ root \in Pid /\ alloc \in Pid \union {NPages + 1} /\ root < alloc
  /\ call = NoCall \/ call \in [key : AllKeys, payloadLen : Payloads]
  /\ ensure.pid \in Pid \union {None} /\ (call = NoCall => ensure = NoFrame)
  /\ \A k \in AllKeys : stored[k] \in Payloads \union {Absent}

\* No assertion fails: a key that a caller may insert finds a page that can be
\* split, and both halves have space for their slots, keys and fences
\* (btree.hpp:993, 1019, 1033, 1051, 1066-1069, 1111).
AssertsHold == ~aborted

\* In every page keys and payloads neither overlap each other, the slots nor the
\* fences; spaceUsed is what they take, so that compactify makes the space that
\* hasSpaceFor promised; a slot's head is that of its key (btree.hpp:769-775,
\* 913-948, 980-1039).
PagesSound ==
  /\ TypeOK /\ AssertsHold
  /\ \A p \in 1 .. alloc - 1 :
       LET n == node[p] IN
       /\ Fits(n)
       /\ n.spaceUsed = SpaceOf(n)
       /\ freeSpace(compactify(n)) = freeSpaceAfterCompaction(n)
       /\ \A i, j \in DOMAIN n.slot :
            LET s == n.slot[i]
                t == n.slot[j]
            IN  /\ s.head = head(s.key)
                /\ n.dataOffset <= s.offset
                /\ s.offset + Len(s.key) + s.payloadLen <= PageSize - Len(n.lower) - Len(n.upper)
                /\ i # j => \/ s.offset + Len(s.key) + s.payloadLen <= t.offset
                            \/ t.offset + Len(t.key) + t.payloadLen <= s.offset

\* The leaves from the first on.
Chain ==
  LET from[p \in Pid] ==
        IF node[p].link = None THEN <<p>> ELSE <<p>> \o from[node[p].link]
  IN  from[Last(Path(<< >>))]

\* The tree holds what was inserted and not removed, whatever was split, merged
\* or compacted: the search with hints and heads ends at each key of the page
\* where it must, finds the key with its payload if and only if it is stored,
\* and the chain of leaves lists the stored keys in their order
\* (btree.hpp:804-889, 951-1089).
TreeHolds ==
  ~aborted =>
    LET leaves == Chain
        listed == FlattenSeq([i \in DOMAIN leaves |->
                    [j \in DOMAIN node[leaves[i]].slot |->
                       FullKey(node[leaves[i]], node[leaves[i]].slot[j])]])
    IN  /\ \A k \in AllKeys :
             LET n == Leaf(k)
                 hit == lowerBound(n, k)
             IN  /\ hit.found <=> stored[k] # Absent
                 /\ hit.found => n.slot[hit.pos + 1].payloadLen = stored[k]
                 /\ hit.pos = Cardinality({s \in Range(n.slot) : Less(FullKey(n, s), k)})
        /\ Range(listed) = {k \in AllKeys : stored[k] # Absent}
        /\ \A i \in 2 .. Len(listed) : Less(listed[i - 1], listed[i])
=============================================================================
