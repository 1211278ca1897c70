------------------------------- MODULE BTreeNode -------------------------------
(***************************************************************************)
(* The layout of a page of the B-tree (btree.hpp: BTreeNodeHeader,         *)
(* BTreeNode).  Slots grow from the front, keys and payloads from the      *)
(* back.  The two fences of a page come first; what all keys between them  *)
(* begin with is stored once, as part of the lower one.  A slot has the    *)
(* first bytes of its key as a number, its head, and some heads are        *)
(* repeated as hints in the header.                                        *)
(*                                                                         *)
(* The operators take pages and return pages.  Slots are counted from 0.   *)
(***************************************************************************)
EXTENDS Integers, SequencesExt

CONSTANTS
  PageSize,      \* pageSize, in bytes
  HeaderSize,    \* sizeof(BTreeNodeHeader)
  SlotSize,      \* sizeof(Slot)
  PidSize,       \* sizeof(PID)
  HintCount,     \* BTreeNodeHeader::hintCount
  HeadLen,       \* bytes in a head
  Base,          \* a byte is a number below Base
  UnderFullSize, \* BTreeNodeHeader::underFullSize
  SepWindow      \* the 16 of findSeparator

ASSUME NodeAssumption ==
  /\ {PageSize, SlotSize, HintCount, HeadLen, Base, SepWindow} \subseteq Nat \ {0}
  /\ {HeaderSize, PidSize, UnderFullSize} \subseteq Nat

None == 0 \* noNeighbour

maxKVSize == (PageSize - HeaderSize - 2 * SlotSize) \div 4
-----------------------------------------------------------------------------
\* Keys are sequences of bytes.  memcmp decides, then the length.
Less(a, b) ==
  \E i \in 1 .. Len(b) :
    /\ i <= Len(a) + 1
    /\ \A j \in 1 .. i - 1 : a[j] = b[j]
    /\ i = Len(a) + 1 \/ a[i] < b[i]

Common(a, b) ==
  CHOOSE n \in 0 .. Len(a) :
    /\ n <= Len(b)
    /\ \A i \in 1 .. n : a[i] = b[i]
    /\ n < Len(a) /\ n < Len(b) => a[n + 1] # b[n + 1]

First(key, n) == SubSeq(key, 1, n)
Rest(key, n) == SubSeq(key, n + 1, Len(key))

\* A key that is shorter than a head is filled up with zeros.
head(key) ==
  FoldLeft(LAMBDA n, i : n * Base + (IF i <= Len(key) THEN key[i] ELSE 0), 0,
           [i \in 1 .. HeadLen |-> i])
-----------------------------------------------------------------------------
Node(isLeaf) ==
  [isLeaf |-> isLeaf, link |-> None, lower |-> << >>, upper |-> << >>, prefixLen |-> 0,
   slot |-> << >>, spaceUsed |-> 0, dataOffset |-> PageSize,
   hint |-> [i \in 1 .. HintCount |-> 0]]

Count(n) == Len(n.slot)
SlotsEnd(n) == HeaderSize + SlotSize * Count(n)
Prefix(n) == First(n.lower, n.prefixLen)

freeSpace(n) == n.dataOffset - SlotsEnd(n)
freeSpaceAfterCompaction(n) == PageSize - SlotsEnd(n) - n.spaceUsed
spaceNeeded(n, key, payloadLen) == SlotSize + (Len(key) - n.prefixLen) + payloadLen
hasSpaceFor(n, key, payloadLen) ==
  spaceNeeded(n, key, payloadLen) <= freeSpaceAfterCompaction(n)

\* What lies behind the last slot is what was there before.
HeadAt(n, slotId) == IF slotId < Count(n) THEN n.slot[slotId + 1].head ELSE 0

Dist(n) == Count(n) \div (HintCount + 1)
HintsFrom(n, begin) ==
  [n EXCEPT !.hint = [i \in 1 .. HintCount |->
                        IF i > begin THEN HeadAt(n, Dist(n) * i) ELSE n.hint[i]]]
makeHint(n) == HintsFrom(n, 0)

\* Seeded fault: the hint of the slot itself is kept.
BugUpdateHint(n, slotId) ==
  HintsFrom(n, IF /\ Count(n) > HintCount * 2 + 1
                  /\ (Count(n) - 1) \div (HintCount + 1) = Dist(n)
                  /\ slotId \div Dist(n) > 1
               THEN slotId \div Dist(n)
               ELSE 0)

\* Hints before the new slot stay, if the distance between them does.
updateHint(n, slotId) ==
  HintsFrom(n, IF /\ Count(n) > HintCount * 2 + 1
                  /\ (Count(n) - 1) \div (HintCount + 1) = Dist(n)
                  /\ slotId \div Dist(n) > 1
               THEN slotId \div Dist(n) - 1
               ELSE 0)

\* The slots between which the head is, from <<lower, upper>>.
searchHint(n, keyHead) ==
  LET dist == Dist(n)
      FirstHint(from, P(_)) ==
        IF \E i \in from .. HintCount - 1 : P(n.hint[i + 1])
        THEN CHOOSE i \in from .. HintCount - 1 :
               P(n.hint[i + 1]) /\ \A j \in from .. i - 1 : ~P(n.hint[j + 1])
        ELSE HintCount
      pos == FirstHint(0, LAMBDA h : h >= keyHead)
      pos2 == FirstHint(pos, LAMBDA h : h # keyHead)
  IN  IF Count(n) <= HintCount * 2 THEN <<0, Count(n)>>
      ELSE <<pos * dist, IF pos2 < HintCount THEN (pos2 + 1) * dist ELSE Count(n)>>

\* The binary search between two slots: heads are compared before keys.
Search(n, key, from, to) ==
  LET keyHead == head(key)
      Before(s) == \/ keyHead < s.head
                   \/ keyHead = s.head /\ Less(key, s.key)
      Hit(s) == keyHead = s.head /\ key = s.key
      find[lower \in 0 .. Count(n), upper \in 0 .. Count(n)] ==
        LET mid == (upper - lower) \div 2 + lower
        IN  IF lower >= upper THEN [pos |-> lower, found |-> FALSE]
            ELSE IF Hit(n.slot[mid + 1]) THEN [pos |-> mid, found |-> TRUE]
            ELSE IF Before(n.slot[mid + 1]) THEN find[lower, mid]
            ELSE find[mid + 1, upper]
  IN  find[from, to]

lowerBound(n, skey) ==
  LET len == IF Len(skey) < n.prefixLen THEN Len(skey) ELSE n.prefixLen
      start == First(skey, len)
      prefix == First(n.lower, len)
      key == Rest(skey, n.prefixLen)
      range == searchHint(n, head(key))
  IN  IF Less(start, prefix) THEN [pos |-> 0, found |-> FALSE]
      ELSE IF Less(prefix, start) THEN [pos |-> Count(n), found |-> FALSE]
      ELSE IF Len(skey) < n.prefixLen THEN [pos |-> 0, found |-> FALSE]
      ELSE Search(n, key, range[1], range[2])
-----------------------------------------------------------------------------
Entry(offset, key, payloadLen, val) ==
  [offset |-> offset, key |-> key, head |-> head(key), payloadLen |-> payloadLen, val |-> val]

\* A slot is put before slotId, its key and payload before all others.
storeKeyValue(n, slotId, skey, payloadLen, val) ==
  LET key == Rest(skey, n.prefixLen)
      space == Len(key) + payloadLen
  IN  [n EXCEPT !.dataOffset = @ - space, !.spaceUsed = @ + space,
                !.slot = InsertAt(@, slotId + 1,
                                  Entry(n.dataOffset - space, key, payloadLen, val))]

\* Fences are set in an empty page.
setFences(n, lower, upper) ==
  LET space == Len(lower) + Len(upper)
  IN  [n EXCEPT !.lower = lower, !.upper = upper, !.prefixLen = Common(lower, upper),
                !.dataOffset = @ - space, !.spaceUsed = @ + space]

\* Slots of src, from one on, behind those of dst.
copyKeyValueRange(src, dst, from, count) ==
  LET moved == SubSeq(src.slot, from + 1, from + count)
      Key(i) == IF src.prefixLen <= dst.prefixLen
                THEN Rest(moved[i].key, dst.prefixLen - src.prefixLen)
                ELSE Rest(Prefix(src) \o moved[i].key, dst.prefixLen)
      space[i \in 0 .. count] ==
        IF i = 0 THEN 0 ELSE space[i - 1] + Len(Key(i)) + moved[i].payloadLen
  IN  [dst EXCEPT !.dataOffset = @ - space[count], !.spaceUsed = @ + space[count],
                  !.slot = @ \o [i \in 1 .. count |->
                                   Entry(dst.dataOffset - space[i], Key(i),
                                         moved[i].payloadLen, moved[i].val)]]

compactify(n) ==
  LET tmp == setFences(Node(n.isLeaf), n.lower, n.upper)
  IN  makeHint([copyKeyValueRange(n, tmp, 0, Count(n)) EXCEPT !.link = n.link])

insertInPage(n, key, payloadLen, val) ==
  LET roomy == IF spaceNeeded(n, key, payloadLen) > freeSpace(n) THEN compactify(n) ELSE n
      slotId == lowerBound(roomy, key).pos
  IN  updateHint(storeKeyValue(roomy, slotId, key, payloadLen, val), slotId)

\* Seeded fault: the space of the payload stays used.
BugRemoveSlot(n, slotId) ==
  LET s == n.slot[slotId + 1]
  IN  makeHint([n EXCEPT !.spaceUsed = @ - Len(s.key), !.slot = RemoveAt(@, slotId + 1)])

removeSlot(n, slotId) ==
  LET s == n.slot[slotId + 1]
  IN  makeHint([n EXCEPT !.spaceUsed = @ - Len(s.key) - s.payloadLen,
                         !.slot = RemoveAt(@, slotId + 1)])
-----------------------------------------------------------------------------
getChild(n, pos) == IF pos = Count(n) THEN n.link ELSE n.slot[pos + 1].val
lookupInner(n, key) == getChild(n, lowerBound(n, key).pos)
SetChild(n, pos, pid) ==
  IF pos = Count(n) THEN [n EXCEPT !.link = pid] ELSE [n EXCEPT !.slot[pos + 1].val = pid]

commonPrefix(n, slotA, slotB) == Common(n.slot[slotA + 1].key, n.slot[slotB + 1].key)

\* Where a page is split: around the middle, at the first slot of a window that
\* has more, or less, in common with slot 0 than those before it.
BestSlot(n, splitOrdered) ==
  LET upper == Count(n) \div 2
      lower == upper - Count(n) \div SepWindow
      Differs(s) == commonPrefix(n, s, 0) # commonPrefix(n, lower, 0)
  IN  IF ~n.isLeaf THEN upper
      ELSE IF splitOrdered THEN Count(n) - 2
      ELSE IF Count(n) <= SepWindow THEN (Count(n) - 1) \div 2
      ELSE IF ~Differs(upper - 1) THEN lower
      ELSE CHOOSE s \in lower + 1 .. upper - 1 :
             Differs(s) /\ \A r \in lower + 1 .. s - 1 : ~Differs(r)

\* findSeparator and getSep.  Between leaves, the separator may be cut off after
\* the first byte that tells the two keys apart.
findSeparator(n, splitOrdered) ==
  LET best == BestSlot(n, splitOrdered)
      common == commonPrefix(n, best, best + 1)
      truncated == /\ n.isLeaf
                   /\ Len(n.slot[best + 1].key) > common
                   /\ Len(n.slot[best + 2].key) > common + 1
  IN  [slot |-> best,
       key |-> Prefix(n) \o (IF truncated THEN First(n.slot[best + 2].key, common + 1)
                                          ELSE n.slot[best + 1].key)]

\* splitNode.  The separator of inner nodes moves to the parent.
SplitLeft(n, sepSlot, sep, right) ==
  LET left == setFences(Node(n.isLeaf), n.lower, sep)
  IN  makeHint(
        IF n.isLeaf
        THEN [copyKeyValueRange(n, left, 0, sepSlot + 1) EXCEPT !.link = right]
        ELSE [copyKeyValueRange(n, left, 0, sepSlot) EXCEPT !.link = getChild(n, sepSlot)])

SplitRight(n, sepSlot, sep) ==
  LET right == setFences(Node(n.isLeaf), sep, n.upper)
  IN  makeHint([copyKeyValueRange(n, right, sepSlot + 1, Count(n) - sepSlot - 1)
                  EXCEPT !.link = n.link])

SplitParent(parent, sep, left, right) ==
  insertInPage(SetChild(parent, lowerBound(parent, sep).pos, right), sep, PidSize, left)

\* mergeNodes, of leaves: an upper bound of the space decides.
Between(left, right) == setFences(Node(TRUE), left.lower, right.upper)

MergeFits(left, right) ==
  LET tmp == Between(left, right)
      Grow(n) == (n.prefixLen - tmp.prefixLen) * Count(n)
  IN  left.spaceUsed + right.spaceUsed + HeaderSize + SlotSize * (Count(left) + Count(right))
        + Grow(left) + Grow(right) <= PageSize

Merged(left, right) ==
  LET both == copyKeyValueRange(left, Between(left, right), 0, Count(left))
  IN  makeHint([copyKeyValueRange(right, both, 0, Count(right)) EXCEPT !.link = right.link])

MergedParent(parent, slotId, left) ==
  removeSlot(SetChild(parent, slotId + 1, left), slotId)
=============================================================================
