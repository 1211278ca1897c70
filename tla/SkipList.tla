-------------------------------- MODULE SkipList --------------------------------
(***************************************************************************)
(* The skip list (skiplist.h): one writer inserts, readers search and move *)
(* iterators without a lock.  A node is named by its key: keys are unique  *)
(* and nodes are never freed.  Each load or store of a link is a step.     *)
(* Links are released and acquired; max_height_ is relaxed, so a reader    *)
(* may load any value it has had.                                          *)
(***************************************************************************)
EXTENDS Integers

CONSTANTS
  Writer,     \* the thread that inserts (calls of Insert are synchronized)
  Reader,     \* threads that search and iterate
  NKeys,      \* keys are 1 .. NKeys
  MaxHeight   \* kMaxHeight

Thread == Reader \union {Writer}
Key == 1 .. NKeys
HeadNode == 0              \* head_
Null == NKeys + 1          \* nullptr: KeyIsAfterNode takes it for infinite
Wild == NKeys + 2          \* what a link holds before it is set
Node == Key \union {HeadNode}
Level == 0 .. MaxHeight - 1
Kind == {"contains", "seek", "prev", "last", "next", "first"}
Idle == [kind |-> "none", key |-> Null]

ASSUME ListAssumption ==
  /\ NKeys \in Nat \ {0}
  /\ MaxHeight \in Nat \ {0}
  /\ Writer \notin Reader

VARIABLES
  next,       \* next[l][n]: Node::next_[l] of node n
  height,     \* height[n]: links that node n has; 0: not allocated
  maxHeight,  \* max_height_
  heights,    \* the values max_height_ has had (history)
  prev,       \* prev[l]: the array prev of Insert
  pc,         \* pc[t]: where thread t is
  op,         \* op[t]: its call
  x,          \* x[t]: the node it looks at
  level,      \* level[t]: the level it looks at
  node,       \* node[r]: Iterator::node_ of reader r
  found       \* found[r]: the last answer of Contains

list == <<next, height, maxHeight, heights>>
answers == <<node, found>>
vars == <<next, height, maxHeight, heights, prev, pc, op, x, level, node, found>>

Init ==
  /\ next = [l \in Level |-> [n \in Node |-> IF n = HeadNode THEN Null ELSE Wild]]
  /\ height = [n \in Node |-> IF n = HeadNode THEN MaxHeight ELSE 0]
  /\ maxHeight = 1
  /\ heights = {1}
  /\ prev = [l \in Level |-> Wild]
  /\ pc = [t \in Thread |-> "idle"]
  /\ op = [t \in Thread |-> Idle]
  /\ x = [t \in Thread |-> HeadNode]
  /\ level = [t \in Thread |-> 0]
  /\ node = [r \in Reader |-> Null]
  /\ found = [r \in Reader |-> FALSE]

Goto(t, l) == pc' = [pc EXCEPT ![t] = l]

\* The call ends, and with it its local variables.
Return(t) ==
  /\ Goto(t, "idle")
  /\ op' = [op EXCEPT ![t] = Idle]
  /\ x' = [x EXCEPT ![t] = HeadNode]
  /\ level' = [level EXCEPT ![t] = 0]

\* Insert, and the calls of a reader: Next and Prev start from a valid
\* iterator.
Begin(t) ==
  /\ pc[t] = "idle"
  /\ \/ /\ t = Writer
        /\ \E k \in Key :
             /\ height[k] = 0
             /\ op' = [op EXCEPT ![t] = [kind |-> "insert", key |-> k]]
        /\ Goto(t, "height")
        /\ x' = [x EXCEPT ![t] = HeadNode]
     \/ /\ t \in Reader
        /\ \E k \in Key : \E kd \in {"contains", "seek"} :
             op' = [op EXCEPT ![t] = [kind |-> kd, key |-> k]]
        /\ Goto(t, "height")
        /\ x' = [x EXCEPT ![t] = HeadNode]
     \/ /\ t \in Reader
        /\ \/ /\ node[t] # Null
              /\ op' = [op EXCEPT ![t] = [kind |-> "prev", key |-> node[t]]]
           \/ op' = [op EXCEPT ![t] = [kind |-> "last", key |-> Null]]
        /\ Goto(t, "height")
        /\ x' = [x EXCEPT ![t] = HeadNode]
     \/ /\ t \in Reader
        /\ \/ /\ node[t] # Null
              /\ op' = [op EXCEPT ![t] = [kind |-> "next", key |-> node[t]]]
              /\ x' = [x EXCEPT ![t] = node[t]]
           \/ /\ op' = [op EXCEPT ![t] = [kind |-> "first", key |-> Null]]
              /\ x' = [x EXCEPT ![t] = HeadNode]
        /\ Goto(t, "follow")
  /\ UNCHANGED <<list, prev, level, answers>>

\* GetMaxHeight
LoadHeight(t) ==
  /\ pc[t] = "height"
  /\ \E h \in IF t = Writer THEN {maxHeight} ELSE heights :
       level' = [level EXCEPT ![t] = h - 1]
  /\ Goto(t, "search")
  /\ UNCHANGED <<list, prev, op, x, answers>>

Key_(t) == op[t].key
Link(t) == next[level[t]][x[t]]

\* Seeded fault: equal keys are passed over.
BugAfterOrEqual(t) == Link(t) # Null /\ Link(t) <= Key_(t)

\* KeyIsAfterNode, and its complement in FindLessThan and FindLast.
KeyIsAfterNode(t) == Link(t) < Key_(t)

Move(t) ==
  /\ pc[t] = "search"
  /\ KeyIsAfterNode(t)
  /\ x' = [x EXCEPT ![t] = Link(t)]
  /\ UNCHANGED <<list, prev, pc, op, level, answers>>

Remember(t) == IF t = Writer THEN prev' = [prev EXCEPT ![level[t]] = x[t]]
                             ELSE UNCHANGED prev

\* Seeded fault: the search goes on where it ended, at the top level.
BugDownAgain(t) ==
  /\ pc[t] = "search"
  /\ ~KeyIsAfterNode(t)
  /\ level[t] > 0
  /\ Remember(t)
  /\ level' = [level EXCEPT ![t] = IF t = Writer THEN @ - 1 ELSE maxHeight - 1]
  /\ UNCHANGED <<list, pc, op, x, answers>>

Down(t) ==
  /\ pc[t] = "search"
  /\ ~KeyIsAfterNode(t)
  /\ level[t] > 0
  /\ Remember(t)
  /\ level' = [level EXCEPT ![t] = @ - 1]
  /\ UNCHANGED <<list, pc, op, x, answers>>

OrNull(n) == IF n = HeadNode THEN Null ELSE n

\* At the lowest level FindGreaterOrEqual returns next, FindLessThan and
\* FindLast return x.
Arrive(t) ==
  /\ pc[t] = "search"
  /\ ~KeyIsAfterNode(t)
  /\ level[t] = 0
  /\ Remember(t)
  /\ \/ /\ t = Writer
        /\ Goto(t, "grow")
        /\ UNCHANGED <<op, x, level, answers>>
     \/ /\ t \in Reader
        /\ \/ /\ op[t].kind = "contains"
              /\ found' = [found EXCEPT ![t] = (Link(t) = Key_(t))]
              /\ UNCHANGED node
           \/ /\ op[t].kind = "seek"
              /\ node' = [node EXCEPT ![t] = Link(t)]
              /\ UNCHANGED found
           \/ /\ op[t].kind \in {"prev", "last"}
              /\ node' = [node EXCEPT ![t] = OrNull(x[t])]
              /\ UNCHANGED found
        /\ Return(t)
  /\ UNCHANGED list

\* Next and SeekToFirst: one load.
Follow(t) ==
  /\ pc[t] = "follow"
  /\ node' = [node EXCEPT ![t] = next[0][x[t]]]
  /\ Return(t)
  /\ UNCHANGED <<list, prev, found>>
-----------------------------------------------------------------------------
\* Seeded fault: prev is not set for the new levels.
BugKeepPrev(h) == prev

\* Levels that the list did not have yet start at the head.
NewPrev(h) == [l \in Level |-> IF maxHeight <= l /\ l < h THEN HeadNode ELSE prev[l]]

\* RandomHeight, the store to max_height_, and NewNode.
Grow(t) ==
  /\ pc[t] = "grow"
  /\ \E h \in 1 .. MaxHeight :
       /\ height' = [height EXCEPT ![Key_(t)] = h]
       /\ prev' = NewPrev(h)
       /\ maxHeight' = IF h > maxHeight THEN h ELSE maxHeight
       /\ heights' = heights \union {maxHeight'}
  /\ level' = [level EXCEPT ![t] = 0]
  /\ Goto(t, "own")
  /\ UNCHANGED <<next, op, x, answers>>

SetNext(l, n, m) == next' = [next EXCEPT ![l][n] = m]

\* The loop of Insert, from the lowest level up: the link of the new node,
\* then the one that publishes it.
OwnLink(t) == SetNext(level[t], Key_(t), next[level[t]][prev[level[t]]])
Publish(t) == SetNext(level[t], prev[level[t]], Key_(t))

NextLevel(t) ==
  IF level[t] + 1 < height[Key_(t)]
    THEN /\ level' = [level EXCEPT ![t] = @ + 1]
         /\ Goto(t, "own")
         /\ UNCHANGED <<op, x, prev>>
    ELSE /\ Return(t)
         /\ prev' = [l \in Level |-> Wild]

\* Seeded fault: the node is published before its own link is set.
BugPublishFirst(t) ==
  /\ \/ /\ pc[t] = "own"
        /\ Publish(t)
        /\ Goto(t, "publish")
        /\ UNCHANGED <<op, x, level, prev>>
     \/ /\ pc[t] = "publish"
        /\ OwnLink(t)
        /\ NextLevel(t)
  /\ UNCHANGED <<height, maxHeight, heights, answers>>

Insert(t) ==
  /\ \/ /\ pc[t] = "own"
        /\ OwnLink(t)
        /\ Goto(t, "publish")
        /\ UNCHANGED <<op, x, level, prev>>
     \/ /\ pc[t] = "publish"
        /\ Publish(t)
        /\ NextLevel(t)
  /\ UNCHANGED <<height, maxHeight, heights, answers>>

Work(t) ==
  LoadHeight(t) \/ Move(t) \/ Down(t) \/ Arrive(t) \/ Follow(t) \/ Grow(t) \/ Insert(t)

Next == \E t \in Thread : Begin(t) \/ Work(t)

Spec == Init /\ [][Next]_vars

\* A thread in a call keeps being scheduled.
FairSpec == Spec /\ \A t \in Thread : WF_vars(Work(t))
-----------------------------------------------------------------------------
Label == {"idle", "height", "search", "follow", "grow", "own", "publish"}

TypeOK ==
  /\ next \in [Level -> [Node -> Key \union {Null, Wild}]]
  /\ height \in [Node -> 0 .. MaxHeight]
  /\ maxHeight \in 1 .. MaxHeight
  /\ heights \subseteq 1 .. maxHeight
  /\ prev \in [Level -> Node \union {Wild}]
  /\ pc \in [Thread -> Label]
  /\ op \in [Thread -> [kind : Kind \union {"insert", "none"}, key : Key \union {Null}]]
  /\ x \in [Thread -> Node]
  /\ level \in [Thread -> Level]
  /\ node \in [Reader -> Key \union {Null}]
  /\ found \in [Reader -> BOOLEAN]

\* The keys that level l links: all of a node's levels, but for the node that
\* is being inserted only the levels it has been published at.
Pending(l, k) ==
  /\ pc[Writer] \in {"own", "publish"}
  /\ k = Key_(Writer)
  /\ l >= level[Writer]
Linked(l) == {k \in Key : height[k] > l /\ ~Pending(l, k)}

\* Each level is a sorted list of its own keys, and a level has the keys of
\* the levels above it: at every moment, half an insert included, a link leads
\* to the next key of its level.
Sorted ==
  /\ TypeOK
  /\ \A l \in Level : \A n \in Linked(l) \union {HeadNode} :
       /\ next[l][n] \in Linked(l) \union {Null}
       /\ next[l][n] > n
       /\ \A k \in Linked(l) : k > n => k >= next[l][n]

\* A thread reads a link only of a node that has that link and has set it,
\* whatever max_height_ it went by; and the writer publishes the new node in
\* such links only.
ReadsPublished ==
  /\ \A t \in Thread : pc[t] \in {"search", "follow"} =>
       height[x[t]] > level[t] /\ next[level[t]][x[t]] # Wild
  /\ pc[Writer] \in {"own", "publish"} =>
       LET p == prev[level[Writer]]
       IN  p \in Node /\ height[p] > level[Writer]

\* Insert and every answer are atomic: the list implements SortedSet.
Set == INSTANCE SortedSet WITH set <- Linked(0)
ImplementsSet == Set!Spec

\* Searches and inserts end, though readers race with the writer.
CallsEnd == \A t \in Thread : pc[t] # "idle" ~> pc[t] = "idle"
=============================================================================
