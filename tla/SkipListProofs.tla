----------------------------- MODULE SkipListProofs -----------------------------
(***************************************************************************)
(* Proofs about SkipList, for every number of keys, levels and readers:    *)
(* each level stays a sorted list though readers take no lock, no thread   *)
(* reads a link that is not there yet, and the list implements SortedSet.  *)
(*                                                                         *)
(* Only the writer changes the list.  IInv says what the array prev of     *)
(* Insert is worth at each point of the call, and that what a thread       *)
(* stands on is linked at its level: the sets Linked(l) only grow.         *)
(*                                                                         *)
(* The last part is about SkipListMem, for every block size, number of     *)
(* blocks and heights: no two nodes share a byte or an MTE granule, and    *)
(* what the first part shows of the list holds with its memory too.        *)
(***************************************************************************)
EXTENDS SkipListMem, Sequences, TLAPS

Good(l) == Linked(l) \union {HeadNode}

\* Each level is sorted (the second conjunct of Sorted).
Chains ==
  \A l \in Level : \A n \in Good(l) :
    /\ next[l][n] \in Linked(l) \union {Null}
    /\ next[l][n] > n
    /\ \A k \in Linked(l) : k > n => k >= next[l][n]

\* What the call of t is, and where it is.
CallOf(t) ==
  /\ pc[t] = "idle" => op[t] = Idle /\ level[t] = 0
  /\ t = Writer =>
       /\ pc[t] # "follow"
       /\ pc[t] # "idle" => op[t].kind = "insert" /\ op[t].key \in Key
  /\ t \in Reader =>
       /\ pc[t] \in {"idle", "height", "search", "follow"}
       /\ pc[t] \in {"height", "search"} =>
            \/ op[t].kind \in {"contains", "seek", "prev"} /\ op[t].key \in Key
            \/ op[t].kind = "last" /\ op[t].key = Null
       /\ pc[t] = "follow" =>
            /\ level[t] = 0
            /\ \/ op[t].kind = "next" /\ op[t].key = x[t] /\ x[t] \in Key
               \/ op[t].kind = "first" /\ op[t].key = Null /\ x[t] = HeadNode
Calls == \A t \in Thread : CallOf(t)

\* Heights: a key that is not in the list has none.
Tall ==
  /\ height[HeadNode] = MaxHeight
  /\ \A k \in Key : height[k] <= maxHeight
  /\ pc[Writer] \in {"height", "search", "grow"} => height[Key_(Writer)] = 0
  /\ pc[Writer] \in {"own", "publish"} =>
       level[Writer] < height[Key_(Writer)]

\* t stands on a node that is linked at its level, before its key.
StandsOn(t) ==
  /\ pc[t] = "height" => x[t] = HeadNode
  /\ \A l \in Level : pc[t] = "search" /\ level[t] = l =>
       l < maxHeight /\ x[t] \in Good(l) /\ x[t] < Key_(t)
  /\ t \in Reader =>
       /\ pc[t] = "follow" => x[t] \in Good(0)
       /\ node[t] \in Linked(0) \union {Null}
Standing == \A t \in Thread : StandsOn(t)

\* prev[l] is the last node of level l before the new key.
Fits(l) ==
  prev[l] \in Good(l) /\ prev[l] < Key_(Writer) /\ next[l][prev[l]] > Key_(Writer)
PrevFits ==
  \A l \in Level :
    /\ pc[Writer] = "search" /\ level[Writer] < l /\ l < maxHeight => Fits(l)
    /\ pc[Writer] = "grow" /\ l < maxHeight => Fits(l)
    /\ /\ pc[Writer] \in {"own", "publish"}
       /\ level[Writer] <= l /\ l < height[Key_(Writer)]
       => Fits(l)
OwnSet ==
  pc[Writer] = "publish" =>
    next[level[Writer]][Key_(Writer)] = next[level[Writer]][prev[level[Writer]]]

IInv == TypeOK /\ Calls /\ Tall /\ Standing /\ Chains /\ PrevFits /\ OwnSet
-----------------------------------------------------------------------------
\* The constants of the list are what they should be.
LEMMA Consts ==
  /\ NKeys \in Nat /\ MaxHeight \in Nat /\ MaxHeight >= 1
  /\ Key \subseteq Nat /\ Null \in Nat /\ Null \notin Key /\ Wild # Null /\ Wild \notin Key
  /\ HeadNode \notin Key /\ HeadNode < Null /\ HeadNode \in Node /\ HeadNode \in Nat /\ 0 \in Level
  /\ Key \subseteq Node /\ Writer \in Thread /\ Reader \subseteq Thread
  /\ Writer \notin Reader /\ Level \subseteq Nat
  /\ \A k \in Key : k < Null /\ HeadNode < k
BY ListAssumption DEF Key, Null, Wild, HeadNode, Node, Level, Thread

\* The list is empty at first.
LEMMA InitEmpty == Init => \A l \in Level : Linked(l) = {}
<1> SUFFICES ASSUME Init, NEW l \in Level PROVE Linked(l) = {}
  OBVIOUS
<1>1. \A k \in Key : height[k] = 0
  BY Consts DEF Init
<1>2. l \in Nat
  BY Consts
<1>q. QED
  BY <1>1, <1>2 DEF Linked

\* The initial state satisfies the invariant.
LEMMA InitIInv == Init => IInv
<1> SUFFICES ASSUME Init PROVE IInv
  OBVIOUS
<1>1. TypeOK
  BY Consts DEF Init, TypeOK, Label, Idle, Kind, Level, Node, Key, HeadNode, Null
<1>2. \A l \in Level : Linked(l) = {}
  BY InitEmpty
<1>3. Calls /\ Tall /\ Standing
  BY Consts, <1>2 DEF Init, Calls, CallOf, Tall, Standing, StandsOn, Idle, Good
<1>4. Chains /\ PrevFits /\ OwnSet
  BY Consts, <1>2 DEF Init, Chains, PrevFits, OwnSet, Good
<1>q. QED
  BY <1>1, <1>3, <1>4 DEF IInv

\* Types, action by action.
LEMMA BeginType == ASSUME TypeOK, Calls, NEW t \in Thread, Begin(t) PROVE TypeOK'
<1> DEFINE Ops == [kind : Kind \union {"insert", "none"}, key : Key \union {Null}]
<1>1. op' \in [Thread -> Ops]
  <2> SUFFICES ASSUME NEW o \in Ops, op' = [op EXCEPT ![t] = o]
               PROVE  op' \in [Thread -> Ops]
    BY Consts DEF Begin, Kind, TypeOK
  <2>q. QED
    BY DEF TypeOK
<1>2. pc' \in [Thread -> Label]
  <2> SUFFICES ASSUME NEW r \in Label, pc' = [pc EXCEPT ![t] = r]
               PROVE  pc' \in [Thread -> Label]
    BY SMTT(30) DEF Begin, Goto, Label
  <2>q. QED
    BY SMTT(30) DEF TypeOK
<1>3. x' \in [Thread -> Node]
  BY Consts DEF Begin, TypeOK, Node
<1>q. QED
  BY <1>1, <1>2, <1>3 DEF TypeOK, Begin, list, answers

\* Types, for the steps of a search.
LEMMA WalkType ==
  ASSUME IInv, NEW t \in Thread, LoadHeight(t) \/ Move(t) \/ Down(t)
  PROVE  TypeOK'
<1> USE Consts DEF IInv, TypeOK
<1>1. CASE LoadHeight(t)
  BY <1>1 DEF LoadHeight, Goto, Label, list, answers, Level
<1>2. CASE Move(t)
  <2>1. level[t] \in Level /\ x[t] \in Good(level[t]) /\ Key_(t) \in Key \union {Null}
    BY <1>2 DEF Move, Standing, StandsOn, Key_
  <2>2. Link(t) \in Linked(level[t]) \union {Null}
    BY <2>1 DEF Chains, Link
  <2>3. Link(t) # Null
    BY <1>2, <2>1 DEF Move, KeyIsAfterNode, Key, Null
  <2>4. Link(t) \in Node
    BY <2>2, <2>3 DEF Linked
  <2>q. QED
    BY <1>2, <2>4 DEF Move, list, answers
<1>3. CASE Down(t)
  <2>1. level' \in [Thread -> Level]
    BY <1>3 DEF Down, Level
  <2>2. prev' \in [Level -> Node \union {Wild}]
    BY <1>3 DEF Down, Remember
  <2>q. QED
    BY <1>3, <2>1, <2>2 DEF Down, list, answers
<1>q. QED
  BY <1>1, <1>2, <1>3

\* What a search has found: the first node from its key on, if no key of the
\* level is the new one.
LEMMA Found ==
  ASSUME IInv, NEW t \in Thread, pc[t] = "search", ~KeyIsAfterNode(t)
  PROVE  /\ level[t] \in Level /\ x[t] \in Good(level[t])
         /\ Link(t) \in Linked(level[t]) \union {Null}
         /\ Link(t) \in Key \union {Null} /\ Key_(t) \in Key \union {Null}
         /\ x[t] < Key_(t) /\ Key_(t) <= Link(t)
         /\ \A k \in Linked(level[t]) : k > x[t] => k >= Link(t)
<1>1. level[t] \in Level /\ x[t] \in Good(level[t]) /\ Key_(t) \in Key \union {Null}
      /\ x[t] < Key_(t)
  BY Consts DEF IInv, TypeOK, Standing, StandsOn, Key_
<1>2. /\ Link(t) \in Linked(level[t]) \union {Null}
      /\ \A k \in Linked(level[t]) : k > x[t] => k >= Link(t)
  BY <1>1 DEF IInv, Chains, Link
<1>3. Link(t) \in Key \union {Null}
  BY <1>2 DEF Linked
<1>4. Key_(t) <= Link(t)
  BY <1>1, <1>3, ListAssumption DEF KeyIsAfterNode, Key, Null
<1>q. QED
  BY <1>1, <1>2, <1>3, <1>4

\* Types, when a call ends.
LEMMA ReturnType ==
  ASSUME TypeOK, NEW t \in Thread, Return(t)
  PROVE  /\ pc' \in [Thread -> Label]
         /\ op' \in [Thread -> [kind : Kind \union {"insert", "none"}, key : Key \union {Null}]]
         /\ x' \in [Thread -> Node] /\ level' \in [Thread -> Level]
BY Consts DEF TypeOK, Return, Goto, Label, Idle

\* Types, for the steps that answer a reader.
LEMMA AnswerType ==
  ASSUME IInv, NEW t \in Thread, Arrive(t) \/ Follow(t)
  PROVE  TypeOK'
<1>1. CASE Arrive(t)
  <2>1. /\ Link(t) \in Key \union {Null}
        /\ OrNull(x[t]) \in Key \union {Null}
    BY <1>1, Found DEF Arrive, OrNull, Good, Linked
  <2>2. prev' \in [Level -> Node \union {Wild}]
    BY <1>1, Consts DEF IInv, TypeOK, Arrive, Remember
  <2>3. CASE t = Writer
    BY <1>1, <2>2, <2>3, Consts DEF IInv, TypeOK, Arrive, Goto, Label, list, answers
  <2>4. CASE t \in Reader
    <3>1. Return(t) /\ UNCHANGED list
      BY <1>1, <2>4, Consts DEF Arrive
    <3>2. /\ node' \in [Reader -> Key \union {Null}]
          /\ found' \in [Reader -> BOOLEAN]
      <4>1. /\ node \in [Reader -> Key \union {Null}]
            /\ found \in [Reader -> BOOLEAN]
        BY DEF IInv, TypeOK
      <4>2. \/ node' = node
            \/ \E n \in Key \union {Null} : node' = [node EXCEPT ![t] = n]
        BY <1>1, <2>1, <2>4, Consts DEF Arrive
      <4> DEFINE b == (Link(t) = Key_(t))
      <4>3. found' = found \/ found' = [found EXCEPT ![t] = b]
        BY <1>1, <2>4, Consts, ZenonT(30) DEF Arrive
      <4>4. b \in BOOLEAN
        OBVIOUS
      <4> HIDE DEF b
      <4>5. node' \in [Reader -> Key \union {Null}]
        BY <4>1, <4>2, SMTT(30)
      <4>6. found' \in [Reader -> BOOLEAN]
        BY <4>1, <4>3, <4>4, SMTT(30)
      <4>q. QED
        BY <4>5, <4>6
    <3>q. QED
      BY <2>2, <3>1, <3>2, ReturnType DEF IInv, TypeOK, list
  <2>q. QED
    BY <2>3, <2>4 DEF Thread
<1>2. CASE Follow(t)
  <2>1. t \in Reader /\ x[t] \in Good(0)
    BY <1>2, Consts DEF IInv, Calls, CallOf, Standing, StandsOn, Follow, Thread
  <2>2. next[0][x[t]] \in Key \union {Null}
    BY <2>1, Consts DEF IInv, Chains, Linked
  <2>3. node' \in [Reader -> Key \union {Null}]
    BY <1>2, <2>1, <2>2 DEF IInv, TypeOK, Follow
  <2>q. QED
    BY <1>2, <2>3, ReturnType DEF IInv, TypeOK, Follow, list
<1>q. QED
  BY <1>1, <1>2

\* Only the writer grows and inserts.
LEMMA Writes ==
  ASSUME IInv, NEW t \in Thread, Grow(t) \/ Insert(t)
  PROVE  /\ t = Writer /\ Key_(t) \in Key /\ op[t].kind = "insert"
         /\ Insert(t) => level[t] \in Level /\ height[Key_(t)] \in 1 .. MaxHeight
                         /\ level[t] < height[Key_(t)] /\ Fits(level[t])
<1>1. t = Writer /\ pc[t] \in {"grow", "own", "publish"}
  BY DEF IInv, Calls, CallOf, Grow, Insert, Thread
<1>2. Key_(t) \in Key /\ op[t].kind = "insert"
  BY <1>1 DEF IInv, Calls, CallOf, Key_
<1>3. ASSUME Insert(t) PROVE pc[t] \in {"own", "publish"}
  BY <1>3 DEF Insert
<1>4. ASSUME Insert(t)
      PROVE  /\ level[t] \in Level /\ level[t] < height[Key_(t)]
             /\ height[Key_(t)] \in 0 .. MaxHeight /\ level[t] \in Nat
  BY <1>1, <1>2, <1>3, <1>4, Consts DEF IInv, TypeOK, Tall
<1>5. ASSUME Insert(t) PROVE Fits(level[t])
  BY <1>1, <1>3, <1>4, <1>5 DEF IInv, PrevFits
<1>q. QED
  BY <1>1, <1>2, <1>4, <1>5, Consts

\* Types, for the step that draws a height.
LEMMA GrowType == ASSUME IInv, NEW t \in Thread, Grow(t) PROVE TypeOK'
<1>1. PICK h \in 1 .. MaxHeight :
        /\ height' = [height EXCEPT ![Key_(t)] = h]
        /\ prev' = NewPrev(h)
        /\ maxHeight' = IF h > maxHeight THEN h ELSE maxHeight
        /\ heights' = heights \union {maxHeight'}
  BY DEF Grow
<1>2. height' \in [Node -> 0 .. MaxHeight]
  <2>1. h \in 0 .. MaxHeight
    BY Consts
  <2>q. QED
    BY <1>1, <2>1 DEF IInv, TypeOK
<1>3. prev' \in [Level -> Node \union {Wild}]
  BY <1>1, Consts DEF IInv, TypeOK, NewPrev
<1>4. maxHeight' \in 1 .. MaxHeight /\ heights' \subseteq 1 .. maxHeight'
  BY <1>1, Consts DEF IInv, TypeOK
<1>5. pc' \in [Thread -> Label] /\ level' \in [Thread -> Level]
  BY Consts DEF IInv, TypeOK, Grow, Goto, Label
<1>q. QED
  BY <1>2, <1>3, <1>4, <1>5 DEF IInv, TypeOK, Grow, answers

\* Types, for the stores of Insert.
LEMMA InsertType == ASSUME IInv, NEW t \in Thread, Insert(t) PROVE TypeOK'
<1>1. /\ t = Writer /\ Key_(t) \in Key /\ level[t] \in Level
      /\ height[Key_(t)] \in 1 .. MaxHeight /\ Fits(level[t])
  BY Writes
<1>2. prev[level[t]] \in Node /\ next[level[t]][prev[level[t]]] \in Key \union {Null, Wild}
  <2>1. prev[level[t]] \in Node
    BY <1>1, Consts DEF Fits, Good, Linked
  <2>q. QED
    BY <1>1, <2>1 DEF IInv, TypeOK
<1>3. ASSUME NEW n \in Node, NEW m \in Key \union {Null, Wild}, SetNext(level[t], n, m)
      PROVE  next' \in [Level -> [Node -> Key \union {Null, Wild}]]
  BY <1>1, <1>3 DEF IInv, TypeOK, SetNext
<1>4. next' \in [Level -> [Node -> Key \union {Null, Wild}]]
  BY <1>1, <1>2, <1>3, Consts DEF Insert, OwnLink, Publish
<1>5. /\ pc' \in [Thread -> Label] /\ level' \in [Thread -> Level]
      /\ op' \in [Thread -> [kind : Kind \union {"insert", "none"}, key : Key \union {Null}]]
      /\ x' \in [Thread -> Node] /\ prev' \in [Level -> Node \union {Wild}]
  <2>1. CASE pc[t] = "own"
    BY <2>1 DEF IInv, TypeOK, Insert, Goto, Label
  <2>2. CASE pc[t] = "publish" /\ level[t] + 1 < height[Key_(t)]
    <3>1. level[t] + 1 \in Level
      BY <1>1, <2>2, Consts DEF Level
    <3>q. QED
      BY <2>2, <3>1 DEF IInv, TypeOK, Insert, NextLevel, Goto, Label
  <2>3. CASE pc[t] = "publish" /\ ~(level[t] + 1 < height[Key_(t)])
    <3>1. Return(t) /\ prev' = [l \in Level |-> Wild]
      BY <2>3 DEF Insert, NextLevel
    <3>q. QED
      BY <3>1, ReturnType DEF IInv
  <2>q. QED
    BY <2>1, <2>2, <2>3 DEF Insert
<1>q. QED
  BY <1>4, <1>5 DEF IInv, TypeOK, Insert, answers

\* Types are preserved.
LEMMA TypeStep == ASSUME IInv, [Next]_vars PROVE TypeOK'
<1>1. ASSUME NEW t \in Thread, Begin(t) \/ Work(t) PROVE TypeOK'
  BY <1>1, BeginType, WalkType, AnswerType, GrowType, InsertType DEF IInv, Work
<1>2. CASE UNCHANGED vars
  BY <1>2 DEF IInv, TypeOK, vars
<1>q. QED
  BY <1>1, <1>2 DEF Next
-----------------------------------------------------------------------------
Walk(t) == Begin(t) \/ LoadHeight(t) \/ Move(t) \/ Down(t) \/ Arrive(t) \/ Follow(t)
Change(t) == Grow(t) \/ Insert(t)

\* A step of t leaves the locals of the other threads alone.
LEMMA ThreadFrame ==
  ASSUME TypeOK, NEW t \in Thread, Walk(t) \/ Change(t), NEW u \in Thread, u # t
  PROVE  /\ pc'[u] = pc[u] /\ op'[u] = op[u] /\ x'[u] = x[u] /\ level'[u] = level[u]
         /\ u \in Reader => node'[u] = node[u] /\ found'[u] = found[u]
<1>1. CASE Begin(t)
  BY <1>1 DEF TypeOK, Begin, Goto, answers
<1>2. CASE LoadHeight(t) \/ Move(t) \/ Down(t)
  BY <1>2 DEF TypeOK, LoadHeight, Move, Down, Goto, answers
<1>3. CASE Arrive(t)
  BY <1>3 DEF TypeOK, Arrive, Goto, Return, answers
<1>4. CASE Follow(t)
  BY <1>4 DEF TypeOK, Follow, Goto, Return, answers
<1>5. CASE Grow(t)
  BY <1>5 DEF TypeOK, Grow, Goto, answers
<1>6. CASE Insert(t)
  BY <1>6 DEF TypeOK, Insert, NextLevel, Goto, Return, answers
<1>q. QED
  BY <1>1, <1>2, <1>3, <1>4, <1>5, <1>6 DEF Walk, Change

\* What a walk does to the walker.
LEMMA WalkFrame ==
  ASSUME IInv, NEW t \in Thread, Walk(t)
  PROVE  /\ UNCHANGED list
         /\ t \in Reader => UNCHANGED prev
         /\ t = Writer => pc[t] \notin {"own", "publish"} /\ pc'[t] \notin {"own", "publish"}
<1>1. UNCHANGED list
  BY DEF Walk, Begin, LoadHeight, Move, Down, Arrive, Follow
<1>2. t \in Reader => UNCHANGED prev
  BY Consts DEF Walk, Begin, LoadHeight, Move, Down, Arrive, Follow, Remember
<1>3. t = Writer => pc[t] \notin {"own", "publish"} /\ pc'[t] \notin {"own", "publish"}
  BY Consts DEF Walk, Begin, LoadHeight, Move, Down, Arrive, Follow, IInv, TypeOK,
                Goto, Return
<1>q. QED
  BY <1>1, <1>2, <1>3

\* A walk leaves every level as it is.
LEMMA WalkLinked ==
  ASSUME IInv, NEW t \in Thread, Walk(t), NEW l \in Level
  PROVE  Linked(l)' = Linked(l) /\ Good(l)' = Good(l)
<1>1. \A k \in Key : Pending(l, k)' <=> Pending(l, k)
  <2>1. CASE t = Writer
    BY <2>1, WalkFrame DEF Pending
  <2>2. CASE t # Writer
    BY <2>2, ThreadFrame, Consts DEF IInv, Pending, Key_
  <2>q. QED
    BY <2>1, <2>2
<1>2. height' = height
  BY WalkFrame DEF list
<1>q. QED
  BY <1>1, <1>2 DEF Linked, Good

\* The writer's key and the levels it has linked when it grows and inserts.
LEMMA GrowLinked ==
  ASSUME IInv, NEW t \in Thread, Grow(t), NEW l \in Level
  PROVE  Linked(l)' = Linked(l) /\ Good(l)' = Good(l)
<1>1. t = Writer /\ Key_(t) \in Key /\ Key_(t)' = Key_(t)
  BY Writes DEF Grow, Key_
<1>2. level'[t] = 0 /\ pc[t] = "grow" /\ pc'[t] = "own" /\ l >= 0
  BY Consts DEF IInv, TypeOK, Grow, Goto
<1>3. \A k \in Key : Pending(l, k)' <=> k = Key_(t)
  BY <1>1, <1>2 DEF Pending
<1>4. \A k \in Key : ~Pending(l, k)
  BY <1>1, <1>2 DEF Pending
<1>5. height[Key_(t)] = 0
  BY <1>1, <1>2 DEF IInv, Tall
<1>6. \A k \in Key : k # Key_(t) => height'[k] = height[k]
  BY Consts DEF Grow, IInv, TypeOK
<1>7. l \in Nat
  BY Consts
<1>q. QED
  BY <1>3, <1>4, <1>5, <1>6, <1>7 DEF Linked, Good

\* The store of the new node's own link links nothing.
LEMMA OwnLinked ==
  ASSUME IInv, NEW t \in Thread, Insert(t), pc[t] = "own", NEW l \in Level
  PROVE  Linked(l)' = Linked(l) /\ Good(l)' = Good(l)
<1>1. t = Writer /\ pc'[t] = "publish" /\ UNCHANGED <<height, op, level>>
  BY Writes DEF IInv, TypeOK, Insert, Goto
<1>q. QED
  BY <1>1 DEF Linked, Good, Pending, Key_

\* The store that publishes the new node links it, at that level alone.
LEMMA PublishLinked ==
  ASSUME IInv, NEW t \in Thread, Insert(t), pc[t] = "publish", NEW l \in Level
  PROVE  /\ Linked(l)' = Linked(l) \union IF l = level[t] THEN {Key_(t)} ELSE {}
         /\ Key_(t) \notin Linked(level[t])
<1>1. /\ t = Writer /\ Key_(t) \in Key /\ UNCHANGED height
      /\ level[t] \in Nat /\ level[t] < height[Key_(t)] /\ height[Key_(t)] \in Nat
      /\ l \in Nat
  <2>1. height[Key_(t)] \in 1 .. MaxHeight /\ level[t] \in Level
    BY Writes
  <2>2. height[Key_(t)] \in Nat /\ level[t] \in Nat /\ l \in Nat
    BY <2>1, ListAssumption DEF Level
  <2>3. UNCHANGED height
    BY DEF Insert
  <2>q. QED
    BY <2>2, <2>3, Writes
<1>2. \A k \in Key : Pending(l, k) <=> k = Key_(t) /\ l >= level[t]
  BY <1>1 DEF Pending
<1>3. Key_(t) \notin Linked(level[t])
  BY <1>1 DEF Linked, Pending
<1>4. CASE level[t] + 1 < height[Key_(t)]
  <2>1. pc'[t] = "own" /\ Key_(t)' = Key_(t) /\ level'[t] = level[t] + 1
    BY <1>4 DEF IInv, TypeOK, Insert, NextLevel, Goto, Key_
  <2>2. \A k \in Key : Pending(l, k)' <=> k = Key_(t) /\ l >= level[t] + 1
    BY <1>1, <2>1 DEF Pending
  <2>q. QED
    BY <1>1, <1>2, <1>3, <1>4, <2>2 DEF Linked
<1>5. CASE ~(level[t] + 1 < height[Key_(t)])
  <2>1. pc'[t] = "idle"
    BY <1>5 DEF IInv, TypeOK, Insert, NextLevel, Goto, Return
  <2>2. \A k \in Key : ~Pending(l, k)'
    BY <1>1, <2>1 DEF Pending
  <2>q. QED
    BY <1>1, <1>2, <1>3, <1>5, <2>2 DEF Linked
<1>q. QED
  BY <1>3, <1>4, <1>5

\* Levels only grow.
LEMMA Grows ==
  ASSUME IInv, NEW t \in Thread, Walk(t) \/ Change(t), NEW l \in Level
  PROVE  Linked(l) \subseteq Linked(l)' /\ Good(l) \subseteq Good(l)'
<1>1. Linked(l) \subseteq Linked(l)'
  BY WalkLinked, GrowLinked, OwnLinked, PublishLinked DEF Change, Insert
<1>q. QED
  BY <1>1 DEF Good

\* The heights of the nodes and of the list only grow.
LEMMA HeightsGrow ==
  ASSUME IInv, NEW t \in Thread, Walk(t) \/ Change(t)
  PROVE  maxHeight' >= maxHeight
<1>1. CASE Walk(t)
  BY <1>1, WalkFrame, Consts DEF list, IInv, TypeOK
<1>2. CASE Grow(t)
  BY <1>2, Consts DEF Grow, IInv, TypeOK
<1>3. CASE Insert(t)
  BY <1>3, Consts DEF Insert, IInv, TypeOK
<1>q. QED
  BY <1>1, <1>2, <1>3 DEF Change
-----------------------------------------------------------------------------
\* Level l after key n was linked between p and the node m that followed p.
LEMMA LinkIn ==
  ASSUME IInv, NEW t \in Thread, Insert(t), pc[t] = "publish",
         NEW l \in Level, l = level[t], NEW n \in Key, n = Key_(t),
         NEW p, p = prev[l], NEW m, m = next[l][p]
  PROVE  Chains'
<1>1. /\ Fits(l) /\ t = Writer
      /\ next' = [next EXCEPT ![l][p] = n]
      /\ next[l][n] = m /\ n \notin Linked(l)
  BY Writes, PublishLinked DEF Insert, Publish, SetNext, IInv, OwnSet
<1>2. /\ p \in Good(l) /\ p < n /\ m > n /\ m \in Linked(l) \union {Null}
      /\ \A k \in Linked(l) : k > p => k >= m
  BY <1>1 DEF Fits, IInv, Chains, Key_
<1>3. Linked(l)' = Linked(l) \union {n}
  BY <1>1, PublishLinked
<1>4. \A j \in Level : Linked(j) \subseteq Key
  BY DEF Linked
<1>5. \A j \in Level : Good(j) \subseteq Node
  BY <1>4, Consts DEF Good, Node
<1>6. ASSUME NEW j \in Level, NEW i \in Node
      PROVE  next'[j][i] = IF j = l /\ i = p THEN n ELSE next[j][i]
  BY <1>1, <1>2, <1>5 DEF IInv, TypeOK
<1>7. ASSUME NEW j \in Level, j # l, NEW i \in Good(j)'
      PROVE  /\ next'[j][i] \in Linked(j)' \union {Null}
             /\ next'[j][i] > i
             /\ \A k \in Linked(j)' : k > i => k >= next'[j][i]
  <2>1. Linked(j)' = Linked(j) /\ Good(j)' = Good(j)
    BY <1>1, <1>7, PublishLinked DEF Good
  <2>q. QED
    BY <1>5, <1>6, <1>7, <2>1 DEF IInv, Chains
<1>8. ASSUME NEW i \in Good(l)'
      PROVE  /\ next'[l][i] \in Linked(l)' \union {Null}
             /\ next'[l][i] > i
             /\ \A k \in Linked(l)' : k > i => k >= next'[l][i]
  <2>0. Linked(l) \subseteq Nat /\ i \in Nat /\ n \in Nat /\ p \in Nat /\ m \in Nat
    BY <1>1, <1>2, <1>3, <1>4, <1>8, Consts DEF Good, HeadNode
  <2>1. CASE i = p
    <3>1. next'[l][i] = n
      BY <1>1, <1>2, <1>5, <1>6, <2>1
    <3>q. QED
      BY <1>2, <1>3, <2>0, <2>1, <3>1
  <2>2. CASE i = n
    <3>1. next'[l][i] = m
      BY <1>1, <1>2, <1>6, <2>0, <2>2, Consts
    <3>q. QED
      BY <1>2, <1>3, <2>0, <2>2, <3>1
  <2>3. CASE i # p /\ i # n
    <3>1. i \in Good(l)
      BY <1>3, <1>8, <2>3 DEF Good
    <3>2. next'[l][i] = next[l][i]
      BY <1>1, <1>5, <1>6, <2>3, <3>1
    <3>3. /\ next[l][i] \in Linked(l) \union {Null}
          /\ next[l][i] > i
          /\ \A k \in Linked(l) : k > i => k >= next[l][i]
      BY <1>1, <3>1 DEF IInv, Chains
    <3>4. next[l][i] \in Nat
      BY <2>0, <3>3, Consts
    <3>5. i < n => n >= next[l][i]
      <4>1. CASE i < p
        BY <1>2, <2>0, <3>3, <3>4, <4>1 DEF Good, HeadNode
      <4>2. CASE i > p
        BY <1>2, <2>0, <3>1, <4>2 DEF Good, HeadNode
      <4>q. QED
        BY <2>0, <2>3, <4>1, <4>2
    <3>q. QED
      BY <1>3, <3>2, <3>3, <3>5
  <2>q. QED
    BY <2>1, <2>2, <2>3
<1>q. QED
  BY <1>7, <1>8 DEF Chains

\* The new node's own link is set before any list holds the node.
LEMMA LinkOwn ==
  ASSUME IInv, NEW t \in Thread, Insert(t), pc[t] = "own"
  PROVE  Chains'
<1>1. /\ t = Writer /\ Key_(t) \in Key /\ level[t] \in Level
      /\ OwnLink(t)
  BY Writes DEF Insert
<1>2. ASSUME NEW j \in Level, NEW i \in Good(j)
      PROVE  next'[j][i] = next[j][i]
  <2>1. j = level[t] => i # Key_(t)
    BY <1>1, Consts DEF Good, Linked, Pending, IInv, TypeOK
  <2>2. i \in Node
    BY Consts DEF Good, Linked
  <2>q. QED
    BY <1>1, <2>1, <2>2 DEF OwnLink, SetNext, IInv, TypeOK
<1>3. ASSUME NEW j \in Level PROVE Linked(j)' = Linked(j) /\ Good(j)' = Good(j)
  BY OwnLinked
<1>q. QED
  BY <1>2, <1>3 DEF Chains, IInv

\* Every level stays a sorted list.
LEMMA ChainsStep ==
  ASSUME IInv, NEW t \in Thread, Walk(t) \/ Change(t)
  PROVE  Chains'
<1>1. ASSUME UNCHANGED next, \A l \in Level : Linked(l)' = Linked(l) /\ Good(l)' = Good(l)
      PROVE  Chains'
  BY <1>1 DEF Chains, IInv
<1>2. CASE Walk(t)
  BY <1>1, <1>2, WalkFrame, WalkLinked DEF list
<1>3. CASE Grow(t)
  BY <1>1, <1>3, GrowLinked DEF Grow
<1>4. CASE Insert(t) /\ pc[t] = "own"
  BY <1>4, LinkOwn
<1>5. CASE Insert(t) /\ pc[t] = "publish"
  <2>1. level[t] \in Level /\ Key_(t) \in Key
    BY <1>5, Writes
  <2>q. QED
    BY <1>5, <2>1, LinkIn
<1>q. QED
  BY <1>2, <1>3, <1>4, <1>5 DEF Change, Insert

\* Calls go through their steps in order.
LEMMA CallsStep ==
  ASSUME IInv, NEW t \in Thread, Walk(t) \/ Change(t)
  PROVE  Calls'
<1>1. ASSUME NEW u \in Thread, u # t PROVE CallOf(u)'
  BY <1>1, ThreadFrame DEF IInv, Calls, CallOf
<1>2. CallOf(t)'
  <2>1. CASE Begin(t)
    <3>1. node \in [Reader -> Key \union {Null}] /\ CallOf(t)
      BY DEF IInv, TypeOK, Calls
    <3>q. QED
      BY <2>1, <3>1, Consts DEF Begin, IInv, TypeOK, Goto, CallOf
  <2>2. CASE LoadHeight(t) \/ Move(t) \/ Down(t)
    BY <2>2, Consts DEF LoadHeight, Move, Down, IInv, TypeOK, Goto, Calls, CallOf
  <2>3. CASE Arrive(t) \/ Follow(t)
    BY <2>3, Consts DEF Arrive, Follow, IInv, TypeOK, Goto, Return, Calls, CallOf
  <2>4. CASE Change(t)
    <3>1. t = Writer /\ Key_(t) \in Key /\ op[t].kind = "insert"
      BY <2>4, Writes DEF Change
    <3>2. CASE Grow(t)
      BY <3>1, <3>2, Consts DEF Grow, IInv, TypeOK, Goto, CallOf, Key_
    <3>3. CASE Insert(t)
      BY <3>1, <3>3, Consts DEF Insert, NextLevel, Return, IInv, TypeOK, Goto, CallOf, Key_
    <3>q. QED
      BY <2>4, <3>2, <3>3 DEF Change
  <2>q. QED
    BY <2>1, <2>2, <2>3, <2>4 DEF Walk
<1>q. QED
  BY <1>1, <1>2 DEF Calls

\* A key has a height from Grow on.
LEMMA TallStep ==
  ASSUME IInv, NEW t \in Thread, Walk(t) \/ Change(t)
  PROVE  Tall'
<1>1. CASE Walk(t) /\ t # Writer
  <2>1. UNCHANGED list /\ pc'[Writer] = pc[Writer] /\ op'[Writer] = op[Writer]
        /\ level'[Writer] = level[Writer]
    BY <1>1, ThreadFrame, WalkFrame, Consts DEF IInv
  <2>q. QED
    BY <2>1 DEF IInv, Tall, list, Key_
<1>2. CASE Walk(t) /\ t = Writer
  <2>1. UNCHANGED list /\ pc'[t] \notin {"own", "publish"}
    BY <1>2, WalkFrame
  <2>2. pc'[Writer] \in {"height", "search", "grow"} => height[op'[Writer].key] = 0
    <3>1. CASE Begin(t)
      BY <1>2, <3>1, Consts DEF Begin, IInv, TypeOK
    <3>2. CASE LoadHeight(t) \/ Move(t) \/ Down(t)
      BY <1>2, <3>2, Consts DEF LoadHeight, Move, Down, Goto, IInv, TypeOK, Tall, Key_
    <3>3. CASE Arrive(t)
      BY <1>2, <3>3, Consts DEF Arrive, IInv, Tall, Key_
    <3>4. CASE Follow(t)
      BY <1>2, <3>4 DEF Follow, IInv, Calls, CallOf
    <3>q. QED
      BY <1>2, <3>1, <3>2, <3>3, <3>4 DEF Walk
  <2>q. QED
    BY <1>2, <2>1, <2>2 DEF IInv, Tall, list, Key_
<1>3. CASE Grow(t)
  <2>1. t = Writer /\ Key_(t) \in Key /\ pc'[t] = "own" /\ level'[t] = 0 /\ op' = op
    BY <1>3, Writes DEF Grow, IInv, TypeOK, Goto
  <2>2. PICK h \in 1 .. MaxHeight :
          /\ height' = [height EXCEPT ![Key_(t)] = h]
          /\ maxHeight' = IF h > maxHeight THEN h ELSE maxHeight
    BY <1>3 DEF Grow
  <2>3. \A n \in Node : height'[n] = IF n = Key_(t) THEN h ELSE height[n]
    BY <2>2 DEF IInv, TypeOK
  <2>4. maxHeight \in Nat /\ h \in Nat /\ \A n \in Node : height[n] \in Nat
    BY Consts DEF IInv, TypeOK
  <2>5. height'[HeadNode] = MaxHeight
    BY <2>1, <2>3, Consts DEF IInv, Tall
  <2>6. ASSUME NEW k \in Key PROVE height'[k] <= maxHeight'
    BY <2>2, <2>3, <2>4, Consts DEF IInv, Tall
  <2>7. level'[t] < height'[op'[t].key]
    <3>1. Key_(t) \in Node /\ h > 0
      BY <2>1, <2>2, ListAssumption DEF Node
    <3>2. height'[Key_(t)] = h
      BY <2>3, <3>1
    <3>q. QED
      BY <2>1, <3>1, <3>2 DEF Key_
  <2>q. QED
    BY <2>1, <2>5, <2>6, <2>7 DEF Tall, Key_
<1>4. CASE Insert(t)
  <2>1. t = Writer /\ UNCHANGED <<height, maxHeight>> /\ pc[t] \in {"own", "publish"}
    BY <1>4, Writes DEF Insert
  <2>2. pc'[t] \notin {"height", "search", "grow"}
    BY <1>4 DEF Insert, NextLevel, Return, Goto, IInv, TypeOK
  <2>3. pc'[t] \in {"own", "publish"} => op' = op /\ level'[t] < height[Key_(t)]
    <3>1. CASE pc[t] = "own"
      BY <1>4, <2>1, <3>1 DEF Insert, IInv, Tall
    <3>2. CASE pc[t] = "publish"
      BY <1>4, <2>1, <3>2 DEF Insert, NextLevel, Return, Goto, IInv, TypeOK
    <3>q. QED
      BY <2>1, <3>1, <3>2
  <2>q. QED
    BY <2>1, <2>2, <2>3 DEF IInv, Tall, Key_
<1>q. QED
  BY <1>1, <1>2, <1>3, <1>4 DEF Change

\* What a level links, the level below links too.
LEMMA Below ==
  ASSUME IInv, NEW l \in Level, NEW m \in Level, m < l
  PROVE  Good(l) \subseteq Good(m)
<1>1. \A k \in Key : height[k] \in Nat
  BY Consts DEF IInv, TypeOK
<1>2. l \in Nat /\ m \in Nat /\ level[Writer] \in Nat
  BY Consts DEF IInv, TypeOK
<1>q. QED
  BY <1>1, <1>2 DEF Good, Linked, Pending

\* A thread stands on nodes that its level links.
LEMMA StandsStep ==
  ASSUME IInv, NEW t \in Thread, Walk(t) \/ Change(t)
  PROVE  Standing'
<1>1. /\ \A l \in Level : Linked(l) \subseteq Linked(l)' /\ Good(l) \subseteq Good(l)'
      /\ maxHeight \in Nat /\ maxHeight' \in Nat /\ maxHeight' >= maxHeight
      /\ Level \subseteq Nat /\ 0 \in Level
  <2>1. TypeOK'
    BY TypeStep DEF Walk, Change, Work, Next
  <2>2. maxHeight \in Nat /\ maxHeight' \in Nat
    BY <2>1, Consts DEF IInv, TypeOK
  <2>q. QED
    BY <2>2, Grows, HeightsGrow, Consts
<1>2. ASSUME NEW u \in Thread, u # t PROVE StandsOn(u)'
  <2>1. /\ pc'[u] = pc[u] /\ op'[u] = op[u] /\ x'[u] = x[u] /\ level'[u] = level[u]
        /\ u \in Reader => node'[u] = node[u]
    BY <1>2, ThreadFrame DEF IInv
  <2>2. StandsOn(u)
    BY DEF IInv, Standing
  <2>3. ASSUME NEW l \in Level, pc'[u] = "search", level'[u] = l
        PROVE  l < maxHeight' /\ x'[u] \in Good(l)' /\ x'[u] < Key_(u)'
    <3>1. l < maxHeight /\ x[u] \in Good(l) /\ x[u] < Key_(u)
      BY <2>1, <2>2, <2>3 DEF StandsOn
    <3>q. QED
      BY <1>1, <2>1, <3>1 DEF Key_
  <2>4. ASSUME u \in Reader
        PROVE  /\ pc'[u] = "follow" => x'[u] \in Good(0)'
               /\ node'[u] \in Linked(0)' \union {Null}
    BY <1>1, <2>1, <2>2, <2>4 DEF StandsOn
  <2>q. QED
    BY <2>1, <2>2, <2>3, <2>4 DEF StandsOn
<1>3. StandsOn(t)'
  <2>1. CASE Begin(t)
    <3>1. pc'[t] \in {"height", "follow"} /\ (pc'[t] = "height" => x'[t] = HeadNode)
      BY <2>1 DEF Begin, Goto, IInv, TypeOK
    <3>2. ASSUME t \in Reader
          PROVE  node'[t] = node[t] /\ (pc'[t] = "follow" => x'[t] \in {HeadNode, node[t]} \ {Null})
      BY <2>1, <3>2, Consts DEF Begin, Goto, IInv, TypeOK, answers
    <3>3. StandsOn(t)
      BY DEF IInv, Standing
    <3>q. QED
      BY <1>1, <3>1, <3>2, <3>3 DEF StandsOn, Good
  <2>2. CASE LoadHeight(t)
    <3>1. /\ pc[t] = "height" /\ pc'[t] = "search" /\ UNCHANGED <<op, x, list, answers>>
          /\ \E h \in Nat : h <= maxHeight /\ level'[t] = h - 1
      BY <2>2, Consts DEF LoadHeight, Goto, IInv, TypeOK
    <3>2. x[t] = HeadNode /\ HeadNode < Key_(t)
      BY <3>1, Consts DEF IInv, Standing, StandsOn, Calls, CallOf, Key_, Thread
    <3>3. level'[t] < maxHeight
      BY <1>1, <3>1
    <3>4. t \in Reader => node'[t] \in Linked(0) \union {Null}
      BY <3>1 DEF IInv, Standing, StandsOn, answers
    <3>q. QED
      BY <1>1, <3>1, <3>2, <3>3, <3>4 DEF StandsOn, Key_, Good, list
  <2>3. CASE Move(t)
    <3>1. /\ pc[t] = "search" /\ pc'[t] = "search" /\ x'[t] = Link(t)
          /\ UNCHANGED <<op, level, list, answers>> /\ Link(t) < Key_(t)
      BY <2>3 DEF Move, KeyIsAfterNode, IInv, TypeOK
    <3>2. PICK l \in Level : l = level[t]
      BY DEF IInv, TypeOK
    <3>3. /\ l < maxHeight /\ x[t] \in Good(l) /\ Key_(t) \in Key \union {Null}
      BY <3>1, <3>2 DEF IInv, Standing, StandsOn, TypeOK, Key_
    <3>4. Link(t) \in Good(l)
      BY <3>1, <3>2, <3>3, Consts DEF IInv, Chains, Link, Good, Key, Null
    <3>5. t \in Reader => node'[t] \in Linked(0) \union {Null}
      BY <3>1 DEF IInv, Standing, StandsOn, answers
    <3>q. QED
      BY <1>1, <3>1, <3>2, <3>3, <3>4, <3>5 DEF StandsOn, Key_, list
  <2>4. CASE Down(t)
    <3>1. /\ pc[t] = "search" /\ pc'[t] = "search" /\ level'[t] = level[t] - 1
          /\ UNCHANGED <<op, x, list, answers>> /\ level[t] > 0
      BY <2>4 DEF Down, IInv, TypeOK
    <3>2. PICK l \in Level : l = level[t]
      BY DEF IInv, TypeOK
    <3>3. l < maxHeight /\ x[t] \in Good(l) /\ x[t] < Key_(t)
      BY <3>1, <3>2 DEF IInv, Standing, StandsOn
    <3>4. ASSUME NEW m \in Level, m = l - 1 PROVE x[t] \in Good(m)
      BY <1>1, <3>3, <3>4, Below
    <3>5. t \in Reader => node'[t] \in Linked(0) \union {Null}
      BY <3>1 DEF IInv, Standing, StandsOn, answers
    <3>q. QED
      BY <1>1, <3>1, <3>2, <3>3, <3>4, <3>5 DEF StandsOn, Key_, list
  <2>5. CASE Arrive(t)
    <3>1. pc'[t] \in {"grow", "idle"}
      BY <2>5 DEF Arrive, Goto, Return, IInv, TypeOK
    <3>2. ASSUME t \in Reader PROVE node'[t] \in Linked(0) \union {Null}
      <4>1. level[t] = 0 /\ node'[t] \in {node[t], Link(t), OrNull(x[t])}
        BY <2>5, <3>2, Consts DEF Arrive, IInv, TypeOK
      <4>2. /\ x[t] \in Good(0) /\ Link(t) \in Linked(0) \union {Null}
        BY <2>5, <4>1, Found DEF Arrive
      <4>3. node[t] \in Linked(0) \union {Null}
        BY <3>2 DEF IInv, Standing, StandsOn
      <4>q. QED
        BY <4>1, <4>2, <4>3 DEF OrNull, Good
    <3>q. QED
      BY <1>1, <3>1, <3>2 DEF StandsOn
  <2>6. CASE Follow(t)
    <3>1. pc'[t] = "idle" /\ t \in Reader /\ x[t] \in Good(0)
      BY <2>6 DEF Follow, Goto, Return, IInv, TypeOK, Calls, CallOf, Standing, StandsOn, Thread
    <3>2. node'[t] \in Linked(0) \union {Null}
      BY <1>1, <2>6, <3>1 DEF Follow, IInv, TypeOK, Chains
    <3>q. QED
      BY <1>1, <3>1, <3>2 DEF StandsOn
  <2>7. CASE Change(t)
    <3>1. t = Writer
      BY <2>7, Writes DEF Change
    <3>2. pc'[t] \notin {"height", "search"}
      BY <2>7 DEF Change, Grow, Insert, NextLevel, Return, Goto, IInv, TypeOK
    <3>q. QED
      BY <3>1, <3>2, Consts DEF StandsOn
  <2>q. QED
    BY <2>1, <2>2, <2>3, <2>4, <2>5, <2>6, <2>7 DEF Walk
<1>q. QED
  BY <1>2, <1>3 DEF Standing

\* The predecessors that Insert remembers stay the predecessors: no other
\* thread links anything.
LEMMA PrevStep ==
  ASSUME IInv, NEW t \in Thread, Walk(t) \/ Change(t)
  PROVE  PrevFits'
<1>1. CASE Walk(t) /\ t # Writer
  <2>1. /\ UNCHANGED <<list, prev>> /\ pc'[Writer] = pc[Writer] /\ op'[Writer] = op[Writer]
        /\ level'[Writer] = level[Writer]
    BY <1>1, ThreadFrame, WalkFrame, Consts DEF IInv, Thread
  <2>2. \A l \in Level : Fits(l) => Fits(l)'
    BY <1>1, <2>1, WalkLinked DEF Fits, list, Key_
  <2>q. QED
    BY <2>1, <2>2 DEF IInv, PrevFits, list, Key_
<1>2. CASE Walk(t) /\ t = Writer
  <2>1. UNCHANGED list /\ pc'[t] \notin {"own", "publish"}
    BY <1>2, WalkFrame
  <2>2. ASSUME NEW l \in Level, Fits(l), prev'[l] = prev[l], op' = op PROVE Fits(l)'
    BY <1>2, <2>1, <2>2, WalkLinked DEF Fits, list, Key_
  <2>3. CASE Begin(t)
    <3>1. pc'[t] \in {"height", "follow"}
      BY <2>3 DEF Begin, Goto, IInv, TypeOK
    <3>q. QED
      BY <1>2, <3>1 DEF PrevFits
  <2>4. CASE LoadHeight(t)
    <3>1. pc'[t] = "search" /\ level'[t] = maxHeight' - 1 /\ maxHeight' \in Nat
      BY <1>2, <2>4, Consts DEF LoadHeight, Goto, IInv, TypeOK, list
    <3>2. \A l \in Level : l \in Nat
      BY ListAssumption DEF Level
    <3>3. \A l \in Level : level'[t] < l => ~(l < maxHeight')
      BY <3>1, <3>2
    <3>q. QED
      BY <1>2, <3>1, <3>3 DEF PrevFits
  <2>5. CASE Move(t)
    <3>1. /\ pc[t] = "search" /\ pc'[t] = "search" /\ UNCHANGED <<op, level, prev, maxHeight>>
      BY <2>5 DEF Move, list
    <3>q. QED
      BY <1>2, <2>2, <3>1 DEF IInv, PrevFits
  <2>6. ASSUME Down(t) \/ Arrive(t), NEW l \in Level, l = level[t]
        PROVE  /\ Fits(l)' /\ op' = op /\ pc[t] = "search"
               /\ \A m \in Level : m # l => prev'[m] = prev[m]
    <3>1. pc[t] = "search" /\ ~KeyIsAfterNode(t) /\ op' = op /\ Remember(t)
      BY <1>2, <2>6, Consts DEF Down, Arrive
    <3>2. prev' = [prev EXCEPT ![l] = x[t]]
      BY <1>2, <2>6, <3>1 DEF Remember
    <3>3. /\ x[t] \in Good(l) /\ x[t] < Key_(t) /\ Key_(t) <= Link(t)
          /\ Link(t) \in Linked(l) \union {Null} /\ Key_(t) \in Key
      BY <1>2, <2>6, <3>1, Found DEF IInv, Calls, CallOf, Key_
    <3>4. height[Key_(t)] = 0
      BY <1>2, <3>1 DEF IInv, Tall
    <3>5. Key_(t) \notin Linked(l)
      BY <3>3, <3>4, Consts DEF Linked
    <3>6. Link(t) > Key_(t)
      <4>1. Linked(l) \subseteq Key /\ Link(t) # Key_(t)
        BY <3>3, <3>5, Consts DEF Linked
      <4>q. QED
        BY <3>3, <4>1, ListAssumption DEF Key, Null
    <3>7. prev'[l] = x[t]
      BY <3>2 DEF IInv, TypeOK
    <3>q. QED
      BY <1>2, <2>1, <2>6, <3>1, <3>2, <3>3, <3>6, <3>7, WalkLinked
      DEF Fits, Link, list, Key_, IInv, TypeOK
  <2>7. CASE Down(t)
    <3>1. PICK l \in Level : l = level[t]
      BY DEF IInv, TypeOK
    <3>2. pc'[t] = "search" /\ level'[t] = l - 1 /\ maxHeight' = maxHeight
      BY <2>7, <3>1 DEF Down, IInv, TypeOK, list
    <3>3. ASSUME NEW m \in Level, l - 1 < m, m < maxHeight PROVE Fits(m)'
      <4>1. m # l => m > l
        BY <3>3, Consts
      <4>q. QED
        BY <1>2, <2>2, <2>6, <2>7, <3>1, <3>3, <4>1 DEF IInv, PrevFits
    <3>q. QED
      BY <1>2, <3>2, <3>3 DEF PrevFits
  <2>8. CASE Arrive(t)
    <3>1. pc'[t] = "grow" /\ level[t] = 0 /\ maxHeight' = maxHeight
      BY <1>2, <2>8, Consts DEF Arrive, Goto, IInv, TypeOK, list
    <3>2. ASSUME NEW m \in Level, m < maxHeight PROVE Fits(m)'
      <4>1. m # 0 => m > 0
        BY <3>2, Consts
      <4>q. QED
        BY <1>2, <2>2, <2>6, <2>8, <3>1, <3>2, <4>1, Consts DEF IInv, PrevFits
    <3>q. QED
      BY <1>2, <3>1, <3>2 DEF PrevFits
  <2>9. CASE Follow(t)
    BY <1>2, <2>9 DEF Follow, IInv, Calls, CallOf
  <2>q. QED
    BY <1>2, <2>3, <2>4, <2>5, <2>7, <2>8, <2>9 DEF Walk
<1>3. CASE Grow(t)
  <2>1. /\ t = Writer /\ Key_(t) \in Key /\ pc'[t] = "own" /\ pc[t] = "grow"
        /\ op' = op /\ next' = next
    BY <1>3, Writes DEF Grow, IInv, TypeOK, Goto
  <2>2. PICK h \in 1 .. MaxHeight :
          height' = [height EXCEPT ![Key_(t)] = h] /\ prev' = NewPrev(h)
    BY <1>3 DEF Grow
  <2>3. height'[Key_(t)] = h
    BY <2>1, <2>2, Consts DEF IInv, TypeOK
  <2>4. ASSUME NEW l \in Level, l < h PROVE Fits(l)'
    <3>1. CASE l < maxHeight
      <4>1. Fits(l) /\ prev'[l] = prev[l]
        BY <2>1, <2>2, <2>4, <3>1, Consts DEF IInv, PrevFits, NewPrev, TypeOK
      <4>q. QED
        BY <1>3, <2>1, <4>1, GrowLinked DEF Fits, Key_
    <3>2. CASE ~(l < maxHeight)
      <4>1. prev'[l] = HeadNode
        BY <2>2, <2>4, <3>2, Consts DEF IInv, NewPrev, TypeOK
      <4>2. Linked(l) = {}
        <5>1. ASSUME NEW k \in Key PROVE ~(height[k] > l)
          <6>1. height[k] <= maxHeight /\ height[k] \in Nat /\ maxHeight \in Nat /\ l \in Nat
            BY Consts DEF IInv, Tall, TypeOK
          <6>q. QED
            BY <3>2, <6>1
        <5>q. QED
          BY <5>1 DEF Linked
      <4>3. next[l][HeadNode] = Null
        BY <4>2 DEF IInv, Chains, Good
      <4>4. HeadNode < Key_(t) /\ Null > Key_(t)
        BY <2>1, Consts
      <4>q. QED
        BY <2>1, <4>1, <4>3, <4>4 DEF Fits, Good, Key_
    <3>q. QED
      BY <3>1, <3>2
  <2>q. QED
    BY <2>1, <2>3, <2>4 DEF PrevFits, Key_
<1>4. CASE Insert(t) /\ pc[t] = "own"
  <2>1. /\ t = Writer /\ Key_(t) \in Key /\ level[t] \in Level
        /\ pc'[t] = "publish" /\ UNCHANGED <<op, level, height, prev>>
        /\ OwnLink(t)
    BY <1>4, Writes DEF Insert, Goto, IInv, TypeOK
  <2>2. ASSUME NEW l \in Level, Fits(l) PROVE Fits(l)'
    <3>1. prev[l] \in Node /\ prev[l] # Key_(t)
      <4>1. prev[l] \in Key \union {HeadNode} /\ prev[l] < Key_(t)
        BY <2>1, <2>2 DEF Fits, Good, Linked
      <4>q. QED
        BY <2>1, <4>1, ListAssumption DEF Key, HeadNode, Node
    <3>2. next'[l][prev[l]] = next[l][prev[l]]
      BY <2>1, <3>1 DEF OwnLink, SetNext, IInv, TypeOK
    <3>q. QED
      BY <1>4, <2>1, <2>2, <3>2, OwnLinked DEF Fits, Key_
  <2>q. QED
    BY <1>4, <2>1, <2>2 DEF IInv, PrevFits, Key_
<1>5. CASE Insert(t) /\ pc[t] = "publish"
  <2>1. /\ t = Writer /\ Key_(t) \in Key /\ level[t] \in Level
        /\ UNCHANGED height /\ Publish(t) /\ NextLevel(t)
    BY <1>5, Writes DEF Insert
  <2>2. CASE level[t] + 1 < height[Key_(t)]
    <3>1. /\ pc'[t] = "own" /\ UNCHANGED <<op, prev>> /\ level'[t] = level[t] + 1
      BY <2>1, <2>2 DEF NextLevel, Goto, IInv, TypeOK
    <3>2. ASSUME NEW l \in Level, level[t] + 1 <= l, l < height[Key_(t)] PROVE Fits(l)'
      <4>1. l # level[t] /\ level[t] <= l
        <5>1. l \in Nat /\ level[t] \in Nat
          BY <2>1, Consts
        <5>q. QED
          BY <3>2, <5>1
      <4>2. Fits(l)
        BY <1>5, <2>1, <3>2, <4>1 DEF IInv, PrevFits
      <4>3. Linked(l) \subseteq Linked(l)'
        BY <1>5, Grows DEF Change
      <4>4. next'[l] = next[l]
        BY <2>1, <4>1 DEF Publish, SetNext, IInv, TypeOK
      <4>q. QED
        BY <3>1, <4>2, <4>3, <4>4 DEF Fits, Good, Key_
    <3>q. QED
      BY <2>1, <3>1, <3>2 DEF PrevFits, Key_
  <2>3. CASE ~(level[t] + 1 < height[Key_(t)])
    <3>1. pc'[t] = "idle"
      BY <2>1, <2>3 DEF NextLevel, Return, Goto, IInv, TypeOK
    <3>q. QED
      BY <2>1, <3>1 DEF PrevFits
  <2>q. QED
    BY <2>2, <2>3
<1>q. QED
  BY <1>1, <1>2, <1>3, <1>4, <1>5 DEF Change, Insert

\* A node is published with its own link set.
LEMMA OwnStep ==
  ASSUME IInv, NEW t \in Thread, Walk(t) \/ Change(t)
  PROVE  OwnSet'
<1>1. CASE Walk(t) /\ t # Writer
  <2>1. /\ UNCHANGED <<list, prev>> /\ pc'[Writer] = pc[Writer] /\ op'[Writer] = op[Writer]
        /\ level'[Writer] = level[Writer]
    BY <1>1, ThreadFrame, WalkFrame, Consts DEF IInv, Thread
  <2>q. QED
    BY <2>1 DEF IInv, OwnSet, list, Key_
<1>2. CASE Walk(t) /\ t = Writer
  BY <1>2, WalkFrame DEF OwnSet
<1>3. CASE Grow(t)
  <2>1. pc'[Writer] = "own"
    <3>1. t = Writer
      BY <1>3, Writes
    <3>q. QED
      BY <1>3, <3>1 DEF Grow, IInv, TypeOK, Goto
  <2>q. QED
    BY <2>1 DEF OwnSet
<1>4. CASE Insert(t) /\ pc[t] = "own"
  <2>1. /\ t = Writer /\ Key_(t) \in Key /\ level[t] \in Level /\ Fits(level[t])
        /\ UNCHANGED <<op, level, prev>> /\ OwnLink(t)
    BY <1>4, Writes DEF Insert
  <2>2. prev[level[t]] \in Node /\ prev[level[t]] # Key_(t)
    <3>1. prev[level[t]] \in Key \union {HeadNode} /\ prev[level[t]] < Key_(t)
      BY <2>1 DEF Fits, Good, Linked
    <3>q. QED
      BY <2>1, <3>1, ListAssumption DEF Key, HeadNode, Node
  <2>q. QED
    BY <2>1, <2>2, Consts DEF OwnSet, OwnLink, SetNext, IInv, TypeOK, Key_
<1>5. CASE Insert(t) /\ pc[t] = "publish"
  <2>1. t = Writer /\ pc'[t] # "publish"
    BY <1>5, Writes DEF Insert, NextLevel, Return, Goto, IInv, TypeOK
  <2>q. QED
    BY <2>1 DEF OwnSet
<1>q. QED
  BY <1>1, <1>2, <1>3, <1>4, <1>5 DEF Change, Insert

\* The invariant is inductive.
LEMMA StepIInv == ASSUME IInv, [Next]_vars PROVE IInv'
<1>1. ASSUME NEW t \in Thread, Walk(t) \/ Change(t) PROVE IInv'
  <2>1. TypeOK'
    BY <1>1, TypeStep DEF Walk, Change, Work, Next
  <2>q. QED
    BY <1>1, <2>1, CallsStep, TallStep, StandsStep, ChainsStep, PrevStep, OwnStep DEF IInv
<1>2. CASE UNCHANGED vars
  BY <1>2 DEF vars, IInv, TypeOK, Calls, CallOf, Tall, Standing, StandsOn, Chains, PrevFits,
              OwnSet, Fits, Good, Linked, Pending, Key_
<1>3. CASE Next
  BY <1>1, <1>3 DEF Next, Work, Walk, Change
<1>q. QED
  BY <1>2, <1>3

\* The invariant holds in every reachable state.
THEOREM Inductive == Spec => []IInv
<1>1. Init => IInv
  BY InitIInv
<1>2. IInv /\ [Next]_vars => IInv'
  BY StepIInv
<1>q. QED
  BY <1>1, <1>2, PTL DEF Spec

\* At every moment each level is a sorted list of its own keys, half an insert
\* included.
THEOREM ListsSorted == Spec => []Sorted
<1>1. IInv => Sorted
  BY DEF IInv, Chains, Good, Sorted
<1>q. QED
  BY <1>1, Inductive, PTL

\* No thread reads a link that its node does not have or has not set.
THEOREM ReadsArePublished == Spec => []ReadsPublished
<1>1. ASSUME IInv PROVE ReadsPublished
  <2>1. ASSUME NEW t \in Thread, pc[t] \in {"search", "follow"}
        PROVE  height[x[t]] > level[t] /\ next[level[t]][x[t]] # Wild
    <3>1. PICK l \in Level : l = level[t]
      BY <1>1 DEF IInv, TypeOK
    <3>2. x[t] \in Good(l)
      BY <1>1, <2>1, <3>1, Consts DEF IInv, Standing, StandsOn, Calls, CallOf, Thread
    <3>3. height[x[t]] > l
      BY <1>1, <3>2, Consts DEF IInv, Tall, Good, Linked, Level
    <3>4. next[l][x[t]] \in Linked(l) \union {Null}
      BY <1>1, <3>2 DEF IInv, Chains
    <3>q. QED
      BY <3>1, <3>3, <3>4, Consts DEF Linked
  <2>2. ASSUME pc[Writer] \in {"own", "publish"}
        PROVE  prev[level[Writer]] \in Node /\ height[prev[level[Writer]]] > level[Writer]
    <3>1. /\ level[Writer] \in Level /\ level[Writer] \in Nat
          /\ level[Writer] < height[Key_(Writer)]
      BY <1>1, <2>2, Consts DEF IInv, TypeOK, Tall
    <3>2. Fits(level[Writer])
      BY <1>1, <2>2, <3>1 DEF IInv, PrevFits
    <3>3. prev[level[Writer]] = HeadNode \/ prev[level[Writer]] \in Linked(level[Writer])
      BY <3>2 DEF Fits, Good
    <3>4. height[HeadNode] > level[Writer]
      BY <1>1, <3>1, ListAssumption DEF IInv, Tall, Level
    <3>q. QED
      BY <3>3, <3>4, Consts DEF Linked
  <2>q. QED
    BY <2>1, <2>2 DEF ReadsPublished
<1>q. QED
  BY <1>1, Inductive, PTL
-----------------------------------------------------------------------------
\* SortedSet has the same constants.
LEMMA SetConsts ==
  /\ Set!Key = Key /\ Set!Null = Null /\ Set!Thread = Thread /\ Set!Idle = Idle
  /\ Set!Kind = Kind
BY DEF Set!Key, Key, Set!Null, Null, Set!Thread, Thread, Set!Idle, Idle, Set!Kind, Kind

\* The set of level 0 across a step.
LEMMA SetStep ==
  ASSUME IInv, NEW t \in Thread, Walk(t) \/ Change(t)
  PROVE  Linked(0)' = Linked(0) \union
           IF Insert(t) /\ pc[t] = "publish" /\ level[t] = 0 THEN {Key_(t)} ELSE {}
<1>1. 0 \in Level
  BY Consts
<1>2. CASE Walk(t)
  <2>1. ~(Insert(t) /\ pc[t] = "publish")
    BY <1>2, Writes, WalkFrame
  <2>q. QED
    BY <1>1, <1>2, <2>1, WalkLinked
<1>3. CASE Grow(t)
  <2>1. pc[t] = "grow"
    BY <1>3 DEF Grow
  <2>q. QED
    BY <1>1, <1>3, <2>1, GrowLinked
<1>4. CASE Insert(t) /\ pc[t] = "own"
  BY <1>1, <1>4, OwnLinked
<1>5. CASE Insert(t) /\ pc[t] = "publish"
  BY <1>1, <1>5, PublishLinked
<1>q. QED
  BY <1>2, <1>3, <1>4, <1>5 DEF Change, Insert

\* A call starts: the writer's key is not in the set yet.
LEMMA BeginCalls ==
  ASSUME IInv, NEW t \in Thread, Begin(t)
  PROVE  Set!Call(t)
<1>1. /\ op[t] = Idle
      /\ op \in [Thread -> [kind : Kind \union {"insert", "none"}, key : Key \union {Null}]]
  BY DEF Begin, IInv, Calls, CallOf, TypeOK
<1>2. UNCHANGED <<Linked(0), node, found>>
  BY WalkLinked, Consts DEF Walk, Begin, answers
<1>3. CASE t = Writer
  <2>1. PICK k \in Key :
          height[k] = 0 /\ op' = [op EXCEPT ![t] = [kind |-> "insert", key |-> k]]
    BY <1>3, Consts DEF Begin
  <2>2. k \notin Linked(0)
    BY <2>1 DEF Linked
  <2>q. QED
    BY <1>1, <1>2, <1>3, <2>1, <2>2, SetConsts DEF Set!Call
<1>4. CASE t \in Reader
  <2>1. PICK kd \in Kind : \E k \in Key \union {Null} :
          /\ op' = [op EXCEPT ![t] = [kind |-> kd, key |-> k]]
          /\ kd \in {"next", "prev"} => node[t] # Null /\ k = node[t]
    <3>1. node[t] \in Key \union {Null}
      BY <1>4 DEF IInv, TypeOK
    <3>q. QED
      BY <1>4, <3>1, Consts DEF Begin, Kind
  <2>2. PICK k \in Key \union {Null} :
          /\ op' = [op EXCEPT ![t] = [kind |-> kd, key |-> k]]
          /\ kd \in {"next", "prev"} => node[t] # Null /\ k = node[t]
    BY <2>1
  <2>3. op'[t] = [kind |-> kd, key |-> k]
    BY <1>1, <2>2
  <2>q. QED
    BY <1>1, <1>2, <1>4, <2>2, <2>3, SetConsts DEF Set!Call
<1>q. QED
  BY <1>3, <1>4 DEF Thread

\* What a search finds at the lowest level is right when it gets there.
LEMMA ArriveAnswers ==
  ASSUME IInv, NEW r \in Reader, Arrive(r)
  PROVE  Set!Answer(r)
<1>1. /\ pc[r] = "search" /\ ~KeyIsAfterNode(r) /\ level[r] = 0 /\ r \in Thread
      /\ op' = [op EXCEPT ![r] = Idle] /\ r # Writer
  BY Consts DEF Arrive, Return
<1>2. /\ x[r] \in Good(0) /\ x[r] < Key_(r) /\ Key_(r) <= Link(r)
      /\ Link(r) \in Linked(0) \union {Null}
      /\ \A k \in Linked(0) : k > x[r] => k >= Link(r)
  BY <1>1, Found
<1>3. UNCHANGED Linked(0)
  BY <1>1, WalkLinked, Consts DEF Walk
<1>4. Linked(0) \subseteq Nat /\ x[r] \in Nat /\ Link(r) \in Nat /\ Key_(r) \in Nat
  <2>1. \A k \in Key : k \in Nat
    BY ListAssumption DEF Key
  <2>2. Key_(r) \in Key \union {Null}
    BY <1>1 DEF IInv, TypeOK, Key_
  <2>q. QED
    BY <1>2, <2>1, <2>2, ListAssumption DEF Linked, Good, HeadNode, Null
<1>5. Linked(0) \subseteq Key /\ \A k \in Linked(0) : k < Null /\ HeadNode < k
  BY Consts DEF Linked
<1>6. CASE op[r].kind = "contains"
  <2>1. found' = [found EXCEPT ![r] = (Link(r) = Key_(r))] /\ UNCHANGED node
    BY <1>1, <1>6 DEF Arrive
  <2>2. (Link(r) = Key_(r)) <=> Key_(r) \in Linked(0)
    <3>1. Key_(r) \in Key
      BY <1>1, <1>6, Consts DEF IInv, Calls, CallOf, Key_
    <3>q. QED
      BY <1>2, <1>4, <3>1, Consts
  <2>3. found' = [found EXCEPT ![r] = (op[r].key \in Linked(0))]
    <3>1. (Link(r) = Key_(r)) = (op[r].key \in Linked(0))
      BY <2>2 DEF Key_
    <3>q. QED
      BY <2>1, <3>1
  <2>q. QED
    BY <1>1, <1>3, <1>6, <2>1, <2>3, SetConsts DEF Set!Answer
<1>7. CASE op[r].kind = "seek"
  <2>1. node' = [node EXCEPT ![r] = Link(r)] /\ UNCHANGED found
    BY <1>1, <1>7 DEF Arrive
  <2>2. Set!IsFirst(Link(r), Linked(0), op[r].key)
    BY <1>2, <1>4, SetConsts DEF Set!IsFirst, Key_
  <2>q. QED
    BY <1>1, <1>2, <1>3, <1>7, <2>1, <2>2, SetConsts DEF Set!Answer, Kind
<1>8. CASE op[r].kind \in {"prev", "last"}
  <2>1. node' = [node EXCEPT ![r] = OrNull(x[r])] /\ UNCHANGED found
    BY <1>1, <1>8 DEF Arrive
  <2>2. OrNull(x[r]) \in Linked(0) \union {Null}
    BY <1>2 DEF OrNull, Good
  <2>3. Set!IsLast(OrNull(x[r]), Linked(0), Key_(r))
    BY <1>2, <1>4, <1>5, SetConsts DEF Set!IsLast, OrNull, Good
  <2>4. op[r].kind = "last" => op[r].key = Null
    BY <1>1 DEF IInv, Calls, CallOf
  <2>q. QED
    BY <1>1, <1>3, <1>8, <2>1, <2>2, <2>3, <2>4, SetConsts DEF Set!Answer, Kind, Key_
<1>q. QED
  BY <1>1, <1>6, <1>7, <1>8 DEF Arrive

\* One load of the lowest level is right when it is made.
LEMMA FollowAnswers ==
  ASSUME IInv, NEW t \in Thread, Follow(t)
  PROVE  t \in Reader /\ Set!Answer(t)
<1>1. /\ t \in Reader /\ x[t] \in Good(0) /\ UNCHANGED found
      /\ node' = [node EXCEPT ![t] = next[0][x[t]]] /\ op' = [op EXCEPT ![t] = Idle]
      /\ \/ op[t].kind = "next" /\ op[t].key = x[t] /\ x[t] \in Key
         \/ op[t].kind = "first" /\ x[t] = HeadNode
  BY DEF Follow, Return, IInv, Calls, CallOf, Standing, StandsOn, Thread
<1>2. UNCHANGED Linked(0)
  BY WalkLinked, Consts DEF Walk
<1> DEFINE n == next[0][x[t]]
<1>3. /\ n \in Linked(0) \union {Null} /\ n > x[t]
      /\ \A k \in Linked(0) : k > x[t] => k >= n
  BY <1>1, Consts DEF IInv, Chains
<1>4. Linked(0) \subseteq Nat /\ x[t] \in Nat /\ n \in Nat
  BY <1>1, <1>3, ListAssumption DEF Linked, Key, Good, HeadNode, Null
<1> HIDE DEF n
<1>5. CASE op[t].kind = "next"
  <2>1. Set!IsFirst(n, Linked(0), op[t].key + 1)
    BY <1>1, <1>3, <1>4, <1>5, SetConsts DEF Set!IsFirst
  <2>q. QED
    BY <1>1, <1>2, <1>3, <1>5, <2>1, SetConsts DEF Set!Answer, Kind, n
<1>6. CASE op[t].kind = "first"
  <2>1. Set!IsFirst(n, Linked(0), 1)
    BY <1>1, <1>3, <1>4, <1>6, SetConsts DEF Set!IsFirst, HeadNode
  <2>q. QED
    BY <1>1, <1>2, <1>3, <1>6, <2>1, SetConsts DEF Set!Answer, Kind, n
<1>q. QED
  BY <1>1, <1>5, <1>6

\* The store that publishes a node at level 0 adds its key.
LEMMA InsertAdds ==
  ASSUME IInv, NEW t \in Thread, Insert(t)
  PROVE  Set!Add \/ Set!Return \/ UNCHANGED <<Linked(0), op, node, found>>
<1>1. /\ t = Writer /\ Key_(t) \in Key /\ op[t].kind = "insert" /\ level[t] \in Nat
      /\ level[t] < height[Key_(t)] /\ UNCHANGED <<node, found>>
  BY Writes, Consts DEF Insert, answers
<1>2. CASE pc[t] = "own"
  BY <1>1, <1>2, SetStep DEF Change, Insert
<1>3. CASE pc[t] = "publish"
  <2>1. op' = op \/ op' = [op EXCEPT ![t] = Idle]
    BY <1>3 DEF Insert, NextLevel, Return
  <2>2. CASE level[t] = 0
    <3>1. Linked(0)' = Linked(0) \union {Key_(t)} /\ Key_(t) \notin Linked(0)
      BY <1>1, <1>3, <2>2, SetStep, PublishLinked, Consts DEF Change
    <3>q. QED
      BY <1>1, <2>1, <3>1, SetConsts DEF Set!Add, Key_
  <2>3. CASE level[t] # 0
    <3>1. Linked(0)' = Linked(0)
      BY <2>3, SetStep DEF Change
    <3>2. Key_(t) \in Linked(0)
      <4>1. height[Key_(t)] \in Nat
        BY <1>1, ListAssumption DEF IInv, TypeOK, Node
      <4>q. QED
        BY <1>1, <2>3, <4>1 DEF Linked, Pending
    <3>q. QED
      BY <1>1, <2>1, <3>1, <3>2, SetConsts DEF Set!Return, Key_
  <2>q. QED
    BY <2>2, <2>3
<1>q. QED
  BY <1>2, <1>3 DEF Insert

\* The list implements the sorted set: each insert and each answer is atomic.
THEOREM Implements == Spec => ImplementsSet
<1>1. Init => Set!Init
  BY InitEmpty, SetConsts, Consts DEF Init, Set!Init
<1>2. ASSUME IInv, [Next]_vars PROVE [Set!Next]_(Set!vars)
  <2>1. CASE UNCHANGED vars
    BY <2>1 DEF vars, Set!vars, Linked, Pending, Key_
  <2>2. ASSUME NEW t \in Thread, Begin(t) \/ Work(t)
        PROVE  Set!Next \/ UNCHANGED <<Linked(0), op, node, found>>
    <3>1. CASE Begin(t)
      BY <1>2, <3>1, BeginCalls, SetConsts DEF Set!Next
    <3>2. CASE LoadHeight(t) \/ Move(t) \/ Down(t)
      <4>1. Linked(0)' = Linked(0)
        BY <1>2, <3>2, WalkLinked, Consts DEF Walk
      <4>q. QED
        BY <3>2, <4>1 DEF LoadHeight, Move, Down, answers
    <3>3. CASE Arrive(t)
      <4>1. CASE t \in Reader
        BY <1>2, <3>3, <4>1, ArriveAnswers DEF Set!Next
      <4>2. CASE t = Writer
        <5>1. Linked(0)' = Linked(0)
          BY <1>2, <3>3, WalkLinked, Consts DEF Walk
        <5>q. QED
          BY <3>3, <4>2, <5>1, Consts DEF Arrive, answers
      <4>q. QED
        BY <4>1, <4>2 DEF Thread
    <3>4. CASE Follow(t)
      BY <1>2, <3>4, FollowAnswers DEF Set!Next
    <3>5. CASE Grow(t)
      <4>1. Linked(0)' = Linked(0)
        BY <1>2, <3>5, GrowLinked, Consts
      <4>q. QED
        BY <3>5, <4>1 DEF Grow, answers
    <3>6. CASE Insert(t)
      BY <1>2, <3>6, InsertAdds DEF Set!Next
    <3>q. QED
      BY <2>2, <3>1, <3>2, <3>3, <3>4, <3>5, <3>6 DEF Work
  <2>q. QED
    BY <1>2, <2>1, <2>2 DEF Next, Set!vars
<1>q. QED
  BY <1>1, <1>2, Inductive, PTL DEF Spec, ImplementsSet, Set!Spec
-----------------------------------------------------------------------------
(***************************************************************************)
(* The list with its memory.                                               *)
(***************************************************************************)
\* A node's memory is aligned, in whole granules, and within a block; what is
\* left of the current block is behind all that was taken from it.
MemTypes ==
  /\ arena \in [blocks : Seq(Nat), block : Nat, off : Nat, remaining : Nat]
  /\ given \subseteq [block : Nat, off : Nat, bytes : Nat, aligned : {TRUE}]
Rest ==
  /\ arena.block <= Len(arena.blocks)
  /\ arena.off % 16 = 0
  /\ arena.remaining > 0 =>
       arena.block >= 1 /\ arena.off + arena.remaining <= arena.blocks[arena.block]
Within ==
  \A g \in given :
    /\ g.block \in 1 .. Len(arena.blocks)
    /\ g.off + g.bytes <= arena.blocks[g.block]
    /\ g.block = arena.block => g.off + g.bytes <= arena.off
    /\ g.off % 16 = 0 /\ g.bytes % 16 = 0 /\ g.bytes >= 16
NoOverlap == \A g, h \in given : Mem!Overlap(g, h) => g = h

MemInv == MemTypes /\ Rest /\ Within /\ NoOverlap
-----------------------------------------------------------------------------
\* What AllocateAligned takes for a node is in whole granules.
LEMMA Granules ==
  ASSUME NEW h \in 1 .. MaxHeight
  PROVE  LET n == Mem!Needed(NodeSize(h)) IN n \in Nat /\ n >= 16 /\ n % 16 = 0
<1>1. h \in Nat /\ h >= 1
  BY ListAssumption
<1>2. NodeSize(h) = 8 * h + 8
  BY <1>1 DEF NodeSize
<1>3. Mem!Needed(NodeSize(h)) = 8 * h + 8 + ((8 * h + 8) % 16)
  BY <1>2 DEF Mem!Needed, Mem!Align
<1>4. 8 * h + 8 + ((8 * h + 8) % 16) \in Nat
  BY <1>1
<1>5. 8 * h + 8 + ((8 * h + 8) % 16) >= 16 /\ (8 * h + 8 + ((8 * h + 8) % 16)) % 16 = 0
  BY <1>1
<1>q. QED
  BY <1>3, <1>4, <1>5

\* Whole granules add up to whole granules.
LEMMA SumOfGranules ==
  ASSUME NEW a \in Nat, NEW b \in Nat, a % 16 = 0, b % 16 = 0
  PROVE  (a + b) % 16 = 0
OBVIOUS

\* The n bytes from o on of block b are handed out: they are behind all that
\* was, and what is left is behind them.
Fresh(n, b, o) == [block |-> b, off |-> o, bytes |-> n, aligned |-> TRUE]
Put(n, b, o) ==
  /\ n >= 16 /\ n % 16 = 0 /\ o % 16 = 0
  /\ given' = given \union {Fresh(n, b, o)}
  /\ arena' \in [blocks : Seq(Nat), block : Nat, off : Nat, remaining : Nat]
  /\ b \in 1 .. Len(arena'.blocks) /\ o + n <= arena'.blocks[b]
  /\ b = arena'.block => o + n <= arena'.off
  /\ \A g \in given :
       /\ g.block = b => g.off + g.bytes <= o
       /\ g.block = arena'.block => g.off + g.bytes <= arena'.off
  /\ Len(arena.blocks) <= Len(arena'.blocks)
  /\ \A i \in 1 .. Len(arena.blocks) : arena'.blocks[i] = arena.blocks[i]

\* The arena stays in order.
LEMMA PutInv ==
  ASSUME MemInv, NEW n \in Nat, NEW b \in Nat, NEW o \in Nat, Put(n, b, o), Rest'
  PROVE  MemInv'
<1> DEFINE g0 == Fresh(n, b, o)
<1>1. /\ g0.block = b /\ g0.off = o /\ g0.bytes = n
      /\ g0 \in [block : Nat, off : Nat, bytes : Nat, aligned : {TRUE}]
  BY DEF Fresh
<1>0. given' = given \union {g0}
  BY DEF Put
<1> HIDE DEF g0
<1>2. MemTypes'
  BY <1>0, <1>1 DEF MemInv, MemTypes, Put
<1>3. \A g \in given : g.block \in Nat /\ g.off \in Nat /\ g.bytes \in Nat
  BY DEF MemInv, MemTypes
<1>4. Within'
  <2>1. ASSUME NEW g \in given
        PROVE  /\ g.block \in 1 .. Len(arena'.blocks)
               /\ g.off + g.bytes <= arena'.blocks[g.block]
               /\ g.off % 16 = 0 /\ g.bytes % 16 = 0 /\ g.bytes >= 16
    <3>1. Len(arena.blocks) \in Nat /\ Len(arena'.blocks) \in Nat
      BY DEF MemInv, MemTypes, Put
    <3>2. /\ g.block \in 1 .. Len(arena.blocks)
          /\ g.off + g.bytes <= arena.blocks[g.block]
          /\ g.off % 16 = 0 /\ g.bytes % 16 = 0 /\ g.bytes >= 16
      BY DEF MemInv, Within
    <3>3. arena'.blocks[g.block] = arena.blocks[g.block]
      BY <3>2 DEF Put
    <3>4. 1 .. Len(arena.blocks) \subseteq 1 .. Len(arena'.blocks)
      BY <3>1 DEF Put
    <3>q. QED
      BY <3>2, <3>3, <3>4
  <2>2. \A g \in given' : g \in given \/ g = g0
    BY <1>0
  <2>q. QED
    BY <1>1, <2>1, <2>2 DEF Within, Put
<1>5. NoOverlap'
  <2>1. ASSUME NEW g \in given PROVE ~Mem!Overlap(g, g0) /\ ~Mem!Overlap(g0, g)
    <3>1. CASE g.block = b
      <4>1. g.off + g.bytes <= o
        BY <3>1 DEF Put
      <4>2. ~(o < g.off + g.bytes)
        BY <1>3, <4>1
      <4>q. QED
        BY <1>1, <4>2 DEF Mem!Overlap
    <3>2. CASE g.block # b
      BY <1>1, <3>2 DEF Mem!Overlap
    <3>q. QED
      BY <3>1, <3>2
  <2>2. ASSUME NEW g \in given', NEW h \in given', Mem!Overlap(g, h) PROVE g = h
    <3>1. (g \in given \/ g = g0) /\ (h \in given \/ h = g0)
      BY <1>0
    <3>2. g \in given /\ h \in given => g = h
      BY <2>2 DEF MemInv, NoOverlap
    <3>q. QED
      BY <2>1, <2>2, <3>1, <3>2
  <2>q. QED
    BY <2>2 DEF NoOverlap, Mem!Overlap
<1>q. QED
  BY <1>2, <1>4, <1>5 DEF MemInv

\* AllocateAligned keeps the arena in order.
LEMMA HandOutInv ==
  ASSUME MemInv, NEW n \in Nat, n >= 16, n % 16 = 0,
         arena' = Mem!After(arena, n), NEW g0, g0 = Mem!Given(arena, n, TRUE),
         given' = given \union {g0}
  PROVE  MemInv'
<1> DEFINE last == Len(arena.blocks) + 1
<1>1. BlockSize \in Nat
  BY MemAssumption DEF Mem!Sane
<1>2. /\ arena.blocks \in Seq(Nat) /\ Len(arena.blocks) \in Nat
      /\ arena.block \in Nat /\ arena.off \in Nat /\ arena.remaining \in Nat
  BY DEF MemInv, MemTypes
<1>3. \A g \in given : g.block \in Nat /\ g.off \in Nat /\ g.bytes \in Nat
  BY DEF MemInv, MemTypes
<1>4. \A i \in 1 .. Len(arena.blocks) : arena.blocks[i] \in Nat
  BY <1>2
<1>6. CASE n <= arena.remaining
  <2>1. arena' = [blocks |-> arena.blocks, block |-> arena.block, off |-> arena.off + n,
                  remaining |-> arena.remaining - n]
    BY <1>6 DEF Mem!After, Mem!Taken, MemInv, MemTypes
  <2>2. g0 = [block |-> arena.block, off |-> arena.off, bytes |-> n, aligned |-> TRUE]
    BY <1>6 DEF Mem!Given
  <2>3. /\ arena'.blocks = arena.blocks /\ arena'.block = arena.block
        /\ arena'.off = arena.off + n /\ arena'.remaining = arena.remaining - n
    BY <2>1
  <2>4. arena.remaining - n \in Nat
    BY <1>2, <1>6
  <2>5. arena' \in [blocks : Seq(Nat), block : Nat, off : Nat, remaining : Nat]
    BY <1>2, <2>1, <2>4
  <2>6. /\ arena.block \in 1 .. Len(arena.blocks) /\ arena.off % 16 = 0
        /\ arena.off + arena.remaining <= arena.blocks[arena.block]
    BY <1>2, <1>6 DEF MemInv, Rest
  <2>7. (arena.off + n) % 16 = 0
    BY <1>2, <2>6, SumOfGranules
  <2>8. Rest'
    BY <1>2, <1>6, <2>3, <2>6, <2>7, SMTT(30) DEF Rest
  <2>9. \A g \in given : g.block = arena.block => g.off + g.bytes <= arena.off
    BY DEF MemInv, Within
  <2>10. arena.off + n <= arena.blocks[arena.block]
    BY <1>2, <1>4, <1>6, <2>6, SMTT(30)
  <2>11. \A g \in given : g.block = arena.block => g.off + g.bytes <= arena.off + n
    BY <1>2, <1>3, <2>9
  <2>q. QED
    <3>1. PICK b \in Nat : b = arena.block
      BY <1>2
    <3>2. PICK o \in Nat : o = arena.off
      BY <1>2
    <3>3. /\ o % 16 = 0 /\ g0 = Fresh(n, b, o)
          /\ b \in 1 .. Len(arena'.blocks) /\ o + n <= arena'.blocks[b]
          /\ b = arena'.block => o + n <= arena'.off
          /\ \A g \in given : g.block = b => g.off + g.bytes <= o
      <4>1. g0 = Fresh(n, b, o) /\ o % 16 = 0
        BY <2>2, <2>6, <3>1, <3>2 DEF Fresh
      <4>2. b \in 1 .. Len(arena'.blocks) /\ o + n <= arena'.blocks[b]
        BY <2>3, <2>6, <2>10, <3>1, <3>2
      <4>3. o + n = arena'.off
        BY <2>3, <3>2
      <4>4. o + n <= arena'.off
        BY <4>3
      <4>5. \A g \in given : g.block = b => g.off + g.bytes <= o
        BY <2>9, <3>1, <3>2
      <4>q. QED
        BY <4>1, <4>2, <4>4, <4>5
    <3>4. /\ Len(arena.blocks) <= Len(arena'.blocks)
          /\ \A i \in 1 .. Len(arena.blocks) : arena'.blocks[i] = arena.blocks[i]
          /\ \A g \in given : g.block = arena'.block => g.off + g.bytes <= arena'.off
      BY <1>2, <2>3, <2>11
    <3>5. Put(n, b, o)
      BY <2>5, <3>3, <3>4 DEF Put
    <3>q. QED
      BY <2>8, <3>5, PutInv
<1>7. CASE ~(n <= arena.remaining)
  <2>1. g0 = [block |-> last, off |-> 0, bytes |-> n, aligned |-> TRUE]
    BY <1>7 DEF Mem!Given
  <2>2. last \in Nat /\ \A g \in given : g.block # last
    BY <1>2 DEF MemInv, Within
  <2>3. ASSUME NEW size \in Nat, arena'.blocks = Append(arena.blocks, size)
        PROVE  /\ Len(arena'.blocks) = last /\ arena'.blocks[last] = size
               /\ arena'.blocks \in Seq(Nat) /\ Len(arena.blocks) <= Len(arena'.blocks)
               /\ \A i \in 1 .. Len(arena.blocks) : arena'.blocks[i] = arena.blocks[i]
    BY <1>2, <2>3
  <2>4. CASE n > BlockSize \div 4
    <3>1. arena' = [arena EXCEPT !.blocks = Append(@, n)]
      BY <1>7, <2>4 DEF Mem!After, Mem!Fallback, Mem!NewBlock
    <3>2. /\ arena'.blocks = Append(arena.blocks, n) /\ arena'.block = arena.block
          /\ arena'.off = arena.off /\ arena'.remaining = arena.remaining
      BY <3>1 DEF MemInv, MemTypes
    <3>3. arena' \in [blocks : Seq(Nat), block : Nat, off : Nat, remaining : Nat]
      BY <2>3, <3>1, <3>2 DEF MemInv, MemTypes
    <3>4. arena.block < last
      BY <1>2 DEF MemInv, Rest
    <3>5. Rest'
      BY <1>2, <2>3, <3>2, <3>4 DEF MemInv, Rest
    <3>6. \A g \in given : g.block = arena'.block => g.off + g.bytes <= arena'.off
      BY <3>2 DEF MemInv, Within
    <3>7. PICK b \in Nat : b = last
      BY <2>2
    <3>8. /\ b \in 1 .. Len(arena'.blocks) /\ 0 + n <= arena'.blocks[b]
          /\ b = arena'.block => 0 + n <= arena'.off
          /\ \A g \in given : g.block = b => g.off + g.bytes <= 0
      BY <1>2, <2>2, <2>3, <3>2, <3>4, <3>7
    <3>9. Put(n, b, 0)
      <4>1. given' = given \union {Fresh(n, b, 0)} /\ 0 % 16 = 0
        <5>1. g0 = Fresh(n, b, 0)
          BY <2>1, <3>7 DEF Fresh
        <5>2. 0 % 16 = 0
          OBVIOUS
        <5>q. QED
          BY <5>1, <5>2
      <4>2. /\ Len(arena.blocks) <= Len(arena'.blocks)
            /\ \A i \in 1 .. Len(arena.blocks) : arena'.blocks[i] = arena.blocks[i]
        BY <2>3, <3>2
      <4>q. QED
        BY <3>3, <3>6, <3>8, <4>1, <4>2 DEF Put
    <3>q. QED
      BY <3>5, <3>9, PutInv
  <2>5. CASE ~(n > BlockSize \div 4)
    <3>1. arena' = Mem!Taken([Mem!NewBlock(arena, BlockSize)
                                EXCEPT !.block = last, !.off = 0, !.remaining = BlockSize], n)
      BY <1>7, <2>5 DEF Mem!After, Mem!Fallback
    <3>2. arena' = [blocks |-> Append(arena.blocks, BlockSize), block |-> last, off |-> 0 + n,
                    remaining |-> BlockSize - n]
      BY <3>1 DEF Mem!NewBlock, Mem!Taken, MemInv, MemTypes
    <3>3. /\ arena'.blocks = Append(arena.blocks, BlockSize) /\ arena'.block = last
          /\ arena'.off = n /\ arena'.remaining = BlockSize - n /\ n <= BlockSize
      BY <1>1, <2>5, <3>2
    <3>4. arena' \in [blocks : Seq(Nat), block : Nat, off : Nat, remaining : Nat]
      BY <1>1, <2>2, <2>3, <3>2, <3>3
    <3>5. Rest'
      BY <1>1, <1>2, <2>3, <3>3 DEF Rest
    <3>6. PICK b \in Nat : b = last
      BY <2>2
    <3>7. /\ b \in 1 .. Len(arena'.blocks) /\ 0 + n <= arena'.blocks[b]
          /\ b = arena'.block => 0 + n <= arena'.off
          /\ \A g \in given : g.block = b => g.off + g.bytes <= 0
      BY <1>1, <1>2, <2>2, <2>3, <3>3, <3>6
    <3>8. \A g \in given : g.block = arena'.block => g.off + g.bytes <= arena'.off
      BY <2>2, <3>3
    <3>9. Put(n, b, 0)
      <4>1. given' = given \union {Fresh(n, b, 0)} /\ 0 % 16 = 0
        <5>1. g0 = Fresh(n, b, 0)
          BY <2>1, <3>6 DEF Fresh
        <5>2. 0 % 16 = 0
          OBVIOUS
        <5>q. QED
          BY <5>1, <5>2
      <4>2. /\ Len(arena.blocks) <= Len(arena'.blocks)
            /\ \A i \in 1 .. Len(arena.blocks) : arena'.blocks[i] = arena.blocks[i]
        BY <2>3, <1>1, <3>3
      <4>q. QED
        BY <3>4, <3>7, <3>8, <4>1, <4>2 DEF Put
    <3>q. QED
      BY <3>5, <3>9, PutInv
  <2>q. QED
    BY <2>4, <2>5
<1>q. QED
  BY <1>6, <1>7

\* The invariant of the arena is inductive.
LEMMA MemStep ==
  ASSUME IInv, MemInv, [MemNext]_memVars
  PROVE  MemInv'
<1>1. ASSUME NEW t \in Thread, MemGrow(t) PROVE MemInv'
  <2>1. t = Writer /\ Key_(t) \in Key
    BY <1>1, Writes DEF MemGrow
  <2>2. PICK h \in 1 .. MaxHeight : height' = [height EXCEPT ![Key_(t)] = h]
    BY <1>1 DEF MemGrow, Grow
  <2>3. height'[op[t].key] = h
    BY <2>1, <2>2, Consts DEF IInv, TypeOK, Key_
  <2>4. PICK n \in Nat : n = Mem!Needed(NodeSize(h)) /\ n >= 16 /\ n % 16 = 0
    BY Granules
  <2>5. arena' = Mem!After(arena, n) /\ given' = given \union {Mem!Given(arena, n, TRUE)}
    BY <1>1, <2>3, <2>4 DEF MemGrow, Mem!HandOut
  <2>q. QED
    BY <2>4, <2>5, HandOutInv
<1>2. ASSUME UNCHANGED <<arena, given>> PROVE MemInv'
  BY <1>2 DEF MemInv, MemTypes, Rest, Within, NoOverlap, Mem!Overlap
<1>q. QED
  BY <1>1, <1>2 DEF MemNext, Other, memVars

\* A behaviour of the list with its memory is one of the list.
LEMMA MemSteps ==
  /\ MemInit => Init
  /\ [MemNext]_memVars => [Next]_vars
BY DEF MemInit, MemNext, memVars, MemGrow, Other, Next, Work, vars

\* The head is the first node in the arena.
LEMMA MemInitInv == MemInit => MemInv
<1> SUFFICES ASSUME MemInit PROVE MemInv
  OBVIOUS
<1>1. MaxHeight \in 1 .. MaxHeight /\ BlockSize \in Nat
  BY ListAssumption, MemAssumption DEF Mem!Sane
<1>2. PICK n \in Nat : n = Mem!Needed(NodeSize(MaxHeight)) /\ n >= 16 /\ n % 16 = 0
  BY <1>1, Granules
<1>3. given = {[block |-> 1, off |-> 0, bytes |-> n, aligned |-> TRUE]} /\ 0 % 16 = 0
  <2>1. given = {Mem!Given(Mem!NoArena, n, TRUE)} /\ ~(n <= Mem!NoArena.remaining)
    BY <1>2 DEF MemInit, Mem!NoArena
  <2>q. QED
    BY <2>1 DEF Mem!Given, Mem!NoArena
<1>4. arena = Mem!Fallback(Mem!NoArena, n)
  BY <1>2 DEF MemInit, Mem!After, Mem!NoArena
<1>5. CASE n > BlockSize \div 4
  <2>1. arena = [blocks |-> <<n>>, block |-> 0, off |-> 0, remaining |-> 0]
    BY <1>4, <1>5 DEF Mem!Fallback, Mem!NewBlock, Mem!NoArena
  <2>2. MemTypes /\ Rest
    BY <1>3, <2>1 DEF MemTypes, Rest
  <2>3. Within
    BY <1>2, <1>3, <2>1 DEF Within
  <2>q. QED
    BY <1>3, <2>2, <2>3 DEF MemInv, NoOverlap
<1>6. CASE ~(n > BlockSize \div 4)
  <2>1. arena = [blocks |-> <<BlockSize>>, block |-> 1, off |-> n, remaining |-> BlockSize - n]
    <3>1. arena = [blocks |-> Append(<< >>, BlockSize), block |-> Len(<< >>) + 1, off |-> 0 + n,
                   remaining |-> BlockSize - n]
      BY <1>4, <1>6 DEF Mem!Fallback, Mem!NewBlock, Mem!Taken, Mem!NoArena
    <3>2. Append(<< >>, BlockSize) = <<BlockSize>> /\ Len(<< >>) + 1 = 1 /\ 0 + n = n
      BY <1>1
    <3>q. QED
      BY <3>1, <3>2
  <2>2. n <= BlockSize
    BY <1>1, <1>6
  <2>3. MemTypes /\ Rest
    BY <1>1, <1>2, <1>3, <2>1, <2>2 DEF MemTypes, Rest
  <2>4. Within
    BY <1>1, <1>2, <1>3, <2>1, <2>2 DEF Within
  <2>q. QED
    BY <1>3, <2>3, <2>4 DEF MemInv, NoOverlap
<1>q. QED
  BY <1>5, <1>6

\* The invariants of the list and of its memory hold in every reachable state.
THEOREM MemInductive == MemSpec => [](IInv /\ MemInv)
<1>1. MemInit => IInv /\ MemInv
  BY MemSteps, MemInitInv, InitIInv
<1>2. (IInv /\ MemInv) /\ [MemNext]_memVars => (IInv /\ MemInv)'
  BY MemSteps, StepIInv, MemStep
<1>q. QED
  BY <1>1, <1>2, PTL DEF MemSpec

\* No two nodes share a byte or an MTE granule, whatever heights are drawn.
THEOREM NodesStayApart == MemSpec => []NodesApart
<1>1. MemInv => NodesApart
  <2> SUFFICES ASSUME MemInv PROVE NodesApart
    OBVIOUS
  <2>1. Mem!Apart
    BY DEF MemInv, MemTypes, Within, NoOverlap, Mem!Apart
  <2>2. Mem!Aligned
    BY DEF MemInv, Within, Mem!Aligned, Mem!Align
  <2>q. QED
    BY <2>1, <2>2 DEF MemInv, Within, NodesApart
<1>q. QED
  BY <1>1, MemInductive, PTL

\* The list with its memory is the list: it stays sorted, reads what is there,
\* and implements the sorted set.
THEOREM MemSorted == MemSpec => []Sorted
<1>1. MemSpec => Spec
  BY MemSteps, PTL DEF MemSpec, Spec
<1>q. QED
  BY <1>1, ListsSorted, PTL

\* Readers read links that are there, with the memory too.
THEOREM MemReadsPublished == MemSpec => []ReadsPublished
<1>1. MemSpec => Spec
  BY MemSteps, PTL DEF MemSpec, Spec
<1>q. QED
  BY <1>1, ReadsArePublished, PTL

\* The list with its memory implements the sorted set.
THEOREM MemImplements == MemSpec => ImplementsSet
<1>1. MemSpec => Spec
  BY MemSteps, PTL DEF MemSpec, Spec
<1>q. QED
  BY <1>1, Implements, PTL
=============================================================================
