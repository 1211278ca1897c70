------------------------------ MODULE MCBTreeOLC ------------------------------
(***************************************************************************)
(* Instances of BTreeOLC for TLC: trees loaded with keys such that one or  *)
(* two further calls split or merge.                                       *)
(***************************************************************************)
EXTENDS BTreeOLC, TLC

Threads == Permutations(Thread)
Call(kind, key) == [kind |-> kind, key |-> key, val |-> IF kind = "update" THEN "v1" ELSE "v0"]

\* A full root leaf 1 2 4: the next insert makes a new root, with a separator
\* that may be truncated to 3.
RootScene ==
  [load |-> <<1, 2, 4>>,
   ops |-> {Call("insert", 3), Call("insert", 5), Call("lookup", 4),
            Call("update", 2), Call("remove", 4)}]

\* Three leaves under a full root: 1 2 | 3 4 | 5 6.  Removing 1 or 2 merges
\* the first two.
MergeLoad == <<1, 2, 3, 4, 5, 6>>
MergeScene ==
  [load |-> MergeLoad,
   ops |-> {Call("remove", 1), Call("remove", 3), Call("lookup", 4),
            Call("update", 3), Call("insert", 7)}]
ScanScene ==
  [load |-> MergeLoad,
   ops |-> {Call("remove", 1), Call("scan", 2),
            Call("scanDesc", 5)}]

\* Three leaves under a full root, two of them full: 1 2 | 3 5 6 | 7 8 9.
\* The inserts of 4 and 10 both have to split the root before the leaf.
SplitScene ==
  [load |-> <<1, 2, 5, 6, 7, 8, 3, 9>>,
   ops |-> {Call("insert", 4), Call("insert", 10), Call("lookup", 6)}]

CallScenes == {RootScene, MergeScene, ScanScene}
SplitScenes == {SplitScene}
=============================================================================
