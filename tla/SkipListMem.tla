------------------------------ MODULE SkipListMem ------------------------------
(***************************************************************************)
(* The skip list with the memory of its nodes: NewNode takes each node     *)
(* from an Arena (skiplist.h, arena.h).                                    *)
(***************************************************************************)
EXTENDS SkipList

CONSTANTS BlockSize, MaxBlocks

VARIABLES arena, given

\* NewNode: sizeof(Node) holds the key and one link, and height - 1 links follow.
NodeSize(h) == 16 + 8 * (h - 1)

Mem == INSTANCE Arena WITH Sizes <- {NodeSize(h) : h \in 1 .. MaxHeight}

ASSUME MemAssumption == Mem!Sane

memVars == <<vars, arena, given>>

\* The head is the first node.
MemInit ==
  /\ Init
  /\ LET n == Mem!Needed(NodeSize(MaxHeight))
     IN  /\ arena = Mem!After(Mem!NoArena, n)
         /\ given = {Mem!Given(Mem!NoArena, n, TRUE)}

MemGrow(t) ==
  /\ Grow(t)
  /\ Mem!HandOut(Mem!Needed(NodeSize(height'[op[t].key])), TRUE)

Other(t) ==
  /\ Begin(t) \/ LoadHeight(t) \/ Move(t) \/ Down(t) \/ Arrive(t) \/ Follow(t) \/ Insert(t)
  /\ UNCHANGED <<arena, given>>

MemNext == \E t \in Thread : MemGrow(t) \/ Other(t)

MemSpec == MemInit /\ [][MemNext]_memVars /\ \A t \in Thread : WF_vars(Work(t))
-----------------------------------------------------------------------------
\* Each node has memory of its own, aligned and in whole granules: a tag set
\* for one node is on no byte of another, whatever heights are drawn.
NodesApart ==
  /\ Mem!Apart /\ Mem!Aligned
  /\ \A g \in given : g.bytes >= 16
=============================================================================
