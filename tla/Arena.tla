---------------------------------- MODULE Arena ----------------------------------
(***************************************************************************)
(* The arena allocator (arena.h) from which the skip list takes its nodes. *)
(* Memory is a sequence of blocks, each from new char[] and so aligned;    *)
(* the arena hands out the rest of one block from its front, and never     *)
(* takes anything back.                                                    *)
(***************************************************************************)
EXTENDS Integers, Sequences

CONSTANTS
  BlockSize,   \* kBlockSize
  Sizes,       \* byte counts that are asked for
  MaxBlocks    \* bound: blocks that are allocated

Align == 16    \* AllocateAligned's align, and the granule of an MTE tag

\* What the constants have to be (SkipListMem assumes it of its own).
Sane ==
  /\ BlockSize \in Nat \ {0} /\ BlockSize % Align = 0
  /\ Sizes \subseteq Nat \ {0}
  /\ MaxBlocks \in Nat

VARIABLES
  arena,   \* blocks_ (their sizes), alloc_ptr_ as block and offset,
           \* alloc_bytes_remaining_
  given    \* what was handed out: block, offset, bytes, aligned or not (history)

memory == <<arena, given>>

NoArena == [blocks |-> << >>, block |-> 0, off |-> 0, remaining |-> 0]
Init == arena = NoArena /\ given = {}

\* Seeded fault: what remains of a block is not reduced.
BugKeepRemaining(a, n) == [a EXCEPT !.off = @ + n]

Taken(a, n) == [a EXCEPT !.off = @ + n, !.remaining = @ - n]

NewBlock(a, size) == [a EXCEPT !.blocks = Append(@, size)]

\* AllocateFallback: a large object gets a block of its own, for a small one
\* the rest of the current block is wasted.
Fallback(a, n) ==
  IF n > BlockSize \div 4
    THEN NewBlock(a, n)
    ELSE Taken([NewBlock(a, BlockSize) EXCEPT !.block = Len(a.blocks) + 1,
                                              !.off = 0, !.remaining = BlockSize], n)

After(a, n) == IF n <= a.remaining THEN Taken(a, n) ELSE Fallback(a, n)

Given(a, n, aligned) ==
  IF n <= a.remaining
    THEN [block |-> a.block, off |-> a.off, bytes |-> n, aligned |-> aligned]
    ELSE [block |-> Len(a.blocks) + 1, off |-> 0, bytes |-> n, aligned |-> aligned]

HandOut(n, aligned) ==
  /\ arena' = After(arena, n)
  /\ given' = given \union {Given(arena, n, aligned)}
  /\ Len(arena'.blocks) <= MaxBlocks

\* AllocateAligned adds slop = bytes % align.
Needed(n) == n + (n % Align)

Allocate == \E n \in Sizes : HandOut(n, FALSE)
AllocateAligned == \E n \in Sizes : HandOut(Needed(n), TRUE)

Next == Allocate \/ AllocateAligned
Spec == Init /\ [][Next]_memory
-----------------------------------------------------------------------------
\* What is handed out lies within one block, and no two of them overlap.
Overlap(g, h) ==
  g.block = h.block /\ g.off < h.off + h.bytes /\ h.off < g.off + g.bytes
Apart ==
  /\ \A g \in given : g.block \in DOMAIN arena.blocks
                      /\ g.off + g.bytes <= arena.blocks[g.block]
  /\ \A g, h \in given : Overlap(g, h) => g = h

\* AllocateAligned returns aligned memory (the comments at its declaration and
\* in its body, and its last assertion), of whole granules, so that tagging it
\* tags nothing else.
Aligned == \A g \in given : g.aligned => g.off % Align = 0 /\ g.bytes % Align = 0
=============================================================================
