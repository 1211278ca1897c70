------------------------------ MODULE MCSkipList ------------------------------
(***************************************************************************)
(* Instance of SkipListMem for TLC.  One reader is enough: readers write   *)
(* nothing that another thread reads.  The blocks are small, so that some  *)
(* nodes get a block of their own and others share one.                    *)
(***************************************************************************)
EXTENDS SkipListMem
=============================================================================
