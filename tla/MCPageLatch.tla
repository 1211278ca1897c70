----------------------------- MODULE MCPageLatch ------------------------------
(***************************************************************************)
(* Instances of PageLatch for TLC: threads are model values and are        *)
(* interchangeable in the runs without liveness.                           *)
(***************************************************************************)
EXTENDS PageLatch, TLC

Threads == Permutations(Thread)
=============================================================================
