---------------------------- MODULE MCResidentSet -----------------------------
(***************************************************************************)
(* Instances of ResidentSet for TLC: three pages, two of them with the     *)
(* same home slot at the end of the table, so probes collide and wrap.     *)
(***************************************************************************)
EXTENDS ResidentSet, TLC

CONSTANTS p1, p2, p3

MCCount == SlotsFor(3)
MCHash == p1 :> 3 @@ p2 :> 3 @@ p3 :> 0

\* The table has more slots than pages and a power of two of them.
ASSUME EnoughSlots == \A m \in 2 .. 200 : SlotsFor(m) > m /\ SlotsFor(m) <= 3 * m
=============================================================================
