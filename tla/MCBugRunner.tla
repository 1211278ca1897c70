------------------------------ MODULE MCBugRunner ------------------------------
(***************************************************************************)
(* Instance of BugRunner for TLC: an MTE fault and a libc that traps.      *)
(***************************************************************************)
EXTENDS BugRunner

MCFault == {[sig |-> "SEGV", code |-> 9], [sig |-> "ILL", code |-> 2]}
=============================================================================
