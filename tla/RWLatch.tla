------------------------------- MODULE RWLatch --------------------------------
(***************************************************************************)
(* What the page latches of btree.hpp promise to the B-tree: exclusive and *)
(* shared ownership that are acquired atomically, a version that grows     *)
(* exactly when exclusive ownership ends, and validated optimistic reads   *)
(* that return what the page held at one instant nobody owned it           *)
(* exclusively.  PageLatch implements it word by word.                     *)
(***************************************************************************)
EXTENDS Naturals

CONSTANTS Thread, Page

VARIABLES
  xOwner,   \* xOwner[p]: the exclusive owners of page p
  sOwner,   \* sOwner[p]: the threads that share page p
  version,  \* version[p]: how often exclusive ownership of p ended
  content,  \* content[p]: the payload
  out       \* out[t]: <<page, payload>> of the last validated read, or <<>>

vars == <<xOwner, sOwner, version, content, out>>

Init ==
  /\ xOwner = [p \in Page |-> {}]
  /\ sOwner = [p \in Page |-> {}]
  /\ version = [p \in Page |-> 0]
  /\ out = [t \in Thread |-> <<>>]

AcquireX(t, p) ==
  /\ xOwner[p] = {} /\ sOwner[p] = {}
  /\ xOwner' = [xOwner EXCEPT ![p] = {t}]
  /\ UNCHANGED <<sOwner, version, content, out>>

Write(t, p) ==
  /\ xOwner[p] = {t}
  /\ content' = [content EXCEPT ![p] = content'[p]]
  /\ UNCHANGED <<xOwner, sOwner, version, out>>

ReleaseX(t, p) ==
  /\ xOwner[p] = {t}
  /\ xOwner' = [xOwner EXCEPT ![p] = {}]
  /\ version' = [version EXCEPT ![p] = @ + 1]
  /\ UNCHANGED <<sOwner, content, out>>

Downgrade(t, p) ==
  /\ xOwner[p] = {t}
  /\ xOwner' = [xOwner EXCEPT ![p] = {}]
  /\ sOwner' = [sOwner EXCEPT ![p] = {t}]
  /\ version' = [version EXCEPT ![p] = @ + 1]
  /\ UNCHANGED <<content, out>>

AcquireS(t, p) ==
  /\ xOwner[p] = {} /\ t \notin sOwner[p]
  /\ sOwner' = [sOwner EXCEPT ![p] = @ \union {t}]
  /\ UNCHANGED <<xOwner, version, content, out>>

ReleaseS(t, p) ==
  /\ t \in sOwner[p]
  /\ sOwner' = [sOwner EXCEPT ![p] = @ \ {t}]
  /\ UNCHANGED <<xOwner, version, content, out>>

\* An optimistic read that validates.
Read(t, p) ==
  /\ xOwner[p] = {}
  /\ out' = [out EXCEPT ![t] = <<p, content[p]>>]
  /\ UNCHANGED <<xOwner, sOwner, version, content>>

Forget(t) ==
  /\ out' = [out EXCEPT ![t] = <<>>]
  /\ UNCHANGED <<xOwner, sOwner, version, content>>

Next ==
  \E t \in Thread :
    \/ Forget(t)
    \/ \E p \in Page :
         \/ AcquireX(t, p) \/ Write(t, p) \/ ReleaseX(t, p) \/ Downgrade(t, p)
         \/ AcquireS(t, p) \/ ReleaseS(t, p) \/ Read(t, p)

Spec == Init /\ [][Next]_vars
=============================================================================
