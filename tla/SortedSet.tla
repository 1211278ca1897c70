------------------------------- MODULE SortedSet --------------------------------
(***************************************************************************)
(* What the skip list (skiplist.h) promises: a sorted set of keys.  Each   *)
(* insert of the writer takes effect at one instant of its call, and each  *)
(* answer a reader gets, the moves of its iterator included, was right at  *)
(* one instant of the call, although readers take no lock.                 *)
(***************************************************************************)
EXTENDS Integers

CONSTANTS
  Writer,   \* the thread that inserts
  Reader,   \* threads that search and iterate
  NKeys     \* keys are 1 .. NKeys

Key == 1 .. NKeys
Null == NKeys + 1     \* nullptr: sorts after all keys
Thread == Reader \union {Writer}
Kind == {"contains", "seek", "prev", "last", "next", "first"}
Idle == [kind |-> "none", key |-> Null]

VARIABLES
  set,    \* the keys
  op,     \* op[t]: the call of thread t, or Idle
  node,   \* node[r]: where the iterator of r stands; Null: not valid
  found   \* found[r]: the last answer of Contains

vars == <<set, op, node, found>>

Init ==
  /\ set = {}
  /\ op = [t \in Thread |-> Idle]
  /\ node = [r \in Reader |-> Null]
  /\ found = [r \in Reader |-> FALSE]

\* n is the first key of S from k on, or Null.
IsFirst(n, S, k) ==
  /\ n \in S \union {Null}
  /\ n >= k
  /\ \A j \in S : j >= k => n <= j

\* n is the last key of S before k, or Null.
IsLast(n, S, k) ==
  \/ n = Null /\ \A j \in S : j >= k
  \/ n \in S /\ n < k /\ \A j \in S : j < k => j <= n

\* Insert requires that its key is not there, Next and Prev that the iterator
\* is valid.
Call(t) ==
  /\ op[t] = Idle
  /\ \/ /\ t = Writer
        /\ \E k \in Key \ set : op' = [op EXCEPT ![t] = [kind |-> "insert", key |-> k]]
     \/ /\ t \in Reader
        /\ \E kd \in Kind : \E k \in Key \union {Null} :
             op' = [op EXCEPT ![t] = [kind |-> kd, key |-> k]]
        /\ op'[t].kind \in {"next", "prev"} => node[t] # Null /\ op'[t].key = node[t]
  /\ UNCHANGED <<set, node, found>>

Add ==
  /\ op[Writer].kind = "insert"
  /\ op[Writer].key \notin set
  /\ set' = set \union {op[Writer].key}
  /\ op' \in {op, [op EXCEPT ![Writer] = Idle]}
  /\ UNCHANGED <<node, found>>

Return ==
  /\ op[Writer].kind = "insert"
  /\ op[Writer].key \in set
  /\ op' = [op EXCEPT ![Writer] = Idle]
  /\ UNCHANGED <<set, node, found>>

Answer(r) ==
  LET kd == op[r].kind
      k == op[r].key
  IN  /\ \/ /\ kd = "contains"
            /\ found' = [found EXCEPT ![r] = (k \in set)]
            /\ UNCHANGED node
         \/ /\ kd \in Kind \ {"contains"}
            /\ \E n \in set \union {Null} :
                 /\ CASE kd = "seek"  -> IsFirst(n, set, k)
                      [] kd = "first" -> IsFirst(n, set, 1)
                      [] kd = "next"  -> IsFirst(n, set, k + 1)
                      [] kd = "prev"  -> IsLast(n, set, k)
                      [] kd = "last"  -> IsLast(n, set, Null)
                 /\ node' = [node EXCEPT ![r] = n]
            /\ UNCHANGED found
      /\ op' = [op EXCEPT ![r] = Idle]
      /\ UNCHANGED set

Next ==
  \/ \E t \in Thread : Call(t)
  \/ Add \/ Return
  \/ \E r \in Reader : Answer(r)

Spec == Init /\ [][Next]_vars
=============================================================================
