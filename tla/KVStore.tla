-------------------------------- MODULE KVStore --------------------------------
(***************************************************************************)
(* What the B-tree (btree.hpp: BTree) promises its callers: a map from     *)
(* keys to payloads on which each insert, remove and update takes effect   *)
(* at one instant of its call, and each answer that changes nothing was    *)
(* right at some instant of the call.  Together: single-key operations are *)
(* linearizable.  Scans answer nothing here; BTreeOLC states what they     *)
(* must visit.                                                             *)
(***************************************************************************)
EXTENDS Integers

CONSTANTS
  Thread,   \* worker threads
  Key,
  Value     \* payloads

Scans == {"scan", "scanDesc"}
Op == [kind : {"insert", "remove", "update", "lookup"} \union Scans,
       key : Key, val : Value]

Absent  == "absent"
Pending == "pending"
Done    == "done"

VARIABLES
  db,    \* the map
  op,    \* op[t]: the last call of thread t
  ans,   \* ans[t]: its answer, or Pending
  seen   \* seen[t]: the values its key has had since a pending call began

vars == <<db, op, ans, seen>>

At(m, k) == IF k \in DOMAIN m THEN m[k] ELSE Absent

Init ==
  /\ db = << >>
  /\ op = [t \in Thread |-> [kind |-> "none", key |-> 0, val |-> "v0"]]
  /\ ans = [t \in Thread |-> Done]
  /\ seen = [t \in Thread |-> {}]

\* insert does not look for its key: callers insert a key that is not there
\* and that nobody else inserts.
Call(t) ==
  /\ ans[t] # Pending
  /\ ans' = [ans EXCEPT ![t] = Pending]
  /\ op'[t] \in Op
  /\ op' = [op EXCEPT ![t] = op'[t]]
  /\ op'[t].kind = "insert" =>
       /\ op'[t].key \notin DOMAIN db
       /\ \A u \in Thread :
            ans[u] = Pending => op[u].kind # "insert" \/ op[u].key # op'[t].key
  /\ seen' = [seen EXCEPT ![t] = {At(db, op'[t].key)}]
  /\ UNCHANGED db

Answer(t, a) ==
  /\ ans[t] = Pending
  /\ ans' = [ans EXCEPT ![t] = a]
  /\ UNCHANGED op

\* An answer without effect: a value the key had during the call, or that it
\* was absent.
Read(t) ==
  /\ op[t].kind \in {"lookup", "remove", "update"} \union Scans
  /\ \E a \in IF op[t].kind = "lookup" THEN seen[t]
              ELSE IF op[t].kind \in Scans THEN {Done}
              ELSE seen[t] \cap {Absent} : Answer(t, a)
  /\ seen' = [seen EXCEPT ![t] = {}]
  /\ UNCHANGED db

\* The effect of a call, seen by every pending call on the same key.
Effect(t) ==
  LET k == op[t].key IN
  /\ Answer(t, Done)
  /\ \/ /\ op[t].kind = "insert"
        /\ k \notin DOMAIN db
        /\ db' = [j \in DOMAIN db \union {k} |-> IF j = k THEN op[t].val ELSE db[j]]
     \/ /\ op[t].kind = "remove"
        /\ k \in DOMAIN db
        /\ db' = [j \in DOMAIN db \ {k} |-> db[j]]
     \/ /\ op[t].kind = "update"
        /\ k \in DOMAIN db
        /\ db' = [db EXCEPT ![k] = op[t].val]
  /\ seen' = [u \in Thread |->
                IF u = t THEN {}
                ELSE IF ans[u] = Pending /\ op[u].key = k
                       THEN seen[u] \union {At(db', k)} ELSE seen[u]]

Next == \E t \in Thread : Call(t) \/ Read(t) \/ Effect(t)
Spec == Init /\ [][Next]_vars
=============================================================================
