----------------------------- MODULE ResidentSet ------------------------------
(***************************************************************************)
(* ResidentPageSet (btree.hpp): a lock-free hash table with open           *)
(* addressing that keeps track of the cached pages.  Threads insert and    *)
(* remove page ids; a load and a CAS of a slot are steps of their own.     *)
(* The page latch (PageLatch, theorem FaultedOnce) lets one thread at a    *)
(* time insert a page, and only while it is not there; any thread may      *)
(* remove any page (nothing in the repository calls remove).               *)
(***************************************************************************)
EXTENDS Integers, FiniteSets

CONSTANTS
  Thread,    \* worker threads
  Pid,       \* page ids
  Count,     \* number of slots
  Hash       \* Hash[p]: hash(p) & mask

Slot == 0 .. Count - 1

ASSUME SetAssumption ==
  /\ Count \in Nat \ {0}
  /\ Hash \in [Pid -> Slot]
  /\ Pid \cap {"empty", "tombstone"} = {}

VARIABLES
  ht,      \* ht[s]: a page id, "empty" or "tombstone"
  cached,  \* pages inserted and not removed since
  pc,      \* pc[t]: where thread t is
  pid,     \* pid[t]: the page it inserts or removes
  pos,     \* pos[t]: the slot it looks at
  curr,    \* curr[t]: what it loaded
  gone     \* gone[t]: the page t removes was not cached at some moment of
           \* the call (history)

vars == <<ht, cached, pc, pid, pos, curr, gone>>
Entry == Pid \union {"empty", "tombstone"}
Label == {"idle", "insLoad", "insCas", "remLoad", "remCas"}

\* next_pow2, and the number of slots that init allocates for maxCount pages.
\* The bit length of 0 is undefined in C (maxCount = 1); here it is 0.
NextPow2(x) ==
  CHOOSE q \in {2 ^ k : k \in 0 .. 30} : x - 1 < q /\ (q = 1 \/ q \div 2 <= x - 1)
SlotsFor(maxCount) == NextPow2((maxCount * 3) \div 2)

Init ==
  /\ ht = [s \in Slot |-> "empty"]
  /\ cached = {}
  /\ pc = [t \in Thread |-> "idle"]
  /\ pid \in [Thread -> Pid]
  /\ pos = [t \in Thread |-> 0]
  /\ curr = [t \in Thread |-> "empty"]
  /\ gone = [t \in Thread |-> FALSE]

Succ(s) == IF s = Count - 1 THEN 0 ELSE s + 1

Inserting(p) == \E t \in Thread : pc[t] \in {"insLoad", "insCas"} /\ pid[t] = p

Start(t, p, l) ==
  /\ pc[t] = "idle"
  /\ pc' = [pc EXCEPT ![t] = l]
  /\ pid' = [pid EXCEPT ![t] = p]
  /\ pos' = [pos EXCEPT ![t] = Hash[p]]
  /\ gone' = [gone EXCEPT ![t] = p \notin cached]
  /\ UNCHANGED <<ht, cached, curr>>

BeginInsert(t) ==
  \E p \in Pid \ cached : ~Inserting(p) /\ Start(t, p, "insLoad")
BeginRemove(t) == \E p \in Pid : Start(t, p, "remLoad")

Advance(t, l) ==
  /\ pos' = [pos EXCEPT ![t] = Succ(pos[t])]
  /\ pc' = [pc EXCEPT ![t] = l]

Return(t) ==
  /\ pc' = [pc EXCEPT ![t] = "idle"]
  /\ UNCHANGED pos

Free(s) == ht[s] \in {"empty", "tombstone"}

InsertLoad(t) ==
  /\ pc[t] = "insLoad"
  /\ curr' = [curr EXCEPT ![t] = ht[pos[t]]]
  /\ \/ /\ Free(pos[t])
        /\ pc' = [pc EXCEPT ![t] = "insCas"]
        /\ UNCHANGED pos
     \/ /\ ~Free(pos[t])
        /\ Advance(t, "insLoad")
  /\ UNCHANGED <<ht, cached, pid, gone>>

\* Seeded fault: a plain store in the place of the compare-and-swap.
BugBlindStore(t) == t \in Thread

CanCas(t) == ht[pos[t]] = curr[t]

\* Seeded fault: after a failed CAS the loop tries again without loading.
BugStaleSlot(t) ==
  /\ pc[t] = "insCas"
  /\ IF CanCas(t)
       THEN /\ ht' = [ht EXCEPT ![pos[t]] = pid[t]]
            /\ cached' = cached \union {pid[t]}
            /\ Return(t)
       ELSE UNCHANGED <<ht, cached, pc, pos>>
  /\ UNCHANGED <<pid, curr, gone>>

\* A failed CAS goes on with the next slot.
InsertCas(t) ==
  /\ pc[t] = "insCas"
  /\ \/ /\ CanCas(t)
        /\ ht' = [ht EXCEPT ![pos[t]] = pid[t]]
        /\ cached' = cached \union {pid[t]}
        /\ Return(t)
     \/ /\ ~CanCas(t)
        /\ Advance(t, "insLoad")
        /\ UNCHANGED <<ht, cached>>
  /\ UNCHANGED <<pid, curr, gone>>

\* An empty slot ends the search: remove returns false.
RemoveLoad(t) ==
  /\ pc[t] = "remLoad"
  /\ curr' = [curr EXCEPT ![t] = ht[pos[t]]]
  /\ \/ /\ ht[pos[t]] = "empty"
        /\ Return(t)
     \/ /\ ht[pos[t]] = pid[t]
        /\ pc' = [pc EXCEPT ![t] = "remCas"]
        /\ UNCHANGED pos
     \/ /\ ht[pos[t]] \notin {"empty", pid[t]}
        /\ Advance(t, "remLoad")
  /\ UNCHANGED <<ht, cached, pid, gone>>

\* Seeded fault: a removed page leaves an empty slot.
BugLeaveEmpty == "empty"

Removed == "tombstone"

RemoveCas(t) ==
  /\ pc[t] = "remCas"
  /\ \/ /\ CanCas(t)
        /\ ht' = [ht EXCEPT ![pos[t]] = Removed]
        /\ cached' = cached \ {pid[t]}
        /\ gone' = [u \in Thread |-> gone[u] \/ pid[u] = pid[t]]
        /\ Return(t)
     \/ /\ ~CanCas(t)
        /\ Advance(t, "remLoad")
        /\ UNCHANGED <<ht, cached, gone>>
  /\ UNCHANGED <<pid, curr>>

Work(t) == InsertLoad(t) \/ InsertCas(t) \/ RemoveLoad(t) \/ RemoveCas(t)

Step(t) == BeginInsert(t) \/ BeginRemove(t) \/ Work(t)

Next == \E t \in Thread : Step(t)

Spec == Init /\ [][Next]_vars

\* A thread in a call keeps being scheduled.
FairSpec == Spec /\ \A t \in Thread : WF_vars(Work(t))
-----------------------------------------------------------------------------
TypeOK ==
  /\ ht \in [Slot -> Entry]
  /\ cached \subseteq Pid
  /\ pc \in [Thread -> Label]
  /\ pid \in [Thread -> Pid]
  /\ pos \in [Thread -> Slot]
  /\ curr \in [Thread -> Entry]
  /\ gone \in [Thread -> BOOLEAN]

\* The table holds each cached page in one slot and no other page: no CAS
\* overwrites a page another thread has just inserted.
Exact ==
  \A p \in Pid :
    IF p \in cached THEN \E s \in Slot : {r \in Slot : ht[r] = p} = {s}
                    ELSE \A s \in Slot : ht[s] # p

\* remove returns false only if the page was not there at some moment of the
\* call, however many other pages are inserted and removed along its probe
\* sequence meanwhile.
NeverMissed ==
  \A t \in Thread :
    pc[t] = "remLoad" /\ ht[pos[t]] = "empty" => gone[t]

\* Every insert ends once no page is removed any more (the B-tree never
\* removes one): the probe meets a free slot, as there are more slots than
\* pages, and each failed CAS means that another insert ended.
NoRemoval == \A t \in Thread : pc[t] \notin {"remLoad", "remCas"}
InsertEnds ==
  <>[]NoRemoval => \A t \in Thread : pc[t] \in {"insLoad", "insCas"} ~> pc[t] = "idle"
-----------------------------------------------------------------------------
(***************************************************************************)
(* The inductive invariant.  Between the home slot of a page and the slot  *)
(* where it is, or where its insert or remove has arrived, no slot is      *)
(* empty; a slot that is not empty never becomes empty again.              *)
(***************************************************************************)
Between(h, s) == IF h <= s THEN h .. s - 1 ELSE (h .. Count - 1) \union (0 .. s - 1)
FullPath(p, s) == \A r \in Between(Hash[p], s) : ht[r] # "empty"

Insert == {"insLoad", "insCas"}
Remove == {"remLoad", "remCas"}

WorkInv ==
  /\ \A t, u \in Thread :
       pc[t] \in Insert /\ pc[u] \in Insert /\ pid[t] = pid[u] => t = u
  /\ \A t \in Thread :
       /\ pc[t] \in Insert => pid[t] \notin cached
       /\ pc[t] = "insCas" => curr[t] \in {"empty", "tombstone"}
       /\ pc[t] = "remCas" => curr[t] = pid[t]

PathInv ==
  /\ \A s \in Slot : ht[s] \in Pid => FullPath(ht[s], s)
  /\ \A t \in Thread : pc[t] # "idle" =>
       /\ FullPath(pid[t], pos[t])
       /\ pc[t] \in {"insCas", "remCas"} /\ curr[t] # "empty" =>
            ht[pos[t]] # "empty"

\* A removing thread has not gone past the slot of a page that was there all
\* the time.
AheadInv ==
  \A t \in Thread : pc[t] \in Remove /\ ~gone[t] =>
    /\ pid[t] \in cached
    /\ pc[t] = "remCas" => ht[pos[t]] = pid[t]
    /\ \A r \in Between(Hash[pid[t]], pos[t]) : ht[r] # pid[t]

IInv == TypeOK /\ WorkInv /\ Exact /\ PathInv /\ AheadInv
=============================================================================
