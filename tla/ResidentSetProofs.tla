--------------------------- MODULE ResidentSetProofs ---------------------------
(***************************************************************************)
(* Proofs about ResidentSet: the table holds exactly the cached pages, and *)
(* remove never misses a page that is there, for any table size, hash      *)
(* function, set of pages and threads.                                     *)
(***************************************************************************)
EXTENDS ResidentSet, TLAPS

-----------------------------------------------------------------------------
(* The circular probe order. *)

\* A slot before the successor of s on the probe sequence from h is before s
\* or is s.
LEMMA BeforeNext ==
  ASSUME NEW h \in Slot, NEW s \in Slot, NEW r \in Between(h, Succ(s))
  PROVE  r \in Slot /\ (r \in Between(h, s) \/ r = s)
  BY SetAssumption DEF Slot, Between, Succ

\* The successor of a slot is a slot.
LEMMA NextSlot == ASSUME NEW s \in Slot PROVE Succ(s) \in Slot
  BY SetAssumption DEF Slot, Succ

\* Slots before a slot are slots, and no slot is before the first.
LEMMA BeforeInside ==
  ASSUME NEW h \in Slot, NEW s \in Slot
  PROVE  Between(h, s) \subseteq Slot /\ Between(h, h) = {}
  BY SetAssumption DEF Slot, Between

\* Of two different slots one is before the other.
LEMMA BeforeTotal ==
  ASSUME NEW h \in Slot, NEW a \in Slot, NEW b \in Slot,
         a \notin Between(h, b), b \notin Between(h, a)
  PROVE  a = b
  BY SetAssumption DEF Slot, Between

\* Where page p is, when the table is exact.
LEMMA ExactHolds ==
  ASSUME Exact, NEW p \in cached, p \in Pid
  PROVE  \E s \in Slot : ht[s] = p /\ \A r \in Slot : ht[r] = p => r = s
  <1>1. PICK s \in Slot : {r \in Slot : ht[r] = p} = {s}
    BY DEF Exact
  <1> QED BY <1>1

\* The same fact read backwards, in the next state.
LEMMA ExactBack ==
  ASSUME NEW p \in Pid, NEW s \in Slot, ht'[s] = p,
         \A r \in Slot : ht'[r] = p => r = s
  PROVE  \E q \in Slot : {r \in Slot : ht'[r] = p} = {q}
  <1>1. {r \in Slot : ht'[r] = p} = {s}
    OBVIOUS
  <1> QED BY <1>1

\* A page that is not cached is in no slot.
LEMMA ExactMisses ==
  ASSUME Exact, NEW p \in Pid, p \notin cached, NEW s \in Slot
  PROVE  ht[s] # p
  BY DEF Exact

\* A probe sequence stays full while no slot becomes empty.
LEMMA PathKept ==
  ASSUME NEW p \in Pid, NEW s \in Slot, FullPath(p, s),
         \A r \in Slot : ht[r] # "empty" => ht'[r] # "empty"
  PROVE  FullPath(p, s)'
  BY BeforeInside, SetAssumption DEF FullPath

\* A step over a slot that is not empty extends the full path.
LEMMA PathExtends ==
  ASSUME NEW p \in Pid, NEW s \in Slot, FullPath(p, s), ht[s] # "empty"
  PROVE  FullPath(p, Succ(s))
  BY BeforeNext, SetAssumption DEF FullPath

\* The path to the home slot is full.
LEMMA PathStarts == ASSUME NEW p \in Pid PROVE FullPath(p, Hash[p])
  BY BeforeInside, SetAssumption DEF FullPath

\* Marks are not page ids.
LEMMA MarksApart ==
  "empty" \notin Pid /\ "tombstone" \notin Pid /\ "empty" # "tombstone"
  BY SetAssumption
-----------------------------------------------------------------------------

\* Type correctness, for the steps of a thread.
LEMMA TypeStep ==
  ASSUME TypeOK, NEW t \in Thread, Step(t)
  PROVE  TypeOK'
  <1> USE DEF TypeOK, Label, Entry
  <1>1. CASE BeginInsert(t) \/ BeginRemove(t)
    <2>1. PICK p \in Pid, l \in Label : Start(t, p, l)
      BY <1>1 DEF BeginInsert, BeginRemove
    <2>2. gone' \in [Thread -> BOOLEAN]
      BY <2>1, Zenon DEF Start
    <2> QED BY <2>1, <2>2, SetAssumption DEF Start
  <1>2. CASE InsertLoad(t)
    BY <1>2, NextSlot DEF InsertLoad, Advance
  <1>3. CASE InsertCas(t)
    BY <1>3, NextSlot DEF InsertCas, Advance, Return
  <1>4. CASE RemoveLoad(t)
    BY <1>4, NextSlot DEF RemoveLoad, Advance, Return
  <1>5. CASE RemoveCas(t)
    <2>1. gone' \in [Thread -> BOOLEAN]
      BY <1>5, Zenon DEF RemoveCas
    <2>2. ht' \in [Slot -> Entry] /\ cached' \subseteq Pid
      BY <1>5 DEF RemoveCas, Removed
    <2>3. pc' \in [Thread -> Label] /\ pos' \in [Thread -> Slot]
      BY <1>5, NextSlot DEF RemoveCas, Advance, Return
    <2> QED BY <1>5, <2>1, <2>2, <2>3 DEF RemoveCas
  <1> QED BY <1>1, <1>2, <1>3, <1>4, <1>5 DEF Step, Work
-----------------------------------------------------------------------------
(* Steps that leave the table and the set of cached pages alone. *)

\* A step of t that changes neither the table nor what other threads do.
Quiet(t) ==
  /\ ht' = ht /\ cached' = cached
  /\ \A u \in Thread \ {t} :
       /\ pc'[u] = pc[u] /\ pid'[u] = pid[u] /\ pos'[u] = pos[u]
       /\ curr'[u] = curr[u] /\ gone'[u] = gone[u]

\* What the invariant says of one thread.
WorkOf(t) ==
  /\ pc[t] \in Insert => pid[t] \notin cached
  /\ pc[t] = "insCas" => curr[t] \in {"empty", "tombstone"}
  /\ pc[t] = "remCas" => curr[t] = pid[t]
AheadOf(t) ==
  pc[t] \in Remove /\ ~gone[t] =>
    /\ pid[t] \in cached
    /\ pc[t] = "remCas" => ht[pos[t]] = pid[t]
    /\ \A r \in Between(Hash[pid[t]], pos[t]) : ht[r] # pid[t]
PathOf(t) ==
  pc[t] # "idle" =>
    /\ FullPath(pid[t], pos[t])
    /\ pc[t] \in {"insCas", "remCas"} /\ curr[t] # "empty" =>
         ht[pos[t]] # "empty"
Alone(t) ==
  pc[t] \in Insert =>
    \A u \in Thread : pc[u] \in Insert /\ pid[u] = pid[t] => u = t

\* A quiet step preserves the invariant if it leaves its own thread in order.
LEMMA QuietStep ==
  ASSUME IInv, TypeOK', NEW t \in Thread, Quiet(t),
         WorkOf(t)', AheadOf(t)', PathOf(t)', Alone(t)'
  PROVE  IInv'
  <1>1. Exact'
    BY DEF Quiet, IInv, Exact
  <1>2. WorkInv'
    <2>1. ASSUME NEW u \in Thread PROVE WorkOf(u)'
      BY DEF Quiet, IInv, WorkInv, WorkOf
    <2>2. ASSUME NEW v \in Thread, NEW u \in Thread,
                 (pc[v] \in Insert /\ pc[u] \in Insert /\ pid[v] = pid[u])'
          PROVE  v = u
      BY <2>2 DEF Quiet, IInv, WorkInv, Alone
    <2> QED BY <2>1, <2>2 DEF WorkInv, WorkOf
  <1>3. PathInv'
    <2>1. ASSUME NEW u \in Thread PROVE PathOf(u)'
      BY DEF Quiet, IInv, PathInv, PathOf, FullPath
    <2>2. ASSUME NEW s \in Slot, ht'[s] \in Pid PROVE FullPath(ht[s], s)'
      BY <2>2 DEF Quiet, IInv, PathInv, FullPath
    <2> QED BY <2>1, <2>2 DEF PathInv, PathOf
  <1>4. AheadInv'
    <2>1. ASSUME NEW u \in Thread PROVE AheadOf(u)'
      BY DEF Quiet, IInv, AheadInv, AheadOf
    <2> QED BY <2>1 DEF AheadInv, AheadOf
  <1> QED BY <1>1, <1>2, <1>3, <1>4 DEF IInv
-----------------------------------------------------------------------------
(* One lemma per action that leaves the table alone. *)

\* An insert starts at the home slot of a page nobody else inserts.
LEMMA BeginInsertStep ==
  ASSUME IInv, TypeOK', NEW t \in Thread, BeginInsert(t)
  PROVE  IInv'
  <1>1. PICK p \in Pid \ cached : ~Inserting(p) /\ Start(t, p, "insLoad")
    BY DEF BeginInsert
  <1>2. pc'[t] = "insLoad" /\ pid'[t] = p /\ pos'[t] = Hash[p] /\ ht' = ht /\ cached' = cached
    BY <1>1 DEF Start, IInv, TypeOK
  <1>3. Quiet(t)
    BY <1>1 DEF Quiet, Start, IInv, TypeOK
  <1>4. WorkOf(t)' /\ AheadOf(t)'
    BY <1>2 DEF WorkOf, AheadOf, Insert, Remove
  <1>5. PathOf(t)'
    BY <1>2, PathStarts DEF PathOf, FullPath
  <1>6. Alone(t)'
    <2> SUFFICES ASSUME NEW u \in Thread, pc'[u] \in Insert, pid'[u] = p, u # t
                 PROVE  FALSE
      BY <1>2 DEF Alone
    <2> QED BY <1>1, <1>3 DEF Quiet, Inserting, Insert
  <1> QED BY <1>3, <1>4, <1>5, <1>6, QuietStep

\* A remove starts at the home slot of any page.
LEMMA BeginRemoveStep ==
  ASSUME IInv, TypeOK', NEW t \in Thread, BeginRemove(t)
  PROVE  IInv'
  <1>1. PICK p \in Pid : Start(t, p, "remLoad")
    BY DEF BeginRemove
  <1>2. pc'[t] = "remLoad" /\ pid'[t] = p /\ pos'[t] = Hash[p] /\ ht' = ht /\ cached' = cached
    BY <1>1 DEF Start, IInv, TypeOK
  <1>3. Quiet(t)
    BY <1>1 DEF Quiet, Start, IInv, TypeOK
  <1>4. ~gone'[t] => p \in cached
    BY <1>1, Zenon DEF Start, IInv, TypeOK
  <1>5. WorkOf(t)' /\ Alone(t)'
    BY <1>2 DEF WorkOf, Alone, Insert
  <1>6. AheadOf(t)'
    BY <1>2, <1>4, SetAssumption, BeforeInside DEF AheadOf, Remove
  <1>7. PathOf(t)'
    BY <1>2, PathStarts DEF PathOf, FullPath
  <1> QED BY <1>3, <1>5, <1>6, <1>7, QuietStep

\* A step to the next slot over one that is not empty keeps the path full.
LEMMA StepOver ==
  ASSUME IInv, TypeOK', NEW t \in Thread, pc[t] # "idle",
         pc'[t] \in {"insLoad", "remLoad"},
         ht[pos[t]] # "empty", ht' = ht, pid' = pid, pos'[t] = Succ(pos[t])
  PROVE  PathOf(t)'
  <1>1. FullPath(pid[t], Succ(pos[t]))
    BY PathExtends DEF IInv, TypeOK, PathInv
  <1> QED BY <1>1 DEF PathOf, FullPath

\* A page that is not cached is in no slot, so an insert goes over every slot
\* that is not free.
LEMMA InsertLoadStep ==
  ASSUME IInv, TypeOK', NEW t \in Thread, InsertLoad(t)
  PROVE  IInv'
  <1> USE DEF InsertLoad, Advance, Free
  <1>1. Quiet(t) /\ pc[t] = "insLoad" /\ pc'[t] \in Insert /\ ht' = ht
        /\ cached' = cached /\ pid' = pid
    BY DEF Quiet, IInv, TypeOK, Insert
  <1>2. WorkOf(t)'
    BY <1>1 DEF IInv, TypeOK, WorkInv, WorkOf, Insert
  <1>3. AheadOf(t)'
    BY <1>1 DEF AheadOf, Insert, Remove
  <1>4. Alone(t)'
    BY <1>1 DEF IInv, Quiet, WorkInv, Alone, Insert
  <1>5. PathOf(t)'
    <2>1. CASE ~Free(pos[t])
      <3>1. /\ ht[pos[t]] # "empty" /\ pos'[t] = Succ(pos[t])
            /\ pc[t] # "idle" /\ pc'[t] = "insLoad"
        BY <2>1, <1>1 DEF IInv, TypeOK
      <3> QED BY <3>1, <1>1, StepOver
    <2>2. CASE Free(pos[t])
      BY <2>2, <1>1 DEF IInv, TypeOK, PathInv, PathOf, FullPath
    <2> QED BY <2>1, <2>2
  <1> QED BY <1>1, <1>2, <1>3, <1>4, <1>5, QuietStep

\* A remove goes over slots that hold neither its page nor nothing.
LEMMA RemoveLoadStep ==
  ASSUME IInv, TypeOK', NEW t \in Thread, RemoveLoad(t)
  PROVE  IInv'
  <1> USE DEF RemoveLoad, Advance, Return
  <1>1. Quiet(t) /\ pc[t] = "remLoad" /\ pc'[t] \in {"idle", "remLoad", "remCas"}
        /\ ht' = ht /\ cached' = cached /\ pid' = pid /\ gone' = gone
    BY DEF Quiet, IInv, TypeOK
  <1>2. WorkOf(t)' /\ Alone(t)'
    BY <1>1 DEF IInv, TypeOK, WorkOf, Alone, Insert
  <1>3. CASE ht[pos[t]] = "empty"
    <2>1. pc'[t] = "idle"
      BY <1>3, MarksApart DEF IInv, TypeOK
    <2> QED BY <2>1, <1>1, <1>2, QuietStep DEF AheadOf, PathOf, Remove
  <1>4. CASE ht[pos[t]] = pid[t]
    <2>1. pos' = pos
      BY <1>4, MarksApart DEF IInv, TypeOK
    <2>2. PathOf(t)'
      BY <1>1, <1>4, <2>1, MarksApart DEF IInv, TypeOK, PathInv, PathOf, FullPath
    <2>3. AheadOf(t)'
      BY <1>1, <1>4, <2>1 DEF IInv, AheadInv, AheadOf, Remove
    <2> QED BY <2>2, <2>3, <1>1, <1>2, QuietStep
  <1>5. CASE ht[pos[t]] \notin {"empty", pid[t]}
    <2>1. pos'[t] = Succ(pos[t]) /\ pc'[t] = "remLoad"
      BY <1>5 DEF IInv, TypeOK
    <2>2. PathOf(t)'
      BY <1>1, <1>5, <2>1, StepOver
    <2>3. AheadOf(t)'
      BY <1>1, <1>5, <2>1, BeforeNext, SetAssumption
      DEF IInv, TypeOK, AheadInv, AheadOf, Remove
    <2> QED BY <2>2, <2>3, <1>1, <1>2, QuietStep
  <1> QED BY <1>3, <1>4, <1>5
-----------------------------------------------------------------------------
(* The two compare-and-swaps. *)

\* A failed CAS goes on with the next slot, which keeps the path full.
LEMMA FailedCas ==
  ASSUME IInv, TypeOK', NEW t \in Thread, pc[t] \in {"insCas", "remCas"},
         ~CanCas(t), Quiet(t), pid' = pid, gone' = gone,
         pos'[t] = Succ(pos[t]),
         pc'[t] = IF pc[t] = "insCas" THEN "insLoad" ELSE "remLoad"
  PROVE  IInv'
  <1>1. ht[pos[t]] # "empty"
    BY MarksApart DEF CanCas, IInv, TypeOK, WorkInv, PathInv
  <1>2. PathOf(t)'
    BY <1>1, StepOver DEF Quiet
  <1>3. WorkOf(t)' /\ Alone(t)'
    BY DEF Quiet, IInv, WorkInv, WorkOf, Alone, Insert
  <1>4. AheadOf(t)'
    <2> SUFFICES ASSUME pc[t] = "remCas", ~gone[t]
                 PROVE  AheadOf(t)'
      BY DEF AheadOf, Remove
    <2>1. ht[pos[t]] = pid[t] /\ curr[t] = pid[t]
      BY DEF IInv, WorkInv, AheadInv, Remove
    <2> QED BY <2>1 DEF CanCas
  <1> QED BY <1>2, <1>3, <1>4, QuietStep

\* What a thread that inserts puts into a free slot.
LEMMA InsertCasStep ==
  ASSUME IInv, TypeOK', NEW t \in Thread, InsertCas(t)
  PROVE  IInv'
  <1> USE DEF InsertCas, Advance, Return
  <1>1. CASE ~CanCas(t)
    <2>1. /\ Quiet(t) /\ pid' = pid /\ gone' = gone /\ pc[t] = "insCas"
          /\ pos'[t] = Succ(pos[t]) /\ pc'[t] = "insLoad"
      BY <1>1 DEF Quiet, IInv, TypeOK
    <2> QED BY <1>1, <2>1, FailedCas
  <1>2. CASE CanCas(t)
    <2> DEFINE p == pid[t]
               s == pos[t]
    <2>1. /\ p \in Pid /\ s \in Slot /\ p \notin cached
          /\ ht[s] \in {"empty", "tombstone"} /\ FullPath(p, s)
      BY <1>2 DEF CanCas, IInv, TypeOK, WorkInv, PathInv, Insert
    <2>2. /\ ht' = [ht EXCEPT ![s] = p] /\ cached' = cached \union {p}
          /\ pc' = [pc EXCEPT ![t] = "idle"] /\ pc[t] = "insCas"
          /\ pos' = pos /\ pid' = pid /\ curr' = curr /\ gone' = gone
      BY <1>2
    <2>3. /\ ht'[s] = p /\ \A r \in Slot : r # s => ht'[r] = ht[r]
          /\ pc'[t] = "idle" /\ \A u \in Thread : u # t => pc'[u] = pc[u]
      BY <2>1, <2>2 DEF IInv, TypeOK
    <2>4. \A r \in Slot : ht[r] # p
      BY <2>1, ExactMisses DEF IInv
    <2> HIDE DEF p, s
    <2>5. \A r \in Slot : ht[r] # "empty" => ht'[r] # "empty"
      BY <2>1, <2>3, MarksApart
    <2>6. Exact'
      <3> SUFFICES ASSUME NEW q \in Pid
                   PROVE  IF q \in cached'
                            THEN \E a \in Slot : {r \in Slot : ht'[r] = q} = {a}
                            ELSE \A a \in Slot : ht'[a] # q
        BY DEF Exact
      <3>1. CASE q = p
        <4>1. \A r \in Slot : ht'[r] = p => r = s
          BY <2>3, <2>4
        <4> QED BY <3>1, <4>1, <2>1, <2>2, <2>3, ExactBack
      <3>2. CASE q # p
        <4>1. \A r \in Slot : ht'[r] = q <=> ht[r] = q
          BY <3>2, <2>1, <2>3, MarksApart
        <4>2. {r \in Slot : ht'[r] = q} = {r \in Slot : ht[r] = q}
          BY <4>1
        <4> QED BY <3>2, <4>1, <4>2, <2>2 DEF IInv, Exact
      <3> QED BY <3>1, <3>2
    <2>7. WorkInv'
      BY <2>2, <2>3 DEF IInv, WorkInv, Insert, p
    <2>8. PathInv'
      <3>1. ASSUME NEW r \in Slot, ht'[r] \in Pid PROVE FullPath(ht[r], r)'
        <4>1. FullPath(ht'[r], r)
          BY <3>1, <2>1, <2>3 DEF IInv, PathInv
        <4> QED BY <3>1, <4>1, <2>5, PathKept DEF FullPath
      <3>2. ASSUME NEW u \in Thread, pc'[u] # "idle" PROVE PathOf(u)'
        <4>1. u # t /\ pc'[u] = pc[u] /\ PathOf(u) /\ pid[u] \in Pid /\ pos[u] \in Slot
          BY <3>2, <2>3 DEF IInv, TypeOK, PathInv, PathOf
        <4>2. FullPath(pid[u], pos[u])'
          BY <3>2, <4>1, <2>2, <2>5, PathKept DEF PathOf, FullPath
        <4> QED BY <4>1, <4>2, <2>2, <2>5 DEF PathOf
      <3> QED BY <3>1, <3>2 DEF PathInv, PathOf
    <2>9. AheadInv'
      <3> SUFFICES ASSUME NEW u \in Thread, pc'[u] \in Remove, ~gone[u]
                   PROVE  AheadOf(u)'
        BY <2>2 DEF AheadInv, AheadOf
      <3>1. u # t /\ pc[u] = pc'[u] /\ AheadOf(u) /\ pid[u] \in Pid /\ pos[u] \in Slot
        BY <2>3 DEF IInv, TypeOK, AheadInv, AheadOf, Remove
      <3>2. pid[u] \in cached /\ pid[u] # p
        BY <3>1, <2>1 DEF AheadOf
      <3>3. \A r \in Slot : ht'[r] = pid[u] <=> ht[r] = pid[u]
        BY <3>2, <3>1, <2>1, <2>3, MarksApart
      <3>4. Between(Hash[pid[u]], pos[u]) \subseteq Slot
        BY <3>1, BeforeInside, SetAssumption
      <3> QED BY <3>1, <3>2, <3>3, <3>4, <2>2 DEF AheadOf
    <2> QED BY <2>6, <2>7, <2>8, <2>9 DEF IInv
  <1> QED BY <1>1, <1>2

\* What a thread that removes takes out.
LEMMA RemoveCasStep ==
  ASSUME IInv, TypeOK', NEW t \in Thread, RemoveCas(t)
  PROVE  IInv'
  <1> USE DEF RemoveCas, Advance, Return, Removed
  <1>1. CASE ~CanCas(t)
    <2>1. /\ Quiet(t) /\ pid' = pid /\ gone' = gone /\ pc[t] = "remCas"
          /\ pos'[t] = Succ(pos[t]) /\ pc'[t] = "remLoad"
      BY <1>1 DEF Quiet, IInv, TypeOK
    <2> QED BY <1>1, <2>1, FailedCas
  <1>2. CASE CanCas(t)
    <2> DEFINE p == pid[t]
               s == pos[t]
    <2>1. p \in Pid /\ s \in Slot /\ ht[s] = p
      BY <1>2 DEF CanCas, IInv, TypeOK, WorkInv
    <2>2. /\ ht' = [ht EXCEPT ![s] = "tombstone"] /\ cached' = cached \ {p}
          /\ pc' = [pc EXCEPT ![t] = "idle"] /\ pc[t] = "remCas"
          /\ pos' = pos /\ pid' = pid /\ curr' = curr
      BY <1>2
    <2>3. /\ ht'[s] = "tombstone" /\ \A r \in Slot : r # s => ht'[r] = ht[r]
          /\ pc'[t] = "idle" /\ \A u \in Thread : u # t => pc'[u] = pc[u]
      BY <2>1, <2>2 DEF IInv, TypeOK
    <2>4. \A u \in Thread : ~gone'[u] => ~gone[u] /\ pid[u] # p
      BY <1>2, Zenon
    <2>5. p \in cached /\ \A r \in Slot : ht[r] = p => r = s
      <3>1. p \in cached
        BY <2>1, ExactMisses DEF IInv
      <3> QED BY <3>1, <2>1, ExactHolds DEF IInv
    <2> HIDE DEF p, s
    <2>6. \A r \in Slot : ht[r] # "empty" => ht'[r] # "empty"
      BY <2>1, <2>3, MarksApart
    <2>7. Exact'
      <3> SUFFICES ASSUME NEW q \in Pid
                   PROVE  IF q \in cached'
                            THEN \E a \in Slot : {r \in Slot : ht'[r] = q} = {a}
                            ELSE \A a \in Slot : ht'[a] # q
        BY DEF Exact
      <3>1. CASE q = p
        BY <3>1, <2>2, <2>3, <2>5, MarksApart
      <3>2. CASE q # p
        <4>1. \A r \in Slot : ht'[r] = q <=> ht[r] = q
          BY <3>2, <2>1, <2>3, MarksApart
        <4>2. {r \in Slot : ht'[r] = q} = {r \in Slot : ht[r] = q}
          BY <4>1
        <4> QED BY <3>2, <4>1, <4>2, <2>2 DEF IInv, Exact
      <3> QED BY <3>1, <3>2
    <2>8. WorkInv'
      BY <2>2, <2>3 DEF IInv, WorkInv, Insert
    <2>9. PathInv'
      <3>1. ASSUME NEW r \in Slot, ht'[r] \in Pid PROVE FullPath(ht[r], r)'
        <4>1. FullPath(ht'[r], r)
          BY <3>1, <2>3, MarksApart DEF IInv, PathInv
        <4> QED BY <3>1, <4>1, <2>6, PathKept DEF FullPath
      <3>2. ASSUME NEW u \in Thread, pc'[u] # "idle" PROVE PathOf(u)'
        <4>1. u # t /\ pc'[u] = pc[u] /\ PathOf(u) /\ pid[u] \in Pid /\ pos[u] \in Slot
          BY <3>2, <2>3 DEF IInv, TypeOK, PathInv, PathOf
        <4>2. FullPath(pid[u], pos[u])'
          BY <3>2, <4>1, <2>2, <2>6, PathKept DEF PathOf, FullPath
        <4> QED BY <4>1, <4>2, <2>2, <2>6 DEF PathOf
      <3> QED BY <3>1, <3>2 DEF PathInv, PathOf
    <2>10. AheadInv'
      <3> SUFFICES ASSUME NEW u \in Thread, pc'[u] \in Remove, ~gone'[u]
                   PROVE  AheadOf(u)'
        BY DEF AheadInv, AheadOf
      <3>1. u # t /\ pc[u] = pc'[u] /\ AheadOf(u) /\ pid[u] \in Pid /\ pos[u] \in Slot
        BY <2>3 DEF IInv, TypeOK, AheadInv, AheadOf, Remove
      <3>2. pid[u] \in cached /\ pid[u] # p
        BY <3>1, <2>4 DEF AheadOf
      <3>3. \A r \in Slot : ht'[r] = pid[u] <=> ht[r] = pid[u]
        BY <3>2, <3>1, <2>1, <2>3, MarksApart
      <3>4. Between(Hash[pid[u]], pos[u]) \subseteq Slot
        BY <3>1, BeforeInside, SetAssumption
      <3>5. ~gone[u] /\ pid[u] \in cached'
        BY <3>2, <2>2, <2>4
      <3> QED BY <3>1, <3>3, <3>4, <3>5, <2>2 DEF AheadOf
    <2> QED BY <2>7, <2>8, <2>9, <2>10 DEF IInv
  <1> QED BY <1>1, <1>2
-----------------------------------------------------------------------------
\* The invariant is inductive: it holds initially and every step of the
\* resident page set preserves it.
THEOREM Invariance == Spec => []IInv
  <1>1. Init => IInv
    <2> SUFFICES ASSUME Init PROVE IInv
      OBVIOUS
    <2>1. TypeOK
      BY SetAssumption DEF Init, TypeOK, Entry, Label, Slot
    <2>2. WorkInv /\ AheadInv
      BY DEF Init, WorkInv, AheadInv, Insert, Remove
    <2>3. Exact /\ PathInv
      BY MarksApart DEF Init, Exact, PathInv
    <2> QED BY <2>1, <2>2, <2>3 DEF IInv
  <1>2. IInv /\ [Next]_vars => IInv'
    <2> SUFFICES ASSUME IInv, [Next]_vars PROVE IInv'
      OBVIOUS
    <2>1. CASE UNCHANGED vars
      BY <2>1 DEF vars, IInv, TypeOK, WorkInv, Exact, PathInv, AheadInv, FullPath
    <2>2. ASSUME NEW t \in Thread, Step(t) PROVE IInv'
      <3>1. TypeOK'
        BY <2>2, TypeStep DEF IInv
      <3> QED BY <2>2, <3>1, BeginInsertStep, BeginRemoveStep, InsertLoadStep,
                 RemoveLoadStep, InsertCasStep, RemoveCasStep DEF Step, Work
    <2> QED BY <2>1, <2>2 DEF Next
  <1> QED BY <1>1, <1>2, PTL DEF Spec

\* The variables of the resident page set keep their types.
THEOREM TypeCorrect == Spec => []TypeOK
  BY Invariance, PTL DEF IInv

\* The table holds every cached page in exactly one slot and no other page,
\* for any number of threads, pages and slots and any hash function.
THEOREM TableIsExact == Spec => []Exact
  BY Invariance, PTL DEF IInv

\* ResidentPageSet::remove never returns false for a page that is in the
\* table for the whole of the call.
THEOREM RemoveFinds == Spec => []NeverMissed
  <1>1. IInv => NeverMissed
    <2> SUFFICES ASSUME IInv, NEW t \in Thread, pc[t] = "remLoad",
                        ht[pos[t]] = "empty", ~gone[t]
                 PROVE  FALSE
      BY Zenon DEF NeverMissed
    <2> DEFINE p == pid[t]
               b == pos[t]
    <2>1. p \in cached /\ \A r \in Between(Hash[p], b) : ht[r] # p
      BY DEF IInv, AheadInv, Remove
    <2>2. p \in Pid /\ b \in Slot /\ Hash[p] \in Slot
      BY SetAssumption DEF IInv, TypeOK
    <2>3. PICK a \in Slot : ht[a] = p
      BY <2>1, <2>2, ExactHolds DEF IInv
    <2>4. FullPath(p, a)
      BY <2>2, <2>3 DEF IInv, PathInv
    <2>5. a \notin Between(Hash[p], b) /\ b \notin Between(Hash[p], a)
      BY <2>1, <2>3, <2>4 DEF FullPath
    <2>6. a = b
      BY <2>2, <2>5, BeforeTotal
    <2> QED BY <2>2, <2>3, <2>6, MarksApart
  <1> QED BY <1>1, Invariance, PTL
=============================================================================
