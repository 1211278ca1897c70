--------------------------- MODULE PageLatchProofs ----------------------------
(***************************************************************************)
(* Proofs about PageLatch: its inductive invariant IInv and what follows   *)
(* from it, for every set of threads, number of pages, reader limit and    *)
(* number of guards, with and without page replacement.  The proofs assume *)
(* a build with assertions (AssertsOn): allocPage locks the new page       *)
(* inside an assert.                                                       *)
(*                                                                         *)
(* A step of thread t touches the locals of t and the word, payload and    *)
(* residency of one page.  The lemmas named Effects say what it can do to  *)
(* each of them; the lemmas named Step conclude that a conjunct of IInv is *)
(* preserved.                                                              *)
(***************************************************************************)
EXTENDS PageLatch, FiniteSetTheorems, TLAPS

\* Words are records.
LEMMA WordFields == \A w \in Word : w.state \in State /\ w.version \in Nat
BY DEF Word

\* New words are words.
LEMMA WordOps ==
  \A w \in Word, s \in State :
    /\ SameVersion(w, s) \in Word
    /\ NextVersion(w, s) \in Word
BY DEF Word, SameVersion, NextVersion

\* The fields of the two kinds of new words.
LEMMA SameFields ==
  \A w, s : SameVersion(w, s).state = s /\ SameVersion(w, s).version = w.version
BY DEF SameVersion

\* The same for unlocking.
LEMMA NextFields ==
  \A w, s : NextVersion(w, s).state = s /\ NextVersion(w, s).version = w.version + 1
BY DEF NextVersion

\* The special states are distinct, and outside the reader counts.
LEMMA States ==
  /\ Unlocked \in State /\ Locked \in State /\ Marked \in State
  /\ Evicted \in State /\ 1 \in State
  /\ \A s \in State : s < MaxShared => s + 1 \in State
  /\ \A s \in State : s \in 1 .. MaxShared => s - 1 \in State
BY LatchAssumption DEF State, Unlocked, Locked, Marked, Evicted

\* The reset registers have the right types.
LEMMA Blank == NoWord \in Word /\ NoContent \in Content
BY LatchAssumption DEF Word, Content, State, NoWord, NoContent, Evicted

\* Where the labels are.
LEMMA Labels ==
  /\ Idle \subseteq Label /\ XLabel \subseteq Label
  /\ SLabel \subseteq Label /\ OLabel \subseteq Label
  /\ {"load", "unmark", "evictCas", "xCas", "sCas", "markCas",
      "alloc", "allocCas"} \subseteq Label
BY DEF Label

\* A reader counts: the word of a page with a reader shows it.
LEMMA Shares ==
  ASSUME TypeOK, CountInv, NEW t \in Thread, pc[t] \in SLabel
  PROVE  W(t).state \in 1 .. MaxShared
<1> DEFINE p == pid[t]
<1>1. p \in Page /\ t \in SOwner(p)
  BY DEF TypeOK, SOwner
<1>2. IsFiniteSet(SOwner(p))
  BY FS_Subset, LatchAssumption DEF LatchAssumption, SOwner
<1>3. Cardinality(SOwner(p)) # 0
  BY <1>1, <1>2, FS_EmptySet
<1>q. QED
  BY <1>1, <1>3 DEF CountInv, Readers, W

\* A step of t leaves the locals of the other threads alone.
LEMMA ThreadFrame ==
  ASSUME TypeOK, NEW t \in Thread, Step(t), NEW u \in Thread, u # t
  PROVE  /\ pc'[u] = pc[u] /\ pid'[u] = pid[u] /\ kind'[u] = kind[u]
         /\ reg'[u] = reg[u] /\ ver'[u] = ver[u] /\ snap'[u] = snap[u]
<1> USE DEF TypeOK, Goto, Finish, LoadTo, TryLockX, local
<1>1. CASE Begin(t) \/ BeginAlloc(t) \/ AllocLoad(t) \/ AllocCas(t) \/
          LoadEvicted(t) \/ LoadO(t) \/ LoadX(t) \/ LoadS(t) \/ Unmark(t)
  BY <1>1
  DEF Begin, BeginAlloc, AllocLoad, AllocCas, LoadEvicted, LoadO, LoadX,
      LoadS, Unmark
<1>2. CASE EvictCas(t) \/ XCas(t) \/ Fault(t) \/ SCas(t) \/ ReadLo(t) \/
          ReadHi(t) \/ Check(t) \/ CheckUnmark(t) \/ BeginUpgradeX(t)
  BY <1>2
  DEF EvictCas, XCas, Fault, SCas, ReadLo, ReadHi, Check, CheckUnmark,
      BeginUpgradeX
<1>3. CASE UpgradeX(t) \/ UpgradeXCas(t) \/ UpgradeS(t) \/ WriteLo(t) \/
          WriteHi(t) \/ Link(t) \/ UnlockXLoad(t) \/ UnlockXStore(t) \/
          EvictLoad(t)
  BY <1>3
  DEF UpgradeX, UpgradeXCas, UpgradeS, WriteLo, WriteHi, Link, UnlockXLoad,
      UnlockXStore, EvictLoad
<1>4. CASE EvictStore(t) \/ DowngradeLoad(t) \/ DowngradeStore(t) \/
          UnlockSLoad(t) \/ UnlockSCas(t) \/ LoadMark(t) \/ MarkCas(t)
  BY <1>4
  DEF EvictStore, DowngradeLoad, DowngradeStore, UnlockSLoad, UnlockSCas,
      LoadMark, MarkCas
<1>q. QED
  BY <1>1, <1>2, <1>3, <1>4
  DEF Step

\* A step of t changes no page but its own.
LEMMA PageFrame ==
  ASSUME TypeOK, NEW t \in Thread, Step(t), NEW q \in Page, q # pid[t]
  PROVE  word'[q] = word[q] /\ content'[q] = content[q] /\ resident'[q] = resident[q]
<1> USE DEF TypeOK, Finish, SetWord, LoadTo, TryLockX, shared
<1>1. CASE Begin(t) \/ BeginAlloc(t) \/ AllocLoad(t) \/ AllocCas(t) \/
          LoadEvicted(t) \/ LoadO(t) \/ LoadX(t) \/ LoadS(t) \/ Unmark(t)
  BY <1>1
  DEF Begin, BeginAlloc, AllocLoad, AllocCas, LoadEvicted, LoadO, LoadX,
      LoadS, Unmark
<1>2. CASE EvictCas(t) \/ XCas(t) \/ Fault(t) \/ SCas(t) \/ ReadLo(t) \/
          ReadHi(t) \/ Check(t) \/ CheckUnmark(t) \/ BeginUpgradeX(t)
  BY <1>2
  DEF EvictCas, XCas, Fault, SCas, ReadLo, ReadHi, Check, CheckUnmark,
      BeginUpgradeX
<1>3. CASE UpgradeX(t) \/ UpgradeXCas(t) \/ UpgradeS(t) \/ WriteLo(t) \/
          WriteHi(t) \/ Link(t) \/ UnlockXLoad(t) \/ UnlockXStore(t) \/
          EvictLoad(t)
  BY <1>3
  DEF UpgradeX, UpgradeXCas, UpgradeS, WriteLo, WriteHi, Link, UnlockXLoad,
      UnlockXStore, EvictLoad
<1>4. CASE EvictStore(t) \/ DowngradeLoad(t) \/ DowngradeStore(t) \/
          UnlockSLoad(t) \/ UnlockSCas(t) \/ LoadMark(t) \/ MarkCas(t)
  BY <1>4
  DEF EvictStore, DowngradeLoad, DowngradeStore, UnlockSLoad, UnlockSCas,
      LoadMark, MarkCas
<1>q. QED
  BY <1>1, <1>2, <1>3, <1>4
  DEF Step

\* What each thread knows of the word it loaded stays true.
LEMMA RegStep ==
  ASSUME TypeOK, RegInv, NEW t \in Thread, Step(t)
  PROVE  RegInv'
<1>a. ASSUME NEW u \in Thread, u # t
      PROVE  RegOf(u)'
  BY <1>a, ThreadFrame DEF RegInv, RegOf
<1>b. SUFFICES RegOf(t)'
  BY <1>a DEF RegInv
<1>c. RegOf(t)
  BY DEF RegInv
<1> USE <1>c DEF RegOf, TypeOK
<1>1. CASE Begin(t) \/ BeginAlloc(t) \/ AllocLoad(t) \/ AllocCas(t) \/
          LoadEvicted(t) \/ LoadO(t) \/ LoadX(t) \/ LoadS(t) \/ EvictCas(t)
  BY <1>1
  DEF Begin, BeginAlloc, AllocLoad, AllocCas, LoadEvicted, LoadO, LoadX,
      LoadS, EvictCas, Goto, Finish, LoadTo, TryLockX, local, W, NoWord, Idle,
      OLabel, XLabel, SLabel, SameVer, Unlocked, Locked, Marked, Evicted
<1>2. CASE XCas(t) \/ Fault(t) \/ SCas(t) \/ ReadLo(t) \/ ReadHi(t) \/
          Check(t) \/ CheckUnmark(t) \/ BeginUpgradeX(t) \/ UpgradeX(t)
  BY <1>2
  DEF XCas, Fault, SCas, ReadLo, ReadHi, Check, CheckUnmark, BeginUpgradeX,
      UpgradeX, Goto, Finish, LoadTo, TryLockX, local, W, NoWord, Idle,
      OLabel, XLabel, SLabel, SameVer, Unlocked, Locked, Marked, Evicted
<1>3. CASE UpgradeXCas(t) \/ UpgradeS(t) \/ WriteLo(t) \/ WriteHi(t) \/
          Link(t) \/ UnlockXLoad(t) \/ UnlockXStore(t) \/ EvictLoad(t) \/
          EvictStore(t)
  BY <1>3
  DEF UpgradeXCas, UpgradeS, WriteLo, WriteHi, Link, UnlockXLoad,
      UnlockXStore, EvictLoad, EvictStore, Goto, Finish, LoadTo, TryLockX,
      local, W, NoWord, Idle, OLabel, XLabel, SLabel, SameVer, Unlocked,
      Locked, Marked, Evicted
<1>4. CASE DowngradeLoad(t) \/ DowngradeStore(t) \/ UnlockSLoad(t) \/
          UnlockSCas(t) \/ LoadMark(t) \/ MarkCas(t)
  BY <1>4
  DEF DowngradeLoad, DowngradeStore, UnlockSLoad, UnlockSCas, LoadMark,
      MarkCas, Goto, Finish, LoadTo, TryLockX, local, W, NoWord, Idle, OLabel,
      XLabel, SLabel, SameVer, Unlocked, Locked, Marked, Evicted
<1>5. CASE Unmark(t)
  BY <1>5, SameFields, LatchAssumption
  DEF Unmark, Goto, Finish, LoadTo, TryLockX, local, W, NoWord, Idle, OLabel,
      XLabel, SLabel, SameVer, Unlocked, Locked, Marked, Evicted
<1>q. QED
  BY <1>1, <1>2, <1>3, <1>4, <1>5
  DEF Step

\* Every step keeps the types: the CASes of tryLockS and unlockS stay in range
\* because of what was loaded (RegInv) and because a reader counts (CountInv).
LEMMA TypeStep ==
  ASSUME TypeOK, RegInv, CountInv, NEW t \in Thread, Step(t)
  PROVE  TypeOK'
<1> USE DEF TypeOK
<1>a. /\ pid[t] \in Page /\ W(t) \in Word /\ reg[t] \in Word /\ ver[t] \in Word
      /\ W(t).version \in Nat
  BY WordFields DEF W
<1>b. \A l \in Label : Goto(t, l) => pc' \in [Thread -> Label]
  BY DEF Goto
<1>c. \A w \in Word : SetWord(t, w) => word' \in [Page -> Word]
  BY <1>a DEF SetWord
<1>d. \A l \in Label : Finish(t, l) =>
        /\ pc' \in [Thread -> Label] /\ reg' \in [Thread -> Word]
        /\ ver' \in [Thread -> Word] /\ snap' \in [Thread -> Content]
        /\ UNCHANGED <<kind, pid, opsLeft>>
  BY <1>b, Blank DEF Finish
<1>e. \A s \in State : SameVersion(reg[t], s) \in Word /\ NextVersion(reg[t], s) \in Word
  BY <1>a, WordOps
<1>1. CASE AllocLoad(t) \/ AllocCas(t) \/ LoadEvicted(t) \/ LoadO(t) \/
          LoadX(t) \/ LoadS(t) \/ Unmark(t) \/ EvictCas(t) \/ XCas(t)
  BY <1>1, <1>a, <1>b, <1>c, <1>d, <1>e, Labels, States
  DEF AllocLoad, AllocCas, LoadEvicted, LoadO, LoadX, LoadS, Unmark, EvictCas,
      XCas, Idle, XLabel, SLabel, OLabel, TryLockX, LoadTo, shared, local
<1>2. CASE Fault(t) \/ Check(t) \/ CheckUnmark(t) \/ BeginUpgradeX(t) \/
          UpgradeX(t) \/ Link(t) \/ UnlockXLoad(t) \/ UnlockXStore(t) \/
          EvictLoad(t)
  BY <1>2, <1>a, <1>b, <1>c, <1>d, <1>e, Labels, States
  DEF Fault, Check, CheckUnmark, BeginUpgradeX, UpgradeX, Link, UnlockXLoad,
      UnlockXStore, EvictLoad, Idle, XLabel, SLabel, OLabel, TryLockX, LoadTo,
      shared, local
<1>3. CASE EvictStore(t) \/ DowngradeLoad(t) \/ UnlockSLoad(t) \/ LoadMark(t)
          \/ MarkCas(t)
  BY <1>3, <1>a, <1>b, <1>c, <1>d, <1>e, Labels, States
  DEF EvictStore, DowngradeLoad, UnlockSLoad, LoadMark, MarkCas, Idle, XLabel,
      SLabel, OLabel, TryLockX, LoadTo, shared, local
<1>4. CASE Begin(t)
  <2>1. \A l \in Label : Goto(t, l) => pc' \in [Thread -> Label]
    BY <1>b
  <2>2. pc' \in [Thread -> Label]
    BY <1>4, <1>b, Labels DEF Begin
  <2>3. pid' \in [Thread -> Page] /\ kind' \in [Thread -> Kind]
    BY <1>4 DEF Begin
  <2>4. snap' \in [Thread -> Content] /\ opsLeft' \in [Thread -> 0 .. MaxOps]
    BY <1>4, Blank, LatchAssumption DEF Begin
  <2>q. QED
    BY <1>4, <2>2, <2>3, <2>4 DEF Begin, shared
<1>5. CASE BeginAlloc(t)
  <2>1. pc' \in [Thread -> Label]
    BY <1>5, <1>b, Labels DEF BeginAlloc
  <2>2. /\ allocCount' \in 1 .. NPages
        /\ pid' \in [Thread -> Page]
        /\ kind' \in [Thread -> Kind]
    BY <1>5, LatchAssumption DEF BeginAlloc, Page, Kind
  <2>3. snap' \in [Thread -> Content] /\ opsLeft' \in [Thread -> 0 .. MaxOps]
    BY <1>5, Blank, LatchAssumption DEF BeginAlloc
  <2>q. QED
    BY <1>5, <2>1, <2>2, <2>3 DEF BeginAlloc
<1>6. CASE SCas(t)
  <2>1. reg[t].state \in State /\ (reg[t].state < MaxShared \/ reg[t].state = Marked)
    BY <1>6, <1>a, WordFields DEF SCas, RegInv, RegOf
  <2>2. SameVersion(reg[t], IF reg[t].state = Marked THEN 1 ELSE reg[t].state + 1) \in Word
    BY <2>1, <1>e, States
  <2>q. QED
    BY <1>6, <2>2, <1>b, <1>c, Labels DEF SCas, SLabel, local
<1>7. CASE ReadLo(t)
  <2>1. content[pid[t]].lo \in Nat
    BY <1>a DEF Content
  <2>2. snap' \in [Thread -> Content]
    BY <1>7, <2>1 DEF ReadLo, Content
  <2>q. QED
    BY <1>7, <2>2, <1>b, Labels DEF ReadLo, OLabel, shared
<1>8. CASE ReadHi(t)
  <2>1. content[pid[t]].hi \in Nat
    BY <1>a DEF Content
  <2>2. snap' \in [Thread -> Content]
    BY <1>8, <2>1 DEF ReadHi, Content
  <2>q. QED
    BY <1>8, <2>2, <1>b, Labels DEF ReadHi, OLabel, shared
<1>9. CASE UpgradeXCas(t)
  <2>1. kind' \in [Thread -> Kind]
    BY <1>9 DEF UpgradeXCas, Kind
  <2>2. pc' \in [Thread -> Label]
    BY <1>9, <1>b, Labels DEF UpgradeXCas, TryLockX, OLabel, XLabel
  <2>3. word' \in [Page -> Word]
    BY <1>9, <1>c, <1>e, States DEF UpgradeXCas, TryLockX
  <2>q. QED
    BY <1>9, <2>1, <2>2, <2>3 DEF UpgradeXCas, TryLockX
<1>10. CASE UpgradeS(t)
  <2>1. CASE Finish(t, "restarted") /\ UNCHANGED word
    BY <1>10, <2>1, <1>d, Labels DEF UpgradeS, Idle
  <2>2. CASE /\ ver[t].state < MaxShared
             /\ SetWord(t, SameVersion(ver[t], ver[t].state + 1))
             /\ kind' = [kind EXCEPT ![t] = "S"]
             /\ Goto(t, "shared")
             /\ UNCHANGED <<pid, reg, ver, snap, opsLeft>>
    <3>1. SameVersion(ver[t], ver[t].state + 1) \in Word
      BY <2>2, <1>a, WordFields, WordOps, States
    <3>2. kind' \in [Thread -> Kind]
      BY <2>2 DEF Kind
    <3>q. QED
      BY <1>10, <2>2, <3>1, <3>2, <1>b, <1>c, Labels DEF UpgradeS, SLabel
  <2>q. QED
    BY <1>10, <2>1, <2>2 DEF UpgradeS
<1>11. CASE WriteLo(t)
  <2>1. content' \in [Page -> Content]
    BY <1>11, <1>a DEF WriteLo, Content
  <2>q. QED
    BY <1>11, <2>1, <1>b, Labels DEF WriteLo, XLabel, local
<1>12. CASE WriteHi(t)
  <2>1. content' \in [Page -> Content]
    BY <1>12, <1>a DEF WriteHi, Content
  <2>q. QED
    BY <1>12, <2>1, <1>b, Labels DEF WriteHi, XLabel, local
<1>13. CASE DowngradeStore(t)
  <2>1. kind' \in [Thread -> Kind]
    BY <1>13 DEF DowngradeStore, Kind
  <2>q. QED
    BY <1>13, <2>1, <1>b, <1>c, <1>e, Labels, States DEF DowngradeStore, SLabel
<1>14. CASE UnlockSCas(t)
  <2>1. CASE CanCas(t)
    <3>1. reg[t].state \in State /\ reg[t].state \in 1 .. MaxShared
      BY <1>14, <2>1, <1>a, Shares, WordFields DEF UnlockSCas, CanCas, SLabel
    <3>2. SameVersion(reg[t], reg[t].state - 1) \in Word
      BY <3>1, <1>e, States
    <3>q. QED
      BY <1>14, <2>1, <3>2, <1>c, <1>d, Labels DEF UnlockSCas, Idle
  <2>2. CASE ~CanCas(t)
    BY <1>14, <2>2, <1>b, Labels DEF UnlockSCas, SLabel, local
  <2>q. QED
    BY <2>1, <2>2
<1>q. QED
  BY <1>1, <1>2, <1>3, <1>4, <1>5, <1>6, <1>7, <1>8, <1>9, <1>10, <1>11,
     <1>12, <1>13, <1>14
  DEF Step

\* Which states the CASes lead to; none of them is Locked by accident.
LEMMA StateFacts ==
  /\ Unlocked \in State \ {Locked} /\ Marked \in State \ {Locked}
  /\ Evicted \in State \ {Locked} /\ 1 \in State \ {Locked}
  /\ \A s \in State : s < MaxShared => s # Locked /\ s + 1 \in State \ {Locked}
  /\ \A s \in 1 .. MaxShared : s # Locked /\ s - 1 \in State \ {Locked}
BY LatchAssumption DEF State, Unlocked, Locked, Marked, Evicted

(***************************************************************************)
(* What a step of t does to the latch of its page: nothing, take it        *)
(* exclusively, give it up with a new version, or change a state in which  *)
(* nobody owns it exclusively.                                             *)
(***************************************************************************)
Keeps(t) ==
  /\ word' = word
  /\ pc'[t] \in XLabel <=> pc[t] \in XLabel
  /\ pc[t] \in XLabel => pid'[t] = pid[t]
  /\ pc'[t] \in Stores => reg'[t] = W(t)

Grabs(t) ==
  /\ W(t).state # Locked
  /\ word' = [word EXCEPT ![pid[t]] = SameVersion(W(t), Locked)]
  /\ pc[t] \notin XLabel /\ pc'[t] \in XLabel \ Stores
  /\ pid'[t] = pid[t]

Drops(t) ==
  /\ pc[t] \in Stores /\ pc'[t] \notin XLabel
  /\ \E s \in State \ {Locked} : word' = [word EXCEPT ![pid[t]] = NextVersion(W(t), s)]
  /\ pid'[t] = pid[t]

Shifts(t) ==
  /\ W(t).state # Locked
  /\ \E s \in State \ {Locked} : word' = [word EXCEPT ![pid[t]] = SameVersion(W(t), s)]
  /\ pc[t] \notin XLabel /\ pc'[t] \notin XLabel
  /\ pid'[t] = pid[t]

\* Every step has one of these effects.
LEMMA Effects ==
  ASSUME AssertsOn, TypeOK, RegInv, OwnerInv, FreshInv, CountInv,
         NEW t \in Thread, Step(t)
  PROVE  Keeps(t) \/ Grabs(t) \/ Drops(t) \/ Shifts(t)
<1>a. pid[t] \in Page /\ W(t) \in Word /\ reg[t] \in Word /\ ver[t] \in Word
  BY DEF TypeOK, W
<1>b. RegOf(t)
  BY DEF RegInv
<1>c. pc[t] = "allocCas" => W(t).state = Evicted
  BY DEF FreshInv
<1> USE DEF TypeOK
<1>1. CASE Begin(t) \/ BeginAlloc(t) \/ AllocLoad(t) \/ LoadEvicted(t) \/
          LoadO(t) \/ LoadX(t) \/ LoadS(t) \/ Fault(t) \/ ReadLo(t)
  BY <1>1
  DEF Begin, BeginAlloc, AllocLoad, LoadEvicted, LoadO, LoadX, LoadS, Fault,
      ReadLo, Keeps, Goto, W, Finish, LoadTo, shared, local, Idle, OLabel,
      XLabel, SLabel, Stores
<1>2. CASE ReadHi(t) \/ Check(t) \/ BeginUpgradeX(t) \/ UpgradeX(t) \/
          WriteLo(t) \/ WriteHi(t) \/ Link(t) \/ UnlockXLoad(t) \/
          EvictLoad(t)
  BY <1>2
  DEF ReadHi, Check, BeginUpgradeX, UpgradeX, WriteLo, WriteHi, Link,
      UnlockXLoad, EvictLoad, Keeps, Goto, W, Finish, LoadTo, shared, local,
      Idle, OLabel, XLabel, SLabel, Stores
<1>3. CASE DowngradeLoad(t) \/ UnlockSLoad(t) \/ LoadMark(t)
  BY <1>3
  DEF DowngradeLoad, UnlockSLoad, LoadMark, Keeps, Goto, W, Finish, LoadTo,
      shared, local, Idle, OLabel, XLabel, SLabel, Stores
<1>4. CASE AllocCas(t)
  BY <1>4, <1>c, StateFacts
  DEF AllocCas, Grabs, CanCas, SetWord, Goto, FreshInv, local, Idle, OLabel,
      XLabel, SLabel, Stores
<1>5. CASE EvictStore(t) \/ DowngradeStore(t)
  BY <1>5, <1>a, StateFacts
  DEF EvictStore, DowngradeStore, Drops, SetWord, Finish, Goto, OwnerInv,
      local, Idle, OLabel, XLabel, SLabel, Stores
<1>6. CASE Unmark(t)
  <2>1. CASE CanCas(t) /\ word' # word
    BY <1>6, <2>1, <1>a, <1>b, StateFacts
    DEF Unmark, Shifts, CanCas, SetWord, Finish, Goto, RegOf, local, Idle, OLabel, XLabel,
        SLabel, Stores
  <2>2. CASE word' = word
    BY <1>6, <2>2 DEF Unmark, Keeps, Finish, Goto, local, Idle, XLabel, SLabel, Stores
  <2>q. QED
    BY <1>6, <2>1, <2>2 DEF Unmark
<1>7. CASE EvictCas(t)
  <2>1. CASE CanCas(t)
    BY <1>7, <1>a, <1>b, <2>1, StateFacts
    DEF EvictCas, Grabs, TryLockX, CanCas, SetWord, Goto, RegOf, XLabel, Stores
  <2>2. CASE ~CanCas(t)
    BY <1>7, <2>2 DEF EvictCas, Keeps, TryLockX, Goto, XLabel, Stores
  <2>q. QED
    BY <2>1, <2>2
<1>8. CASE XCas(t)
  <2>1. CASE CanCas(t)
    BY <1>8, <1>a, <1>b, <2>1, StateFacts
    DEF XCas, Grabs, TryLockX, CanCas, SetWord, Goto, RegOf, XLabel, Stores
  <2>2. CASE ~CanCas(t)
    BY <1>8, <2>2 DEF XCas, Keeps, TryLockX, Goto, XLabel, Stores
  <2>q. QED
    BY <2>1, <2>2
<1>9. CASE SCas(t)
  <2>1. CASE CanCas(t)
    <3>1. /\ W(t).state \in State \ {Locked}
          /\ (IF reg[t].state = Marked THEN 1 ELSE reg[t].state + 1) \in State \ {Locked}
      BY <1>9, <2>1, <1>a, <1>b, WordFields, StateFacts DEF SCas, CanCas, RegOf
    <3>q. QED
      BY <1>9, <2>1, <3>1 DEF SCas, Shifts, CanCas, SetWord, Goto, local, XLabel
  <2>2. CASE ~CanCas(t)
    BY <1>9, <2>2 DEF SCas, Keeps, Goto, XLabel, Stores
  <2>q. QED
    BY <2>1, <2>2
<1>10. CASE CheckUnmark(t)
  <2>1. CASE CanCas(t) /\ word' # word
    BY <1>10, <2>1, <1>a, <1>b, StateFacts
    DEF CheckUnmark, Shifts, CanCas, SetWord, Finish, Goto, RegOf, local, Idle, OLabel, XLabel,
        SLabel, Stores
  <2>2. CASE word' = word
    BY <1>10, <2>2 DEF CheckUnmark, Keeps, Finish, Goto, local, Idle, XLabel, SLabel, Stores
  <2>q. QED
    BY <1>10, <2>1, <2>2 DEF CheckUnmark
<1>11. CASE UpgradeXCas(t)
  <2>1. CASE CanCas(t)
    BY <1>11, <1>a, <1>b, <2>1, StateFacts
    DEF UpgradeXCas, Grabs, TryLockX, CanCas, SetWord, Goto, RegOf, XLabel, Stores
  <2>2. CASE ~CanCas(t)
    BY <1>11, <2>2 DEF UpgradeXCas, Keeps, TryLockX, Goto, XLabel, Stores
  <2>q. QED
    BY <2>1, <2>2
<1>12. CASE UpgradeS(t)
  <2>1. CASE Finish(t, "restarted") /\ word' = word
    BY <1>12, <2>1 DEF UpgradeS, Keeps, Finish, Goto, XLabel, Stores
  <2>2. CASE /\ W(t) = ver[t] /\ ver[t].state < MaxShared
             /\ SetWord(t, SameVersion(ver[t], ver[t].state + 1))
             /\ Goto(t, "shared") /\ pid' = pid
    <3>1. W(t).state \in State \ {Locked} /\ ver[t].state + 1 \in State \ {Locked}
      BY <2>2, <1>a, WordFields, StateFacts
    <3>q. QED
      BY <1>12, <2>2, <3>1 DEF UpgradeS, Shifts, SetWord, Goto, XLabel
  <2>q. QED
    BY <1>12, <2>1, <2>2 DEF UpgradeS
<1>13. CASE UnlockXStore(t)
  <2>1. reg[t] = W(t) /\ pc[t] \in Stores
    BY <1>13 DEF UnlockXStore, OwnerInv, Stores
  <2>2. pc'[t] \notin XLabel /\ pid' = pid
    BY <1>13 DEF UnlockXStore, Finish, Goto, local, XLabel
  <2>q. QED
    BY <1>13, <1>a, <2>1, <2>2, StateFacts DEF UnlockXStore, Drops, SetWord
<1>14. CASE UnlockSCas(t)
  <2>1. CASE CanCas(t)
    <3>1. /\ W(t).state \in State \ {Locked}
          /\ reg[t].state - 1 \in State \ {Locked}
      BY <1>14, <2>1, <1>a, Shares, WordFields, StateFacts DEF UnlockSCas, CanCas, SLabel
    <3>q. QED
      BY <1>14, <2>1, <3>1 DEF UnlockSCas, Shifts, CanCas, SetWord, Finish, Goto, XLabel
  <2>2. CASE ~CanCas(t)
    BY <1>14, <2>2 DEF UnlockSCas, Keeps, Goto, local, XLabel, Stores
  <2>q. QED
    BY <2>1, <2>2
<1>15. CASE MarkCas(t)
  <2>1. CASE CanCas(t) /\ word' # word
    BY <1>15, <2>1, <1>a, <1>b, StateFacts
    DEF MarkCas, Shifts, CanCas, SetWord, Finish, Goto, RegOf, local, Idle, OLabel, XLabel,
        SLabel, Stores
  <2>2. CASE word' = word
    BY <1>15, <2>2 DEF MarkCas, Keeps, Finish, Goto, local, Idle, XLabel, SLabel, Stores
  <2>q. QED
    BY <1>15, <2>1, <2>2 DEF MarkCas
<1>q. QED
  BY <1>1, <1>2, <1>3, <1>4, <1>5, <1>6, <1>7, <1>8, <1>9, <1>10, <1>11,
     <1>12, <1>13, <1>14, <1>15
  DEF Step

\* The owner of a page stays its only owner until it drops it.
LEMMA OwnerStep ==
  ASSUME AssertsOn, TypeOK, RegInv, OwnerInv, FreshInv, CountInv,
         NEW t \in Thread, Step(t)
  PROVE  OwnerInv'
<1>a. \A u \in Thread \ {t} : pc'[u] = pc[u] /\ pid'[u] = pid[u] /\ reg'[u] = reg[u]
  BY ThreadFrame
<1>b. \A u \in Thread : pid[u] \in Page /\ word[pid[u]] \in Word
  BY DEF TypeOK
<1>c. \A p \in Page : word[p] \in Word
  BY DEF TypeOK
<1> USE DEF OwnerInv, W
<1>1. CASE Keeps(t)
  BY <1>1, <1>a DEF Keeps, Stores, XLabel
<1>2. CASE Grabs(t)
  BY <1>2, <1>a, <1>b, SameFields DEF Grabs, Stores, XLabel, TypeOK
<1>3. CASE Drops(t)
  BY <1>3, <1>a, <1>b, NextFields DEF Drops, Stores, XLabel, TypeOK
<1>4. CASE Shifts(t)
  BY <1>4, <1>a, <1>b, SameFields DEF Shifts, Stores, XLabel, TypeOK
<1>q. QED
  BY <1>1, <1>2, <1>3, <1>4, Effects

\* A step that belongs to a guard in progress and takes no new page.
Within(t) ==
  /\ pc[t] \notin Idle /\ pid'[t] = pid[t]
  /\ linked' = linked /\ allocCount' = allocCount
  /\ pc'[t] \in {"alloc", "allocCas"} => pc[t] \in {"alloc", "allocCas"} /\ word' = word

\* Only the start of a guard and the linking of a page change what is linked.
LEMMA WithinStep ==
  ASSUME TypeOK, NEW t \in Thread, Step(t)
  PROVE  Begin(t) \/ BeginAlloc(t) \/ Link(t) \/ Within(t)
<1> USE DEF TypeOK
<1>1. CASE Begin(t) \/ BeginAlloc(t) \/ Link(t)
  BY <1>1
  DEF Begin, BeginAlloc, Link
<1>2. CASE AllocLoad(t) \/ AllocCas(t) \/ LoadEvicted(t) \/ LoadO(t) \/
          LoadX(t) \/ LoadS(t) \/ Unmark(t) \/ EvictCas(t) \/ XCas(t)
  BY <1>2
  DEF AllocLoad, AllocCas, LoadEvicted, LoadO, LoadX, LoadS, Unmark, EvictCas,
      XCas, Within, TryLockX, LoadTo, Finish, Goto, shared, local, Idle
<1>3. CASE Fault(t) \/ SCas(t) \/ ReadLo(t) \/ ReadHi(t) \/ Check(t) \/
          CheckUnmark(t) \/ BeginUpgradeX(t) \/ UpgradeX(t) \/ UpgradeXCas(t)
  BY <1>3
  DEF Fault, SCas, ReadLo, ReadHi, Check, CheckUnmark, BeginUpgradeX,
      UpgradeX, UpgradeXCas, Within, TryLockX, LoadTo, Finish, Goto, shared,
      local, Idle
<1>4. CASE UpgradeS(t) \/ WriteLo(t) \/ WriteHi(t) \/ UnlockXLoad(t) \/
          UnlockXStore(t) \/ EvictLoad(t) \/ EvictStore(t) \/ DowngradeLoad(t)
          \/ DowngradeStore(t)
  BY <1>4
  DEF UpgradeS, WriteLo, WriteHi, UnlockXLoad, UnlockXStore, EvictLoad,
      EvictStore, DowngradeLoad, DowngradeStore, Within, TryLockX, LoadTo,
      Finish, Goto, shared, local, Idle
<1>5. CASE UnlockSLoad(t) \/ UnlockSCas(t) \/ LoadMark(t) \/ MarkCas(t)
  BY <1>5
  DEF UnlockSLoad, UnlockSCas, LoadMark, MarkCas, Within, TryLockX, LoadTo,
      Finish, Goto, shared, local, Idle
<1>q. QED
  BY <1>1, <1>2, <1>3, <1>4, <1>5
  DEF Step

\* A page under allocation belongs to its allocator alone.
LEMMA FreshStep ==
  ASSUME AssertsOn, TypeOK, RegInv, OwnerInv, FreshInv, CountInv,
         NEW t \in Thread, Step(t)
  PROVE  FreshInv'
<1>a. \A u \in Thread \ {t} : pc'[u] = pc[u] /\ pid'[u] = pid[u]
  BY ThreadFrame
<1>b. \A q \in Page : q # pid[t] => word'[q] = word[q]
  BY PageFrame
<1> USE DEF FreshInv, W, TypeOK
<1>1. CASE Begin(t)
  BY <1>1, <1>a DEF Begin, Goto, shared, Idle
<1>2. CASE BeginAlloc(t)
  <2>1. /\ allocCount \in Page /\ allocCount' = allocCount + 1
        /\ pid'[t] = allocCount /\ pc'[t] = "alloc"
        /\ word' = word /\ linked' = linked
    BY <1>2, LatchAssumption DEF BeginAlloc, Goto, Page
  <2>2. \A p \in Page : p \in Int
    BY DEF Page
  <2>3. \A p \in linked' : p < allocCount'
    BY <2>1, <2>2
  <2>4. ASSUME NEW u \in Thread, pc'[u] \notin Idle
        PROVE  pid'[u] < allocCount'
    <3>1. u # t => pid[u] < allocCount /\ pid[u] \in Int /\ pid'[u] = pid[u]
      BY <2>2, <2>4, <1>a
    <3>q. QED
      BY <3>1, <2>1, <2>2
  <2>5. \A p \in Page : p >= allocCount' => word'[p].state = Evicted
    BY <2>1, <2>2
  <2>6. ASSUME NEW u \in Thread, pc'[u] \in {"alloc", "allocCas"}
        PROVE  /\ word'[pid'[u]].state = Evicted
               /\ pid'[u] \notin linked'
               /\ \A v \in Thread \ {u} : pc'[v] \notin Idle => pid'[v] # pid'[u]
    <3>1. CASE u = t
      BY <3>1, <2>1, <2>2, <1>a
    <3>2. CASE u # t
      <4>1. pid[u] < allocCount
        BY <3>2, <2>6, <1>a DEF Idle
      <4>q. QED
        BY <3>2, <4>1, <2>6, <2>1, <2>2, <1>a
    <3>q. QED
      BY <3>1, <3>2
  <2>q. QED
    BY <2>3, <2>4, <2>5, <2>6
<1>3. CASE Link(t)
  BY <1>3, <1>a DEF Link, local, Idle
<1>4. CASE Within(t)
  <2>1. \A p \in linked' : p < allocCount'
    BY <1>4 DEF Within
  <2>2. \A u \in Thread : pc'[u] \notin Idle => pid'[u] < allocCount'
    BY <1>4, <1>a DEF Within
  <2>3. \A p \in Page : p >= allocCount' => word'[p].state = Evicted
    <3>1. pid[t] < allocCount /\ \A p \in Page : p \in Int
      BY <1>4 DEF Within, Page
    <3>q. QED
      BY <3>1, <1>4, <1>b DEF Within
  <2>4. ASSUME NEW u \in Thread, pc'[u] \in {"alloc", "allocCas"}
        PROVE  /\ word'[pid'[u]].state = Evicted
               /\ pid'[u] \notin linked'
               /\ \A v \in Thread \ {u} : pc'[v] \notin Idle => pid'[v] # pid'[u]
    <3>1. pc[u] \in {"alloc", "allocCas"} /\ pid'[u] = pid[u]
      BY <1>4, <2>4, <1>a DEF Within
    <3>2. word'[pid[u]] = word[pid[u]]
      BY <1>4, <2>4, <3>1, <1>b DEF Within
    <3>q. QED
      BY <1>4, <3>1, <3>2, <1>a DEF Within
  <2>q. QED
    BY <2>1, <2>2, <2>3, <2>4
<1>q. QED
  BY <1>1, <1>2, <1>3, <1>4, WithinStep

(***************************************************************************)
(* What a step of t does to the number of readers of its page.             *)
(***************************************************************************)
Joins(t) ==
  /\ pc[t] \notin SLabel /\ pc'[t] \in SLabel /\ pid'[t] = pid[t]
  /\ \E w \in Word : /\ word' = [word EXCEPT ![pid[t]] = w]
                     /\ Readers(w) = Readers(W(t)) + 1

Leaves(t) ==
  /\ pc[t] \in SLabel /\ pc'[t] \notin SLabel /\ pid'[t] = pid[t]
  /\ \E w \in Word : /\ word' = [word EXCEPT ![pid[t]] = w]
                     /\ Readers(w) = Readers(W(t)) - 1

Neither(t) ==
  /\ pc[t] \in SLabel <=> pc'[t] \in SLabel
  /\ pc[t] \in SLabel => pid'[t] = pid[t]
  /\ \/ word' = word
     \/ \E w \in Word : /\ word' = [word EXCEPT ![pid[t]] = w]
                        /\ Readers(w) = Readers(W(t))

\* How each new state counts.
LEMMA ReadersOf ==
  /\ \A w \in Word : w.state \in {Unlocked, Locked, Marked, Evicted} => Readers(w) = 0
  /\ \A w \in Word : w.state = 1 => Readers(w) = 1
  /\ \A w, x \in Word : w.state < MaxShared /\ x.state = w.state + 1
                          => Readers(x) = Readers(w) + 1
  /\ \A w, x \in Word : w.state \in 1 .. MaxShared /\ x.state = w.state - 1
                          => Readers(x) = Readers(w) - 1
BY LatchAssumption DEF Readers, Word, State, Unlocked, Locked, Marked, Evicted

\* Every step has one of these effects on the readers.
LEMMA CountEffects ==
  ASSUME AssertsOn, TypeOK, RegInv, OwnerInv, FreshInv, CountInv,
         NEW t \in Thread, Step(t)
  PROVE  Joins(t) \/ Leaves(t) \/ Neither(t)
<1>a. pid[t] \in Page /\ W(t) \in Word /\ reg[t] \in Word /\ ver[t] \in Word
  BY DEF TypeOK, W
<1>b. RegOf(t)
  BY DEF RegInv
<1>c. pc[t] = "allocCas" => W(t).state = Evicted
  BY DEF FreshInv
<1> USE DEF TypeOK
<1>1. CASE Begin(t) \/ BeginAlloc(t) \/ AllocLoad(t) \/ LoadEvicted(t) \/
          LoadO(t) \/ LoadX(t) \/ LoadS(t) \/ Fault(t) \/ ReadLo(t)
  BY <1>1
  DEF Begin, BeginAlloc, AllocLoad, LoadEvicted, LoadO, LoadX, LoadS, Fault,
      ReadLo, Neither, Goto, Finish, LoadTo, shared, local, Idle, OLabel,
      XLabel, SLabel
<1>2. CASE ReadHi(t) \/ Check(t) \/ BeginUpgradeX(t) \/ UpgradeX(t) \/
          WriteLo(t) \/ WriteHi(t) \/ Link(t) \/ UnlockXLoad(t) \/
          EvictLoad(t)
  BY <1>2
  DEF ReadHi, Check, BeginUpgradeX, UpgradeX, WriteLo, WriteHi, Link,
      UnlockXLoad, EvictLoad, Neither, Goto, Finish, LoadTo, shared, local,
      Idle, OLabel, XLabel, SLabel
<1>3. CASE DowngradeLoad(t) \/ UnlockSLoad(t) \/ LoadMark(t)
  BY <1>3
  DEF DowngradeLoad, UnlockSLoad, LoadMark, Neither, Goto, Finish, LoadTo,
      shared, local, Idle, OLabel, XLabel, SLabel
<1>4. CASE AllocCas(t)
  <2>1. CASE CanCas(t)
    <3>1. W(t) = reg[t] /\ W(t).state \in {Unlocked, Marked, Evicted}
      BY <1>4, <2>1, <1>b, <1>c DEF AllocCas, CanCas, RegOf
    <3>2. SameVersion(reg[t], Locked) \in Word /\ Readers(SameVersion(reg[t], Locked)) = 0
      BY <1>a, WordOps, States, SameFields, ReadersOf
    <3>3. Readers(W(t)) = 0
      BY <3>1, <1>a, ReadersOf
    <3>q. QED
      BY <1>4, <2>1, <3>2, <3>3 DEF AllocCas, Neither, TryLockX, CanCas, SetWord, Goto, Finish,
          local, Idle, SLabel
  <2>2. CASE word' = word
    BY <1>4, <2>2 DEF AllocCas, Neither, TryLockX, Goto, Finish, local, Idle, SLabel
  <2>q. QED
    BY <1>4, <2>1, <2>2 DEF AllocCas, TryLockX
<1>5. CASE Unmark(t)
  <2>1. CASE CanCas(t)
    <3>1. W(t) = reg[t] /\ W(t).state \in {Unlocked, Marked, Evicted}
      BY <1>5, <2>1, <1>b, <1>c DEF Unmark, CanCas, RegOf
    <3>2. SameVersion(reg[t], Unlocked) \in Word /\ Readers(SameVersion(reg[t], Unlocked)) = 0
      BY <1>a, WordOps, States, SameFields, ReadersOf
    <3>3. Readers(W(t)) = 0
      BY <3>1, <1>a, ReadersOf
    <3>q. QED
      BY <1>5, <2>1, <3>2, <3>3 DEF Unmark, Neither, TryLockX, CanCas, SetWord, Goto, Finish,
          local, Idle, SLabel
  <2>2. CASE word' = word
    BY <1>5, <2>2 DEF Unmark, Neither, TryLockX, Goto, Finish, local, Idle, SLabel
  <2>q. QED
    BY <1>5, <2>1, <2>2 DEF Unmark, TryLockX
<1>6. CASE EvictCas(t)
  <2>1. CASE CanCas(t)
    <3>1. W(t) = reg[t] /\ W(t).state \in {Unlocked, Marked, Evicted}
      BY <1>6, <2>1, <1>b, <1>c DEF EvictCas, CanCas, RegOf
    <3>2. SameVersion(reg[t], Locked) \in Word /\ Readers(SameVersion(reg[t], Locked)) = 0
      BY <1>a, WordOps, States, SameFields, ReadersOf
    <3>3. Readers(W(t)) = 0
      BY <3>1, <1>a, ReadersOf
    <3>q. QED
      BY <1>6, <2>1, <3>2, <3>3 DEF EvictCas, Neither, TryLockX, CanCas, SetWord, Goto, Finish,
          local, Idle, SLabel
  <2>2. CASE word' = word
    BY <1>6, <2>2 DEF EvictCas, Neither, TryLockX, Goto, Finish, local, Idle, SLabel
  <2>q. QED
    BY <1>6, <2>1, <2>2 DEF EvictCas, TryLockX
<1>7. CASE XCas(t)
  <2>1. CASE CanCas(t)
    <3>1. W(t) = reg[t] /\ W(t).state \in {Unlocked, Marked, Evicted}
      BY <1>7, <2>1, <1>b, <1>c DEF XCas, CanCas, RegOf
    <3>2. SameVersion(reg[t], Locked) \in Word /\ Readers(SameVersion(reg[t], Locked)) = 0
      BY <1>a, WordOps, States, SameFields, ReadersOf
    <3>3. Readers(W(t)) = 0
      BY <3>1, <1>a, ReadersOf
    <3>q. QED
      BY <1>7, <2>1, <3>2, <3>3 DEF XCas, Neither, TryLockX, CanCas, SetWord, Goto, Finish,
          local, Idle, SLabel
  <2>2. CASE word' = word
    BY <1>7, <2>2 DEF XCas, Neither, TryLockX, Goto, Finish, local, Idle, SLabel
  <2>q. QED
    BY <1>7, <2>1, <2>2 DEF XCas, TryLockX
<1>8. CASE SCas(t)
  <2>1. CASE CanCas(t)
    <3> DEFINE s == IF reg[t].state = Marked THEN 1 ELSE reg[t].state + 1
               w == SameVersion(reg[t], s)
    <3>1. s \in State /\ (reg[t].state = Marked \/ reg[t].state < MaxShared)
      BY <1>8, <1>a, <1>b, WordFields, States DEF SCas, RegOf
    <3>2. w \in Word /\ w.state = s
      BY <3>1, <1>a, WordOps, SameFields
    <3>3. Readers(w) = Readers(W(t)) + 1
      <4>1. CASE reg[t].state = Marked
        BY <4>1, <2>1, <3>2, <1>a, ReadersOf DEF CanCas
      <4>2. CASE reg[t].state # Marked
        BY <4>2, <2>1, <3>1, <3>2, <1>a, ReadersOf DEF CanCas
      <4>q. QED
        BY <4>1, <4>2
    <3>q. QED
      BY <1>8, <2>1, <3>2, <3>3 DEF SCas, Joins, CanCas, SetWord, Goto, local, SLabel
  <2>2. CASE ~CanCas(t)
    BY <1>8, <2>2 DEF SCas, Neither, Goto, local, SLabel
  <2>q. QED
    BY <2>1, <2>2
<1>9. CASE CheckUnmark(t)
  <2>1. CASE CanCas(t)
    <3>1. W(t) = reg[t] /\ W(t).state \in {Unlocked, Marked, Evicted}
      BY <1>9, <2>1, <1>b, <1>c DEF CheckUnmark, CanCas, RegOf
    <3>2. SameVersion(reg[t], Unlocked) \in Word /\ Readers(SameVersion(reg[t], Unlocked)) = 0
      BY <1>a, WordOps, States, SameFields, ReadersOf
    <3>3. Readers(W(t)) = 0
      BY <3>1, <1>a, ReadersOf
    <3>q. QED
      BY <1>9, <2>1, <3>2, <3>3 DEF CheckUnmark, Neither, TryLockX, CanCas, SetWord, Goto,
          Finish, local, Idle, SLabel
  <2>2. CASE word' = word
    BY <1>9, <2>2 DEF CheckUnmark, Neither, TryLockX, Goto, Finish, local, Idle, SLabel
  <2>q. QED
    BY <1>9, <2>1, <2>2 DEF CheckUnmark, TryLockX
<1>10. CASE UpgradeXCas(t)
  <2>1. CASE CanCas(t)
    <3>1. W(t) = reg[t] /\ W(t).state \in {Unlocked, Marked, Evicted}
      BY <1>10, <2>1, <1>b, <1>c DEF UpgradeXCas, CanCas, RegOf
    <3>2. SameVersion(reg[t], Locked) \in Word /\ Readers(SameVersion(reg[t], Locked)) = 0
      BY <1>a, WordOps, States, SameFields, ReadersOf
    <3>3. Readers(W(t)) = 0
      BY <3>1, <1>a, ReadersOf
    <3>q. QED
      BY <1>10, <2>1, <3>2, <3>3 DEF UpgradeXCas, Neither, TryLockX, CanCas, SetWord, Goto,
          Finish, local, Idle, SLabel
  <2>2. CASE word' = word
    BY <1>10, <2>2 DEF UpgradeXCas, Neither, TryLockX, Goto, Finish, local, Idle, SLabel
  <2>q. QED
    BY <1>10, <2>1, <2>2 DEF UpgradeXCas, TryLockX
<1>11. CASE UpgradeS(t)
  <2>1. CASE Finish(t, "restarted") /\ word' = word
    BY <1>11, <2>1 DEF UpgradeS, Neither, Finish, Goto, SLabel
  <2>2. CASE /\ W(t) = ver[t] /\ ver[t].state < MaxShared
             /\ SetWord(t, SameVersion(ver[t], ver[t].state + 1))
             /\ Goto(t, "shared") /\ pid' = pid
    <3> DEFINE w == SameVersion(ver[t], ver[t].state + 1)
    <3>1. ver[t].state + 1 \in State
      BY <2>2, <1>a, WordFields, States
    <3>2. w \in Word /\ w.state = W(t).state + 1
      BY <2>2, <3>1, <1>a, WordOps, SameFields
    <3>3. Readers(w) = Readers(W(t)) + 1
      BY <2>2, <3>2, <1>a, ReadersOf
    <3>q. QED
      BY <1>11, <2>2, <3>2, <3>3 DEF UpgradeS, Joins, SetWord, Goto, SLabel
  <2>q. QED
    BY <1>11, <2>1, <2>2 DEF UpgradeS
<1>12. CASE UnlockXStore(t)
  <2>1. W(t).state = Locked /\ reg[t] = W(t)
    BY <1>12 DEF UnlockXStore, OwnerInv, XLabel, Stores
  <2>2. /\ NextVersion(reg[t], Unlocked) \in Word
        /\ Readers(NextVersion(reg[t], Unlocked)) = 0 /\ Readers(W(t)) = 0
    BY <2>1, <1>a, WordOps, States, NextFields, ReadersOf
  <2>q. QED
    BY <1>12, <2>2 DEF UnlockXStore, Neither, SetWord, Goto, Finish, local, Idle, SLabel
<1>13. CASE EvictStore(t)
  <2>1. W(t).state = Locked /\ reg[t] = W(t)
    BY <1>13 DEF EvictStore, OwnerInv, XLabel, Stores
  <2>2. /\ NextVersion(reg[t], Evicted) \in Word
        /\ Readers(NextVersion(reg[t], Evicted)) = 0 /\ Readers(W(t)) = 0
    BY <2>1, <1>a, WordOps, States, NextFields, ReadersOf
  <2>q. QED
    BY <1>13, <2>2 DEF EvictStore, Neither, SetWord, Goto, Finish, local, Idle, SLabel
<1>14. CASE DowngradeStore(t)
  <2>1. W(t).state = Locked /\ reg[t] = W(t)
    BY <1>14 DEF DowngradeStore, OwnerInv, XLabel, Stores
  <2>2. /\ NextVersion(reg[t], 1) \in Word
        /\ Readers(NextVersion(reg[t], 1)) = 1 /\ Readers(W(t)) = 0
    BY <2>1, <1>a, WordOps, States, NextFields, ReadersOf
  <2>3. Readers(NextVersion(reg[t], 1)) = Readers(W(t)) + 1
    BY <2>2
  <2>q. QED
    BY <1>14, <2>2, <2>3 DEF DowngradeStore, Joins, SetWord, Goto, SLabel
<1>15. CASE UnlockSCas(t)
  <2>1. CASE CanCas(t)
    <3> DEFINE w == SameVersion(reg[t], reg[t].state - 1)
    <3>1. W(t).state \in 1 .. MaxShared /\ W(t) = reg[t]
      BY <1>15, <2>1, Shares DEF UnlockSCas, CanCas, SLabel
    <3>2. reg[t].state - 1 \in State
      BY <3>1, <1>a, WordFields, States
    <3>3. w \in Word /\ w.state = W(t).state - 1
      BY <3>1, <3>2, <1>a, WordOps, SameFields
    <3>4. Readers(w) = Readers(W(t)) - 1
      BY <3>1, <3>3, <1>a, ReadersOf
    <3>q. QED
      BY <1>15, <2>1, <3>3, <3>4 DEF UnlockSCas, Leaves, CanCas, SetWord, Finish, Goto, SLabel
  <2>2. CASE ~CanCas(t)
    BY <1>15, <2>2 DEF UnlockSCas, Neither, Goto, local, SLabel
  <2>q. QED
    BY <2>1, <2>2
<1>16. CASE MarkCas(t)
  <2>1. CASE CanCas(t)
    <3>1. W(t) = reg[t] /\ W(t).state \in {Unlocked, Marked, Evicted}
      BY <1>16, <2>1, <1>b, <1>c DEF MarkCas, CanCas, RegOf
    <3>2. SameVersion(reg[t], Marked) \in Word /\ Readers(SameVersion(reg[t], Marked)) = 0
      BY <1>a, WordOps, States, SameFields, ReadersOf
    <3>3. Readers(W(t)) = 0
      BY <3>1, <1>a, ReadersOf
    <3>q. QED
      BY <1>16, <2>1, <3>2, <3>3 DEF MarkCas, Neither, TryLockX, CanCas, SetWord, Goto, Finish,
          local, Idle, SLabel
  <2>2. CASE word' = word
    BY <1>16, <2>2 DEF MarkCas, Neither, TryLockX, Goto, Finish, local, Idle, SLabel
  <2>q. QED
    BY <1>16, <2>1, <2>2 DEF MarkCas, TryLockX
<1>q. QED
  BY <1>1, <1>2, <1>3, <1>4, <1>5, <1>6, <1>7, <1>8, <1>9, <1>10, <1>11,
     <1>12, <1>13, <1>14, <1>15, <1>16
  DEF Step

\* The word of a page goes on counting its readers.
LEMMA CountStep ==
  ASSUME AssertsOn, TypeOK, RegInv, OwnerInv, FreshInv, CountInv,
         NEW t \in Thread, Step(t)
  PROVE  CountInv'
<1>a. \A u \in Thread \ {t} : pc'[u] = pc[u] /\ pid'[u] = pid[u]
  BY ThreadFrame
<1>b. \A q \in Page \ {pid[t]} : word'[q] = word[q]
  BY PageFrame
<1>c. \A p \in Page : IsFiniteSet(SOwner(p)) /\ Cardinality(SOwner(p)) = Readers(word[p])
  BY FS_Subset, LatchAssumption DEF SOwner, CountInv
<1>d. pid[t] \in Page /\ \A p \in Page : word[p] \in Word
  BY DEF TypeOK
<1>s. SUFFICES ASSUME NEW p \in Page
               PROVE  Cardinality(SOwner(p)') = Readers(word'[p])
  BY DEF CountInv
<1>1. CASE Joins(t)
  <2>1. CASE p = pid[t]
    <3>1. t \notin SOwner(p) /\ SOwner(p)' = SOwner(p) \union {t}
      BY <1>1, <2>1, <1>a DEF Joins, SOwner
    <3>2. Readers(word'[p]) = Readers(word[p]) + 1
      BY <1>1, <2>1, <1>d DEF Joins, W, TypeOK
    <3>q. QED
      BY <3>1, <3>2, <1>c, FS_AddElement
  <2>2. CASE p # pid[t]
    <3>1. SOwner(p)' = SOwner(p)
      BY <1>1, <2>2, <1>a DEF Joins, SOwner
    <3>q. QED
      BY <3>1, <2>2, <1>b, <1>c
  <2>q. QED
    BY <2>1, <2>2
<1>2. CASE Leaves(t)
  <2>1. CASE p = pid[t]
    <3>1. t \in SOwner(p) /\ SOwner(p)' = SOwner(p) \ {t}
      BY <1>2, <2>1, <1>a DEF Leaves, SOwner
    <3>2. Readers(word'[p]) = Readers(word[p]) - 1
      BY <1>2, <2>1, <1>d DEF Leaves, W, TypeOK
    <3>q. QED
      BY <3>1, <3>2, <1>c, FS_RemoveElement
  <2>2. CASE p # pid[t]
    <3>1. SOwner(p)' = SOwner(p)
      BY <1>2, <2>2, <1>a DEF Leaves, SOwner
    <3>q. QED
      BY <3>1, <2>2, <1>b, <1>c
  <2>q. QED
    BY <2>1, <2>2
<1>3. CASE Neither(t)
  <2>1. SOwner(p)' = SOwner(p)
    BY <1>3, <1>a DEF Neither, SOwner
  <2>2. Readers(word'[p]) = Readers(word[p])
    BY <1>3, <1>d DEF Neither, W, TypeOK
  <2>q. QED
    BY <2>1, <2>2, <1>c
<1>q. QED
  BY <1>1, <1>2, <1>3, CountEffects

\* The owner holds a page that is not in ResidentPageSet.
Away == {"fault", "storeEvicted"}

\* A step that leaves ResidentPageSet alone: a page whose owner faults it in
\* is one that was Evicted, and no other step enters or leaves Evicted.
SameSet(t) ==
  /\ resident' = resident
  /\ pc'[t] \in XLabel =>
       (pc'[t] \in Away <=> IF pc[t] \in XLabel THEN pc[t] \in Away
                                               ELSE W(t).state = Evicted)
  /\ word'[pid[t]] # word[pid[t]] /\ word'[pid[t]].state # Locked =>
       /\ word'[pid[t]].state # Evicted
       /\ pc[t] \notin Away
       /\ W(t).state # Evicted

\* Every step faults, evicts or leaves ResidentPageSet alone.
LEMMA SetEffects ==
  ASSUME AssertsOn, TypeOK, RegInv, OwnerInv, FreshInv, CountInv,
         NEW t \in Thread, Step(t)
  PROVE  Fault(t) \/ EvictLoad(t) \/ EvictStore(t) \/ SameSet(t)
<1>a. pid[t] \in Page /\ W(t) \in Word /\ reg[t] \in Word /\ ver[t] \in Word
  BY DEF TypeOK, W
<1>b. RegOf(t)
  BY DEF RegInv
<1>c. pc[t] = "allocCas" => W(t).state = Evicted
  BY DEF FreshInv
<1>d. Marked # Evicted /\ Unlocked # Evicted /\ Locked # Evicted /\ 1 # Evicted
      /\ (\A s \in Int : s <= MaxShared => s # Evicted)
  BY LatchAssumption DEF Marked, Evicted, Unlocked, Locked
<1>e. pc[t] \in Stores => reg[t] = W(t) /\ W(t).state = Locked
  BY DEF OwnerInv, Stores, XLabel
<1> USE <1>d DEF TypeOK
<1>1. CASE Begin(t) \/ BeginAlloc(t) \/ AllocLoad(t) \/ LoadEvicted(t) \/
          LoadO(t) \/ LoadX(t) \/ LoadS(t) \/ ReadLo(t) \/ ReadHi(t)
  BY <1>1
  DEF Begin, BeginAlloc, AllocLoad, LoadEvicted, LoadO, LoadX, LoadS, ReadLo,
      ReadHi, SameSet, Away, Goto, Finish, LoadTo, shared, local, W, Idle,
      OLabel, XLabel, SLabel
<1>2. CASE Check(t) \/ BeginUpgradeX(t) \/ UpgradeX(t) \/ WriteLo(t) \/
          WriteHi(t) \/ Link(t) \/ UnlockXLoad(t) \/ DowngradeLoad(t) \/
          UnlockSLoad(t)
  BY <1>2
  DEF Check, BeginUpgradeX, UpgradeX, WriteLo, WriteHi, Link, UnlockXLoad,
      DowngradeLoad, UnlockSLoad, SameSet, Away, Goto, Finish, LoadTo, shared,
      local, W, Idle, OLabel, XLabel, SLabel
<1>3. CASE LoadMark(t)
  BY <1>3
  DEF LoadMark, SameSet, Away, Goto, Finish, LoadTo, shared, local, W, Idle,
      OLabel, XLabel, SLabel
<1>4. CASE AllocCas(t) \/ EvictCas(t) \/ XCas(t) \/ UpgradeXCas(t)
  BY <1>4, <1>a, <1>b, <1>c, SameFields, StateFacts
  DEF AllocCas, EvictCas, XCas, UpgradeXCas, SameSet, Away, TryLockX, CanCas,
      SetWord, Goto, RegOf, W, XLabel
<1>5. CASE Unmark(t) \/ CheckUnmark(t) \/ MarkCas(t)
  BY <1>5, <1>a, <1>b, WordFields, SameFields, StateFacts
  DEF Unmark, CheckUnmark, MarkCas, SameSet, Away, CanCas, SetWord, Goto,
      Finish, local, RegOf, W, XLabel, Idle, SLabel
<1>6. CASE Fault(t) \/ EvictLoad(t) \/ EvictStore(t)
  BY <1>6
  DEF Fault, EvictLoad, EvictStore
<1>7. CASE UnlockXStore(t) \/ DowngradeStore(t)
  BY <1>7, <1>a, <1>e, NextFields, StateFacts
  DEF UnlockXStore, DowngradeStore, SameSet, Away, SetWord, Goto, Finish,
      local, W, XLabel, Stores
<1>8. CASE SCas(t)
  <2>1. CASE CanCas(t)
    <3> DEFINE s == IF reg[t].state = Marked THEN 1 ELSE reg[t].state + 1
    <3>1. reg[t].state # Evicted /\ s # Evicted
      BY <1>8, <1>a, <1>b, WordFields, LatchAssumption DEF SCas, RegOf, State, Evicted, Marked
    <3>2. word'[pid[t]] = SameVersion(reg[t], s) /\ W(t) = reg[t]
      BY <1>8, <2>1, <1>a, StateFacts DEF SCas, CanCas, SetWord, TypeOK
    <3>q. QED
      BY <1>8, <2>1, <3>1, <3>2, SameFields DEF SCas, SameSet, Away, Goto, local, XLabel
  <2>2. CASE ~CanCas(t)
    BY <1>8, <2>2 DEF SCas, SameSet, Goto, local, XLabel
  <2>q. QED
    BY <2>1, <2>2
<1>9. CASE UpgradeS(t)
  <2>1. CASE Finish(t, "restarted") /\ word' = word
    BY <1>9, <2>1 DEF UpgradeS, SameSet, Finish, Goto, XLabel
  <2>2. CASE /\ W(t) = ver[t] /\ ver[t].state < MaxShared
             /\ SetWord(t, SameVersion(ver[t], ver[t].state + 1))
             /\ Goto(t, "shared") /\ pid' = pid
    <3>1. ver[t].state # Evicted /\ ver[t].state + 1 # Evicted
      BY <2>2, <1>a, WordFields, LatchAssumption DEF State, Evicted
    <3>2. word'[pid[t]] = SameVersion(ver[t], ver[t].state + 1)
      BY <2>2, <1>a DEF SetWord
    <3>q. QED
      BY <1>9, <2>2, <3>1, <3>2, SameFields DEF UpgradeS, SameSet, Away, Goto, XLabel
  <2>q. QED
    BY <1>9, <2>1, <2>2 DEF UpgradeS
<1>10. CASE UnlockSCas(t)
  <2>1. CASE CanCas(t)
    <3>1. reg[t] = W(t) /\ reg[t].state # Evicted /\ reg[t].state - 1 # Evicted
      BY <1>10, <2>1, Shares, LatchAssumption DEF UnlockSCas, CanCas, SLabel, Evicted
    <3>2. word'[pid[t]] = SameVersion(reg[t], reg[t].state - 1)
      BY <1>10, <2>1, <1>a DEF UnlockSCas, CanCas, SetWord
    <3>q. QED
      BY <1>10, <2>1, <3>1, <3>2, SameFields DEF UnlockSCas, CanCas, SameSet, Away, Finish, Goto,
          XLabel
  <2>2. CASE ~CanCas(t)
    BY <1>10, <2>2 DEF UnlockSCas, SameSet, Goto, local, XLabel
  <2>q. QED
    BY <2>1, <2>2
<1>q. QED
  BY <1>1, <1>2, <1>3, <1>4, <1>5, <1>6, <1>7, <1>8, <1>9, <1>10
  DEF Step

\* ResidentPageSet goes on holding exactly the pages that are not evicted.
LEMMA ResidentStep ==
  ASSUME AssertsOn, TypeOK, RegInv, OwnerInv, FreshInv, CountInv, ResidentInv,
         NEW t \in Thread, Step(t)
  PROVE  ResidentInv'
<1>a. \A u \in Thread \ {t} : pc'[u] = pc[u] /\ pid'[u] = pid[u]
  BY ThreadFrame
<1>b. \A q \in Page \ {pid[t]} : word'[q] = word[q] /\ resident'[q] = resident[q]
  BY PageFrame
<1>c. OwnerInv' /\ TypeOK'
  BY OwnerStep, TypeStep
<1> USE DEF ResidentInv, OwnerInv, W, TypeOK
<1>1. CASE Fault(t)
  BY <1>1, <1>a, <1>b, <1>c DEF Fault, Goto, local, XLabel
<1>2. CASE EvictLoad(t)
  BY <1>2, <1>a, <1>b, <1>c DEF EvictLoad, Goto, XLabel
<1>3. CASE EvictStore(t)
  BY <1>3, <1>a, <1>b, <1>c, NextFields DEF EvictStore, SetWord, Finish, Goto, XLabel, Idle, Stores
<1>4. CASE SameSet(t)
  <2>1. CASE Keeps(t)
    BY <1>4, <2>1, <1>a, <1>b, <1>c DEF SameSet, Keeps, Away
  <2>2. CASE Grabs(t)
    BY <1>4, <2>2, <1>a, <1>b, <1>c, SameFields DEF SameSet, Grabs, Away
  <2>3. CASE Drops(t)
    BY <1>4, <2>3, <1>a, <1>b, <1>c, NextFields DEF SameSet, Drops, Away, Stores, XLabel
  <2>4. CASE Shifts(t)
    BY <1>4, <2>4, <1>a, <1>b, <1>c, SameFields DEF SameSet, Shifts, Away
  <2>q. QED
    BY <2>1, <2>2, <2>3, <2>4, Effects
<1>q. QED
  BY <1>1, <1>2, <1>3, <1>4, SetEffects

(***************************************************************************)
(* What a step of t does to the payload of its page: only the owner        *)
(* changes it, and it publishes a whole payload.                           *)
(***************************************************************************)
SamePayload(t) ==
  /\ content' = content
  /\ pc'[t] = "halfWritten" => pc[t] = "halfWritten"
  /\ pc[t] = "halfWritten" => pc'[t] = "halfWritten"

\* Every step is one of the owner's two writes or leaves the payload alone.
LEMMA PayloadEffects ==
  ASSUME TypeOK, NEW t \in Thread, Step(t)
  PROVE  WriteLo(t) \/ WriteHi(t) \/ SamePayload(t)
<1> USE DEF TypeOK
<1>1. CASE Begin(t) \/ BeginAlloc(t) \/ AllocLoad(t) \/ AllocCas(t) \/
          LoadEvicted(t) \/ LoadO(t) \/ LoadX(t) \/ LoadS(t) \/ Unmark(t)
  BY <1>1
  DEF Begin, BeginAlloc, AllocLoad, AllocCas, LoadEvicted, LoadO, LoadX,
      LoadS, Unmark, SamePayload, TryLockX, Finish, LoadTo, Goto, shared,
      local, Idle
<1>2. CASE EvictCas(t) \/ XCas(t) \/ Fault(t) \/ SCas(t) \/ ReadLo(t) \/
          ReadHi(t) \/ Check(t) \/ CheckUnmark(t) \/ BeginUpgradeX(t)
  BY <1>2
  DEF EvictCas, XCas, Fault, SCas, ReadLo, ReadHi, Check, CheckUnmark,
      BeginUpgradeX, SamePayload, TryLockX, Finish, LoadTo, Goto, shared,
      local, Idle
<1>3. CASE UpgradeX(t) \/ UpgradeXCas(t) \/ UpgradeS(t) \/ Link(t) \/
          UnlockXLoad(t) \/ UnlockXStore(t) \/ EvictLoad(t) \/ EvictStore(t)
          \/ DowngradeLoad(t)
  BY <1>3
  DEF UpgradeX, UpgradeXCas, UpgradeS, Link, UnlockXLoad, UnlockXStore,
      EvictLoad, EvictStore, DowngradeLoad, SamePayload, TryLockX, Finish,
      LoadTo, Goto, shared, local, Idle
<1>4. CASE DowngradeStore(t) \/ UnlockSLoad(t) \/ UnlockSCas(t) \/ LoadMark(t)
          \/ MarkCas(t)
  BY <1>4
  DEF DowngradeStore, UnlockSLoad, UnlockSCas, LoadMark, MarkCas, SamePayload,
      TryLockX, Finish, LoadTo, Goto, shared, local, Idle
<1>5. CASE WriteLo(t) \/ WriteHi(t)
  BY <1>5
  DEF WriteLo, WriteHi
<1>q. QED
  BY <1>1, <1>2, <1>3, <1>4, <1>5
  DEF Step

\* A page nobody owns goes on holding a whole write.
LEMMA WholeStep ==
  ASSUME AssertsOn, TypeOK, RegInv, OwnerInv, FreshInv, CountInv, WholeInv,
         NEW t \in Thread, Step(t)
  PROVE  WholeInv'
<1>a. \A u \in Thread \ {t} : pc'[u] = pc[u] /\ pid'[u] = pid[u]
  BY ThreadFrame
<1>b. \A q \in Page \ {pid[t]} : word'[q] = word[q] /\ content'[q] = content[q]
  BY PageFrame
<1>c. OwnerInv' /\ TypeOK'
  BY OwnerStep, TypeStep
<1> USE DEF WholeInv, OwnerInv, W, TypeOK
<1>1. CASE WriteLo(t)
  <2>1. /\ word' = word /\ pid' = pid /\ pc'[t] = "halfWritten" /\ pc[t] = "exclusive"
        /\ content'[pid[t]].lo = W(t).version + 1
    BY <1>1 DEF WriteLo, Goto, local, Content
  <2>2. W(t).state = Locked
    BY <2>1 DEF XLabel
  <2>3. \A u \in Thread \ {t} : pc[u] \in XLabel => pid[u] # pid[t]
    BY <2>1 DEF XLabel
  <2>q. QED
    BY <2>1, <2>2, <2>3, <1>a, <1>b, SMTT(30)
<1>2. CASE WriteHi(t)
  <2>1. /\ word' = word /\ pid' = pid /\ pc'[t] = "written" /\ pc[t] = "halfWritten"
        /\ content'[pid[t]].hi = W(t).version + 1
        /\ content'[pid[t]].lo = content[pid[t]].lo
    BY <1>2 DEF WriteHi, Goto, local, Content
  <2>2. W(t).state = Locked /\ content'[pid[t]].lo = content'[pid[t]].hi
    BY <2>1 DEF XLabel
  <2>3. \A u \in Thread \ {t} : pc[u] \in XLabel => pid[u] # pid[t]
    BY <2>1 DEF XLabel
  <2>q. QED
    BY <2>1, <2>2, <2>3, <1>a, <1>b, SMTT(30)
<1>3. CASE SamePayload(t)
  <2>1. CASE Keeps(t)
    BY <1>3, <2>1, <1>a, <1>b, <1>c DEF SamePayload, Keeps
  <2>2. CASE Grabs(t)
    BY <1>3, <2>2, <1>a, <1>b, <1>c, SameFields DEF SamePayload, Grabs, XLabel
  <2>3. CASE Drops(t)
    BY <1>3, <2>3, <1>a, <1>b, <1>c, NextFields DEF SamePayload, Drops, Stores, XLabel
  <2>4. CASE Shifts(t)
    BY <1>3, <2>4, <1>a, <1>b, <1>c, SameFields DEF SamePayload, Shifts
  <2>q. QED
    BY <2>1, <2>2, <2>3, <2>4, Effects
<1>q. QED
  BY <1>1, <1>2, <1>3, PayloadEffects

(***************************************************************************)
(* What a step of t does to its optimistic read: it starts one with the    *)
(* word it loads, goes on with the same version, or ends it.               *)
(***************************************************************************)
StartsRead(t) ==
  /\ pc'[t] = "optimistic" /\ pid'[t] = pid[t]
  /\ word'[pid[t]].version = W(t).version
  /\ ver'[t].version = W(t).version

GoesOn(t) ==
  /\ pc[t] \in OLabel /\ pc'[t] \in OLabel \ {"optimistic"}
  /\ pid'[t] = pid[t] /\ ver'[t] = ver[t] /\ word' = word /\ content' = content
  /\ pc[t] = "optimistic" => pc'[t] = "halfRead" /\ snap'[t].lo = content[pid[t]].lo
  /\ pc[t] = "halfRead" => /\ snap'[t].lo = snap[t].lo
                           /\ snap'[t].hi = content[pid[t]].hi
  /\ pc[t] \notin {"optimistic", "halfRead"} => snap'[t] = snap[t]
  /\ pc[t] # "optimistic" => pc'[t] # "halfRead"

\* Every step starts, continues or ends the optimistic read of its thread.
LEMMA ReadEffects ==
  ASSUME TypeOK, NEW t \in Thread, Step(t)
  PROVE  StartsRead(t) \/ GoesOn(t) \/ pc'[t] \notin OLabel
<1>a. pid[t] \in Page /\ W(t) \in Word /\ ver[t] \in Word
  BY DEF TypeOK, W
<1> USE DEF TypeOK
<1>1. CASE Begin(t) \/ BeginAlloc(t) \/ AllocLoad(t) \/ AllocCas(t) \/
          LoadEvicted(t) \/ LoadX(t) \/ LoadS(t) \/ EvictCas(t) \/ XCas(t)
  BY <1>1
  DEF Begin, BeginAlloc, AllocLoad, AllocCas, LoadEvicted, LoadX, LoadS,
      EvictCas, XCas, GoesOn, TryLockX, Finish, LoadTo, Goto, shared, local,
      Idle, OLabel
<1>2. CASE Fault(t) \/ SCas(t) \/ Check(t) \/ CheckUnmark(t) \/
          BeginUpgradeX(t) \/ UpgradeX(t) \/ UpgradeS(t) \/ WriteLo(t) \/
          WriteHi(t)
  BY <1>2
  DEF Fault, SCas, Check, CheckUnmark, BeginUpgradeX, UpgradeX, UpgradeS,
      WriteLo, WriteHi, GoesOn, TryLockX, Finish, LoadTo, Goto, shared, local,
      Idle, OLabel
<1>3. CASE Link(t) \/ UnlockXLoad(t) \/ UnlockXStore(t) \/ EvictLoad(t) \/
          EvictStore(t) \/ DowngradeLoad(t) \/ DowngradeStore(t) \/
          UnlockSLoad(t) \/ UnlockSCas(t)
  BY <1>3
  DEF Link, UnlockXLoad, UnlockXStore, EvictLoad, EvictStore, DowngradeLoad,
      DowngradeStore, UnlockSLoad, UnlockSCas, GoesOn, TryLockX, Finish,
      LoadTo, Goto, shared, local, Idle, OLabel
<1>4. CASE LoadMark(t) \/ MarkCas(t)
  BY <1>4
  DEF LoadMark, MarkCas, GoesOn, TryLockX, Finish, LoadTo, Goto, shared,
      local, Idle, OLabel
<1>5. CASE LoadO(t)
  BY <1>5, <1>a
  DEF LoadO, StartsRead, GoesOn, LoadTo, Goto, shared, OLabel, W
<1>6. CASE Unmark(t)
  BY <1>6, <1>a, SameFields
  DEF Unmark, StartsRead, CanCas, SetWord, Goto, OLabel, W
<1>7. CASE ReadLo(t) \/ ReadHi(t)
  BY <1>7, <1>a
  DEF ReadLo, ReadHi, GoesOn, Goto, shared, OLabel, Content
<1>8. CASE UpgradeXCas(t)
  BY <1>8, <1>a
  DEF UpgradeXCas, GoesOn, TryLockX, Goto, OLabel
<1>q. QED
  BY <1>1, <1>2, <1>3, <1>4, <1>5, <1>6, <1>7, <1>8
  DEF Step

\* Versions never go back, a page keeps its payload while its version stays
\* and nobody locks it, and no step unlocks it without a new version.
LEMMA VersionStep ==
  ASSUME AssertsOn, TypeOK, RegInv, OwnerInv, FreshInv, CountInv,
         NEW t \in Thread, Step(t), NEW p \in Page
  PROVE  /\ word'[p].version \in Int /\ word[p].version \in Int
         /\ word[p].version <= word'[p].version
         /\ word'[p].version = word[p].version /\ word'[p].state # Locked =>
              word[p].state # Locked /\ content'[p] = content[p]
<1>a. TypeOK' /\ OwnerInv'
  BY TypeStep, OwnerStep
<1>b. word[p] \in Word /\ word'[p] \in Word /\ pid[t] \in Page
  BY <1>a DEF TypeOK
<1>c. word[p].version \in Nat /\ word'[p].version \in Nat
  BY <1>b, WordFields
<1>1. CASE p # pid[t]
  BY <1>1, <1>c, PageFrame
<1>2. CASE p = pid[t]
  <2>1. pc[t] \notin XLabel => content' = content
    BY PayloadEffects DEF SamePayload, WriteLo, WriteHi, XLabel
  <2>2. CASE Keeps(t)
    BY <1>2, <2>1, <2>2, <1>a, <1>c DEF Keeps, OwnerInv, W
  <2>3. CASE Grabs(t)
    BY <1>2, <2>3, <1>b, <1>c, SameFields DEF Grabs, W, TypeOK
  <2>4. CASE Drops(t)
    BY <1>2, <2>4, <1>b, <1>c, NextFields DEF Drops, W, TypeOK
  <2>5. CASE Shifts(t)
    BY <1>2, <2>1, <2>5, <1>b, <1>c, SameFields DEF Shifts, W, TypeOK
  <2>q. QED
    BY <2>2, <2>3, <2>4, <2>5, Effects
<1>q. QED
  BY <1>1, <1>2

\* What a GuardO has read stays what the page holds, or its version is old.
LEMMA ReadStep ==
  ASSUME AssertsOn, TypeOK, RegInv, OwnerInv, FreshInv, CountInv, ReadInv,
         NEW t \in Thread, Step(t)
  PROVE  ReadInv'
<1>a. TypeOK' /\ TypeOK
  BY TypeStep
<1>1. ASSUME NEW u \in Thread, u # t
      PROVE  ReadOf(u)'
  <2>1. ReadOf(u) /\ pid[u] \in Page /\ word[pid[u]].version \in Int /\ ver[u].version \in Int
    BY WordFields DEF ReadInv, TypeOK
  <2>2. /\ pc'[u] = pc[u] /\ pid'[u] = pid[u] /\ ver'[u] = ver[u] /\ snap'[u] = snap[u]
    BY <1>1, ThreadFrame
  <2>q. QED
    BY <2>1, <2>2, VersionStep DEF ReadOf, SameVer, W
<1>2. ReadOf(t)'
  <2>a. ReadOf(t) /\ pid[t] \in Page /\ word[pid[t]].version \in Int
        /\ word'[pid[t]].version \in Int
    BY <1>a, WordFields DEF ReadInv, TypeOK
  <2>1. CASE StartsRead(t)
    BY <2>1, <2>a DEF StartsRead, ReadOf, SameVer, W
  <2>2. CASE GoesOn(t)
    BY <2>2, <2>a DEF GoesOn, ReadOf, SameVer, W
  <2>3. CASE pc'[t] \notin OLabel
    BY <2>3 DEF ReadOf
  <2>q. QED
    BY <2>1, <2>2, <2>3, ReadEffects
<1>q. QED
  BY <1>1, <1>2 DEF ReadInv

\* An upgrade succeeds on a page that has the version the GuardO saw.
LEMMA UpgradeFrom ==
  ASSUME TypeOK, NEW t \in Thread, RegOf(t), Step(t),
         pc[t] \in {"read", "upgradeXcas"}, pc'[t] \in {"shared", "exclusive"}
  PROVE  SameVer(t) /\ W(t).state # Locked
<1>a. W(t) \in Word /\ reg[t] \in Word /\ ver[t] \in Word
  BY DEF TypeOK, W
<1> USE DEF TypeOK
<1>1. CASE Begin(t) \/ BeginAlloc(t) \/ AllocLoad(t) \/ AllocCas(t) \/
          LoadEvicted(t) \/ LoadO(t) \/ LoadX(t) \/ LoadS(t) \/ Unmark(t)
  BY <1>1
  DEF Begin, BeginAlloc, AllocLoad, AllocCas, LoadEvicted, LoadO, LoadX,
      LoadS, Unmark, Finish, LoadTo, TryLockX, Goto, local, Idle
<1>2. CASE EvictCas(t) \/ XCas(t) \/ Fault(t) \/ SCas(t) \/ ReadLo(t) \/
          ReadHi(t) \/ Check(t) \/ CheckUnmark(t) \/ BeginUpgradeX(t)
  BY <1>2
  DEF EvictCas, XCas, Fault, SCas, ReadLo, ReadHi, Check, CheckUnmark,
      BeginUpgradeX, Finish, LoadTo, TryLockX, Goto, local, Idle
<1>3. CASE UpgradeX(t) \/ WriteLo(t) \/ WriteHi(t) \/ Link(t) \/
          UnlockXLoad(t) \/ UnlockXStore(t) \/ EvictLoad(t) \/ EvictStore(t)
          \/ DowngradeLoad(t)
  BY <1>3
  DEF UpgradeX, WriteLo, WriteHi, Link, UnlockXLoad, UnlockXStore, EvictLoad,
      EvictStore, DowngradeLoad, Finish, LoadTo, TryLockX, Goto, local, Idle
<1>4. CASE DowngradeStore(t) \/ UnlockSLoad(t) \/ UnlockSCas(t) \/ LoadMark(t)
          \/ MarkCas(t)
  BY <1>4
  DEF DowngradeStore, UnlockSLoad, UnlockSCas, LoadMark, MarkCas, Finish,
      LoadTo, TryLockX, Goto, local, Idle
<1>5. CASE UpgradeXCas(t)
  BY <1>5, <1>a, StateFacts, LatchAssumption
  DEF UpgradeXCas, TryLockX, CanCas, Goto, SameVer, RegOf, Unlocked, Locked,
      Marked
<1>6. CASE UpgradeS(t)
  BY <1>6, <1>a, WordFields, StateFacts
  DEF UpgradeS, Finish, Goto, SameVer
<1>q. QED
  BY <1>1, <1>2, <1>3, <1>4, <1>5, <1>6
  DEF Step

\* The pool starts with every page evicted and nobody at work.
LEMMA InitInv ==
  Init => IInv
<1> SUFFICES ASSUME Init PROVE IInv
  OBVIOUS
<1> USE LatchAssumption DEF Init
<1>1. TypeOK
  <2>1. NoWord \in Word /\ NoContent \in Content /\ "idle" \in Label
    BY Blank, Labels DEF Idle
  <2>2. [state |-> Evicted, version |-> 0] \in Word
    BY States DEF Word
  <2>q. QED
    BY <2>1, <2>2 DEF TypeOK, Page, Kind
<1>2. \A t \in Thread : pc[t] = "idle"
  OBVIOUS
<1>3. \A p \in Page : word[p].state = Evicted
  OBVIOUS
<1>4. RegInv /\ ReadInv
  BY <1>2 DEF RegInv, RegOf, ReadInv, ReadOf, OLabel
<1>5. Evicted # Locked
  BY DEF Evicted, Locked
<1>6. OwnerInv
  BY <1>2, <1>3, <1>5 DEF OwnerInv, XLabel, Stores
<1>7. FreshInv
  BY <1>2, <1>3 DEF FreshInv, Idle
<1>8. CountInv
  <2>1. \A p \in Page : SOwner(p) = {}
    BY <1>2 DEF SOwner, SLabel
  <2>2. \A p \in Page : Readers(word[p]) = 0
    BY <1>3 DEF Readers, Evicted
  <2>q. QED
    BY <2>1, <2>2, FS_EmptySet DEF CountInv
<1>9. ResidentInv
  BY <1>2, <1>3, <1>5 DEF ResidentInv, XLabel
<1>10. WholeInv
  BY <1>2, <1>3, <1>5 DEF WholeInv, XLabel, NoContent
<1>q. QED
  BY <1>1, <1>4, <1>6, <1>7, <1>8, <1>9, <1>10 DEF IInv

\* IInv is inductive.
LEMMA NextInv ==
  ASSUME AssertsOn, IInv, [Next]_vars
  PROVE  IInv'
<1>1. ASSUME NEW t \in Thread, Step(t)
      PROVE  IInv'
  BY <1>1, TypeStep, RegStep, OwnerStep, FreshStep, CountStep, ResidentStep,
     ReadStep, WholeStep DEF IInv
<1>2. CASE UNCHANGED vars
  <2> USE <1>2 DEF IInv, vars
  <2>1. TypeOK'
    BY DEF TypeOK
  <2>2. RegInv' /\ ReadInv'
    BY DEF RegInv, RegOf, ReadInv, ReadOf, SameVer, W
  <2>3. OwnerInv' /\ FreshInv'
    BY DEF OwnerInv, FreshInv, W
  <2>4. CountInv'
    BY DEF CountInv, SOwner
  <2>5. ResidentInv' /\ WholeInv'
    BY DEF ResidentInv, WholeInv, W
  <2>q. QED
    BY <2>1, <2>2, <2>3, <2>4, <2>5
<1>q. QED
  BY <1>1, <1>2 DEF Next, Done

\* The inductive invariant holds for any threads, pages and guards.
THEOREM Invariance ==
  ASSUME AssertsOn
  PROVE  Spec => []IInv
<1>1. IInv /\ [Next]_vars => IInv'
  BY NextInv
<1>q. QED
  BY InitInv, <1>1, PTL DEF Spec

(***************************************************************************)
(* Whatever the number of threads, pages and guards, every variable keeps  *)
(* its type: no reader count runs over MaxShared or below zero.            *)
(***************************************************************************)
THEOREM TypeCorrect ==
  ASSUME AssertsOn
  PROVE  Spec => []TypeOK
<1>1. IInv => TypeOK
  BY DEF IInv
<1>q. QED
  BY <1>1, Invariance, PTL

(***************************************************************************)
(* Mutual exclusion: fixX, fixS, the two upgrades, the faults of all three *)
(* loops and allocPage never give a page to an exclusive owner and to      *)
(* anybody else at once, and the word always counts the readers exactly.   *)
(***************************************************************************)
THEOREM LatchCorrect ==
  ASSUME AssertsOn
  PROVE  Spec => []LatchInv
<1>1. IInv => LatchInv
  <2> SUFFICES ASSUME IInv, NEW p \in Page
               PROVE  /\ word[p].state = Locked => \E t \in Thread : XOwner(p) = {t}
                      /\ word[p].state # Locked => XOwner(p) = {}
                      /\ Cardinality(SOwner(p)) =
                           IF word[p].state \in 1 .. MaxShared THEN word[p].state ELSE 0
    BY DEF LatchInv
  <2>1. ASSUME word[p].state = Locked
        PROVE  \E t \in Thread : XOwner(p) = {t}
    <3>1. PICK t \in Thread : pc[t] \in XLabel /\ pid[t] = p
      BY <2>1 DEF IInv, OwnerInv
    <3>2. XOwner(p) = {t}
      BY <3>1 DEF IInv, OwnerInv, XOwner
    <3>q. QED
      BY <3>2
  <2>2. word[p].state # Locked => XOwner(p) = {}
    BY DEF IInv, OwnerInv, XOwner, W
  <2>q. QED
    BY <2>1, <2>2 DEF IInv, CountInv, Readers
<1>q. QED
  BY <1>1, Invariance, PTL

\* allocPage returns the page fixed, as its comment says, if assertions are
\* compiled in (without them TLC finds a thread that writes an unlocked page).
THEOREM AllocationFixes ==
  ASSUME AssertsOn
  PROVE  Spec => []AllocatedIsFixed
<1>1. IInv => AllocatedIsFixed
  BY DEF IInv, OwnerInv, AllocatedIsFixed
<1>q. QED
  BY <1>1, Invariance, PTL

\* A page is faulted in once per eviction: ResidentPageSet::insert never
\* meets the page it inserts.
THEOREM FaultedOnce ==
  ASSUME AssertsOn
  PROVE  Spec => []ResidentOnce
<1>1. IInv => ResidentOnce
  <2> SUFFICES ASSUME IInv, NEW p \in Page
               PROVE  /\ resident[p] \in {0, 1}
                      /\ word[p].state = Evicted => resident[p] = 0
                      /\ word[p].state \notin {Locked, Evicted} => resident[p] = 1
    BY DEF ResidentOnce
  <2>1. CASE word[p].state = Locked
    <3>1. PICK t \in Thread : pc[t] \in XLabel /\ pid[t] = p
      BY <2>1 DEF IInv, OwnerInv
    <3>q. QED
      BY <2>1, <3>1, LatchAssumption DEF IInv, ResidentInv, Locked, Evicted
  <2>2. CASE word[p].state # Locked
    BY <2>2 DEF IInv, ResidentInv
  <2>q. QED
    BY <2>1, <2>2
<1>q. QED
  BY <1>1, Invariance, PTL

\* A page nobody owns exclusively holds a whole write.
THEOREM WritesAreWhole ==
  ASSUME AssertsOn
  PROVE  Spec => []WrittenWhole
<1>1. IInv => WrittenWhole
  <2> SUFFICES ASSUME IInv, NEW p \in Page, XOwner(p) = {}
               PROVE  content[p].lo = content[p].hi
    BY DEF WrittenWhole
  <2>1. word[p].state # Locked
    BY DEF IInv, OwnerInv, XOwner
  <2>q. QED
    BY <2>1 DEF IInv, WholeInv
<1>q. QED
  BY <1>1, Invariance, PTL

(***************************************************************************)
(* A GuardO that becomes a GuardX or a GuardS keeps what was read through  *)
(* it: insert, remove and updateInPlace rely on it when they use, under    *)
(* the lock, a position they found before.                                 *)
(***************************************************************************)
THEOREM UpgradesKeepReads ==
  ASSUME AssertsOn
  PROVE  Spec => UpgradeKeepsRead
<1>1. ASSUME IInv, [Next]_vars
      PROVE  [\A t \in Thread :
                /\ pc[t] \in {"read", "upgradeXcas"}
                /\ pc'[t] \in {"shared", "exclusive"}
                => snap[t] = content[pid[t]]]_vars
  <2> SUFFICES ASSUME NEW t \in Thread, Next,
                      pc[t] \in {"read", "upgradeXcas"},
                      pc'[t] \in {"shared", "exclusive"}
               PROVE  snap[t] = content[pid[t]]
    BY <1>1
  <2>1. ReadOf(t) /\ RegOf(t) /\ TypeOK /\ pid[t] \in Page
    BY <1>1 DEF IInv, ReadInv, RegInv, TypeOK
  <2>2. PICK u \in Thread : Step(u)
    BY <1>1 DEF Next, Done, vars
  <2>3. u = t
    BY <2>1, <2>2, ThreadFrame
  <2>5. SameVer(t) /\ W(t).state # Locked
    BY <2>1, <2>2, <2>3, UpgradeFrom
  <2>6. snap[t] \in Content /\ content[pid[t]] \in Content
    BY <2>1 DEF TypeOK
  <2>q. QED
    BY <2>1, <2>5, <2>6 DEF ReadOf, OLabel, Content
<1>q. QED
  BY <1>1, Invariance, PTL DEF Spec, UpgradeKeepsRead
-----------------------------------------------------------------------------
(***************************************************************************)
(* The guards implement the latch of RWLatch: one step of a thread is one  *)
(* of the latch's, or one that the latch does not see.                     *)
(***************************************************************************)
\* Functions that agree are equal.
LEMMA SameFun ==
  ASSUME NEW S, NEW f, NEW g, f = [a \in S |-> f[a]], g = [a \in S |-> g[a]],
         \A a \in S : g[a] = f[a]
  PROVE  g = f
OBVIOUS

\* One value changed.
LEMMA OneChanged ==
  ASSUME NEW S, NEW f, NEW g, f = [a \in S |-> f[a]], g = [a \in S |-> g[a]],
         NEW b \in S, NEW c, g[b] = c, \A a \in S \ {b} : g[a] = f[a]
  PROVE  g = [f EXCEPT ![b] = c]
OBVIOUS

\* The owners of a page after a step: only the thread that takes it comes or
\* goes.
LEMMA OwnersAfter ==
  ASSUME TypeOK, NEW t \in Thread, Step(t), NEW p \in Page
  PROVE  /\ XOwner(p)' = IF pc'[t] \in XLabel /\ pid'[t] = p THEN XOwner(p) \union {t}
                                                             ELSE XOwner(p) \ {t}
         /\ SOwner(p)' = IF pc'[t] \in SLabel /\ pid'[t] = p THEN SOwner(p) \union {t}
                                                             ELSE SOwner(p) \ {t}
<1>1. \A u \in Thread \ {t} : pc'[u] = pc[u] /\ pid'[u] = pid[u]
  BY ThreadFrame
<1>q. QED
  BY <1>1 DEF XOwner, SOwner

\* A reader's next step is one of unlockS's.
LEMMA ReaderStep ==
  ASSUME NEW t \in Thread, Step(t), pc[t] \in SLabel
  PROVE  UnlockSLoad(t) \/ UnlockSCas(t)
<1> USE DEF SLabel, Idle, LoadTo
<1>1. CASE Begin(t) \/ BeginAlloc(t) \/ AllocLoad(t) \/ AllocCas(t) \/
          LoadEvicted(t) \/ LoadO(t) \/ LoadX(t) \/ LoadS(t) \/ Unmark(t)
  BY <1>1
  DEF Begin, BeginAlloc, AllocLoad, AllocCas, LoadEvicted, LoadO, LoadX,
      LoadS, Unmark
<1>2. CASE EvictCas(t) \/ XCas(t) \/ Fault(t) \/ SCas(t) \/ ReadLo(t) \/
          ReadHi(t) \/ Check(t) \/ CheckUnmark(t) \/ BeginUpgradeX(t)
  BY <1>2
  DEF EvictCas, XCas, Fault, SCas, ReadLo, ReadHi, Check, CheckUnmark,
      BeginUpgradeX
<1>3. CASE UpgradeX(t) \/ UpgradeXCas(t) \/ UpgradeS(t) \/ WriteLo(t) \/
          WriteHi(t) \/ Link(t) \/ UnlockXLoad(t) \/ UnlockXStore(t) \/
          EvictLoad(t)
  BY <1>3
  DEF UpgradeX, UpgradeXCas, UpgradeS, WriteLo, WriteHi, Link, UnlockXLoad,
      UnlockXStore, EvictLoad
<1>4. CASE EvictStore(t) \/ DowngradeLoad(t) \/ DowngradeStore(t) \/ LoadMark(t)
           \/ MarkCas(t)
  BY <1>4
  DEF EvictStore, DowngradeLoad, DowngradeStore, LoadMark, MarkCas
<1>q. QED
  BY <1>1, <1>2, <1>3, <1>4 DEF Step

\* Only the check of a version validates a read, and only the next guard
\* forgets it.
LEMMA OutEffects ==
  ASSUME TypeOK, NEW t \in Thread, Step(t)
  PROVE  /\ pc[t] = "validated" => Begin(t) \/ BeginAlloc(t)
         /\ pc'[t] = "validated" => Check(t) \/ CheckUnmark(t)
<1> USE DEF TypeOK, Finish, LoadTo, Goto, TryLockX, local
<1>1. CASE Begin(t) \/ BeginAlloc(t) \/ AllocLoad(t) \/ AllocCas(t) \/
          LoadEvicted(t) \/ LoadO(t) \/ LoadX(t) \/ LoadS(t) \/ Unmark(t)
  BY <1>1
  DEF Begin, BeginAlloc, AllocLoad, AllocCas, LoadEvicted, LoadO, LoadX,
      LoadS, Unmark
<1>2. CASE EvictCas(t) \/ XCas(t) \/ Fault(t) \/ SCas(t) \/ ReadLo(t) \/
          ReadHi(t) \/ BeginUpgradeX(t)
  BY <1>2
  DEF EvictCas, XCas, Fault, SCas, ReadLo, ReadHi, BeginUpgradeX
<1>3. CASE UpgradeX(t) \/ UpgradeXCas(t) \/ UpgradeS(t) \/ WriteLo(t) \/
          WriteHi(t) \/ Link(t) \/ UnlockXLoad(t) \/ UnlockXStore(t) \/
          EvictLoad(t)
  BY <1>3
  DEF UpgradeX, UpgradeXCas, UpgradeS, WriteLo, WriteHi, Link, UnlockXLoad,
      UnlockXStore, EvictLoad
<1>4. CASE EvictStore(t) \/ DowngradeLoad(t) \/ DowngradeStore(t) \/ UnlockSLoad(t)
           \/ UnlockSCas(t) \/ LoadMark(t) \/ MarkCas(t)
  BY <1>4
  DEF EvictStore, DowngradeLoad, DowngradeStore, UnlockSLoad, UnlockSCas, LoadMark, MarkCas
<1>5. CASE Check(t) \/ CheckUnmark(t)
  BY <1>5 DEF Check, CheckUnmark
<1>q. QED
  BY <1>1, <1>2, <1>3, <1>4, <1>5 DEF Step

\* A validated read is what the page held, and nobody owned it, when the
\* version was checked.
LEMMA ValidRead ==
  ASSUME TypeOK, RegInv, ReadInv, NEW t \in Thread, Check(t) \/ CheckUnmark(t),
         pc'[t] = "validated"
  PROVE  /\ snap'[t] = content[pid[t]] /\ pid'[t] = pid[t] /\ content' = content
         /\ W(t).state # Locked /\ pc[t] \in OLabel
         /\ word' = word \/ word' = [word EXCEPT ![pid[t]] = SameVersion(W(t), Unlocked)]
<1>1. pc[t] \in {"read", "checkUnmark"} /\ ReadOf(t) /\ RegOf(t)
  BY DEF Check, CheckUnmark, ReadInv, RegInv
<1>2. snap'[t] = snap[t] /\ pid' = pid /\ content' = content
  BY DEF Check, CheckUnmark, Finish, shared, Goto, TypeOK
<1>3. CASE Check(t)
  <2>1. SameVer(t) /\ W(t).state <= MaxShared /\ word' = word
    BY <1>3 DEF Check, Finish, Goto, shared, TypeOK
  <2>2. W(t).state # Locked
    BY <2>1, LatchAssumption DEF Locked
  <2>q. QED
    BY <1>1, <1>2, <1>3, <2>1, <2>2, SMTT(30) DEF ReadOf, OLabel, TypeOK, Content, Check
<1>4. CASE CheckUnmark(t)
  <2>1. W(t) = reg[t] /\ word' = [word EXCEPT ![pid[t]] = SameVersion(W(t), Unlocked)]
    BY <1>4 DEF CheckUnmark, CanCas, SetWord, Finish, Goto, TypeOK
  <2>2. SameVer(t) /\ W(t).state # Locked
    BY <1>1, <1>4, <2>1, LatchAssumption DEF CheckUnmark, RegOf, SameVer, Marked, Locked
  <2>q. QED
    BY <1>1, <1>2, <1>4, <2>1, <2>2 DEF ReadOf, OLabel, TypeOK, Content, CheckUnmark
<1>q. QED
  BY <1>3, <1>4

\* One step of a thread, as the latch sees it.
LEMMA LatchStep ==
  ASSUME AssertsOn, IInv, NEW t \in Thread, Step(t)
  PROVE  Latch!Next \/ UNCHANGED Latch!vars
<1> DEFINE x == [p \in Page |-> XOwner(p)]     x2 == [p \in Page |-> XOwner(p)']
           s == [p \in Page |-> SOwner(p)]     s2 == [p \in Page |-> SOwner(p)']
           v == [p \in Page |-> word[p].version]
           v2 == [p \in Page |-> word'[p].version]
           o == [u \in Thread |-> IF pc[u] = "validated" THEN <<pid[u], snap[u]>> ELSE << >>]
           o2 == [u \in Thread |-> IF pc'[u] = "validated" THEN <<pid'[u], snap'[u]>>
                                                           ELSE << >>]
           q == pid[t]
<1>a. /\ TypeOK /\ RegInv /\ OwnerInv /\ FreshInv /\ CountInv /\ ReadInv
      /\ q \in Page /\ W(t) = word[q] /\ W(t) \in Word /\ W(t).version \in Nat
  BY WordFields DEF IInv, TypeOK, W
<1>b. \A p \in Page :
        /\ x2[p] = IF pc'[t] \in XLabel /\ pid'[t] = p THEN x[p] \union {t} ELSE x[p] \ {t}
        /\ s2[p] = IF pc'[t] \in SLabel /\ pid'[t] = p THEN s[p] \union {t} ELSE s[p] \ {t}
        /\ t \in x[p] <=> pc[t] \in XLabel /\ q = p
        /\ t \in s[p] <=> pc[t] \in SLabel /\ q = p
  BY <1>a, OwnersAfter DEF XOwner, SOwner
<1>u. \A S : (t \in S => S \union {t} = S) /\ (t \notin S => S \ {t} = S)
  OBVIOUS
<1>c. \A p \in Page :
        /\ word[p].state # Locked => x[p] = {}
        /\ Readers(word[p]) = 0 => s[p] = {}
  <2>1. \A p \in Page : IsFiniteSet(SOwner(p)) /\ Cardinality(SOwner(p)) = Readers(word[p])
    BY <1>a, FS_Subset, LatchAssumption DEF SOwner, CountInv
  <2>2. \A p \in Page : Readers(word[p]) = 0 => SOwner(p) = {}
    BY <2>1, FS_EmptySet
  <2>q. QED
    BY <1>a, <2>2 DEF OwnerInv, XOwner, W
<1>d. pc[t] \in XLabel => x[q] = {t} /\ s[q] = {} /\ W(t).state = Locked
  <2> SUFFICES ASSUME pc[t] \in XLabel PROVE x[q] = {t} /\ s[q] = {} /\ W(t).state = Locked
    OBVIOUS
  <2>1. W(t).state = Locked /\ x[q] = {t}
    BY <1>a DEF OwnerInv, XOwner
  <2>2. Readers(word[q]) = 0
    BY <1>a, <2>1, ReadersOf
  <2>q. QED
    BY <1>a, <1>c, <2>1, <2>2
<1>e. /\ x = [p \in Page |-> x[p]] /\ s = [p \in Page |-> s[p]] /\ v = [p \in Page |-> v[p]]
      /\ o = [u \in Thread |-> o[u]] /\ content = [p \in Page |-> content[p]]
      /\ x2 = [p \in Page |-> x2[p]] /\ s2 = [p \in Page |-> s2[p]]
      /\ v2 = [p \in Page |-> v2[p]] /\ o2 = [u \in Thread |-> o2[u]]
      /\ \A p \in Page : v[p] = word[p].version /\ v2[p] = word'[p].version
  BY <1>a DEF TypeOK
<1>f. /\ \A u \in Thread \ {t} : o2[u] = o[u]
      /\ o[t] = IF pc[t] = "validated" THEN <<pid[t], snap[t]>> ELSE << >>
      /\ o2[t] = IF pc'[t] = "validated" THEN <<pid'[t], snap'[t]>> ELSE << >>
  BY <1>a, ThreadFrame
<1>g. XLabel \cap SLabel = {} /\ "validated" \notin XLabel \union SLabel \union OLabel
      /\ Stores \subseteq XLabel /\ OLabel \cap (XLabel \union SLabel) = {}
  BY DEF XLabel, SLabel, OLabel, Stores
<1>h0. x2 = x /\ s2 = s /\ v2 = v /\ content' = content /\ o2 = o => UNCHANGED Latch!vars
  BY DEF Latch!vars
<1>h1. x2 = x /\ s2 = s /\ v2 = v /\ content' = content
       /\ o2 = [o EXCEPT ![t] = << >>] => Latch!Next
  BY <1>a DEF Latch!Next, Latch!Forget
<1>h2. x2 = x /\ s2 = s /\ v2 = v /\ content' = content /\ x[q] = {}
       /\ o2 = [o EXCEPT ![t] = <<q, content[q]>>] => Latch!Next
  BY <1>a DEF Latch!Next, Latch!Read
<1>h3. x2 = x /\ s2 = s /\ v2 = v /\ o2 = o /\ x[q] = {t}
       /\ content' = [content EXCEPT ![q] = content'[q]] => Latch!Next
  BY <1>a DEF Latch!Next, Latch!Write
<1>h4. s2 = s /\ v2 = v /\ content' = content /\ o2 = o /\ x[q] = {} /\ s[q] = {}
       /\ x2 = [x EXCEPT ![q] = {t}] => Latch!Next
  BY <1>a DEF Latch!Next, Latch!AcquireX
<1>h5. s2 = s /\ content' = content /\ o2 = o /\ x[q] = {t}
       /\ x2 = [x EXCEPT ![q] = {}] /\ v2 = [v EXCEPT ![q] = @ + 1] => Latch!Next
  BY <1>a DEF Latch!Next, Latch!ReleaseX
<1>h6. content' = content /\ o2 = o /\ x[q] = {t} /\ x2 = [x EXCEPT ![q] = {}]
       /\ s2 = [s EXCEPT ![q] = {t}] /\ v2 = [v EXCEPT ![q] = @ + 1] => Latch!Next
  BY <1>a DEF Latch!Next, Latch!Downgrade
<1>h7. x2 = x /\ v2 = v /\ content' = content /\ o2 = o /\ x[q] = {} /\ t \notin s[q]
       /\ s2 = [s EXCEPT ![q] = @ \union {t}] => Latch!Next
  BY <1>a DEF Latch!Next, Latch!AcquireS
<1>h8. x2 = x /\ v2 = v /\ content' = content /\ o2 = o /\ t \in s[q]
       /\ s2 = [s EXCEPT ![q] = @ \ {t}] => Latch!Next
  BY <1>a DEF Latch!Next, Latch!ReleaseS
<1> HIDE DEF x, s, v, o, x2, s2, v2, o2
\* Where the owners stay, and where the versions and the reads do.
<1>i. ASSUME pc'[t] \in XLabel <=> pc[t] \in XLabel, pc[t] \in XLabel => pid'[t] = q
      PROVE  x2 = x
  <2>1. ASSUME NEW p \in Page PROVE x2[p] = x[p]
    <3>1. CASE t \in x[p]
      <4>1. x2[p] = x[p] \union {t}
        BY <1>b, <1>i, <3>1
      <4>q. QED
        BY <1>u, <3>1, <4>1
    <3>2. CASE t \notin x[p]
      <4>1. x2[p] = x[p] \ {t}
        BY <1>b, <1>i, <3>2
      <4>q. QED
        BY <1>u, <3>2, <4>1
    <3>q. QED
      BY <3>1, <3>2
  <2>q. QED
    BY <1>e, <2>1, SameFun
<1>j. ASSUME pc'[t] \in SLabel <=> pc[t] \in SLabel, pc[t] \in SLabel => pid'[t] = q
      PROVE  s2 = s
  <2>1. ASSUME NEW p \in Page PROVE s2[p] = s[p]
    <3>1. CASE t \in s[p]
      <4>1. s2[p] = s[p] \union {t}
        BY <1>b, <1>j, <3>1
      <4>q. QED
        BY <1>u, <3>1, <4>1
    <3>2. CASE t \notin s[p]
      <4>1. s2[p] = s[p] \ {t}
        BY <1>b, <1>j, <3>2
      <4>q. QED
        BY <1>u, <3>2, <4>1
    <3>q. QED
      BY <3>1, <3>2
  <2>q. QED
    BY <1>e, <2>1, SameFun
<1>k. ASSUME NEW w, w.version = word[q].version,
             word' = word \/ word' = [word EXCEPT ![q] = w]
      PROVE  v2 = v
  <2>1. \A p \in Page : word'[p].version = word[p].version
    BY <1>a, <1>k DEF TypeOK
  <2>2. \A p \in Page : v2[p] = v[p]
    BY <1>e, <2>1
  <2>q. QED
    BY <1>e, <2>2, SameFun
<1>w. ASSUME pid'[t] = q, NEW p \in Page \ {q} PROVE x2[p] = x[p] /\ s2[p] = s[p]
  <2>1. t \notin x[p] /\ t \notin s[p]
    BY <1>b, <1>w
  <2>2. x2[p] = x[p] \ {t} /\ s2[p] = s[p] \ {t}
    BY <1>b, <1>w
  <2>q. QED
    BY <1>u, <2>1, <2>2
<1>l. ASSUME pc[t] # "validated", pc'[t] # "validated" PROVE o2 = o
  BY <1>e, <1>f, <1>l
<1>1. CASE pc[t] = "validated"
  <2>1. /\ word' = word /\ content' = content
        /\ pc'[t] \in {"load", "alloc"}
    BY <1>1, <1>a, OutEffects DEF Begin, BeginAlloc, shared, Goto, TypeOK
  <2>2. pc'[t] \notin XLabel \union SLabel \union {"validated"}
    BY <2>1 DEF XLabel, SLabel
  <2>3. x2 = x /\ s2 = s /\ v2 = v
    BY <1>1, <1>g, <1>i, <1>j, <1>k, <2>1, <2>2
  <2>4. o2 = [o EXCEPT ![t] = << >>]
    BY <1>e, <1>f, <2>2
  <2>q. QED
    BY <1>h1, <2>1, <2>3, <2>4
<1>2. CASE pc'[t] = "validated"
  <2>1. /\ snap'[t] = content[q] /\ pid'[t] = q /\ content' = content
        /\ W(t).state # Locked /\ pc[t] \in OLabel
        /\ word' = word \/ word' = [word EXCEPT ![q] = SameVersion(W(t), Unlocked)]
    BY <1>2, <1>a, OutEffects, ValidRead
  <2>2. x2 = x /\ s2 = s
    BY <1>2, <1>g, <1>i, <1>j, <2>1
  <2>3. v2 = v
    <3> DEFINE w == SameVersion(W(t), Unlocked)
    <3>1. w.version = word[q].version
      BY <1>a, SameFields
    <3> HIDE DEF w
    <3>2. word' = word \/ word' = [word EXCEPT ![q] = w]
      BY <2>1 DEF w
    <3>q. QED
      BY <1>k, <3>1, <3>2
  <2>4. o2 = [o EXCEPT ![t] = <<q, content[q]>>] /\ x[q] = {}
    BY <1>2, <1>a, <1>c, <1>e, <1>f, <2>1
  <2>q. QED
    BY <1>h2, <2>1, <2>2, <2>3, <2>4
<1> SUFFICES ASSUME pc[t] # "validated", pc'[t] # "validated"
             PROVE  Latch!Next \/ UNCHANGED Latch!vars
  BY <1>1, <1>2
<1>m. o2 = o
  BY <1>l
<1>n. content' = content \/ (WriteLo(t) \/ WriteHi(t))
  BY <1>a, PayloadEffects DEF SamePayload
<1>o. WriteLo(t) \/ WriteHi(t) =>
        /\ word' = word /\ pid' = pid /\ pc[t] \in XLabel /\ pc'[t] \in XLabel
        /\ content' = [content EXCEPT ![q] = content'[q]]
  BY <1>a DEF WriteLo, WriteHi, local, Goto, XLabel, TypeOK
<1>p. pc[t] \in SLabel => pc'[t] \notin XLabel
  BY <1>a, ReaderStep
  DEF UnlockSLoad, UnlockSCas, Goto, Finish, TypeOK, XLabel
<1>r. Joins(t) \/ Leaves(t) \/ Neither(t)
  BY <1>a, CountEffects
<1>s. Joins(t) \/ Leaves(t) => word' # word
  BY <1>a DEF Joins, Leaves, Readers, TypeOK, Word, State, Evicted, W
<1>3. CASE Keeps(t)
  <2>1. x2 = x /\ v2 = v
    BY <1>3, <1>i, <1>k DEF Keeps
  <2>2. s2 = s
    BY <1>3, <1>j, <1>r, <1>s DEF Keeps, Neither
  <2>3. CASE content' = content
    BY <1>h0, <1>m, <2>1, <2>2, <2>3
  <2>4. CASE WriteLo(t) \/ WriteHi(t)
    BY <1>d, <1>h3, <1>m, <1>o, <2>1, <2>2, <2>4
  <2>q. QED
    BY <1>n, <2>3, <2>4
<1>4. ASSUME pc[t] \notin XLabel \/ pc'[t] \notin XLabel PROVE content' = content
  BY <1>4, <1>n, <1>o
<1>5. CASE Grabs(t)
  <2>1. /\ W(t).state # Locked /\ pid'[t] = q /\ pc[t] \notin XLabel /\ pc'[t] \in XLabel
        /\ word' = [word EXCEPT ![q] = SameVersion(W(t), Locked)]
    BY <1>5 DEF Grabs
  <2>2. v2 = v
    <3> DEFINE w == SameVersion(W(t), Locked)
    <3>1. w.version = word[q].version
      BY <1>a, SameFields
    <3> HIDE DEF w
    <3>2. word' = [word EXCEPT ![q] = w]
      BY <2>1 DEF w
    <3>q. QED
      BY <1>k, <3>1, <3>2
  <2>3. x[q] = {} /\ x2 = [x EXCEPT ![q] = {t}]
    <3>1. x[q] = {}
      BY <1>a, <1>c, <2>1
    <3>2. x2[q] = {t}
      BY <1>a, <1>b, <2>1, <3>1
    <3>3. \A p \in Page \ {q} : x2[p] = x[p]
      BY <1>w, <2>1
    <3> DEFINE r == {t}
    <3> HIDE DEF r
    <3>4. x2 = [x EXCEPT ![q] = r]
      <4>1. x2[q] = r
        BY <3>2 DEF r
      <4>q. QED
        BY <1>a, <1>e, <3>3, <4>1, OneChanged
    <3>q. QED
      BY <3>1, <3>4 DEF r
  <2>4. s2 = s
    BY <1>g, <1>j, <1>p, <2>1
  <2>5. s[q] = {}
    <3> DEFINE w == SameVersion(W(t), Locked)
    <3>1. Readers(w) = 0
      <4>1. w \in Word /\ w.state = Locked
        BY <1>a, States, WordOps, SameFields
      <4>q. QED
        BY <4>1, ReadersOf
    <3>2. Neither(t)
      BY <1>g, <1>p, <1>r, <2>1 DEF Joins, Leaves
    <3>3. word'[q] = w /\ word[q] # w
      BY <1>a, <2>1, SameFields DEF TypeOK
    <3>4. Readers(W(t)) = 0
      BY <1>a, <3>1, <3>2, <3>3 DEF Neither, TypeOK
    <3>q. QED
      BY <1>a, <1>c, <3>4
  <2>6. content' = content
    BY <1>4, <2>1
  <2>q. QED
    BY <1>h4, <1>m, <2>2, <2>3, <2>4, <2>5, <2>6
<1>6. CASE Drops(t)
  <2>1. PICK st : word' = [word EXCEPT ![q] = NextVersion(W(t), st)]
    BY <1>6 DEF Drops
  <2>2. pc[t] \in XLabel /\ pc'[t] \notin XLabel /\ pid'[t] = q
    BY <1>6, <1>g DEF Drops
  <2>3. v2 = [v EXCEPT ![q] = @ + 1]
    <3> DEFINE w == NextVersion(W(t), st)
    <3>1. w.version = v[q] + 1
      BY <1>a, <1>e, NextFields
    <3> HIDE DEF w
    <3>2. word' = [word EXCEPT ![q] = w]
      BY <2>1 DEF w
    <3>3. v2[q] = v[q] + 1 /\ \A p \in Page \ {q} : v2[p] = v[p]
      BY <1>a, <1>e, <3>1, <3>2 DEF TypeOK
    <3>q. QED
      BY <1>a, <1>e, <3>3, OneChanged
  <2>4. x[q] = {t} /\ s[q] = {} /\ x2 = [x EXCEPT ![q] = {}]
    <3>1. x[q] = {t} /\ s[q] = {}
      BY <1>d, <2>2
    <3>2. x2[q] = {}
      BY <1>a, <1>b, <2>2, <3>1
    <3>3. \A p \in Page \ {q} : x2[p] = x[p]
      BY <1>w, <2>2
    <3> DEFINE r == {}
    <3> HIDE DEF r
    <3>4. x2 = [x EXCEPT ![q] = r]
      <4>1. x2[q] = r
        BY <3>2 DEF r
      <4>q. QED
        BY <1>a, <1>e, <3>3, <4>1, OneChanged
    <3>q. QED
      BY <3>1, <3>4 DEF r
  <2>5. content' = content
    BY <1>4, <2>2
  <2>6. CASE pc'[t] \in SLabel
    <3>1. s2 = [s EXCEPT ![q] = {t}]
      <4>1. s2[q] = {t}
        BY <1>a, <1>b, <2>2, <2>4, <2>6
      <4>2. \A p \in Page \ {q} : s2[p] = s[p]
        BY <1>w, <2>2
      <4>q. QED
        BY <1>a, <1>e, <4>1, <4>2, OneChanged
    <3>q. QED
      BY <1>h6, <1>m, <2>3, <2>4, <2>5, <3>1
  <2>7. CASE pc'[t] \notin SLabel
    <3>1. s2 = s
      BY <1>g, <1>j, <2>2, <2>7
    <3>q. QED
      BY <1>h5, <1>m, <2>3, <2>4, <2>5, <3>1
  <2>q. QED
    BY <2>6, <2>7
<1>7. CASE Shifts(t)
  <2>1. PICK st : word' = [word EXCEPT ![q] = SameVersion(W(t), st)]
    BY <1>7 DEF Shifts
  <2>2. /\ W(t).state # Locked /\ pid'[t] = q
        /\ pc[t] \notin XLabel /\ pc'[t] \notin XLabel
    BY <1>7 DEF Shifts
  <2>3. x2 = x /\ x[q] = {}
    BY <1>a, <1>c, <1>i, <2>2
  <2>4. v2 = v
    <3> DEFINE w == SameVersion(W(t), st)
    <3>1. w.version = word[q].version
      BY <1>a, SameFields
    <3> HIDE DEF w
    <3>2. word' = [word EXCEPT ![q] = w]
      BY <2>1 DEF w
    <3>q. QED
      BY <1>k, <3>1, <3>2
  <2>5. content' = content
    BY <1>n, <1>o, <2>2
  <2>6. CASE pc[t] \in SLabel <=> pc'[t] \in SLabel
    BY <1>h0, <1>j, <1>m, <2>2, <2>3, <2>4, <2>5, <2>6
  <2>7. CASE pc[t] \notin SLabel /\ pc'[t] \in SLabel
    <3>1. t \notin s[q] /\ s2 = [s EXCEPT ![q] = @ \union {t}]
      <4> DEFINE r == s[q] \union {t}
      <4>1. t \notin s[q] /\ s2[q] = r
        BY <1>a, <1>b, <2>2, <2>7
      <4>2. \A p \in Page \ {q} : s2[p] = s[p]
        BY <1>w, <2>2
      <4> HIDE DEF r
      <4>3. s2 = [s EXCEPT ![q] = r]
        BY <1>a, <1>e, <4>1, <4>2, OneChanged
      <4>q. QED
        BY <4>1, <4>3 DEF r
    <3>q. QED
      BY <1>h7, <1>m, <2>3, <2>4, <2>5, <3>1
  <2>8. CASE pc[t] \in SLabel /\ pc'[t] \notin SLabel
    <3>1. t \in s[q] /\ s2 = [s EXCEPT ![q] = @ \ {t}]
      <4> DEFINE r == s[q] \ {t}
      <4>1. t \in s[q] /\ s2[q] = r
        BY <1>a, <1>b, <2>2, <2>8
      <4>2. \A p \in Page \ {q} : s2[p] = s[p]
        BY <1>w, <2>2
      <4> HIDE DEF r
      <4>3. s2 = [s EXCEPT ![q] = r]
        BY <1>a, <1>e, <4>1, <4>2, OneChanged
      <4>q. QED
        BY <4>1, <4>3 DEF r
    <3>q. QED
      BY <1>h8, <1>m, <2>3, <2>4, <2>5, <3>1
  <2>q. QED
    BY <2>6, <2>7, <2>8
<1>q. QED
  BY <1>3, <1>5, <1>6, <1>7, <1>a, Effects

\* GuardO, GuardX, GuardS and allocPage implement the latch of RWLatch: pages
\* are taken and given up at one instant, versions count how often exclusive
\* ownership ended, and a read that its check has accepted happened at the
\* instant of the check, though it was two accesses (PageState, GuardO's
\* checkVersionAndRestart).
THEOREM Implements ==
  ASSUME AssertsOn
  PROVE  Spec => ImplementsLatch
<1>1. Init => Latch!Init
  BY DEF Init, Latch!Init, XOwner, SOwner, XLabel, SLabel
<1>2. IInv /\ [Next]_vars => [Latch!Next]_(Latch!vars)
  <2> SUFFICES ASSUME IInv, [Next]_vars PROVE [Latch!Next]_(Latch!vars)
    OBVIOUS
  <2>1. CASE \E t \in Thread : Step(t)
    BY <2>1, LatchStep
  <2>2. CASE UNCHANGED vars
    BY <2>2 DEF vars, Latch!vars, XOwner, SOwner
  <2>q. QED
    BY <2>1, <2>2 DEF Next, Done
<1>q. QED
  BY <1>1, <1>2, Invariance, PTL DEF Spec, ImplementsLatch, Latch!Spec
=============================================================================
