------------------------------ MODULE PageLatch ------------------------------
(***************************************************************************)
(* The page latches of the B-tree's buffer manager (btree.hpp: PageState,  *)
(* BufferManager, GuardO, GuardX, AllocGuard, GuardS).  A page has one     *)
(* 64-bit word, a state in the upper 8 bits and a version in the lower 56; *)
(* threads change it by compare-and-swap.  Every load, CAS and store of    *)
(* the word is a step of its own, so the steps of threads interleave the   *)
(* way the atomics of the code do.  A thread here holds one guard at a     *)
(* time; BTreeOLC combines several.                                        *)
(***************************************************************************)
EXTENDS Integers, FiniteSets

CONSTANTS
  Thread,      \* worker threads
  NPages,      \* virtCount: number of page ids
  MaxShared,   \* PageState::MaxShared (252 in the code)
  MaxOps,      \* bound: guards a thread takes before it stops
  AssertsOn,   \* FALSE: built with NDEBUG, assert() evaluates nothing
  Eviction     \* TRUE: also the PageState operations that only a page
               \* replacement would call (tryMark, unlockXEvicted,
               \* downgradeLock); nothing in the repository calls them

ASSUME LatchAssumption ==
  /\ IsFiniteSet(Thread)
  /\ NPages \in Nat \ {0}
  /\ MaxShared \in Nat \ {0}
  /\ MaxOps \in Nat
  /\ AssertsOn \in BOOLEAN
  /\ Eviction \in BOOLEAN

Page == 0 .. NPages - 1

\* The states of a word: Unlocked, 1..MaxShared readers, then these.
Unlocked == 0
Locked   == MaxShared + 1
Marked   == MaxShared + 2
Evicted  == MaxShared + 3
State    == 0 .. Evicted

Word == [state : State, version : Nat]

SameVersion(w, s) == [state |-> s, version |-> w.version]

NextVersion(w, s) == [state |-> s, version |-> w.version + 1]

\* A page's payload, read and written in two separate memory accesses.
Content == [lo : Nat, hi : Nat]

VARIABLES
  word,       \* word[p]: PageState.stateAndVersion
  content,    \* content[p]: the bytes of the page
  resident,   \* resident[p]: entries of p in ResidentPageSet
  allocCount, \* BufferManager.allocCount
  linked,     \* pages whose id a thread can obtain
  pc,         \* pc[t]: where thread t is
  kind,       \* kind[t]: the guard t is building or holding
  pid,        \* pid[t]: the page of that guard
  reg,        \* reg[t]: local stateAndVersion
  ver,        \* ver[t]: GuardO.version
  snap,       \* snap[t]: what t read from the page optimistically
  opsLeft     \* opsLeft[t]: guards t may still take

shared == <<word, content, resident, allocCount, linked>>
local  == <<kind, pid, reg, ver, snap, opsLeft>>
vars   == <<word, content, resident, allocCount, linked,
            pc, kind, pid, reg, ver, snap, opsLeft>>

Idle  == {"idle", "validated", "restarted"}
Kind  == {"O", "X", "S", "M"}
\* Labels at which the thread owns the page exclusively.
XLabel == {"fault", "unlockX", "exclusive", "halfWritten", "written",
           "storeX", "storeEvicted", "storeShared"}
SLabel == {"shared", "unlockS", "unlockScas"}
\* Labels at which the thread holds a GuardO.
OLabel == {"optimistic", "halfRead", "read", "checkUnmark", "upgradeX",
           "upgradeXcas"}
Label == Idle \union XLabel \union SLabel \union OLabel
         \union {"load", "unmark", "evictCas", "xCas", "sCas", "markCas",
                 "alloc", "allocCas"}

W(t) == word[pid[t]]
NoWord == [state |-> 0, version |-> 0]
NoContent == [lo |-> 0, hi |-> 0]

(***************************************************************************)
(* BufferManager::init and BTree::init: every page starts Evicted with     *)
(* version 0; page 0 is the meta data page.                                *)
(***************************************************************************)
Init ==
  /\ word = [p \in Page |-> [state |-> Evicted, version |-> 0]]
  /\ content = [p \in Page |-> NoContent]
  /\ resident = [p \in Page |-> 0]
  /\ allocCount = 1
  /\ linked = {0}
  /\ pc = [t \in Thread |-> "idle"]
  /\ kind = [t \in Thread |-> "O"]
  /\ pid = [t \in Thread |-> 0]
  /\ reg = [t \in Thread |-> NoWord]
  /\ ver = [t \in Thread |-> NoWord]
  /\ snap = [t \in Thread |-> NoContent]
  /\ opsLeft = [t \in Thread |-> MaxOps]
-----------------------------------------------------------------------------
Goto(t, l) == pc' = [pc EXCEPT ![t] = l]

\* The CAS of thread t on its page, from the word it loaded.
CanCas(t) == W(t) = reg[t]
SetWord(t, w) == word' = [word EXCEPT ![pid[t]] = w]

\* A guard's life ends: normally, or by OLCRestartException.
Finish(t, l) ==
  /\ Goto(t, l)
  /\ reg' = [reg EXCEPT ![t] = NoWord]
  /\ ver' = [ver EXCEPT ![t] = NoWord]
  /\ snap' = [snap EXCEPT ![t] = IF l = "validated" THEN @ ELSE NoContent]
  /\ UNCHANGED <<kind, pid, opsLeft>>

\* A guard (or a mark) is requested on a page whose id is known.
Begin(t) ==
  /\ pc[t] \in Idle
  /\ opsLeft[t] > 0
  /\ \E p \in linked, k \in IF Eviction THEN Kind ELSE Kind \ {"M"} :
       /\ pid' = [pid EXCEPT ![t] = p]
       /\ kind' = [kind EXCEPT ![t] = k]
  /\ opsLeft' = [opsLeft EXCEPT ![t] = @ - 1]
  /\ snap' = [snap EXCEPT ![t] = NoContent]
  /\ Goto(t, "load")
  /\ UNCHANGED <<shared, reg, ver>>

\* allocPage: take the next page id (a full pool makes the process exit).
BeginAlloc(t) ==
  /\ pc[t] \in Idle
  /\ opsLeft[t] > 0
  /\ allocCount < NPages
  /\ allocCount' = allocCount + 1
  /\ pid' = [pid EXCEPT ![t] = allocCount]
  /\ kind' = [kind EXCEPT ![t] = "X"]
  /\ opsLeft' = [opsLeft EXCEPT ![t] = @ - 1]
  /\ snap' = [snap EXCEPT ![t] = NoContent]
  /\ Goto(t, "alloc")
  /\ UNCHANGED <<word, content, resident, linked, reg, ver>>

AllocLoad(t) ==
  /\ pc[t] = "alloc"
  /\ reg' = [reg EXCEPT ![t] = W(t)]
  /\ Goto(t, IF AssertsOn THEN "allocCas" ELSE "fault")
  /\ UNCHANGED <<shared, kind, pid, ver, snap, opsLeft>>

\* Seeded fault: the assertion only looks whether the page could be locked.
BugAllocUnlocked(t) ==
  /\ pc[t] = "allocCas"
  /\ CanCas(t)
  /\ Goto(t, "fault")
  /\ UNCHANGED <<shared, local>>

\* assert(tryLockX(..)): the CAS is the argument of the assertion, so a
\* build without assertions goes from AllocLoad straight to "fault".
AllocCas(t) ==
  /\ pc[t] = "allocCas"
  /\ CanCas(t)
  /\ SetWord(t, SameVersion(reg[t], Locked))
  /\ Goto(t, "fault")
  /\ UNCHANGED <<content, resident, allocCount, linked, local>>

(***************************************************************************)
(* The spin loops of GuardO::init, fixX and fixS: load the word and choose *)
(* by its state.  An iteration that finds the page locked changes nothing  *)
(* and is not a step, so a thread that can never go on is a deadlock.      *)
(***************************************************************************)
LoadTo(t, l) ==
  /\ pc[t] = "load"
  /\ reg' = [reg EXCEPT ![t] = W(t)]
  /\ Goto(t, l)
  /\ UNCHANGED <<shared, kind, pid, snap, opsLeft>>

LoadEvicted(t) ==
  /\ kind[t] # "M"
  /\ W(t).state = Evicted
  /\ LoadTo(t, "evictCas")
  /\ UNCHANGED ver

LoadO(t) ==
  /\ kind[t] = "O"
  /\ \/ /\ W(t).state = Marked
        /\ LoadTo(t, "unmark")
        /\ UNCHANGED ver
     \/ /\ W(t).state <= MaxShared
        /\ ver' = [ver EXCEPT ![t] = W(t)]
        /\ LoadTo(t, "optimistic")

LoadX(t) ==
  /\ kind[t] = "X"
  /\ W(t).state \in {Unlocked, Marked}
  /\ LoadTo(t, "xCas")
  /\ UNCHANGED ver

\* fixS tries tryLockS on every state but Locked and Evicted; on MaxShared
\* readers tryLockS returns false and the loop goes on.
LoadS(t) ==
  /\ kind[t] = "S"
  /\ W(t).state < MaxShared \/ W(t).state = Marked
  /\ LoadTo(t, "sCas")
  /\ UNCHANGED ver

\* GuardO::init clears a mark; compare_exchange_weak may fail for nothing.
Unmark(t) ==
  /\ pc[t] = "unmark"
  /\ \/ /\ CanCas(t)
        /\ SetWord(t, SameVersion(reg[t], Unlocked))
        /\ ver' = [ver EXCEPT ![t] = SameVersion(reg[t], Unlocked)]
        /\ Goto(t, "optimistic")
     \/ /\ Goto(t, "load")
        /\ UNCHANGED <<word, ver>>
  /\ UNCHANGED <<content, resident, allocCount, linked, kind, pid, reg, snap, opsLeft>>

\* Seeded fault: after a failed CAS the loop tries again without loading.
BugStaleRetry(t) ==
  /\ \/ /\ CanCas(t)
        /\ SetWord(t, SameVersion(reg[t], Locked))
        /\ Goto(t, IF pc[t] = "evictCas" THEN "fault" ELSE "exclusive")
     \/ ~CanCas(t) /\ UNCHANGED <<word, pc>>
  /\ UNCHANGED <<content, resident, allocCount, linked, pid, reg, ver, snap, opsLeft>>

\* tryLockX after a load, in the three loops: locked, or load again.
TryLockX(t) ==
  /\ \/ /\ CanCas(t)
        /\ SetWord(t, SameVersion(reg[t], Locked))
        /\ Goto(t, IF pc[t] = "evictCas" THEN "fault" ELSE "exclusive")
     \/ /\ ~CanCas(t)
        /\ Goto(t, IF pc[t] = "upgradeXcas" THEN "upgradeX" ELSE "load")
        /\ UNCHANGED word
  /\ UNCHANGED <<content, resident, allocCount, linked, pid, reg, ver, snap, opsLeft>>

\* Seeded faults: the page is faulted in before it is locked; the result of
\* tryLockX in fixX is ignored.
BugFaultUnlocked(t) == /\ pc[t] = "evictCas"
                       /\ Goto(t, "fault")
                       /\ UNCHANGED <<shared, local>>
BugIgnoredCas(t) == /\ pc[t] = "xCas"
                    /\ Goto(t, "exclusive")
                    /\ IF CanCas(t) THEN SetWord(t, SameVersion(reg[t], Locked))
                                    ELSE UNCHANGED word
                    /\ UNCHANGED <<content, resident, allocCount, linked, local>>

EvictCas(t) == pc[t] = "evictCas" /\ TryLockX(t) /\ UNCHANGED kind
XCas(t)     == pc[t] = "xCas"     /\ TryLockX(t) /\ UNCHANGED kind

\* handleFault (and the end of allocPage): the page enters ResidentPageSet.
\* fixX returns with the lock; GuardO::init and fixS unlock and loop.
Fault(t) ==
  /\ pc[t] = "fault"
  /\ resident' = [resident EXCEPT ![pid[t]] = @ + 1]
  /\ Goto(t, IF kind[t] = "X" THEN "exclusive" ELSE "unlockX")
  /\ UNCHANGED <<word, content, allocCount, linked, local>>

\* tryLockS: from Marked the first reader, else one more.
SCas(t) ==
  /\ pc[t] = "sCas"
  /\ \/ /\ CanCas(t)
        /\ SetWord(t, SameVersion(reg[t], IF reg[t].state = Marked THEN 1
                                                  ELSE reg[t].state + 1))
        /\ Goto(t, "shared")
     \/ /\ ~CanCas(t)
        /\ Goto(t, "load")
        /\ UNCHANGED word
  /\ UNCHANGED <<content, resident, allocCount, linked, local>>
-----------------------------------------------------------------------------
(***************************************************************************)
(* A thread with a GuardO reads the page (two accesses), then validates    *)
(* (release, move, destructor) or upgrades to a GuardX or a GuardS.        *)
(***************************************************************************)
ReadLo(t) ==
  /\ pc[t] = "optimistic"
  /\ snap' = [snap EXCEPT ![t].lo = content[pid[t]].lo]
  /\ Goto(t, "halfRead")
  /\ UNCHANGED <<shared, kind, pid, reg, ver, opsLeft>>

ReadHi(t) ==
  /\ pc[t] = "halfRead"
  /\ snap' = [snap EXCEPT ![t].hi = content[pid[t]].hi]
  /\ Goto(t, "read")
  /\ UNCHANGED <<shared, kind, pid, reg, ver, opsLeft>>

\* checkVersionAndRestart: shared locks do not matter, a mark is cleared,
\* anything else throws OLCRestartException.
SameVer(t) == W(t).version = ver[t].version

\* Seeded fault: the same version is enough, even if the page is locked.
BugIgnoreLocked(t) ==
  /\ pc[t] = "read"
  /\ IF SameVer(t) THEN Finish(t, "validated") ELSE Finish(t, "restarted")
  /\ UNCHANGED shared

Check(t) ==
  /\ pc[t] = "read"
  /\ \/ /\ SameVer(t)
        /\ W(t).state <= MaxShared
        /\ Finish(t, "validated")
     \/ /\ SameVer(t)
        /\ W(t).state = Marked
        /\ reg' = [reg EXCEPT ![t] = W(t)]
        /\ Goto(t, "checkUnmark")
        /\ UNCHANGED <<kind, pid, ver, snap, opsLeft>>
     \/ /\ ~SameVer(t) \/ W(t).state \in {Locked, Evicted}
        /\ Finish(t, "restarted")
  /\ UNCHANGED shared

CheckUnmark(t) ==
  /\ pc[t] = "checkUnmark"
  /\ \/ /\ CanCas(t)
        /\ SetWord(t, SameVersion(reg[t], Unlocked))
        /\ Finish(t, "validated")
     \/ /\ Finish(t, "restarted")
        /\ UNCHANGED word
  /\ UNCHANGED <<content, resident, allocCount, linked>>

\* GuardX(GuardO&&): spins while the version is the same and the page is
\* not free; a new version throws.
BeginUpgradeX(t) ==
  /\ pc[t] = "read"
  /\ Goto(t, "upgradeX")
  /\ UNCHANGED <<shared, local>>

\* Seeded fault: the upgrade does not compare the versions.
BugUpgradeAnyVersion(t) ==
  /\ pc[t] = "upgradeX"
  /\ W(t).state \in {Unlocked, Marked}
  /\ reg' = [reg EXCEPT ![t] = W(t)]
  /\ Goto(t, "upgradeXcas")
  /\ UNCHANGED <<shared, kind, pid, ver, snap, opsLeft>>

UpgradeX(t) ==
  /\ pc[t] = "upgradeX"
  /\ \/ /\ ~SameVer(t)
        /\ Finish(t, "restarted")
     \/ /\ SameVer(t)
        /\ W(t).state \in {Unlocked, Marked}
        /\ reg' = [reg EXCEPT ![t] = W(t)]
        /\ Goto(t, "upgradeXcas")
        /\ UNCHANGED <<kind, pid, ver, snap, opsLeft>>
  /\ UNCHANGED shared

UpgradeXCas(t) ==
  /\ pc[t] = "upgradeXcas"
  /\ TryLockX(t)
  /\ kind' = [kind EXCEPT ![t] = IF CanCas(t) THEN "X" ELSE @]

\* GuardS(GuardO&&): one tryLockS on the very word the GuardO loaded.
UpgradeS(t) ==
  /\ pc[t] = "read"
  /\ \/ /\ W(t) = ver[t]
        /\ ver[t].state < MaxShared
        /\ SetWord(t, SameVersion(ver[t], ver[t].state + 1))
        /\ kind' = [kind EXCEPT ![t] = "S"]
        /\ Goto(t, "shared")
        /\ UNCHANGED <<pid, reg, ver, snap, opsLeft>>
     \/ /\ W(t) # ver[t] \/ ver[t].state >= MaxShared
        /\ Finish(t, "restarted")
        /\ UNCHANGED word
  /\ UNCHANGED <<content, resident, allocCount, linked>>
-----------------------------------------------------------------------------
(***************************************************************************)
(* The owner of a GuardX writes the page, links a page it has allocated,   *)
(* and unlocks: unlockX is a load and a store, with a new version.         *)
(***************************************************************************)
WriteLo(t) ==
  /\ pc[t] = "exclusive"
  /\ content' = [content EXCEPT ![pid[t]].lo = W(t).version + 1]
  /\ Goto(t, "halfWritten")
  /\ UNCHANGED <<word, resident, allocCount, linked, local>>

WriteHi(t) ==
  /\ pc[t] = "halfWritten"
  /\ content' = [content EXCEPT ![pid[t]].hi = W(t).version + 1]
  /\ Goto(t, "written")
  /\ UNCHANGED <<word, resident, allocCount, linked, local>>

\* The id of the new page is stored in a page other threads read.
Link(t) ==
  /\ pc[t] \in {"exclusive", "halfWritten", "written"}
  /\ pid[t] \notin linked
  /\ linked' = linked \union {pid[t]}
  /\ UNCHANGED <<word, content, resident, allocCount, pc, local>>

UnlockXLoad(t) ==
  /\ pc[t] \in {"unlockX", "exclusive", "written"}
  /\ reg' = [reg EXCEPT ![t] = W(t)]
  /\ Goto(t, "storeX")
  /\ UNCHANGED <<shared, kind, pid, ver, snap, opsLeft>>

UnlockXStore(t) ==
  /\ pc[t] = "storeX"
  /\ SetWord(t, NextVersion(reg[t], Unlocked))
  /\ IF kind[t] = "X"
       THEN Finish(t, "idle")
       ELSE Goto(t, "load") /\ UNCHANGED local
  /\ UNCHANGED <<content, resident, allocCount, linked>>

\* A page replacement takes the page out of ResidentPageSet, then calls
\* unlockXEvicted (external: no caller in the repository).
EvictLoad(t) ==
  /\ Eviction
  /\ pc[t] \in {"exclusive", "written"}
  /\ resident' = [resident EXCEPT ![pid[t]] = @ - 1]
  /\ reg' = [reg EXCEPT ![t] = W(t)]
  /\ Goto(t, "storeEvicted")
  /\ UNCHANGED <<word, content, allocCount, linked, kind, pid, ver, snap, opsLeft>>

EvictStore(t) ==
  /\ pc[t] = "storeEvicted"
  /\ SetWord(t, NextVersion(reg[t], Evicted))
  /\ Finish(t, "idle")
  /\ UNCHANGED <<content, resident, allocCount, linked>>

DowngradeLoad(t) ==
  /\ Eviction
  /\ pc[t] \in {"exclusive", "written"}
  /\ reg' = [reg EXCEPT ![t] = W(t)]
  /\ Goto(t, "storeShared")
  /\ UNCHANGED <<shared, kind, pid, ver, snap, opsLeft>>

DowngradeStore(t) ==
  /\ pc[t] = "storeShared"
  /\ SetWord(t, NextVersion(reg[t], 1))
  /\ kind' = [kind EXCEPT ![t] = "S"]
  /\ Goto(t, "shared")
  /\ UNCHANGED <<content, resident, allocCount, linked, pid, reg, ver, snap, opsLeft>>

\* unlockS: load and CAS until it succeeds.
UnlockSLoad(t) ==
  /\ pc[t] \in {"shared", "unlockS"}
  /\ reg' = [reg EXCEPT ![t] = W(t)]
  /\ Goto(t, "unlockScas")
  /\ UNCHANGED <<shared, kind, pid, ver, snap, opsLeft>>

UnlockSCas(t) ==
  /\ pc[t] = "unlockScas"
  /\ \/ /\ CanCas(t)
        /\ SetWord(t, SameVersion(reg[t], reg[t].state - 1))
        /\ Finish(t, "idle")
     \/ /\ ~CanCas(t)
        /\ Goto(t, "unlockS")
        /\ UNCHANGED <<word, local>>
  /\ UNCHANGED <<content, resident, allocCount, linked>>

\* tryMark asserts that the word it was given is unlocked.
LoadMark(t) ==
  /\ kind[t] = "M"
  /\ \/ /\ W(t).state = Unlocked
        /\ LoadTo(t, "markCas")
        /\ UNCHANGED ver
     \/ /\ pc[t] = "load"
        /\ W(t).state # Unlocked
        /\ Finish(t, "idle")
        /\ UNCHANGED shared

MarkCas(t) ==
  /\ pc[t] = "markCas"
  /\ IF CanCas(t) THEN SetWord(t, SameVersion(reg[t], Marked)) ELSE UNCHANGED word
  /\ Finish(t, "idle")
  /\ UNCHANGED <<content, resident, allocCount, linked>>
-----------------------------------------------------------------------------
Step(t) ==
  \/ Begin(t) \/ BeginAlloc(t) \/ AllocLoad(t) \/ AllocCas(t)
  \/ LoadEvicted(t) \/ LoadO(t) \/ LoadX(t) \/ LoadS(t)
  \/ Unmark(t) \/ EvictCas(t) \/ XCas(t) \/ Fault(t) \/ SCas(t)
  \/ ReadLo(t) \/ ReadHi(t) \/ Check(t) \/ CheckUnmark(t)
  \/ BeginUpgradeX(t) \/ UpgradeX(t) \/ UpgradeXCas(t) \/ UpgradeS(t)
  \/ WriteLo(t) \/ WriteHi(t) \/ Link(t) \/ UnlockXLoad(t) \/ UnlockXStore(t)
  \/ EvictLoad(t) \/ EvictStore(t) \/ DowngradeLoad(t) \/ DowngradeStore(t)
  \/ UnlockSLoad(t) \/ UnlockSCas(t) \/ LoadMark(t) \/ MarkCas(t)

\* All guards taken: the workload is over.
Done ==
  /\ \A t \in Thread : pc[t] \in Idle /\ opsLeft[t] = 0
  /\ UNCHANGED vars

Next == (\E t \in Thread : Step(t)) \/ Done

Spec == Init /\ [][Next]_vars

\* Every thread keeps being scheduled.
FairSpec == Spec /\ \A t \in Thread : WF_vars(Step(t))
-----------------------------------------------------------------------------
TypeOK ==
  /\ word \in [Page -> Word]
  /\ content \in [Page -> Content]
  /\ resident \in [Page -> Int]
  /\ allocCount \in 1 .. NPages
  /\ linked \subseteq Page
  /\ pc \in [Thread -> Label]
  /\ kind \in [Thread -> Kind]
  /\ pid \in [Thread -> Page]
  /\ reg \in [Thread -> Word]
  /\ ver \in [Thread -> Word]
  /\ snap \in [Thread -> Content]
  /\ opsLeft \in [Thread -> 0 .. MaxOps]

\* The threads that own page p exclusively, and that share it.
XOwner(p) == {t \in Thread : pc[t] \in XLabel /\ pid[t] = p}
SOwner(p) == {t \in Thread : pc[t] \in SLabel /\ pid[t] = p}

\* The word of a page tells exactly who holds it: Locked means one owner and
\* no reader, a count means that many readers, anything else means nobody.
LatchInv ==
  \A p \in Page :
    /\ word[p].state = Locked => \E t \in Thread : XOwner(p) = {t}
    /\ word[p].state # Locked => XOwner(p) = {}
    /\ Cardinality(SOwner(p)) =
         IF word[p].state \in 1 .. MaxShared THEN word[p].state ELSE 0

\* A thread that got its page from allocPage has it fixed: the comment on
\* allocPage says "allocated new page and fix it".
AllocatedIsFixed ==
  \A t \in Thread : pc[t] \in XLabel => W(t).state = Locked

\* ResidentPageSet holds a page at most once, and holds every page that can
\* be read: insert asserts that the page is not there yet.
ResidentOnce ==
  \A p \in Page :
    /\ resident[p] \in {0, 1}
    /\ word[p].state = Evicted => resident[p] = 0
    /\ word[p].state \notin {Locked, Evicted} => resident[p] = 1

\* Nobody but its exclusive owner ever meets a half-written page: a reader
\* under a GuardS sees all of a write or nothing of it.  Proved, and not run.
WrittenWhole ==
  \A p \in Page : XOwner(p) = {} => content[p].lo = content[p].hi

\* An upgrade keeps what was read: when a GuardO becomes a GuardX or a GuardS,
\* the page still is what the thread read before, although the two reads
\* and the CAS are steps apart.
UpgradeKeepsRead ==
  [][\A t \in Thread :
       /\ pc[t] \in {"read", "upgradeXcas"}
       /\ pc'[t] \in {"shared", "exclusive"}
       => snap[t] = content[pid[t]]]_vars

-----------------------------------------------------------------------------
(***************************************************************************)
(* The inductive invariant behind the properties above, for a build with   *)
(* assertions: what each thread knows of the word it loaded, who owns a    *)
(* page, which pages are untouched, and what an optimistic reader has.     *)
(***************************************************************************)
RegOf(t) ==
  /\ pc[t] = "evictCas" => reg[t].state = Evicted
  /\ pc[t] \in {"xCas", "upgradeXcas"} => reg[t].state \in {Unlocked, Marked}
  /\ pc[t] \in {"upgradeXcas", "checkUnmark"} => reg[t].version = ver[t].version
  /\ pc[t] = "sCas" => reg[t].state < MaxShared \/ reg[t].state = Marked
  /\ pc[t] \in {"unmark", "checkUnmark"} => reg[t].state = Marked
  /\ pc[t] = "markCas" => reg[t].state = Unlocked
  /\ pc[t] \in OLabel => ver[t].state <= MaxShared
RegInv == \A t \in Thread : RegOf(t)

Stores == {"storeX", "storeEvicted", "storeShared"}

OwnerInv ==
  /\ \A t \in Thread : pc[t] \in XLabel => W(t).state = Locked
  /\ \A t \in Thread : pc[t] \in Stores => reg[t] = W(t)
  /\ \A t, u \in Thread :
       pc[t] \in XLabel /\ pc[u] \in XLabel /\ pid[t] = pid[u] => t = u
  /\ \A p \in Page :
       word[p].state = Locked => \E t \in Thread : pc[t] \in XLabel /\ pid[t] = p

FreshInv ==
  /\ \A p \in linked : p < allocCount
  /\ \A t \in Thread : pc[t] \notin Idle => pid[t] < allocCount
  /\ \A p \in Page : p >= allocCount => word[p].state = Evicted
  /\ \A t \in Thread : pc[t] \in {"alloc", "allocCas"} =>
       /\ W(t).state = Evicted
       /\ pid[t] \notin linked
       /\ \A u \in Thread \ {t} : pc[u] \notin Idle => pid[u] # pid[t]

Readers(w) == IF w.state \in 1 .. MaxShared THEN w.state ELSE 0
CountInv == \A p \in Page : Cardinality(SOwner(p)) = Readers(word[p])

ResidentInv ==
  /\ \A t \in Thread : pc[t] \in XLabel =>
       resident[pid[t]] = IF pc[t] \in {"fault", "storeEvicted"} THEN 0 ELSE 1
  /\ \A p \in Page : word[p].state # Locked =>
       resident[p] = IF word[p].state = Evicted THEN 0 ELSE 1

ReadOf(t) ==
  pc[t] \in OLabel =>
    /\ ver[t].version <= W(t).version
    /\ SameVer(t) /\ W(t).state # Locked =>
         /\ pc[t] # "optimistic" => snap[t].lo = content[pid[t]].lo
         /\ pc[t] \notin {"optimistic", "halfRead"} =>
              snap[t].hi = content[pid[t]].hi
ReadInv == \A t \in Thread : ReadOf(t)

WholeInv ==
  /\ \A p \in Page : word[p].state # Locked => content[p].lo = content[p].hi
  /\ \A t \in Thread : pc[t] \in XLabel =>
       IF pc[t] = "halfWritten" THEN content[pid[t]].lo = W(t).version + 1
                                ELSE content[pid[t]].lo = content[pid[t]].hi

IInv == /\ TypeOK /\ RegInv /\ OwnerInv /\ FreshInv /\ CountInv
        /\ ResidentInv /\ ReadInv /\ WholeInv
-----------------------------------------------------------------------------
\* What GuardO, GuardX and GuardS promise together: an atomic reader-writer
\* latch with a version, and optimistic reads that happen at one instant.
Latch == INSTANCE RWLatch WITH
  xOwner <- [p \in Page |-> XOwner(p)],
  sOwner <- [p \in Page |-> SOwner(p)],
  version <- [p \in Page |-> word[p].version],
  out <- [t \in Thread |-> IF pc[t] = "validated" THEN <<pid[t], snap[t]>>
                                                  ELSE <<>>]
ImplementsLatch == Latch!Spec

\* Every guard a thread asks for ends: the spin loops finish once the other
\* threads have released what they hold.
EveryGuardEnds == \A t \in Thread : pc[t] \notin Idle ~> pc[t] \in Idle
=============================================================================
