# A verification of memsafedb's own code

memsafedb measures memory-safety hardware (Arm MTE, CHERI) under database
workloads. Most of the repository starts programs written elsewhere. The code of its
own that has hard behaviour is a concurrent B-tree with optimistic latches, a
lock-free-for-readers skip list with an arena, a queue benchmark, a fork-and-classify
bug runner, scrapers that page through bug trackers, programs that count what a language
model said three times about each bug, and two benchmark drivers. This project models that code in TLA+, checks the models with TLC
and proves the central theorems with TLAPS.

Contents: [inventory](#inventory), [plan](#plan), then one section per
modelled component ([latches](#page-latches-pagelatch-rwlatch-pagelatchproofs),
[resident set](#resident-page-set-residentset-residentsetproofs),
[B-tree](#b-tree-btreeolc-kvstore-btreeshape-btreeolcproofs-btreescanproofs), [page layout](#page-layout-btreenode-btreepages), [skip list and arena](#skip-list-and-arena-skiplist-sortedset-arena-skiplistmem-skiplistproofs),
[queue benchmark](#queue-benchmark-queuebench), [bug runner](#bug-runner-bugrunner-bugrunnerproofs),
[bug scrapers](#bug-scrapers-scrapebugs-bugscraper-githubscraper-jirascraper-mysqlscraper),
[bug study](#bug-study-study-cvescrape-studyresults-bugexport-bugreport-cveexport-cvereport),
[benchmark drivers](#benchmark-drivers-drivers-resultsfile-structbench-benchscheduler-ycsbrunner-driversproofs)),
[runs](#runs), [proofs](#proofs), [limits](#what-is-not-modelled-and-why).

## Inventory

| component (source) | state | operations | interacts with |
| --- | --- | --- | --- |
| page latches (`datastructures/btree/btree.hpp` 60-560, 589-668) | one 64-bit word per page: 8 bits of state (unlocked, reader count, locked, marked, evicted), 56 bits of version; page contents; `allocCount` | `GuardO` (optimistic), `GuardX`, `GuardS`, `AllocGuard`; `fixX`, `fixS`, `unfixX`, `unfixS`, `allocPage`, `handleFault` | resident set on a fault; used by the B-tree for every access |
| resident page set (`btree.hpp` 126-219) | open-addressing table of page ids with empty and tombstone marks | `insert`, `remove`, `iterateClockBatch` | called by `handleFault` |
| B-tree (`btree.hpp` 1162-1440) | pages with sorted slots and fences, root id in the meta data page | `lookup`, `insert`, `remove`, `updateInPlace`, `scanAsc`, `scanDesc`; inside them `trySplit`, `ensureSpace`, merges | latches; page layout |
| page layout (`btree.hpp` 672-1160) | header, heap, slots, hints, prefix of one page | `insertInPage`, `removeSlot`, `compactify`, `splitNode`, `mergeNodes`, `findSeparator`, `lowerBound` | called by the B-tree under a latch, and by lookups without one |
| skip list (`datastructures/skiplist/skiplist.h`, `random.h`) | linked levels, `max_height_` | `Insert` (one writer), `Contains`, the iterator's moves (readers without a lock) | takes its nodes from the arena |
| arena (`datastructures/skiplist/arena.h`) | blocks, pointer and rest of the current block | `Allocate`, `AllocateAligned` | tags nodes under MTE |
| queue benchmark (`datastructures/queue_bench/main.cpp`) | per-thread counters, `done` | producers push, consumers pop until `done` and then drain | boost's lock-free queue (external) |
| bug runner (`bug_classes/runner.c`, `bugs.c`) | shared memory of parent and child, a pipe, a tally | fork, handlers, alarm, drain, wait, classify, fold | the kernel; the bug programs |
| bug scrapers (`bug_study/scrape_bugs.py`) | page number, `since`, files on disk | page through GitHub, Jira, MySQL; save each issue of a range of dates | trackers that change meanwhile |
| CVE scraper (`bug_study/scrape_cves.py`) | archive, extracted tree, a list per database | download, extract, search, save; `--force` | an archive that grows |
| classification (`bug_study/bugs.just` 108-309, 324-617) | per database: keyword matches, a file of answers per repetition | search, ask about each report in 16 threads, three repetitions; stops at a command that fails | files of the scrapers; a language model (external) |
| study analysis (`bug_study/export_*.py`, `analyse_*.py`) | tables, a CSV file, groups, report files | vote over three answers, count, list in parts | files of the scrapers and of the classification |
| data structure driver (`datastructures/execute_bench.py`) | configurations, raw file, CSV file | run each in random order, parse, flush a row; `--append` | benchmark processes with a timeout |
| database driver (`dbms/benchmark/run_benchmarks.py`) | two queues of runs, counters and a CSV file under a lock | two host threads run, write rows; Ctrl-C, `--append`, `--sequential` | `just` recipes, remote hosts |
| YCSB runs (`dbms/benchmark/ycsb_runner.py`) | a script per variant, stores, a Redis server, scripts that outlived their session | load once, reuse, reload; parse the outputs of all variants | called by the driver; ycsb, redis-server |
| the rest | - | `parsers.py`, `count_new_instructions.py`, `utils/`, plots, nix and the other just files | stateless text processing, wrappers, recipes |

What is hard, and what makes each component right:

- **Latches.** Any two steps of any threads interleave: a word is loaded, and changed by a
  CAS later. Right means: one exclusive owner or counted readers; a read that
  was validated saw a page that nobody was writing; an upgrade keeps what was read;
  a page is faulted in once; every spin loop ends.
- **Resident set.** Threads probe while others take slots and leave tombstones. Right
  means: each cached page is in exactly one slot, and a probe never misses one.
- **B-tree.** A child id is read before the child is latched; parents, leaves and the root
  change in between; scans walk a chain that merges and splits rewrite. Right means: each
  call takes effect at one instant, a search tree at all times, scans miss no key
  that stays, calls end when nobody competes.
- **Skip list.** Readers meet half-linked nodes and stale heights. Right means: atomic
  answers, no link read that is absent or unset, searches end.
- **Arena.** Right means: no two objects overlap, and none shares an MTE granule.
- **Queue benchmark.** Right means: all items consumed exactly once, no early exit.
- **Bug runner.** Right means: the classification is that of the child's real end, the
  parent neither deadlocks on the pipe nor waits for ever, counts add up.
- **Scrapers.** The tracker changes between two requests, requests fail, a paging limit cuts
  windows. Right means: an issue that matches and stays is stored once; each scraper ends.
- **Study.** Answers are lost, unreadable or cut off. Right means: the programs that
  count them, each in its own way, tell one story; each report is listed once.
- **Drivers.** Measurements fail, time out, raise; the driver is killed, run again with `--append`.
  Right means: each finished run's rows are in the file once and together, a row can be traced to what it
  claims to measure, the last count is honest.

`PROJECT.json` lists every hazard with its line and the properties that watch it.

## Plan

Modules, in the order of importance:

1. `PageLatch` implements `RWLatch`; proofs in `PageLatchProofs`. *Done.*
2. `ResidentSet`; proofs in `ResidentSetProofs`. *Done.*
3. `BTreeOLC` implements `KVStore`, on latches as (1) establishes them; proofs in
   `BTreeShape`, `BTreeOLCProofs` and `BTreeScanProofs`. *Done.*
4. `SkipList` implements `SortedSet`; `Arena`; `SkipListMem` composes both; proofs in
   `SkipListProofs`. *Done.*
5. `QueueBench`: producers and consumers on an external queue. Nothing is lost or
   counted twice, consumers leave only when the queue is empty for good, the join ends.
   *Done.*
6. `BugRunner`: parent, child and kernel. The outcome matches the child's end; no
   deadlock on the pipe; the tally adds up to the number of runs; proofs in
   `BugRunnerProofs`. *Done.*
7. `ScrapeBugs` with a module per tracker: a tracker that changes and a client that pages
   through it. *Done.*
8. `Study`: the CVE scraper, the files of the classification and the four programs
   that count them. *Done.*
9. `Drivers`: host threads, results file, interrupts, load reuse of YCSB, and the queue
   benchmark; proofs in `DriversProofs`. *Done.*
10. `BTreeNode` and `BTreePages`: the bytes of a page (`spaceUsed`, `dataOffset`,
   `compactify`), splits and merges on them, and the hint search of `lowerBound` against a
   plain one. *Done.*

Theorems, all *done* for (1) to (6): the invariants of each, the four refinements (`PageLatch` of
`RWLatch`, `BTreeOLC` of `KVStore`, `SkipList` and `SkipListMem` of `SortedSet`), and that scans
of the tree miss nothing; of (9), the results file, the sweep, the queue, the database driver and YCSB.
Left: that the operations of `BTreeNode` keep the accounting of a page.

## Page latches: PageLatch, RWLatch, PageLatchProofs

`PageLatch` has one action per load, compare-and-swap or store of a page's word, for
the guards and for the buffer manager functions under them.

| code | model |
| --- | --- |
| `PageState::stateAndVersion` | `word[p]`, a record `[state, version]` |
| the bytes of a page | `content[p]`, two halves, read and written in two steps |
| `ResidentPageSet` | `resident[p]`, how often `p` is in it |
| `BufferManager::allocCount` | `allocCount`; `linked` are the pages whose id somebody can read |
| a thread inside a guard | `pc`, `kind`, `pid`, `reg` (the loaded word), `ver` (`GuardO::version`), `snap` (what it read) |

`GuardO` is built by `LoadO` (and `Unmark`, or a fault with `EvictCas`, `Fault`), reads with
`ReadLo` and `ReadHi`, and is validated by `Check` and `CheckUnmark`, or upgraded
by `UpgradeX` or `UpgradeS`. `GuardX` is `LoadX`, `XCas`, `WriteLo`, `WriteHi`, then the load
and the store of `unlockX`, which are two steps in the code too. `AllocGuard` is
`BeginAlloc`, `AllocLoad`, `AllocCas`, `Link`. With `Eviction` the run also uses the
operations of `PageState` that only a page replacement would call (`tryMark`,
`unlockXEvicted`, `downgradeLock`); the repository has none that does, so the proofs
cover both values. `AssertsOn = FALSE` is a build with `NDEBUG`, in which the
`tryLockX` inside `assert` of `allocPage` is not evaluated.

`RWLatch` is what the guards promise: ownership taken atomically, a version that grows when
exclusive ownership ends, validated reads that return what the page held at one
instant with no exclusive owner. `ImplementsLatch` maps the owners to the threads at
the labels where they own the page. A thread holds one guard here: several at once are
the business of `BTreeOLC`.

Properties. `LatchInv`: the exclusive owner is alone, and a word's state counts the
readers exactly. `UpgradeKeepsRead`: whoever upgrades a `GuardO` still sees what it read.
`AllocatedIsFixed`: a page under an `AllocGuard` or `GuardX` is locked.
`ResidentOnce`: a page is inserted into the resident set once. `EveryGuardEnds`: spin
loops end. The types, the inductive invariant `IInv` and `WrittenWhole` (nobody but the exclusive owner
meets a half-written page) are proved, and no run repeats them.

Finding: `allocPage` locks the new page inside an assertion (`btree.hpp:598`), so a
build with `NDEBUG` returns a page that is not fixed, against the comment at
`btree.hpp:589`. The run `latch_ndebug` shows it.

## Resident page set: ResidentSet, ResidentSetProofs

`table` is the array of slots; `InsertLoad`, `InsertCas`, `RemoveLoad` and `RemoveCas`
are the loads and CASes of the two loops. `Hash` is an arbitrary function: the
murmur hash of the code is not used otherwise. The environment inserts a page only
if it is not cached or being inserted, and removes only one it caches or has seen
cached, as `handleFault` and a page replacement under its latch do; that is what
the latches' `ResidentOnce` gives.

Properties. `Exact`: each cached page is in exactly one slot and nothing else is.
`NeverMissed`: `remove` does not answer that a page is absent when it was there all
the time. `InsertEnds`: once nobody removes any more, every insert ends. (With removals
for ever, an insert may lose every race; and a `remove` of an absent page does not end when
no slot is empty any more. Both are in the hazard list; no caller does either.)

## B-tree: BTreeOLC, KVStore, BTreeShape, BTreeOLCProofs, BTreeScanProofs

`BTreeOLC` is the tree over latches that behave as `PageLatch` proves. Therefore:

- a page has `xlock[p]` (owner) and `slock[p]` (sharers); taking one is a step;
- a `GuardO` is a record with the page, `fresh` (nobody unlocked the page exclusively
  since the version was loaded; `Expire` clears it at every exclusive unlock) and
  `readers` (the state part that an upgrade to `GuardS` compares);
- a validated read is one step: `RWLatch` says that it happens at one instant.
  Reads that are *not* validated may return anything (`Told`);
- write and unlock of a page that is exclusively locked are one step, since nobody can
  see the page in between.

The steps a thread takes are the points where it loads a version, checks one, takes or drops a
latch: `ReadChild` reads the child id from the parent, `LoadChild` the child's
version, `Recheck` validates the parent, as the move assignment of `GuardO` does.
`EnsureSpace`, `NewRoot`, `Split`, `SplitFirst` are `trySplit` and `ensureSpace` with
their locks dropped in between. `Merge` is the right half of `remove`. Scans are `ScanLock`,
`Visit`, `LockNext`, `UnlockLast`, `EndScan`; `Stop` is a callback that returns false.

Data. Keys are numbers, values one of two, a page a function from keys to values
or children with its two fences. Space is counted in slots. A separator may be truncated,
so `Separators` is any key between the two halves. `Underfull` and `Sparse` stand for
`underFullSize` and the free space of the sibling. `insert` does not look whether its
key is there, and the callers insert fresh keys: the model only inserts keys that are absent.
The pool has pages enough; page ids are never reused, as in the code.

`KVStore` is a map on which each call takes effect at one instant between
its begin and its end; `ImplementsStore` is the refinement. The map is what the leaves
hold. A `Scene` is a loaded tree and the calls that the threads choose from; the load
runs through the same actions, one insert after the other, so that every initial tree is
one the program builds.

Properties. `ImplementsStore`. `TreeInv`: searches, fences, leaves and the chain agree in
every state, half a split or merge included. `ScanComplete`: a scan visits
every key of its range that stays during the scan, in order, and no key that was never there.
`LastCallEnds`: when the others are done, a call ends.

`OnlyScanDescBlocks`: threads block each other in one way only. `scanDesc` shares a leaf
while it goes down from the root, and waits there for a page that a `remove` or an `insert` has
locked, which waits for that leaf. TLC shows this deadlock; no line of the repository
denies it, so it is in the hazard list and no finding.

What does not hold, and is not claimed: two writers may abort each other for ever (one
locks the leaf and fails on the parent, the other the other way round), so
there is no progress without a scheduler's help.

## Page layout: BTreeNode, BTreePages

`BTreeNode` are the operations of one page as operators that take pages and return them, with the
names of the code: `lowerBound` with its hints and heads, `insertInPage`, `removeSlot`,
`compactify`, `copyKeyValueRange`, `findSeparator`, the three pages of a split (`SplitLeft`, `SplitRight`,
`SplitParent`) and of a merge.

| code | model |
| --- | --- |
| a key | a sequence of bytes, a byte a number below `Base` |
| a slot and what it points to | a record: `offset`, the key behind the prefix, `head`, `payloadLen`, and `val`, the child of an inner page |
| `count` | the length of `slot` |
| `upperInnerNode`, `nextLeafNode` | `link`, one field as in the code's union |
| `dataOffset`, `spaceUsed`, `prefixLen`, `hint` | fields of the same name; slots count from 0 and hints from 1 |
| what lies behind the last slot | a head of 0, read by `makeHint` of an empty page and by nothing that searches |

`BTreePages` runs calls on them, one at a time: `BeginInsert`, then `InsertInLeaf`, or `SplitLeaf` and
`EnsureSpace` (both `trySplit`, which grows the tree, splits, or asks for space in the parent) until the leaf has
space; `RemoveKey` is `remove` with its merge. How calls interleave is the subject of `BTreeOLC`, which counts
space in slots; a writer's page is locked, so the operations themselves run alone there too. What readers
without a lock find in a page that is being written is `Told` of `BTreeOLC`; `slotInPage` and `fenceInPage`, which
turn it into a restart, always hold here. An assertion that fails ends the behaviour (`aborted`), as does the
program. `insert` does not look for its key, so calls insert absent keys, of at most `maxKVSize` with their payload.
A `Scene` is a load that is inserted first, and the keys and payloads of the calls after it.

Properties. `PagesSound`: no assertion fails; in every page keys and payloads overlap neither each other nor slots or
fences, `spaceUsed` is what they take, and `compactify` frees what `hasSpaceFor` promised. `TreeHolds`: the search
with hints and heads ends where a plain one would, at each key, and finds exactly what is stored with its
payload; the chain of leaves lists it in order. `AssertsHold` alone is the question of `page_limit`.

Finding: the assertion in `copyKeyValueRange` (`btree.hpp:1019`) fails for keys that `insert` allows
(`btree.hpp:1378`). A leaf is split at the middle of its slots. If three of its keys have the maximal length and
two short ones follow, the left half takes the three, and as its upper fence the separator, which is the third key
as a whole. With the code's sizes these are 4106 of 4096 bytes. The scenes of `page` have keys of at
most five bytes, of eight that are allowed with a payload, and no such leaf.

That every insert ends is not claimed, as nothing here has fairness: a step that cannot be taken would show as a
deadlock of `page`.

## Skip list and arena: SkipList, SortedSet, Arena, SkipListMem, SkipListProofs

A node is its key (keys are unique, nodes are never freed); `next[l][n]` is the link of
`n` at level `l`, `Wild` before it is set. Each load or store of a link is a
step: `Move`, `Down` and `Arrive` are the three ends of one turn of the search loops, `Grow` is
`RandomHeight` (any height), the store of `max_height_` and `NewNode`, `Insert` the loop
that sets the new node's link and then publishes it, from level 0 up.
`max_height_` is loaded relaxed and published by nothing, so a reader may load any value it
ever had (`heights`); links are release and acquire, so the rest is sequentially consistent.
Readers write nothing that another thread reads, so one reader shows what any number would see.

`SortedSet` has atomic inserts and answers; `ImplementsSet` is the refinement, the set being
the keys linked at level 0. `Sorted`: every level is a sorted list of exactly
its keys at all times. `ReadsPublished`: no thread follows a link that the node does not have
or that is not set, whatever height it started from. `CallsEnd`: searches end.

`Arena` hands out pieces of blocks. `SkipListMem` takes each node from it:
`NodesApart` says that no two nodes overlap, and each is aligned and a whole number of MTE granules.
`AllocateAligned` adds `bytes % 16` as slop, which is right only for sizes that
leave 0 or 8 over 16, as the sizes of nodes do; the hazard list has the line.

## Queue benchmark: QueueBench

`Count`, `Push` and `ProducerEnds` are the loop of `producer`; `LoadDone`, `Pop` and `PopFails` the
two loops of `consumer` (`consumer[c]` says in which it is); `JoinProducers`, `SetDone` and
`JoinConsumers` the end of `main`. boost's queue is external: bounded, and each push or pop at one
instant. A failed push is tried again and changes nothing, so it is no action. A thread that has not been
started is one that has not taken a step. `taken` counts how often an item was popped; the code
only counts pops. The number of items is below 2^31, where the counters of the code end.

Properties. `NothingLost`: an item is in the queue once or was popped once from the moment it
was pushed, and neither before. `Complete`: a consumer leaves only when the queue is empty and
stays so, and at the end each item that `main` reports was popped once. The benchmark ends
(`DriversEnd`). The run is that of `Drivers`, where the benchmark is one of the programs measured; its
specification alone is `QueueSpec`, which `Drivers` implements (`QueueRuns`).

## Bug runner: BugRunner, BugRunnerProofs

The parent is `Fork`, `Read`, `Drain`, `EndOfFile` (`run_once`), `Wait` (`waitpid`, `classify` and
the count of `run_bug`) and `PrintRows`. The child is one bug program: it announces its
stages (`NextStage`), may print, and returns what it observed, or goes wrong: a fault and its
handler, an abort with or without a message, a loop, a stray exit, a kill. It does not forge the shared
state or the handler's exit status; `obs` and `addr` of the shared state are read by nobody and left
out. The pipe holds `PipeCap` chunks and the buffer `StderrMax`; the code has 64 KiB of each
and a chunk stands for that much output. `alarm` is long enough for every child but one that loops
or waits for a pipe that nobody reads. `truth` records what really happened and at which stage, `seen`
what was reported; the code has neither.

Properties. `ReportsTheEnd`: the outcome and the stage are those of this child, not of an earlier one
or of a parent that did not listen. `NamesTheCheck`: the reason of an abort is what the child
printed, unless its message came after a full buffer and was drained. `RowsAddUp`: no run is
lost from the tally, and each bucket but the last of a full one is exact. `SuiteEnds`: the
parent gets through, whatever children do. A child that disarms the alarm or forks would hold it
for ever; no bug program does.

## Bug scrapers: ScrapeBugs, BugScraper, GitHubScraper, JiraScraper, MySQLScraper

`ScrapeBugs` is `main` (`TrackersNext`, a track of `Study`): it takes the scrapers of its list in turn. `BugScraper` has what they share: the
range of dates, `save_bug` with its limit in a dry run, and the handling of one answer issue by
issue. Each tracker's module says what a request asks for, how an issue is read and how the next
page is found.

| code | model |
| --- | --- |
| a tracker | `tracker`, per issue whether it is listed, its dates, whether it is a pull request; external |
| `params`, `current_since`, `batch_last_updated` | `at`, `window` (`since`, `lastUpdated`) |
| the response | `answer`: the batch, whether there is a next page, the total |
| files of a scraper, `bugs_saved` | `saved` |
| people who report, close, reopen, hide, comment | `Change`, between any two steps |

`excused` records the issues that slid over the page boundary when others were changed; `moved`
those that were changed themselves. The real limits (100 per page, a reset at page 90) are
`PerPage` and `ResetPage`.

Properties. `SavesWhatMatches`: no issue outside the range is saved, and a scrape that ends by
itself has saved each matching one that nobody changed, but for three kinds: those that slid, those
of the second at which a window of GitHub was cut (the code goes on one second later, so that nothing
is fetched twice), and those of MySQL whose own page could not be had. Windows and pages do
not overlap: while nothing changes, no bug is saved twice. `EveryTurnEnds`: every scraper ends, unless a whole window of GitHub holds pull requests
only, which the code skips before it notes their time.

## Bug study: Study, CveScrape, StudyResults, BugExport, BugReport, CveExport, CveReport

`StudyResults` is the state that the programs share: matches of the keywords, and per
repetition what the model answered (`lines`), as the recipes of `bugs.just` write them, database by database
(`StartDatabase`, `process_file`, `EndRep`); they may be killed or stop at a command that fails (`Kill`). Which reports lie out of
the dates is left open: they are among those that get no line. `BugExport` and `CveExport` compute the tables and the CSV file of
`export_*.py`; `BugReport` and `CveReport` the groups and the report files of
`analyse_*.py`. `CveScrape` downloads, extracts and searches, may be interrupted at each
step, and trusts what it finds unless `--force` is given. `Study` composes them: one program
runs at a time, on one of four tracks that share no file (the scrape of the trackers, the bugs, the CVEs, the
scrape of CVEs), so a behaviour follows one. On the track of the CVEs the lists are any part of what matches, since the
scraper may have been interrupted.

Properties. `ListsWhole`: a scrape that ends by itself has lists of all CVEs of an archive that was
extracted to its end, unless it trusted what an interrupted one left. `ReportsEachOnce`: the report
files that an analysis has written hold each flagged report once, in order, whatever an earlier one
left. `CountsAgree` is that no two tools contradict each other. Its parts: `BugTablesAgree`, `CveTablesAgree`: totals, years and implications, counted in different
places, add up. `ExportedIsReported`: what the CSV file counts as memory safety is printed by the
analysis under all three repetitions. `CumulativeAgrees`: the cumulative report counts what the
analyses of the databases have printed.

Differences between words and code that the models follow the code in: `README.md:57` says that the
model's three answers are a majority vote, while all three must agree; the title of TABLE 1
(`export_bug_results_to_csv.py:260`) says that all three agree, while its total counts every
scraped file; `bug_study/README.md:127` has the cumulative report from the recipe that analyses all
databases, which calls the program once per database, so that none is written; the recipes' help of
`--end-date` (`scrape_bugs.py:463`) says "on or before this date", while a bug of that day after
midnight is left out; a programmer error that is called a memory safety issue is printed among the memory
safety bugs (`analyse_bug_results.py:74`, `:102`), as the type is not looked at.

## Benchmark drivers: Drivers, ResultsFile, StructBench, BenchScheduler, YcsbRunner, DriversProofs

`ResultsFile` is a results file: its lines and what is not flushed. `StructBench` is
`execute_bench.py`: `prepare` (configurations, open), `execute` (one measurement), `SaveRow`,
`EndSweep`, and `KillSweep`. `BenchScheduler` is `run_benchmarks.py`: `StartBench`
(the plan, the queues, open), `WriteHeader`, and per thread `Announce`, `execute_run`, `Acquire`,
`WriteRow` (one row at a time into the buffer), `Record` (flush, count) and `WriteStatus` (which unlocks); a thread
may `Raise` where a recipe, its parser, a row or the status fails, and dies without a word, Ctrl-C closes the file, a kill loses the buffer. `Drivers` composes them: they
share no file, so a behaviour runs one of them, or one of two measurements that they take for a step: YCSB, and
the queue benchmark.

`YcsbRunner` is one run of YCSB, which the scheduler takes for a step, from inside: `leveldb_script` and
`redis_script` are the commands in order, `make_exec` all variants' scripts and the parser. Scripts go on
after a failure (no `set -e`). The commands are external: `Ycsb` prints status lines and a
summary, or not, and does its work, or not; the Redis server may die or wedge; a session or the driver may be
lost (`LoseSession`, `KillExec`). Nothing ties a remote `bash -s` to its session, nor the children of the driver to
it (`run_benchmarks.py:318-321`), so the script may end with them or go on (`Outlives`): it is one of the `orphans`, whose
commands come at any time, beside later scripts and runs (`OrphanGoesOn`, each at once or bit by bit), until it ends
(`OrphanEnds`: its pipe is closed, somebody kills it, or on eliza a later script does that looks for servers by
name and finds it too, as its argument holds that name). A model has the runs of one host, as each host has stores
and a port of its own. `Block` are the lines between two markers, from which the rows are parsed; what an orphan
prints goes to a pipe that nobody reads.

Properties. `OneHeader`, `SweepKept` (a sweep of hours that is killed keeps every row but the one in hand, and
by `RowsFromRaw` a row's latency is that of a status line before any summary in the raw file, so also
of a run that was cut off), `DoneRunsWhole` (a run that counts as done has its rows in the file,
together, nothing of other runs is there but of those in hand, and the lock is held by who writes), `CompletedIsHonest` (the last line
counts the runs of the plan that are in the file, so its numbers are equal exactly if all of them are, and what is
missing was left by a queue whose thread died; they do not tell of a thread that died of its last status, after
everything was counted), `DriversEnd`. `RunsOnItsLoad`: a workload is measured on its own variant's server and on
the records of its load, unless that load failed, or the variant's script opened its store while an orphan was at
work on the same data (`beside`): then two scripts flush, load and measure one Redis server, or remove and load the same
files of LevelDB, and nothing in the code keeps them apart. Of such rows nothing is claimed; those of the other
variants, and of later runs, are as they should be: the script of a variant clears what was left, a server
(`ycsb_runner.py:91-94`) or files (line 57), as long as whoever left it is gone. `RowsOfTheirRun`: complete means one throughput per variant, workload and
number of threads (`OkIsComplete`), and it says what rows show: since a load is printed
before the marker of its workload, it belongs to the block of the one before, and LevelDB's latency
of that one is the load's, if the load prints status lines (`ycsb_runner.py:187`; the parser of the older
recipe, `parsers.py`, looks backwards from the summary of the run). No line of the repository says otherwise, so
this is in the hazard list and no finding.

## Runs

| run | instance | shows |
| --- | --- | --- |
| `latch_guards` | 2 threads, 1 page, 1 reader at most (two at once are left to the proof), 3 guards each, eviction | `LatchInv UpgradeKeepsRead ImplementsLatch` |
| `latch_live` | 2 threads, 2 pages, 2 guards each, fair | `AllocatedIsFixed ResidentOnce EveryGuardEnds` |
| `latch_ndebug` | assertions off | violates `AllocatedIsFixed` (a finding) |
| `resident` | 3 pages, 4 slots, 2 threads, colliding hashes that wrap, fair | `Exact NeverMissed InsertEnds` |
| `tree_calls` | 2 threads, 2 calls each, three scenes: a root that splits, leaves that merge, scans in both directions | `TreeInv ScanComplete OnlyScanDescBlocks ImplementsStore` |
| `tree_split` | 2 threads, full root over full leaves, fair | `ImplementsStore LastCallEnds` |
| `page` | bytes below 3, pages of 40 bytes, 4 scenes of up to 54 keys, 4 calls after the load | `PagesSound TreeHolds` |
| `page_limit` | pages of 38 bytes, keys of `maxKVSize` and short ones | violates `AssertsHold` (a finding) |
| `skip` | 1 writer, 1 reader, 3 keys, 2 levels, fair | `Sorted ReadsPublished NodesApart ImplementsSet CallsEnd` |
| `bug_runner` | 2 bugs, 3 runs each, tally of 2, buffer and pipe of 1 chunk, 3 chunks per child at most, fair | `ReportsTheEnd NamesTheCheck RowsAddUp SuiteEnds` |
| `study` | 2 databases, 3 bugs with answers and 3 that keywords flag, 3 CVEs, 3 scrapes; 6 issues per tracker, pages of 2, windows of 4, 2 changes, 1 refused request; fair | `ListsWhole ReportsEachOnce CountsAgree SavesWhatMatches EveryTurnEnds` |
| `drivers` | 2 runs of a driver, 3 structures, 2 databases on 2 hosts, 3 plans; YCSB with 2 variants, 3 workloads, 2 mishaps, orphans; a queue of 2 with 2 producers, 2 consumers, 3 items each (and one left over); fair | `OneHeader SweepKept DoneRunsWhole CompletedIsHonest RunsOnItsLoad RowsOfTheirRun NothingLost Complete DriversEnd` |

Why the bounds are enough. A latch race needs two threads, a second guard of
one of them, and a third to see a version twice; one reader as the limit makes the full count
occur. The resident set has a full and a wrapped probe with three pages in four
slots. Trees have the least size at which the case occurs: a root leaf that
splits, a root with three leaves of which two merge, a full root above full leaves. Each
scene's calls are chosen so that they meet in one subtree. A page of 40 bytes holds up to ten slots, above
the window of 4 of `findSeparator` and with two hints above the count from which they are used, and has a
`maxKVSize` of 8, so that keys of one byte and of the
most, truncated separators, prefixes that grow and shrink, compaction, merges and trees of three
levels occur; a head has 2 bytes, so that keys share heads and differ behind them. Three keys and two
levels give the skip list a node in front, between and behind, on either level, and nodes
both with and without a block of their own. Three runs and a tally of two make an outcome
fold, two bugs show that the tally starts over, a child prints more than pipe and buffer hold
(`Noise`), and goes wrong during setup, the access and the cleanup (`WrongAt`). The trackers
have issues that share the second at which a window is cut, issues at both ends of the range, one
without a date and a window of pull requests only. The answers of the study hold a
contradiction, a split vote, different implications and text that is no JSON, and six bugs
make three parts of two; three scrapes are one to be interrupted, one that trusts what it left, and one with
`--force`. Two runs of a driver are the least for `--append`; two sweeps cross at their pivots; a
YCSB script is cut after two workloads that share the load and one that inserts, of two variants, as everything
that can leak from one command to another leaks to the next; two mishaps are a session or a driver that is lost and the
script that goes on without it (a mishap each), or two failures. Larger instances (three threads, three levels)
were run during development and agree.

Fairness is weak fairness of each thread's steps within a call: the operating system
keeps scheduling runnable threads, and nothing in the code blocks a thread but its
loops. No thread is forced to begin a call in `PageLatch`, `ResidentSet` and `SkipList`. The bug runner's parent and child are two processes
with weak fairness each, the alarm being part of the child's.
The scraper is one thread: weak fairness of `Main` says that each request is answered or fails at last. The
drivers' steps are weakly fair each: `execute_bench` has a timeout around its measurements, while
`subprocess.run` of `run_benchmarks` has none, so that its measurements end is an assumption (a
wedged Redis server breaks it, and is in the hazard list). The threads of the two queues are scheduled
fairly, and `Acquire` is weakly fair as the lock is held for a finite time and the queues are finite.
`tree_calls` has deadlock checking off because of `scanDesc`, the only way as `OnlyScanDescBlocks`
says; `Finished`, `Ended` steps stand for the end of the program elsewhere.

## Proofs

Each theorem is about the specification that a run checks, for every value of its constants
under the assumptions that the modules name: finite sets of threads and pages, numbers that
are numbers, limits of at least 1 (`LatchAssumption`, `TreeAssumption`, `ListAssumption`,
`MemAssumption`,
`RunnerAssumption`, ...), and tables of databases that name each database, host, size and persistence once
(`TablesAssumption`) and each workload, variant and number of threads of YCSB once
(`WorkloadsAssumption`), as those of `run_benchmarks.py` do. TLC evaluates them in every run. The theorems on the
latches assume `AssertsOn` besides: without it `allocPage` returns a page that is not locked, and `latch_ndebug`
shows what follows. No theorem uses fairness.

**Latches.** `PageLatchProofs` proves, for any finite set of threads, any number of pages, any
`MaxShared` and any bound on guards, with and without eviction:
`TypeCorrect`, `LatchCorrect`, `AllocationFixes`, `FaultedOnce`,
`WritesAreWhole`, `UpgradesKeepReads` and `Implements`. `LatchInv` is not inductive: that a CAS succeeds only
on the word that was loaded says nothing unless a word with that version cannot have
come back. `IInv` adds to the types: what each label knows of its loaded word (`RegInv`), that
the labels own the page exclusively one at a time (`OwnerInv`), that versions in
registers are not ahead of the word and that the owner's is the word's (`FreshInv`), that the
state is the number of sharers (`CountInv`), that exactly the pages that are not evicted
are resident (`ResidentInv`), that a snapshot with the current version is
the content (`ReadInv`), and that halves differ only during a write (`WholeInv`). One lemma
per conjunct shows that every action preserves it; lemmas on the effect of an action on
the fields (`Effects`, `CountEffects`, ...) come first, so that the case split is made once. `Implements`
maps the owners to the labels (`OwnersAfter`) and shows of each step which step of `RWLatch` it is
(`LatchStep`): a validated read is one because of `ReadInv` (`ValidRead`).

**Resident set.** `ResidentSetProofs` proves, for any threads, pages, table size and hash function,
`TableIsExact` and `RemoveFinds`. The strengthening: a page in the table is reached by its
probe without an empty slot (`FullPath`), slots once taken are never empty again, and what a
thread has passed over is what it may pass over.

**B-tree.** The argument has three layers, for any number of threads, keys, values, pages and slots.

- `BTreeShape` is about pages and no thread. `Shape` says what makes pages a search tree: fences
  of a child are slots or fences of its parent (`ChildOK`, `InnerOK`), each page has one parent, live leaves
  are chained (`LeafOK`), and each page has a level above its children's (`Levels`). Its lemmas: in
  such pages a search ends in the leaf whose fences enclose the key, with every key in one leaf; a new root, a split
  and a merge keep the shape and what is stored; a write to a leaf changes one key.
- `BTreeOLCProofs` proves `IInv`: the shape, who holds which latch (`Latches`), and per thread and label what the
  thread may rely on (`Knows`). A guard is *quiet* if nobody has unlocked its page since it was read and nobody
  else has it locked (`QPar`, `QNod`). Facts about an unlocked page are of the form "if the guard is quiet, then":
  the parent encloses the key (`Way`), the child read from it is the child, the leaf has the key or no space
  (`Found`). Taking the latch makes the guard quiet for good (`Holds`). So each action is proved once for the thread that
  takes it and once, in one lemma, for the others: a step spares what the quiet guards of others
  see (`Spares`). From it `SearchTreeAlways` (that is `TreeInv`) and `Implements`: a step begins a call, reads, writes
  or is silent (`Begins`, `Reads`, `Writes`, `Silent`). A call that answers "absent" may do so late: `Answered` adds
  to `IInv` that what a validated read found was the map's content at some instant of the call.
- `BTreeScanProofs` proves `ScansComplete`. `ScanInv` says that pages which scans share are locked by
  nobody (`Apart`), so the fence of a shared leaf is a border: the scan has visited nothing beyond it and every key before it that stayed
  (`Reached`). `Position` has the border at each label. `scanAsc` shares two leaves when it hands it on
  (`Visiting`, by the chain of `LeafOK`), `scanDesc` keeps the leaf it comes from until it has found the one that ends where
  that leaf begins (`EndsThere`).

**Skip list and arena.** `SkipListProofs` proves, for any number of readers, keys and levels, `ListsSorted`, `ReadsArePublished`
and `Implements`. `IInv`: each level is a sorted chain (`Chains`), all stand on nodes that are linked at their level (`Standing`), `prev` holds
the neighbours of the new key on the levels where that matters (`PrevFits`), and the new node's link is set before it is published
(`OwnSet`). Nodes that are linked stay so (`Grows`), so a reader's step needs nothing of the writer's place. For
`SkipListMem`, and any block size and heights, `MemInv` says that the rest of the current block is free (`Rest`),
pieces lie in their blocks (`Within`) and none overlap (`NoOverlap`): `NodesStayApart`, and by `MemImplements` the list
with its memory is the set still.

**Drivers.** `DriversProofs` proves, for any systems, workloads, tuned numbers, plans, logs and any number of runs,
`HeaderOnce` and `MeasuredIsKept`. `FileInv` says it of what is on the disk and of what the buffer will add to it: a
header that is flushed late is the first line still; `UseInv` says that nobody writes to a closed file and that rows are no headers.
`SweepInv` ties four pieces of state: what was measured is in the file but for the row in hand, each row is from a job
that is done, and has its entry of the raw file. That a latency lies between the averages of its status line is about
a quotient of two sums: `Averages`, by way of the recursive function of the fold (`AddersExist`), in which the places
are picked in any order.

**Database driver.** `DriversProofs` proves, for any databases, plans, repetitions and outcomes, `DoneRunsAreWhole` and
`CompletedHonestly`, also where a status cannot be written before a run or after it was counted. The plan has each run once (`JobsDistinct`, where `TablesAssumption` is needed; the lemmas on
`Only`, `Once` and `FlattenSeq` come first). `RunsInv` says that it is split between what is done and the two queues, that the counter is the
number of runs done, and that who runs something has it at the head of its queue (`PlanInv`, `ActiveInv`). Of the file
it says that a recorded run has its lines in one stretch (`Whole`), that the thread in its critical section has its
stretch at the end of the file, and as many rows still in hand as are missing (`InHand`), and that other lines of this invocation are
from runs of threads that write or died when they did (`Threads`), which is what stays when all threads are gone
(`Leftovers`). The lock makes the stretch grow without a gap (`WriteRuns`); a kill cuts off only what was not
flushed, and that is of no recorded run (`LoseRuns`).

**YCSB.** `DriversProofs` proves, for any workloads, variants, numbers of threads and runs, any number of mishaps, and either database,
`OnTheirLoad` (that is `RunsOnItsLoad`, beside any number of orphans) and `OfTheirRun` (`RowsOfTheirRun`). First, about the scripts alone: each command is named
once, and what may come behind what is `Follows` (`Chain`; put together by `Path` along `make_exec`, with
`WorkloadsAssumption`), which a lost session keeps, since it goes on with a script's first command. `LoadInv` follows the
data: the command that is next is `Ready`, that is, the server is that of its variant or gone, and
a run and its marker find a whole load that nothing has grown, unless a command that should have prepared it
failed (`Prepared`); what is printed then is `Measured`. Beside orphans this holds for a variant whose script has opened
without one on its data: then no orphan works on these (`Shares`) until the script is through, since new ones come only from
scripts that end, and one that is there keeps to Redis or to the files of its variant (`Orphaned`, `TouchIs`, `OrphanLoads`). `ShowInv` follows the lines: those of a run stand right behind its
marker (`ItsMark`), each marker is there once, and a load stands behind a marker only where one may (`LateLoad`), which
needs that of the last marker and the command that is next (`Awaits`). So a row is of its run or of such a load
(`RowIsOf`), no marker has two throughputs (`OneThroughput`), and as they all are among the cells of the table (`Cells`), they are
as many as those exactly if each cell has one (`CountedOnce`), which is what the driver counts.

**Queue.** `DriversProofs` proves, for any number of items and threads and any capacity, `TypeCorrect`,
`ItemsOnce` and `AllConsumed`. `Complete` is not inductive: `StageInv` adds that `done` is set only when
all producers have ended, that who drains has seen it, and that whoever has ended left an empty
queue; with `NothingLost` the empty queue gives that every pushed item was popped.

**Bug runner.** `BugRunnerProofs` proves, for any number of bugs, runs and buckets, any sizes of pipe and buffer, any noise
and any faults, `TrueReports`, `TrueNames` and `RowsOfAllRuns`. `IInv` follows the output: what the buffer holds, then
what the pipe holds, is what the child has printed so far (`Printing`), until the buffer is full or the child has
ended; and the end: what `waitpid` and the shared memory will say at `Wait` is what `truth` records (`Kid`, `Ends`). The
tally's sum is a fold, so the first lemmas show that the recursive function of the fold exists (`SumsExist`), and that one more run
adds one to it (`SumOfNew`, `SumOfOneMore`).

Where an argument is an induction over numbers (levels of the tree, lengths), the proof takes the least
counterexample (`LeastNat`), as the library's induction rules take an operator, which the provers cannot instantiate.

Only model-checked: everything temporal (`EveryGuardEnds`, `InsertEnds`, `LastCallEnds`,
`CallsEnd`, `SuiteEnds`, `EveryTurnEnds`, `DriversEnd`), since liveness under fairness is out of the prover's reach; `OnlyScanDescBlocks`,
which is about `ENABLED`; the page layout (`PagesSound`, `TreeHolds`), whose search path is a recursive operator; the
scrapers and the study. The types of the first are part of their first invariant (`PagesSound`, `SavesWhatMatches`,
`CountsAgree`).

## What is not modelled, and why

Memory order below the atomics: the models interleave steps, except for
`max_height_`, and an optimistic read is not reordered with the load of its version. Versions do not
wrap (2^56 unlocks). `iterateClockBatch` and
`removeInPage` have no caller. `BTreePages` has no concurrent calls, and 16-bit offsets cannot overflow in pages of
4096 bytes; when `assert` is off, what a page holds after the failure of `page_limit` is not followed.

Of the study, the language model is external, and so are its prompts: an answer is any of those that the table
`Say` gives for a report. The SQLite scraper is commented out in `main`. Of the drivers, `parsers.py` is left out: each
parser is one pass over one tool's output, and a run gives any number of rows. So are
`start_process`, `build_benchmarks` and `get_host` of `execute_bench.py` (not called, or without effect), `--db`,
`--dry-run`, the log and the status panel of `run_benchmarks.py`.

`count_new_instructions.py` disassembles binaries and counts mnemonics, one fold over text
without state that survives it. `plots/` (`dbms.py`, `datastructures.py`, `compiler_instructions.py`,
`bug_analysis.py`), a third of the Python code, filters and groups CSV files and draws them: stateless, with nothing to
interleave, order or fail but the layout. Recipes and nix files start external
programs; the wrappers of hardware counters and tags are the hardware's state. boost's
queue and the database systems are not in the repository.
