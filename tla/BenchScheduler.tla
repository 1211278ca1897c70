----------------------------- MODULE BenchScheduler -----------------------------
(***************************************************************************)
(* run_benchmarks.py: plans the runs of the database benchmarks and works  *)
(* them off in two queues, one per host, each in a thread of its own; the  *)
(* threads share the results file, its buffer and the counters under one   *)
(* lock.  --sequential puts both queues into the main thread.  A run may   *)
(* raise, and Ctrl-C or a kill may end the program at any moment.          *)
(***************************************************************************)
EXTENDS ResultsFile

CONSTANTS
  DbSpecs,        \* databases in order: [db, kind, hosts, ws_pivot, persistence]
  Plans,          \* arguments: [full, host, persistence], "any" for no filter
  Repetitions,
  Outcomes,       \* of a run: [rows, ok], the rows it gives and whether it succeeds
  MaxInvocations  \* bound: runs of the program

Queues == {"eliza", "ace"}
Nobody == "nobody"

ASSUME BenchAssumption ==
  /\ Repetitions \in Nat /\ MaxInvocations \in Nat
  /\ \A k \in DOMAIN DbSpecs : DbSpecs[k].kind \in {"sweep", "ycsb", "none"}
  /\ \A outcome \in Outcomes : outcome.rows \in Nat /\ outcome.ok \in BOOLEAN

IsList(s) == s \in Seq(Range(s))

\* The tables name each database once, and for each database a host, a size and
\* a persistence once (run_benchmarks.py:85-150).
ASSUME TablesAssumption ==
  /\ IsList(DbSpecs)
  /\ \A d, e \in DOMAIN DbSpecs : DbSpecs[d].db = DbSpecs[e].db => d = e
  /\ \A spec \in Range(DbSpecs) :
       /\ IsList(spec.hosts) /\ IsList(spec.persistence) /\ IsInjective(spec.persistence)
       /\ \A h, i \in DOMAIN spec.hosts : spec.hosts[h].name = spec.hosts[i].name => h = i
       /\ \A host \in Range(spec.hosts) :
            IsList(host.threads) /\ IsList(host.ws_values) /\ IsInjective(host.ws_values)

VARIABLES
  mainThread,  \* what the main thread does
  sequential,  \* --sequential
  queues,      \* per thread: the repetitions and runs left to do
  pc,          \* where each thread is
  out,         \* the rows it has still to write
  ok,          \* whether its run gave no warning
  lock,        \* who holds it
  state,       \* done, warnings and total
  invocation,  \* runs of the program
  recorded,    \* runs counted as done since the file was made (history)
  planned      \* repetitions and runs of this invocation (history)

threadVars == <<queues, pc, out, ok, lock, state, recorded>>
benchVars == <<mainThread, sequential, threadVars, invocation, planned>>

Nothing == [q \in Queues |-> << >>]
NotStarted == [done |-> 0, warnings |-> 0, total |-> 0]

BenchInit ==
  /\ mainThread = "off" /\ sequential = FALSE
  /\ queues = Nothing /\ pc = [q \in Queues |-> "none"]
  /\ out = Nothing /\ ok = [q \in Queues |-> TRUE]
  /\ lock = Nobody /\ state = NotStarted
  /\ invocation = 0 /\ recorded = {} /\ planned = << >>

Point(spec, host, ws, threads, persistence) ==
  [db |-> spec.db, kind |-> spec.kind, host |-> host, ws |-> ws, threads |-> threads,
   persistence |-> persistence]

\* What a sequence has of a set, in order.
Only(s, S) ==
  LET kept[k \in 0 .. Len(s)] ==
        IF k = 0 THEN << >> ELSE IF s[k] \in S THEN Append(kept[k - 1], s[k]) ELSE kept[k - 1]
  IN  kept[Len(s)]

\* A sequence without what it has had before.
Once(s) ==
  LET seen[k \in 0 .. Len(s)] ==
        IF k = 0 THEN << >>
        ELSE IF s[k] \in Range(seen[k - 1]) THEN seen[k - 1] ELSE Append(seen[k - 1], s[k])
  IN  seen[Len(s)]

\* Two sweeps that cross at the pivots: over the threads, then the working sets.
build_sweep_runs(spec) ==
  LET Of(host) ==
        [k \in DOMAIN host.threads |->
           Point(spec, host.name, spec.ws_pivot, {host.threads[k]}, "na")]
        \o [k \in DOMAIN host.ws_values |->
              Point(spec, host.name, host.ws_values[k], {host.thread_pivot}, "na")]
  IN  Once(FlattenSeq([h \in DOMAIN spec.hosts |-> Of(spec.hosts[h])]))

build_baseline_run(spec) ==
  [db |-> spec.db, kind |-> "baseline", host |-> "both", ws |-> 0, threads |-> {},
   persistence |-> "baseline"]

\* One run per working set, with all threads at the pivot.
build_ycsb_runs(spec) ==
  LET Of(host, persistence) ==
        [k \in DOMAIN host.ws_values |->
           Point(spec, host.name, host.ws_values[k],
                 IF host.ws_values[k] = spec.ws_pivot THEN Range(host.threads)
                 ELSE {host.thread_pivot}, persistence)]
  IN  FlattenSeq([p \in DOMAIN spec.persistence |->
        FlattenSeq([h \in DOMAIN spec.hosts |-> Of(spec.hosts[h], spec.persistence[p])])])

build_runs(spec, full) ==
  CASE full /\ spec.kind = "ycsb" -> build_ycsb_runs(spec)
    [] full /\ spec.kind = "sweep" -> build_sweep_runs(spec)
    [] OTHER -> <<build_baseline_run(spec)>>

\* --host and --persistence; only the runs of YCSB can be chosen by persistence.
Chosen(runs, args) ==
  Only(runs, {run \in Range(runs) :
    /\ args.host = "any" \/ run.host = args.host
    /\ args.persistence = "any" \/ (run.kind = "ycsb" /\ run.persistence = args.persistence)})

\* Seeded fault: no queue takes the runs of both hosts.
BugHostQueue(run) == run.host

HostQueue(run) == IF run.host = "ace" THEN "ace" ELSE "eliza"

\* All repetitions of a database come before the next one.
Jobs(args) ==
  FlattenSeq([d \in DOMAIN DbSpecs |->
    LET runs == Chosen(build_runs(DbSpecs[d], args.full), args)
    IN  FlattenSeq([rep \in 1 .. Repetitions |->
          [k \in DOMAIN runs |-> [rep |-> rep, run |-> runs[k]]]])])

\* A plan without runs ends the program at once.
StartBench ==
  /\ mainThread \notin {"opened", "running"} /\ invocation < MaxInvocations
  /\ \E args \in Plans, append \in BOOLEAN, seq \in BOOLEAN :
       LET jobs == Jobs(args)
           On(q) == Only(jobs, {job \in Range(jobs) : HostQueue(job.run) = q})
       IN  /\ jobs # << >>
           /\ planned' = jobs /\ sequential' = seq
           /\ queues' = IF seq THEN [q \in Queues |-> IF q = "eliza"
                                       THEN On("eliza") \o On("ace") ELSE << >>]
                        ELSE [q \in Queues |-> On(q)]
           /\ pc' = [q \in Queues |-> IF seq /\ q = "ace" THEN "ended" ELSE "next"]
           /\ state' = [done |-> 0, warnings |-> 0, total |-> Len(jobs)]
           /\ OpenFile(append, IF append /\ exists THEN << >> ELSE <<Header>>)
           /\ recorded' = IF append THEN recorded ELSE {}
  /\ out' = Nothing /\ ok' = [q \in Queues |-> TRUE]
  /\ mainThread' = "opened" /\ invocation' = invocation + 1
  /\ UNCHANGED lock

WriteHeader ==
  /\ mainThread = "opened"
  /\ Flush(<< >>)
  /\ mainThread' = "running"
  /\ UNCHANGED <<sequential, threadVars, invocation, planned>>

Works(q, where) == mainThread = "running" /\ pc[q] = where

\* Under the lock it announces the run that is next.
Announce(q) ==
  /\ Works(q, "next") /\ lock = Nobody
  /\ pc' = [pc EXCEPT ![q] = IF queues[q] = << >> THEN "ended" ELSE "execute"]
  /\ UNCHANGED <<file, mainThread, sequential, queues, out, ok, lock, state, invocation, recorded,
                 planned>>

\* What the parser finds in the output: rows, and whether the recipe succeeded.
execute_run(q) ==
  /\ Works(q, "execute")
  /\ \E outcome \in Outcomes :
       /\ out' = [out EXCEPT ![q] = [i \in 1 .. outcome.rows |->
                    [sweep |-> invocation, job |-> Head(queues[q]), row |-> i]]]
       /\ ok' = [ok EXCEPT ![q] = outcome.ok]
  /\ pc' = [pc EXCEPT ![q] = "record"]
  /\ UNCHANGED <<file, mainThread, sequential, queues, lock, state, invocation, recorded, planned>>

\* Seeded fault: the rows are written without the lock.
BugAcquire(q) ==
  /\ Works(q, "record")
  /\ lock' = q
  /\ pc' = [pc EXCEPT ![q] = "write"]
  /\ UNCHANGED <<file, mainThread, sequential, queues, out, ok, state, invocation, recorded,
                 planned>>

Acquire(q) ==
  /\ Works(q, "record") /\ lock = Nobody
  /\ lock' = q
  /\ pc' = [pc EXCEPT ![q] = "write"]
  /\ UNCHANGED <<file, mainThread, sequential, queues, out, ok, state, invocation, recorded,
                 planned>>

WriteRow(q) ==
  /\ Works(q, "write") /\ out[q] # << >>
  /\ buffer' = Append(buffer, Head(out[q]))
  /\ out' = [out EXCEPT ![q] = Tail(@)]
  /\ UNCHANGED <<exists, table, cut, mainThread, sequential, queues, pc, ok, lock, state,
                 invocation, recorded, planned>>

Record(q) ==
  /\ Works(q, "write") /\ out[q] = << >>
  /\ Flush(<< >>)
  /\ state' = [state EXCEPT !.done = @ + 1, !.warnings = @ + IF ok[q] THEN 0 ELSE 1]
  /\ recorded' = recorded \union {[sweep |-> invocation, job |-> Head(queues[q])]}
  /\ queues' = [queues EXCEPT ![q] = Tail(@)]
  /\ pc' = [pc EXCEPT ![q] = "status"]
  /\ ok' = [ok EXCEPT ![q] = TRUE]
  /\ UNCHANGED <<mainThread, sequential, out, lock, invocation, planned>>

\* write_status, the last thing under the lock.
WriteStatus(q) ==
  /\ Works(q, "status")
  /\ pc' = [pc EXCEPT ![q] = "next"]
  /\ lock' = Nobody
  /\ UNCHANGED <<file, mainThread, sequential, queues, out, ok, state, invocation, recorded,
                 planned>>

ThreadsDie ==
  /\ queues' = Nothing /\ out' = Nothing /\ ok' = [q \in Queues |-> TRUE]
  /\ pc' = [q \in Queues |-> "none"] /\ lock' = Nobody /\ state' = NotStarted
  /\ UNCHANGED recorded

\* The recipe cannot be started, the parser raises, or a write fails: of a row or
\* of the status, before a run and after it was counted.
MayRaise(q) ==
  \/ pc[q] \in {"execute", "write", "status"}
  \/ pc[q] = "next" /\ queues[q] # << >> /\ lock = Nobody

\* Seeded fault: the exception leaves the lock locked.
BugRaise(q) ==
  /\ mainThread = "running" /\ ~sequential /\ MayRaise(q)
  /\ pc' = [pc EXCEPT ![q] = "dead"]
  /\ out' = [out EXCEPT ![q] = << >>] /\ ok' = [ok EXCEPT ![q] = TRUE]
  /\ UNCHANGED <<file, mainThread, sequential, queues, lock, state, invocation, recorded, planned>>

\* The thread dies without a word, and "with lock" lets the other one go on.
Raise(q) ==
  /\ mainThread = "running" /\ ~sequential /\ MayRaise(q)
  /\ pc' = [pc EXCEPT ![q] = "dead"]
  /\ out' = [out EXCEPT ![q] = << >>] /\ ok' = [ok EXCEPT ![q] = TRUE]
  /\ lock' = IF lock = q THEN Nobody ELSE lock
  /\ UNCHANGED <<file, mainThread, sequential, queues, state, invocation, recorded, planned>>

\* In the main thread it ends the program, which closes the file.
RaiseInMain(q) ==
  /\ mainThread = "running" /\ sequential /\ MayRaise(q)
  /\ Flush(<< >>) /\ ThreadsDie
  /\ mainThread' = "crashed"
  /\ UNCHANGED <<sequential, invocation, planned>>

run_queue(q) ==
  Announce(q) \/ execute_run(q) \/ Acquire(q) \/ WriteRow(q) \/ Record(q) \/ WriteStatus(q)

Completed ==
  /\ mainThread = "running" /\ \A q \in Queues : pc[q] \in {"ended", "dead"}
  /\ Flush(<< >>)
  /\ mainThread' = "completed"
  /\ UNCHANGED <<sequential, threadVars, invocation, planned>>

\* The file is closed, what is in the buffer with it.
KeyboardInterrupt ==
  /\ mainThread = "running"
  /\ Flush(<< >>) /\ ThreadsDie
  /\ mainThread' = "interrupted"
  /\ UNCHANGED <<sequential, invocation, planned>>

KillBench ==
  /\ mainThread \in {"opened", "running"}
  /\ LoseBuffer /\ ThreadsDie
  /\ mainThread' = "killed"
  /\ UNCHANGED <<sequential, invocation, planned>>

BenchNext ==
  \/ StartBench \/ WriteHeader \/ Completed \/ KeyboardInterrupt \/ KillBench
  \/ \E q \in Queues : run_queue(q) \/ Raise(q) \/ RaiseInMain(q)
-----------------------------------------------------------------------------
Everything == table \o buffer
Of(entry) == Only(Everything, [sweep : {entry.sweep}, job : {entry.job}, row : Nat])

\* Who holds the lock writes, and no dead or ended thread holds it; the queues
\* are left with what is not done.
BenchTypeOK ==
  /\ mainThread \in {"off", "opened", "running", "completed", "crashed", "interrupted", "killed"}
  /\ \A q \in Queues :
       /\ pc[q] \in {"none", "next", "execute", "record", "write", "status", "ended", "dead"}
       /\ pc[q] \in {"write", "status"} => lock = q
  /\ lock # Nobody => pc[lock] \in {"write", "status"}
  /\ state.done + Len(queues["eliza"]) + Len(queues["ace"]) = state.total
  /\ mainThread \notin {"opened", "running"} /\ driver = "dbms" => buffer = << >>

\* A run that is counted as done has left its rows in the file, all of them and
\* next to each other, whatever the other queue, an exception or Ctrl-C did; and
\* of the other runs at most one per queue and invocation has left some of its
\* rows (run_benchmarks.py:443-453).
DoneRunsWhole ==
  BenchTypeOK /\
  (driver = "dbms" =>
    /\ \A entry \in recorded :
         LET lines == Of(entry)
         IN  /\ \E outcome \in Outcomes : Len(lines) = outcome.rows
             /\ \E k \in 0 .. Len(table) - Len(lines) :
                  lines = SubSeq(table, k + 1, k + Len(lines))
    /\ \A q \in Queues :
         Cardinality({line.job : line \in
           {l \in Range(Everything) \ {Header} :
              /\ l.sweep = invocation /\ HostQueue(l.job.run) = q
              /\ [sweep |-> l.sweep, job |-> l.job] \notin recorded}}) <= 1
    /\ mainThread = "running" => state.done = Cardinality({e \in recorded : e.sweep = invocation}))

\* "Completed: done/total" is honest: it counts the runs of the plan that are in
\* the file, each once and none of another invocation, so the numbers are equal
\* exactly if all are; what is missing was left by a queue whose thread died.
\* A thread that dies of its last status leaves none, and the numbers do not tell
\* (run_benchmarks.py:400-423, 443-453, 474).
CompletedIsHonest ==
  driver = "dbms" /\ mainThread = "completed" =>
    LET mine == {e.job : e \in {f \in recorded : f.sweep = invocation}}
    IN  /\ mine \subseteq Range(planned)
        /\ state.total = Cardinality(Range(planned))
        /\ state.done = Cardinality(mine)
        /\ state.done = state.total <=> mine = Range(planned)
        /\ \A job \in Range(planned) \ mine :
             ~sequential /\ \E q \in Queues : HostQueue(job.run) = q /\ pc[q] = "dead"
=============================================================================
