------------------------------ MODULE YcsbRunner ------------------------------
(***************************************************************************)
(* ycsb_runner.py: a run of YCSB on LevelDB or Redis.  A script per variant *)
(* loads the records once for the workloads that keep their number, and    *)
(* again for each that inserts; the rows are parsed from the outputs of    *)
(* all variants.  The commands, the stores and the server are external: a  *)
(* command may fail, print less, wedge the server, or be cut off.  A       *)
(* script may outlive its ssh session or its driver: nothing ends it, and  *)
(* it goes on beside the scripts that come later.                          *)
(***************************************************************************)
EXTENDS Integers, Sequences, FiniteSetsExt, SequencesExt, Functions

CONSTANTS
  RO_WORKLOADS, INS_WORKLOADS,  \* workloads, in order
  YcsbRuns,                     \* arguments of make_exec: [db, host, variants, thread_set]
  MaxExecs,                     \* bound: calls of exec
  MaxMishaps                    \* bound: commands, connections and drivers that fail, and
                                \* scripts that outlive them

ASSUME YcsbAssumption ==
  /\ MaxExecs \in Nat /\ MaxMishaps \in Nat
  /\ \A run \in YcsbRuns : run.db \in {"leveldb", "redis"} /\ run.host \in {"eliza", "ace"}

\* The runs of one host: each has stores and a server of its own.
ASSUME HostAssumption == \A run, other \in YcsbRuns : run.host = other.host

EachOnce(s) == s \in Seq(Range(s)) /\ IsInjective(s)

\* The tables name each workload, variant and number of threads once, and no
\* workload both reads only and inserts (ycsb_runner.py:13-14).
ASSUME WorkloadsAssumption ==
  /\ EachOnce(RO_WORKLOADS) /\ EachOnce(INS_WORKLOADS)
  /\ Range(RO_WORKLOADS) \intersect Range(INS_WORKLOADS) = {}
  /\ {"all", "end"} \intersect (Range(RO_WORKLOADS) \union Range(INS_WORKLOADS)) = {}
  /\ \A run \in YcsbRuns :
       EachOnce(run.variants) /\ EachOnce(run.thread_set) /\ "none" \notin Range(run.variants)

VARIABLES
  exec,     \* the run at work, or the last one
  script,   \* the commands left, of all its variants
  output,   \* what they printed
  rc_ok,    \* whether every script has returned 0
  rows,     \* what was parsed, once the scripts are through
  exec_ok,  \* whether the run counts as complete
  store,    \* per variant: what the files of LevelDB hold
  server,   \* the Redis server that has the port, and what it holds
  orphans,  \* scripts that have outlived their session or driver, and their commands left
  failed,   \* commands of this run that did not do their work (history)
  beside,   \* variants whose scripts opened beside an orphan on their data (history)
  execs, mishaps

ycsbVars == <<exec, script, output, rc_ok, rows, exec_ok, store, server, orphans, failed,
              beside, execs, mishaps>>

ALL_WORKLOADS == RO_WORKLOADS \o INS_WORKLOADS

\* whole: all records are there; grown: more than those.
Empty == [whole |-> FALSE, grown |-> FALSE]
NoServer == [variant |-> "none", wedged |-> FALSE, data |-> Empty]
Variants == UNION {Range(run.variants) : run \in YcsbRuns}

YcsbInit ==
  /\ exec = [db |-> "none"] /\ script = << >> /\ output = << >> /\ rc_ok = TRUE
  /\ rows = {} /\ exec_ok = FALSE
  /\ store = [v \in Variants |-> Empty] /\ server = NoServer
  /\ orphans = {} /\ failed = {} /\ beside = {} /\ execs = 0 /\ mishaps = 0

Do(op, v, w, t) == [op |-> op, variant |-> v, w |-> w, t |-> t]

\* The runs of some workloads, each with every number of threads.
Runs(v, workloads, threads) ==
  FlattenSeq([i \in DOMAIN workloads |->
    [j \in DOMAIN threads |-> Do("run", v, workloads[i], threads[j])]])

Marked(run) == <<[run EXCEPT !.op = "mark"], run>>
SharedLoad(v) == Do("load", v, "all", 0)

\* Workloads that only read share one load; one that inserts has a load of its
\* own, after the store was emptied.
SharedRuns(v, threads) ==
  LET runs == Runs(v, RO_WORKLOADS, threads)
  IN  FlattenSeq([k \in DOMAIN runs |-> Marked(runs[k])])
OwnRuns(v, threads, clear) ==
  LET runs == Runs(v, INS_WORKLOADS, threads)
  IN  FlattenSeq([k \in DOMAIN runs |->
        <<[runs[k] EXCEPT !.op = clear], [runs[k] EXCEPT !.op = "load"]>> \o Marked(runs[k])])

leveldb_script(v, threads) ==
  <<Do("rm", v, "all", 0), SharedLoad(v)>> \o SharedRuns(v, threads)
  \o OwnRuns(v, threads, "rm") \o <<Do("rm", v, "end", 0)>>

\* Seeded fault: the server of an earlier variant is left alone.
BugRedisScript(v, threads) ==
  <<Do("start", v, "all", 0), SharedLoad(v)>> \o SharedRuns(v, threads)
  \o OwnRuns(v, threads, "flushall") \o <<Do("stop", v, "end", 0)>>

redis_script(v, threads) ==
  <<Do("reap", v, "all", 0), Do("start", v, "all", 0), SharedLoad(v)>>
  \o SharedRuns(v, threads) \o OwnRuns(v, threads, "flushall")
  \o <<Do("stop", v, "end", 0)>>

\* A script per variant, then the parser.
make_exec(run) ==
  FlattenSeq([i \in DOMAIN run.variants |->
    IF run.db = "leveldb" THEN leveldb_script(run.variants[i], run.thread_set)
    ELSE redis_script(run.variants[i], run.thread_set)])
  \o <<Do("parse", "none", "end", 0)>>

Executing == script # << >>
At(op) == Executing /\ Head(script).op = op
Now == Head(script)
DataOf(db, c) == IF db = "redis" THEN server.data ELSE store[c.variant]
Data == DataOf(exec.db, Now)

StartExec ==
  /\ ~Executing /\ execs < MaxExecs
  /\ \E run \in YcsbRuns : exec' = run /\ script' = make_exec(run)
  /\ output' = << >> /\ rc_ok' = TRUE /\ rows' = {} /\ exec_ok' = FALSE
  /\ failed' = {} /\ beside' = {}
  /\ execs' = execs + 1
  /\ UNCHANGED <<store, server, orphans, mishaps>>

Done == script' = Tail(script) /\ UNCHANGED <<exec, rc_ok, rows, exec_ok, orphans, execs>>
Puts(db, c, data) ==
  IF db = "redis"
  THEN server' = [server EXCEPT !.data = data] /\ UNCHANGED store
  ELSE store' = [store EXCEPT ![c.variant] = data] /\ UNCHANGED server
Holds(data) == Puts(exec.db, Now, data)

\* An orphan that works on the data of a command: all of Redis, for LevelDB
\* those of the same variant.
Shares(c) ==
  \E o \in orphans : o.db = exec.db /\ (o.db = "redis" \/ Head(o.left).variant = c.variant)

\* A script opens its store: what its rows are worth beside an orphan, is noted.
Opened ==
  beside' = IF Now.w = "all" /\ Shares(Now) THEN beside \union {Now.variant} ELSE beside

\* Beside an orphan it is unclear what was measured, as both take their time.
Line(kind) ==
  [kind |-> kind, from |-> Now,
   variant |-> IF Now.variant \in beside THEN "unclear" ELSE server.variant,
   data |-> IF Now.variant \in beside THEN Empty ELSE Data]

Mishaps(n) == mishaps + n <= MaxMishaps /\ mishaps' = mishaps + n
Mishap == Mishaps(1)

Mark ==
  /\ At("mark")
  /\ output' = Append(output, Line("marker"))
  /\ Done /\ UNCHANGED <<store, server, failed, beside, mishaps>>

RemoveFiles ==
  /\ At("rm")
  /\ Holds(Empty) /\ Opened
  /\ Done /\ UNCHANGED <<output, failed, mishaps>>

\* What is printed of status lines and of a summary, and whether it did its work.
Good == [status |-> TRUE, overall |-> TRUE, works |-> TRUE]
Bad == {[status |-> FALSE, overall |-> TRUE, works |-> TRUE]}
         \union [status : BOOLEAN, overall : BOOLEAN, works : {FALSE}]
NoReply == [status |-> FALSE, overall |-> FALSE, works |-> FALSE]

\* A load adds to what Redis holds; LevelDB's has destroyed it before.
Loaded(db, data, works) ==
  IF db = "redis" THEN [data EXCEPT !.whole = @ \/ works]
  ELSE [whole |-> works, grown |-> FALSE]
RunOn(c, data) == [data EXCEPT !.grown = @ \/ c.w \in Range(INS_WORKLOADS)]

\* ycsb -load or -run.  Without a server there is nothing to measure; one that
\* is wedged never answers.
Ycsb ==
  /\ At("load") \/ At("run")
  /\ exec.db = "redis" => ~server.wedged
  /\ \E result \in {Good} \union Bad \union {NoReply} :
       /\ IF exec.db = "redis" /\ server.variant = "none"
          THEN result = NoReply /\ UNCHANGED mishaps
          ELSE IF result = Good THEN UNCHANGED mishaps ELSE Mishap
       /\ output' = output \o (IF result.status THEN <<Line("status")>> ELSE << >>)
                           \o (IF result.overall THEN <<Line("overall")>> ELSE << >>)
       /\ Holds(IF exec.db = "redis" /\ server.variant = "none" THEN Data
                ELSE IF Now.op = "load" THEN Loaded(exec.db, Data, result.works)
                ELSE RunOn(Now, Data))
       /\ failed' = IF result.works THEN failed ELSE failed \union {Now}
  /\ Done /\ UNCHANGED beside

\* kill -9 of every server on this directory, and its dump.
Reap ==
  /\ At("reap")
  /\ server' = NoServer /\ Opened
  /\ Done /\ UNCHANGED <<output, store, failed, mishaps>>

\* A server that holds the port makes the new one fail.  The wait for PONG gives
\* up at last, whatever came up.
StartServer ==
  /\ At("start")
  /\ IF server.variant # "none" THEN UNCHANGED <<server, mishaps>>
     ELSE \/ server' = [NoServer EXCEPT !.variant = Now.variant] /\ UNCHANGED mishaps
          \/ Mishap /\ UNCHANGED server
  /\ Done /\ UNCHANGED <<output, store, failed, beside>>

FlushAll ==
  /\ At("flushall")
  /\ \/ /\ server.variant # "none" /\ ~server.wedged
        /\ Holds(Empty) /\ UNCHANGED <<failed, mishaps>>
     \/ /\ IF server.variant = "none" \/ server.wedged THEN UNCHANGED mishaps ELSE Mishap
        /\ failed' = failed \union {Now} /\ UNCHANGED <<store, server>>
  /\ Done /\ UNCHANGED <<output, beside>>

\* shutdown, then kill -9 of the servers of this variant.
StopServer ==
  /\ At("stop")
  /\ server' = IF server.variant = Now.variant THEN NoServer ELSE server
  /\ Done /\ UNCHANGED <<output, store, failed, beside, mishaps>>

Markers == {i \in DOMAIN output : output[i].kind = "marker"}

\* The lines after a marker and before the next one, of whatever variant.
Block(i) == {j \in DOMAIN output : j > i /\ \A k \in Markers : k <= i \/ k > j}
LinesOf(i, kind) == {j \in Block(i) : output[j].kind = kind}

RowOf(i, metric, line) ==
  [metric |-> metric, of |-> output[i].from, line |-> output[line]]

\* Seeded fault: the summary of a load is taken for that of a run.
BugParseLeveldb ==
  LET Summaries(i) == LinesOf(i, "overall")
      measured == {i \in Markers : Summaries(i) # {}}
      timed == {i \in measured : LinesOf(i, "status") # {}}
  IN  {RowOf(i, "throughput", Min(Summaries(i))) : i \in measured}
        \union {RowOf(i, "latency_avg", Max(LinesOf(i, "status"))) : i \in timed}

\* The first summary of a run, and the last status line.
ParseLeveldb ==
  LET Summaries(i) == {j \in LinesOf(i, "overall") : output[j].from.op = "run"}
      measured == {i \in Markers : Summaries(i) # {}}
      timed == {i \in measured : LinesOf(i, "status") # {}}
  IN  {RowOf(i, "throughput", Min(Summaries(i))) : i \in measured}
        \union {RowOf(i, "latency_avg", Max(LinesOf(i, "status"))) : i \in timed}

\* The first summary, or the last status line of a block without one.
ParseRedis ==
  {RowOf(i, "throughput", IF LinesOf(i, "overall") # {} THEN Min(LinesOf(i, "overall"))
                          ELSE Max(LinesOf(i, "status"))) :
     i \in {k \in Markers : LinesOf(k, "overall") \union LinesOf(k, "status") # {}}}

Throughputs(parsed) == {row \in parsed : row.metric = "throughput"}

Parse ==
  /\ At("parse")
  /\ rows' = IF exec.db = "leveldb" THEN ParseLeveldb ELSE ParseRedis
  /\ exec_ok' = (rc_ok /\ Cardinality(Throughputs(rows')) =
              Len(exec.variants) * Len(ALL_WORKLOADS) * Len(exec.thread_set))
  /\ script' = << >>
  /\ UNCHANGED <<exec, output, rc_ok, store, server, orphans, failed, beside, execs, mishaps>>

\* The server stops answering, or dies.
ServerFails ==
  /\ Executing /\ Mishap
  /\ server.variant # "none" /\ ~server.wedged
  /\ server' \in {NoServer, [server EXCEPT !.wedged = TRUE]}
  /\ UNCHANGED <<exec, script, output, rc_ok, rows, exec_ok, store, orphans, failed, beside,
                 execs>>

\* Where the script of the next variant begins, or the parser.
NextScript(k) ==
  /\ script[k].variant # Now.variant
  /\ \A i \in 1 .. k - 1 : script[i].variant = Now.variant

\* The script at work ends with what it was started by, or it goes on.
Outlives(k, n) ==
  \/ UNCHANGED orphans /\ Mishaps(n)
  \/ /\ orphans' = orphans \union
                     {[exec |-> execs, db |-> exec.db, left |-> SubSeq(script, 1, k - 1)]}
     /\ Mishaps(n + 1)

\* The ssh session of a variant ends; then comes the next one, or the parser.  On
\* eliza a script is an argument of its shell, so it ends where an orphan looks
\* for servers by their name.
LoseSession ==
  /\ Executing /\ ~At("parse")
  /\ exec.host = "eliza" =>
       \E o \in orphans : exec.db = "redis" /\ Head(o.left).op \in {"reap", "stop"}
  /\ \E k \in DOMAIN script :
       /\ NextScript(k) /\ Outlives(k, 1)
       /\ script' = SubSeq(script, k, Len(script))
  /\ rc_ok' = FALSE
  /\ UNCHANGED <<exec, output, rows, exec_ok, store, server, failed, beside, execs>>

\* The driver is killed, at last if it waits for a wedged server.  A server that
\* it started goes on, but that Ctrl-C kills the one of ace by its name.
KillExec ==
  /\ Executing
  /\ LET n == IF exec.db = "redis" /\ server.wedged THEN 0 ELSE 1
     IN  IF At("parse") THEN UNCHANGED orphans /\ Mishaps(n)
         ELSE \E k \in DOMAIN script : NextScript(k) /\ Outlives(k, n)
  /\ script' = << >>
  /\ server' = server \/ (exec.host = "ace" /\ server' = NoServer)
  /\ output' = << >> /\ rc_ok' = TRUE /\ failed' = {} /\ beside' = {}
  /\ UNCHANGED <<exec, rows, exec_ok, store, execs>>

\* What a command of an orphan does: as for a script at work, but that nobody
\* counts its failures.
Answers(db) == db = "leveldb" \/ (server.variant # "none" /\ ~server.wedged)
Touches(db, c) ==
  \/ c.op \in {"rm", "flushall"} /\ Answers(db) /\ Puts(db, c, Empty)
  \/ c.op = "load" /\ Answers(db)
     /\ \E works \in BOOLEAN : Puts(db, c, Loaded(db, DataOf(db, c), works))
  \/ c.op = "run" /\ Answers(db) /\ Puts(db, c, RunOn(c, DataOf(db, c)))
  \/ c.op = "reap" /\ server' = NoServer /\ UNCHANGED store
  \/ c.op = "start" /\ server.variant = "none"
     /\ server' = [NoServer EXCEPT !.variant = c.variant] /\ UNCHANGED store
  \/ c.op = "stop" /\ UNCHANGED store
     /\ server' = IF server.variant = c.variant THEN NoServer ELSE server
  \/ c.op \in {"mark", "flushall", "start"} /\ UNCHANGED <<store, server>>
  \/ c.op \in {"load", "run"} /\ (db = "redis" => ~server.wedged) /\ UNCHANGED <<store, server>>

\* A command takes its time: what it does may come at once or bit by bit.
OrphanGoesOn ==
  /\ Executing \/ execs < MaxExecs
  /\ \E o \in orphans :
       /\ Touches(o.db, Head(o.left))
       /\ \/ UNCHANGED orphans
          \/ Len(o.left) > 1
             /\ orphans' = (orphans \ {o}) \union {[o EXCEPT !.left = Tail(@)]}
          \/ Len(o.left) = 1 /\ orphans' = orphans \ {o}
  /\ UNCHANGED <<exec, script, output, rc_ok, rows, exec_ok, failed, beside, execs, mishaps>>

\* It writes to a pipe that nobody holds any more, or is killed: by somebody, or
\* on eliza by the next script that looks for servers by their name.
OrphanEnds ==
  /\ \E o \in orphans : orphans' = orphans \ {o}
  /\ UNCHANGED <<exec, script, output, rc_ok, rows, exec_ok, store, server, failed, beside, execs,
                 mishaps>>

RunScript == Mark \/ RemoveFiles \/ Ycsb \/ Reap \/ StartServer \/ FlushAll \/ StopServer \/ Parse
YcsbNext ==
  \/ StartExec \/ RunScript \/ ServerFails \/ LoseSession \/ KillExec
  \/ OrphanGoesOn \/ OrphanEnds
-----------------------------------------------------------------------------
LoadFor(run) ==
  IF run.w \in Range(RO_WORKLOADS) THEN SharedLoad(run.variant)
  ELSE [run EXCEPT !.op = "load"]

\* Load reuse is sound: what a row measures ran on the server of its own
\* variant, started by this script, and on all the records of a load and no
\* more, over any failures and kills before; but for a load or a flush of the
\* row's own workload that failed, after which the script goes on
\* (ycsb_runner.py:13-15, 91-98, 111-119).
RunsOnItsLoad ==
  \A row \in rows : row.line.from.op = "run" /\ row.line.from.variant \notin beside =>
    LET run == row.line.from
        spoiled == {LoadFor(run), [run EXCEPT !.op = "flushall"]} \intersect failed
    IN  /\ exec.db = "redis" => row.line.variant = run.variant
        /\ spoiled = {} => row.line.data.whole /\ ~row.line.data.grown

\* A run counts as complete exactly if no session was lost and every variant,
\* workload and number of threads has its throughput, each from one marker
\* (ycsb_runner.py:231-235).
OkIsComplete ==
  rows # {} =>
    (exec_ok <=>
      /\ rc_ok
      /\ \A i \in DOMAIN exec.variants, w \in Range(ALL_WORKLOADS), t \in Range(exec.thread_set) :
           Cardinality({row \in Throughputs(rows) :
             row.of = Do("mark", exec.variants[i], w, t)}) = 1)

\* A row shows what its own run has printed.  Where a load comes between the run
\* and the next marker, as after the last of the shared workloads, after those
\* that insert and where a session was lost, it may show that load: the latency
\* of LevelDB does if the load prints status lines, the throughput of Redis if
\* the run prints no summary; the throughput of LevelDB never does
\* (ycsb_runner.py:69-75, 181-195, 201-209).
RowsOfTheirRun ==
  /\ OkIsComplete
  /\ \A row \in rows :
       \/ row.line.from = [row.of EXCEPT !.op = "run"]
       \/ /\ row.line.from.op = "load"
          /\ row.of.w \in Range(INS_WORKLOADS) \union {Last(RO_WORKLOADS)} \/ ~rc_ok
          /\ IF exec.db = "leveldb" THEN row.metric = "latency_avg"
             ELSE \A j \in DOMAIN output :
                    output[j].kind = "overall" => output[j].from # [row.of EXCEPT !.op = "run"]
=============================================================================
