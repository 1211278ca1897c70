------------------------------ MODULE StructBench ------------------------------
(***************************************************************************)
(* execute_bench.py: measures the data structures, one configuration after *)
(* the other in a random order, and writes a row for each measurement.     *)
(* The arguments choose systems, workloads, extensions and thread counts;  *)
(* the number of operations comes from a tuned table.  A process may be    *)
(* cut off by its timeout, and the driver may be killed at any moment.     *)
(***************************************************************************)
EXTENDS ResultsFile

CONSTANTS
  Systems,      \* [name, capabilities, to_evaluate]
  Workloads,    \* [name, type, requires]
  Combined,     \* names of the workloads YCSB-A to YCSB-F
  Extensions,   \* [name, host, archs, max_threads]
  NbOps,        \* nb_ops.csv: <<host, system, name, nthreads>> -> operations
  NBOPS_MT_CAP,
  ArgSets,      \* sets of arguments: [systems, workloads, extensions, threads]
  Logs,         \* what a ycsb process may print
  QueueTimes,   \* what a queue_bench process may print: its time; 0 is no number
  Reps,         \* --repetitions
  MaxSweeps     \* bound: runs of the driver

ASSUME StructAssumption ==
  /\ NBOPS_MT_CAP \in Nat /\ Reps \in Nat /\ MaxSweeps \in Nat
  /\ \A log \in Logs :
       log \in Seq([kind : {"status", "run", "other"}, ops : Seq([count : Nat, avg : Nat])])

VARIABLES
  sb,        \* where this one is
  todo,      \* the configurations and repetitions to do
  pending,   \* the row of the last measurement, if it gave one
  debug,     \* --debug
  sweep,     \* runs of this driver
  raw,       \* raw_<ext>.txt
  measured   \* the rows that measurements gave since the file was made (history)

structVars == <<sb, todo, pending, debug, sweep, raw, measured>>

StructInit ==
  /\ sb = "off" /\ todo = {} /\ pending = << >> /\ debug = FALSE
  /\ sweep = 0 /\ raw = {} /\ measured = {}

NoLatency == << >>

SumOf(counts) == FoldSeq(+, 0, counts)

\* The last status line before the summary, or of a log that has none; the
\* average is a fraction.
calculate_weighted_average_latency(log) ==
  LET runs == {i \in DOMAIN log : log[i].kind = "run"}
      status == {i \in DOMAIN log : log[i].kind = "status" /\ \A j \in runs : i < j}
      ops == log[Max(status)].ops
      total == SumOf([k \in DOMAIN ops |-> ops[k].count])
  IN  IF status = {} THEN NoLatency
      ELSE IF total = 0 THEN <<0, 1>>
      ELSE <<SumOf([k \in DOMAIN ops |-> ops[k].count * ops[k].avg]), total>>

nbops_row(conf, nthreads) == <<conf.host, conf.system, conf.name, nthreads>>

Untuned == -1

get_conf(conf) ==
  IF nbops_row(conf, conf.nthreads) \in DOMAIN NbOps
  THEN NbOps[nbops_row(conf, conf.nthreads)]
  ELSE IF nbops_row(conf, 1) \in DOMAIN NbOps
       THEN Min({NbOps[nbops_row(conf, 1)], NBOPS_MT_CAP})
       ELSE Untuned

get_taskset(nthreads) == 0 .. nthreads - 1

\* A queue needs a producer and a consumer: it runs on two threads, not one.
get_command(conf, nb_ops) ==
  LET nthreads == IF conf.type_bench = "queue_bench" /\ conf.nthreads = 1 THEN 2
                  ELSE conf.nthreads
  IN  [cpus |-> get_taskset(nthreads), nb_ops |-> nb_ops,
       workers |-> IF conf.type_bench = "queue_bench" THEN nthreads \div 2 ELSE nthreads]

\* With --debug nothing runs and there is no output.
Outputs(conf) ==
  IF debug THEN {[log |-> << >>, time |-> 0]}
  ELSE IF conf.type_bench = "ycsb" THEN {[log |-> log, time |-> 0] : log \in Logs}
  ELSE {[log |-> << >>, time |-> time] : time \in QueueTimes}

\* The latency of a row, or none if the output is empty or cannot be parsed.
format_output(conf, nb_ops, output) ==
  IF conf.type_bench = "ycsb" THEN calculate_weighted_average_latency(output.log)
  ELSE IF output.time = 0 \/ nb_ops = 0 THEN NoLatency ELSE <<output.time, nb_ops>>

make_confs(args) ==
  LET Fits(ds, wl, ext, t) ==
        /\ wl.name \notin Combined /\ wl.type \in ds.to_evaluate
        /\ wl.requires \subseteq ds.capabilities
        /\ ds.name \in args.systems /\ wl.name \in args.workloads
        /\ ext.name \in args.extensions
        /\ t = 1 \/ ("can_multithread" \in ds.capabilities /\ t <= ext.max_threads)
  IN  UNION {{[system |-> ds.name, name |-> wl.name, type_bench |-> wl.type,
               host |-> ext.host, arch |-> arch, nthreads |-> t] :
               t \in {u \in args.threads : Fits(ds, wl, ext, u)}, arch \in ext.archs} :
             ds \in Systems, wl \in Workloads, ext \in Extensions}

\* Seeded fault: --append to a file that is not there.
BugPrepare ==
  /\ sb = "off" /\ sweep < MaxSweeps
  /\ \E args \in ArgSets, append \in BOOLEAN :
       /\ todo' = make_confs(args) \X (0 .. Reps - 1)
       /\ OpenFile(append, IF append THEN << >> ELSE <<Header>>)
       /\ measured' = IF append THEN measured ELSE {}
  /\ debug' \in BOOLEAN
  /\ sb' = "loop" /\ sweep' = sweep + 1
  /\ UNCHANGED <<pending, raw>>

prepare ==
  /\ sb = "off" /\ sweep < MaxSweeps
  /\ \E args \in ArgSets, append \in BOOLEAN :
       /\ todo' = make_confs(args) \X (0 .. Reps - 1)
       /\ OpenFile(append, IF append /\ exists THEN << >> ELSE <<Header>>)
       /\ measured' = IF append THEN measured ELSE {}
  /\ debug' \in BOOLEAN
  /\ sb' = "loop" /\ sweep' = sweep + 1
  /\ UNCHANGED <<pending, raw>>

Row(conf, rep, nb_ops, latency) ==
  [sweep |-> sweep, conf |-> conf, rep |-> rep, nb_ops |-> nb_ops, latency |-> latency]

\* random.shuffle: any of what is left may be next.
execute ==
  /\ sb = "loop" /\ todo # {} /\ pending = << >>
  /\ \E next \in todo :
       LET conf == next[1]
           rep == next[2]
           nb_ops == get_conf(conf)
       IN  /\ todo' = todo \ {next}
           /\ IF nb_ops = Untuned THEN UNCHANGED <<raw, pending, measured>>
              ELSE \E output \in Outputs(conf) :
                     LET latency == format_output(conf, nb_ops, output)
                         row == Row(conf, rep, nb_ops, latency)
                     IN  /\ raw' = raw \union {[sweep |-> sweep, conf |-> conf, rep |-> rep,
                                                command |-> get_command(conf, nb_ops),
                                                output |-> output]}
                         /\ pending' = IF latency = NoLatency THEN << >> ELSE <<row>>
                         /\ measured' = measured \union Range(pending')
  /\ UNCHANGED <<file, sb, debug, sweep>>

\* Seeded fault: the rows wait in the buffer.
BugSaveRow ==
  /\ sb = "loop" /\ pending # << >>
  /\ buffer' = buffer \o pending
  /\ pending' = << >>
  /\ UNCHANGED <<exists, table, cut, sb, todo, debug, sweep, raw, measured>>

SaveRow ==
  /\ sb = "loop" /\ pending # << >>
  /\ Flush(pending)
  /\ pending' = << >>
  /\ UNCHANGED <<sb, todo, debug, sweep, raw, measured>>

EndSweep ==
  /\ sb = "loop" /\ todo = {} /\ pending = << >>
  /\ Flush(<< >>)
  /\ sb' = "off"
  /\ UNCHANGED <<todo, pending, debug, sweep, raw, measured>>

\* A row that was measured and not saved is lost.
KillSweep ==
  /\ sb = "loop"
  /\ LoseBuffer
  /\ sb' = "off" /\ todo' = {} /\ pending' = << >>
  /\ measured' = measured \ Range(pending)
  /\ UNCHANGED <<debug, sweep, raw>>

StructStep == execute \/ SaveRow \/ EndSweep
StructNext == prepare \/ StructStep \/ KillSweep
-----------------------------------------------------------------------------
Least(ops) == Min({ops[k].avg : k \in {j \in DOMAIN ops : ops[j].count > 0}})
Most(ops) == Max({ops[k].avg : k \in {j \in DOMAIN ops : ops[j].count > 0}})

\* A latency lies between the averages of a status line that comes before any
\* summary of the log.
Explains(log, latency) ==
  \E k \in DOMAIN log :
    /\ \A j \in 1 .. k : log[j].kind # "run"
    /\ log[k].kind = "status"
    /\ Least(log[k].ops) * latency[2] <= latency[1]
    /\ latency[1] <= Most(log[k].ops) * latency[2]

\* A row of a ycsb run can be traced to the raw file: there is an output of the
\* same run, configuration and repetition, for as many operations, that explains
\* its latency (execute_bench.py:41-69, 194-207).
Traced(row) ==
  \E entry \in raw :
    /\ entry.sweep = row.sweep /\ entry.conf = row.conf /\ entry.rep = row.rep
    /\ entry.command.nb_ops = row.nb_ops
    /\ row.conf.type_bench = "ycsb" /\ row.latency # <<0, 1>> =>
         Explains(entry.output.log, row.latency)

RowsFromRaw == \A row \in Rows : Traced(row)

\* "A multi-hour sweep must not lose everything if killed": whatever kills the
\* driver, the file holds the row of every measurement since it was made except
\* the one in hand, each once per run of the driver (execute_bench.py:294-298);
\* and each row can be traced to the raw file.
SweepKept ==
  driver = "structures" =>
    /\ RowsFromRaw
    /\ Rows = measured \ Range(pending)
    /\ Len(table) <= Cardinality(Rows) + 1
    /\ \A a, b \in Rows : a.sweep = b.sweep /\ a.conf = b.conf /\ a.rep = b.rep => a = b
=============================================================================
