-------------------------------- MODULE Drivers --------------------------------
(***************************************************************************)
(* The two benchmark drivers, of the data structures and of the databases, *)
(* and two measurements from inside that they take for one step: a run of  *)
(* YCSB and one of the queue benchmark.  They share no file, so a          *)
(* behaviour runs one of them.                                             *)
(***************************************************************************)
EXTENDS StructBench, BenchScheduler, YcsbRunner, QueueBench

vars == <<driver, file, structVars, benchVars, ycsbVars, queueVars>>

Init ==
  /\ driver \in {"structures", "dbms", "ycsb", "queue"}
  /\ FileInit /\ StructInit /\ BenchInit /\ YcsbInit /\ QueueInit

MeasureStructures ==
  /\ driver = "structures" /\ StructNext
  /\ UNCHANGED <<driver, benchVars, ycsbVars, queueVars>>

MeasureDatabases ==
  /\ driver = "dbms" /\ BenchNext
  /\ UNCHANGED <<driver, structVars, ycsbVars, queueVars>>

MeasureYcsb ==
  /\ driver = "ycsb" /\ YcsbNext
  /\ UNCHANGED <<driver, file, structVars, benchVars, queueVars>>

MeasureQueue ==
  /\ driver = "queue" /\ QueueNext
  /\ UNCHANGED <<driver, file, structVars, benchVars, ycsbVars>>

Resting == sb = "off" /\ mainThread \notin {"opened", "running"} /\ ~Executing

Finished ==
  /\ driver # "queue" /\ Resting
  /\ sweep = MaxSweeps \/ invocation = MaxInvocations \/ execs = MaxExecs
  /\ UNCHANGED vars

Next == MeasureStructures \/ MeasureDatabases \/ MeasureYcsb \/ MeasureQueue \/ Finished

\* What runs goes on, and so does each of its threads: every measurement ends,
\* those of the data structures by their timeout, those of the databases by an
\* assumption, as subprocess.run has none.
Fairness ==
  /\ WF_<<file, structVars>>(driver = "structures" /\ StructStep)
  /\ WF_<<file, benchVars>>(driver = "dbms" /\ (WriteHeader \/ Completed))
  /\ \A q \in Queues : WF_<<file, benchVars>>(driver = "dbms" /\ run_queue(q))
  /\ \A t \in Thread :
       /\ WF_queueVars(driver = "queue" /\ Producer(t))
       /\ WF_queueVars(driver = "queue" /\ Consumer(t))
  /\ WF_queueVars(driver = "queue" /\ Main)

Spec == Init /\ [][Next]_vars /\ Fairness
-----------------------------------------------------------------------------
\* A driver is at work: a scheduler, or the queue benchmark.
Working ==
  \/ sb # "off" \/ mainThread \in {"opened", "running"}
  \/ driver = "queue" /\ main # "ended"

\* A driver that was started ends, with its results in the file: no dead thread
\* keeps the other one, or the main thread, waiting (run_benchmarks.py:455-465).
\* The queue benchmark ends: a producer at a full queue finds a consumer that
\* still pops, and every consumer sees done (queue_bench/main.cpp:26-50).
DriversEnd == Working ~> ~Working
=============================================================================
