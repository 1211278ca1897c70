------------------------------- MODULE MCDrivers -------------------------------
(* A structure that runs on several threads, one that does not, and a queue;    *)
(* logs that are whole, cut off by the timeout, or hold no status line.  Two    *)
(* databases whose sweeps cross at a pivot, on one host and on both.  Runs of   *)
(* YCSB with two variants, two workloads that share a load and one that inserts. *)
EXTENDS Drivers

MCSystems == {
  [name |-> "btree", capabilities |-> {"can_update", "can_multithread"}, to_evaluate |-> {"ycsb"}],
  [name |-> "ART", capabilities |-> {"can_scan"}, to_evaluate |-> {"ycsb"}],
  [name |-> "queue", capabilities |-> {"can_grow"}, to_evaluate |-> {"queue_bench"}]}
MCWorkloads == {
  [name |-> "update", type |-> "ycsb", requires |-> {"can_update"}],
  [name |-> "scan", type |-> "ycsb", requires |-> {"can_scan"}],
  [name |-> "queue_bench", type |-> "queue_bench", requires |-> {}]}
MCCombined == {"YCSB-A"}
MCExtensions == {[name |-> "mte", host |-> "eliza", archs |-> {"mte"}, max_threads |-> 4]}
\* Nothing is tuned for scan, and update only for one thread.
MCNbOps == (<<"eliza", "btree", "update", 1>> :> 5) @@ (<<"eliza", "queue", "queue_bench", 1>> :> 2)
All == [systems |-> {"btree", "ART", "queue"}, workloads |-> {"update", "scan", "queue_bench"},
        extensions |-> {"mte"}, threads |-> {1, 4, 8}]
MCArgSets == {All, [All EXCEPT !.systems = {"btree"}, !.threads = {4}]}

Status(a, b) == [kind |-> "status", ops |-> <<[count |-> 1, avg |-> a], [count |-> 2, avg |-> b]>>]
Summary == [kind |-> "run", ops |-> << >>]
MCLogs == {<<Status(4, 1), Summary, Status(9, 9)>>, <<Status(4, 1), Status(2, 6)>>, <<Summary>>}
MCQueueTimes == {0, 3}

Eliza == [name |-> "eliza", threads |-> <<1>>, thread_pivot |-> 1, ws_values |-> <<10>>]
Ace == [name |-> "ace", threads |-> <<1>>, thread_pivot |-> 1, ws_values |-> <<10>>]
MCDbSpecs == <<
  [db |-> "sqlite", kind |-> "sweep", hosts |-> <<Eliza, Ace>>, ws_pivot |-> 10,
   persistence |-> <<"na">>],
  [db |-> "leveldb", kind |-> "ycsb", hosts |-> <<Eliza>>, ws_pivot |-> 10,
   persistence |-> <<"disk">>]>>
Plan(full, host, persistence) == [full |-> full, host |-> host, persistence |-> persistence]
MCPlans == {Plan(TRUE, "any", "any"), Plan(TRUE, "any", "disk"), Plan(FALSE, "any", "any")}
MCOutcomes == {[rows |-> 2, ok |-> TRUE], [rows |-> 0, ok |-> FALSE]}

MCYcsbRuns == [db : {"leveldb", "redis"}, host : {"ace"}, variants : {<<"static", "cheri">>},
               thread_set : {<<1>>}]
MCRO_WORKLOADS == <<"a", "c">>
MCINS_WORKLOADS == <<"d">>
===============================================================================
