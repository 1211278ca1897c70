------------------------------ MODULE ResultsFile ------------------------------
(***************************************************************************)
(* A file of results that a benchmark driver writes: what is on the disk,  *)
(* and what the program has written but not flushed.                       *)
(***************************************************************************)
EXTENDS Integers, Sequences, FiniteSetsExt, SequencesExt, Functions

VARIABLES
  driver,  \* who runs: "structures" or "dbms", or "ycsb" or "queue", which use no file
  exists,  \* whether there is a file
  table,   \* its lines
  buffer,  \* lines that are not flushed
  cut      \* a kill lost the header of this file (history)

file == <<exists, table, buffer, cut>>

Header == [sweep |-> 0]

FileInit == exists = FALSE /\ table = << >> /\ buffer = << >> /\ cut = FALSE

\* Mode "a" or "w"; what is written at once waits in the buffer.
OpenFile(append, first) ==
  /\ exists' = TRUE
  /\ table' = IF append THEN table ELSE << >>
  /\ cut' = (append /\ cut)
  /\ buffer' = first

Flush(more) ==
  /\ table' = table \o buffer \o more /\ buffer' = << >>
  /\ UNCHANGED <<exists, cut>>

LoseBuffer ==
  /\ buffer' = << >>
  /\ cut' = (cut \/ Header \in Range(buffer))
  /\ UNCHANGED <<exists, table>>

Rows == {table[k] : k \in DOMAIN table} \ {Header}

\* A file of results starts with its header and holds no other, over any number
\* of runs with and without --append, unless a driver was killed after it made
\* the file and before it flushed the header: then a later run with --append
\* adds rows to a file that has none (execute_bench.py:288-298,
\* run_benchmarks.py:420-434).
OneHeader ==
  /\ table # << >> => exists
  /\ table # << >> /\ ~cut =>
       /\ table[1] = Header
       /\ \A k \in DOMAIN table : table[k] = Header => k = 1
=============================================================================
