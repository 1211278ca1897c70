------------------------------ MODULE StudyResults ------------------------------
(***************************************************************************)
(* The results of the bug study: which reports match the keywords, and     *)
(* what the language model answered about each report in three repetitions *)
(* of the classification (recipes of bugs.just), which the tools read.     *)
(* The model itself is outside.                                            *)
(*                                                                         *)
(* A repetition truncates its file and adds a line per report as answers   *)
(* come, in any order.  A report gets no line if its request failed, if it *)
(* lies out of the dates or, among the CVEs, describes nothing; and no     *)
(* line that can be read if the answer was no JSON or, among the CVEs, if  *)
(* two threads printed at once.  A repetition's file maps the reports that *)
(* have a line to what it says: no report has two, and nothing depends on  *)
(* their order.  A file that is missing has no lines.                      *)
(***************************************************************************)
EXTENDS Integers, Sequences, FiniteSetsExt, SequencesExt, Functions

CONSTANTS
  ById,       \* all reports, bugs or CVEs, in the order of their ids
  DATABASES,  \* the names of the databases, in their order
  Say,        \* per report: the answers that the model may give
  Keyworded,  \* the reports that hold a keyword
  Earlier     \* per database: the files that an earlier analysis has left

Report == {ById[k] : k \in DOMAIN ById}
Dbms == {DATABASES[k] : k \in DOMAIN DATABASES}
Rep == 1 .. 3
TYPES == {"bug", "programmer_error", "other"}

ASSUME StudyAssumption ==
  /\ IsInjective(ById) /\ IsInjective(DATABASES)
  /\ DOMAIN Say = Report /\ Keyworded \subseteq Report
  /\ \A x \in Report : \A a \in Say[x] :
       /\ a.issue_type \in TYPES
       /\ {a.readable, a.is_memory_safety} \subseteq BOOLEAN

VARIABLES
  track,       \* whose results: "bugs" or "cves", or a scrape: "scrape" (CVEs), "trackers"
  matches,     \* matches_<dbms>.json
  lines,       \* <dbms>_rep<r>.json
  classify,    \* what run_all_bugs or run_all_cves does
  queue,       \* the databases that it has still to do
  current,     \* the repetition that it does
  rows,        \* the CSV file by year
  summaries,   \* TABLE 1 and TABLE 2, one entry per database
  groups,      \* the exclusive intersections printed per database
  parts,       \* the report files of each database
  written,     \* how many of them the last analysis wrote, or NotAnalysed
  cumulative   \* cumulative_report.txt

results == <<matches, lines>>
classification == <<results, classify, queue, current>>
exported == <<rows, summaries>>
reported == <<groups, parts, written>>

NotAnalysed == -1

StudyInit ==
  /\ matches = [db \in Dbms |-> {}]
  /\ lines = [db \in Dbms |-> [r \in Rep |-> << >>]]
  /\ classify = "none" /\ queue = DATABASES /\ current = 0
  /\ rows = << >> /\ summaries = << >>
  /\ groups = [db \in Dbms |-> << >>]
  /\ written = [db \in Dbms |-> NotAnalysed]
  /\ parts = Earlier
  /\ cumulative = << >>

AtRest == classify \in {"ended", "stopped"}

Answered == DOMAIN lines[Head(queue)][current]

\* A database without reports is passed over; else the keyword search and the
\* first repetition.
StartDatabase(source) ==
  /\ classify \in {"none", "next"} /\ queue # << >>
  /\ \/ /\ source[Head(queue)] = {}
        /\ queue' = Tail(queue)
        /\ classify' = IF Tail(queue) = << >> THEN "ended" ELSE "next"
        /\ UNCHANGED <<results, current>>
     \/ /\ source[Head(queue)] # {}
        /\ matches' = [matches EXCEPT ![Head(queue)] = source[Head(queue)] \intersect Keyworded]
        /\ lines' = [lines EXCEPT ![Head(queue)][1] = << >>]
        /\ classify' = "rep" /\ current' = 1
        /\ UNCHANGED queue

\* The answer about a report, if there is one, is a line of the file.
process_file(source) ==
  /\ classify = "rep"
  /\ \E x \in source[Head(queue)] \ Answered : \E answer \in Say[x] :
       lines' = [lines EXCEPT ![Head(queue)][current] =
                   [y \in DOMAIN @ \union {x} |-> IF y = x THEN answer ELSE @[y]]]
  /\ UNCHANGED <<matches, classify, queue, current>>

\* The requests that have no answer by now have failed.
EndRep ==
  /\ classify = "rep"
  /\ \/ /\ current < 3
        /\ current' = current + 1
        /\ lines' = [lines EXCEPT ![Head(queue)][current + 1] = << >>]
        /\ UNCHANGED <<classify, queue>>
     \/ /\ current = 3
        /\ queue' = Tail(queue) /\ current' = 0
        /\ classify' = IF Tail(queue) = << >> THEN "ended" ELSE "next"
        /\ UNCHANGED lines
  /\ UNCHANGED matches

\* The recipe is killed, or a command of it fails: set -e.
Kill ==
  /\ classify \in {"rep", "next"}
  /\ classify' = "stopped" /\ queue' = << >> /\ current' = 0
  /\ UNCHANGED results

run_all(source) == StartDatabase(source) \/ process_file(source) \/ EndRep \/ Kill
-----------------------------------------------------------------------------
Total(f) == FoldFunction(LAMBDA a, b : a + b, 0, f)

Ordered(S) == SelectSeq(ById, LAMBDA x : x \in S)

SourceNames == {"Keywords", "LLM_Rep1", "LLM_Rep2", "LLM_Rep3"}
LlmReps == SourceNames \ {"Keywords"}

\* The reports of all files that the last analysis of db wrote, in their order.
Written(db) == FlattenSeq(SubSeq(parts[db], 1, written[db]))

\* The groups that an analysis prints are disjoint, and the files that it
\* writes, three at most, list each report of the groups once, in the order of
\* the ids: no report that some source has flagged is printed twice or lost
\* where the list is cut into parts (analyse_bug_results.py:131-147, 208-257,
\* analyse_cve_results.py:194-209, 221-274).
ReportsEachOnce ==
  \A db \in Dbms :
    LET flagged == UNION Range(groups[db])
    IN  /\ \A g, h \in DOMAIN groups[db] : g # h => groups[db][g] \intersect groups[db][h] = {}
        /\ written[db] <= 3
        /\ flagged # {} => Written(db) = Ordered(flagged)
=============================================================================
