------------------------------- MODULE BugReport -------------------------------
(***************************************************************************)
(* analyse_bug_results.py: for one database, where the keywords and the    *)
(* repetitions agree, and every flagged bug in up to three files for a     *)
(* reader.  Here a repetition flags a bug whatever type it gives the       *)
(* issue.  Files of an earlier analysis are overwritten, never removed.    *)
(***************************************************************************)
EXTENDS StudyResults

readable_lines(dbms, rep) ==
  {b \in DOMAIN lines[dbms][rep] : lines[dbms][rep][b].readable}

rep_set(dbms, rep) ==
  {b \in readable_lines(dbms, rep) : lines[dbms][rep][b].is_memory_safety}

bug_sets(dbms) ==
  [name \in SourceNames |->
     CASE name = "Keywords" -> matches[dbms]
       [] name = "LLM_Rep1" -> rep_set(dbms, 1)
       [] name = "LLM_Rep2" -> rep_set(dbms, 2)
       [] name = "LLM_Rep3" -> rep_set(dbms, 3)]

\* Seeded fault: what else has flagged a bug is not excluded.
BugExclusive(sets, combo) == {b \in Report : \A name \in combo : b \in sets[name]}

flagged_by(sets, b) == {name \in SourceNames : b \in sets[name]}

exclusive_intersection(sets, combo) ==
  {b \in UNION {sets[name] : name \in combo} : flagged_by(sets, b) = combo}

all_flagged(sets) == UNION {sets[name] : name \in SourceNames}

\* The groups that are printed: those that are not empty.
intersections(sets) ==
  [c \in {flagged_by(sets, b) : b \in all_flagged(sets)} |-> exclusive_intersection(sets, c)]

\* Three pieces of one size, the last one shorter or missing.
chunks(bugs) ==
  LET chunk_size == (Len(bugs) + 2) \div 3
      From(i) == (i - 1) * chunk_size + 1
  IN  [i \in {j \in 1 .. 3 : From(j) <= Len(bugs)} |->
         SubSeq(bugs, From(i), Min({From(i + 1) - 1, Len(bugs)}))]

write_parts(dbms, files) ==
  /\ parts' = [parts EXCEPT ![dbms] = files \o SubSeq(@, Len(files) + 1, Len(@))]
  /\ written' = [written EXCEPT ![dbms] = Len(files)]

analyse_bugs(dbms) ==
  LET sets == bug_sets(dbms)
  IN  /\ groups' = [groups EXCEPT ![dbms] = intersections(sets)]
      /\ write_parts(dbms, chunks(Ordered(all_flagged(sets))))
=============================================================================
