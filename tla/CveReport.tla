------------------------------- MODULE CveReport -------------------------------
(***************************************************************************)
(* analyse_cve_results.py: as analyse_bug_results.py for CVEs, for one     *)
(* database or, called without one, for all of them, with a cumulative     *)
(* report at the end.                                                      *)
(***************************************************************************)
EXTENDS StudyResults

Examined(dbms, rep) ==
  {c \in DOMAIN lines[dbms][rep] : lines[dbms][rep][c].readable}

OfType(dbms, rep, type) ==
  Cardinality({c \in Examined(dbms, rep) : lines[dbms][rep][c].issue_type = type})

MemSafety(dbms, rep) ==
  {c \in Examined(dbms, rep) : lines[dbms][rep][c].is_memory_safety}

rep_stats(dbms, rep) ==
  [total |-> Cardinality(Examined(dbms, rep)),
   bugs |-> OfType(dbms, rep, "bug"),
   programmer_error |-> OfType(dbms, rep, "programmer_error"),
   other |-> OfType(dbms, rep, "other"),
   memory_safety |-> Cardinality(MemSafety(dbms, rep))]

cumulative_stats(dbms) ==
  [dbms |-> dbms, keyword_matches |-> Cardinality(matches[dbms]),
   reps |-> [r \in Rep |-> rep_stats(dbms, r)]]

\* The sources that flag c: the combination it is printed under.
FlaggedBy(dbms, c) ==
  {name \in SourceNames :
     CASE name = "Keywords" -> c \in matches[dbms]
       [] name = "LLM_Rep1" -> c \in MemSafety(dbms, 1)
       [] name = "LLM_Rep2" -> c \in MemSafety(dbms, 2)
       [] name = "LLM_Rep3" -> c \in MemSafety(dbms, 3)}

cve_intersections(dbms) ==
  LET combos == {FlaggedBy(dbms, c) : c \in Report} \ {{}}
  IN  [combo \in combos |-> {c \in Report : FlaggedBy(dbms, c) = combo}]

cves_flagged(dbms) == {c \in Report : FlaggedBy(dbms, c) # {}}

cve_chunks(cves) ==
  LET size == (Len(cves) + 2) \div 3
      number == IF cves = << >> THEN 0 ELSE (Len(cves) + size - 1) \div size
  IN  [i \in 1 .. number |-> SubSeq(cves, (i - 1) * size + 1, Min({i * size, Len(cves)}))]

Analyse(names) ==
  LET files(db) == cve_chunks(Ordered(cves_flagged(db)))
  IN  /\ groups' = [db \in Dbms |-> IF db \in names THEN cve_intersections(db) ELSE groups[db]]
      /\ parts' = [db \in Dbms |->
           IF db \in names
           THEN files(db) \o SubSeq(parts[db], Len(files(db)) + 1, Len(parts[db]))
           ELSE parts[db]]
      /\ written' = [db \in Dbms |-> IF db \in names THEN Len(files(db)) ELSE written[db]]

Columns == {"total", "bugs", "programmer_error", "other", "memory_safety"}

generate_cumulative_report(stats) ==
  [rows |-> stats,
   keywords |-> Total([k \in DOMAIN stats |-> stats[k].keyword_matches]),
   grand_totals |-> [r \in Rep |-> [column \in Columns |->
                       Total([k \in DOMAIN stats |-> stats[k].reps[r][column]])]]]

\* main with a database: no cumulative report.
analyse_one_dbms(dbms) == Analyse({dbms}) /\ UNCHANGED cumulative

analyse_all ==
  /\ Analyse(Dbms)
  /\ cumulative' =
       generate_cumulative_report([k \in DOMAIN DATABASES |-> cumulative_stats(DATABASES[k])])
=============================================================================
