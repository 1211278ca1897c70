--------------------------------- MODULE Study ---------------------------------
(***************************************************************************)
(* The bug study: the bug trackers, or an archive of CVEs, are scraped; the *)
(* reports or CVEs are put before the language model; and then the tools   *)
(* count and list what it said.  One program runs at a time.  A behaviour  *)
(* follows one of four tracks: a scrape of the trackers or of the CVEs, or *)
(* what is made of the files that such a scrape has left.                  *)
(***************************************************************************)
EXTENDS BugExport, BugReport, CveExport, CveReport, ScrapeBugs

Track == {"bugs", "cves", "scrape", "trackers"}

outputs == <<exported, reported, cumulative>>
vars == <<track, cveVars, trackerVars, classification, outputs>>

\* A track that scrapes nothing starts with what scrapers have left behind: for
\* the CVEs any lists, as the scraper may have been interrupted.
Init ==
  /\ StudyInit /\ CveInit /\ TrackersInit
  /\ track \in Track
  /\ track # "trackers" => ~dry_run

LeaveScraped ==
  /\ track = "cves" /\ scrape = "none"
  /\ \E some \in [Db -> SUBSET Cve] :
       /\ \A db \in Db : some[db] \subseteq Match(db, Cve)
       /\ lists' = some
  /\ scrape' = "done"
  /\ unzipped' = TRUE /\ tree' = Cve /\ upstream' = Cve
  /\ zip' = "whole" /\ packed' = Cve
  /\ UNCHANGED <<force, progress, scrapes, whole, track, trackerVars, classification, outputs>>

\* run_all_cves takes those CVEs of a list whose files are there.
Listed == [db \in Dbms |-> lists[db] \intersect tree]

Classify ==
  /\ \/ track = "bugs" /\ run_all(Scraped)
     \/ track = "cves" /\ scrape = "done" /\ run_all(Listed)
  /\ UNCHANGED <<track, cveVars, trackerVars, outputs>>

Export ==
  /\ AtRest
  /\ \/ track = "bugs" /\ export_to_csv
     \/ track = "cves" /\ export_cves_to_csv
  /\ UNCHANGED <<track, cveVars, trackerVars, classification, reported, cumulative>>

AnalyseBugs ==
  /\ AtRest /\ track = "bugs"
  /\ \E dbms \in Dbms : analyse_bugs(dbms)
  /\ UNCHANGED <<track, cveVars, trackerVars, classification, exported, cumulative>>

AnalyseCves ==
  /\ AtRest /\ track = "cves"
  /\ \/ analyse_all
     \/ \E dbms \in Dbms : analyse_one_dbms(dbms)
  /\ UNCHANGED <<track, cveVars, trackerVars, classification, exported>>

ScrapeCves ==
  /\ track = "scrape" /\ CveNext
  /\ UNCHANGED <<track, trackerVars, classification, outputs>>

ScrapeTrackers ==
  /\ track = "trackers" /\ TrackersNext
  /\ UNCHANGED <<track, cveVars, classification, outputs>>

Finished ==
  /\ \/ track = "scrape" /\ Idle /\ scrapes = MaxScrapes
     \/ track = "trackers" /\ turn = Len(Scrapers) /\ pc \in Over
  /\ UNCHANGED vars

Next ==
  \/ LeaveScraped \/ Classify \/ Export \/ AnalyseBugs \/ AnalyseCves
  \/ ScrapeCves \/ ScrapeTrackers \/ Finished

\* Every request of the scrapers is answered or fails at last: they are of one
\* thread, and nothing but a change of the tracker happens besides it.
Spec ==
  /\ Init /\ [][Next]_vars
  /\ WF_trackerVars(track = "trackers" /\ Main)
-----------------------------------------------------------------------------
\* Every line answers a report of its database, and only the repetition that
\* runs and those before it have lines.
TypeOK ==
  /\ track \in Track
  /\ classify \in {"none", "next", "rep", "ended", "stopped"}
  /\ current \in 0 .. 3 /\ (classify = "rep" => current > 0 /\ queue # << >>)
  /\ \A db \in Dbms :
       LET source == IF track = "bugs" THEN Scraped[db] ELSE lists[db]
       IN  /\ matches[db] \subseteq source
           /\ \A r \in Rep : \A x \in DOMAIN lines[db][r] :
                x \in source /\ lines[db][r][x] \in Say[x]
           /\ written[db] \in {NotAnalysed} \union 0 .. Len(parts[db])
  /\ zip \in {"missing", "part", "whole"} /\ tree \subseteq upstream
  /\ scrape \in {"none", "download", "downloading", "extract", "extracting",
                 "search", "done", "stopped"}
  /\ left \subseteq packed

Size(G) == Total([g \in DOMAIN G |-> Cardinality(G[g])])
Under(db, names) == Restrict(groups[db], {g \in DOMAIN groups[db] : names \subseteq g})

\* Two programs that read the same files tell the same story: what a CSV file
\* counts as a memory safety bug or CVE of a database is printed by the
\* analysis under all three repetitions, whatever was lost or unreadable
\* (export_bug_results_to_csv.py:212, analyse_bug_results.py:132).
ExportedIsReported ==
  summaries # << >> => \A k \in DOMAIN DATABASES :
    written[DATABASES[k]] # NotAnalysed =>
      summaries.databases[k].llm_memsafe <= Size(Under(DATABASES[k], LlmReps))

\* The cumulative report of the CVEs counts for each repetition what the
\* analyses of the databases have printed under it, and no repetition has fewer
\* memory safety CVEs in it than the tables on which all three agree
\* (analyse_cve_results.py:165-173, 294-326).
CumulativeAgrees ==
  cumulative # << >> =>
    LET Printed(name) ==
          Total([k \in DOMAIN DATABASES |-> Size(Under(DATABASES[k], {name}))])
    IN  /\ cumulative.keywords = Printed("Keywords")
        /\ cumulative.grand_totals[1].memory_safety = Printed("LLM_Rep1")
        /\ cumulative.grand_totals[2].memory_safety = Printed("LLM_Rep2")
        /\ cumulative.grand_totals[3].memory_safety = Printed("LLM_Rep3")
        /\ summaries # << >> => \A r \in Rep :
             summaries.grand_memsafe <= cumulative.grand_totals[r].memory_safety

\* No two of the tools that count the same answers contradict each other.
CountsAgree ==
  TypeOK /\ BugTablesAgree /\ CveTablesAgree /\ ExportedIsReported /\ CumulativeAgrees

\* Every scraper of the list gets its turn and ends, whatever fails, unless a
\* whole window of GitHub holds pull requests only: then it is read for ever.
EveryTurnEnds ==
  track = "trackers" =>
    \/ <>(turn = Len(Scrapers) /\ pc \in Over)
    \/ <>[](turn > 0 /\ kind = "GitHub" /\ PullsOnly)
=============================================================================
