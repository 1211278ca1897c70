------------------------------- MODULE BugExport -------------------------------
(***************************************************************************)
(* export_bug_results_to_csv.py: bugs per database and year, and two       *)
(* tables.  A bug counts only if all three repetitions agree.              *)
(***************************************************************************)
EXTENDS StudyResults

CONSTANTS
  Scraped,  \* per database: the bugs in its directory
  Page      \* the fields that can date a bug: a year, Dateless or Null

Dateless == -1  \* text that holds no date
Null == -2      \* no text: matching against it raises
None == 0

DateFields == <<"created_at", "created", "description", "html_content">>

ASSUME BugAssumption ==
  /\ Scraped \in [Dbms -> SUBSET Report]
  /\ \A db \in Dbms : \A b \in Scraped[db] :
       DOMAIN Page[b] \subseteq {DateFields[k] : k \in DOMAIN DateFields}

\* The first field that holds no dateless text decides.  The page itself is
\* looked at only if there is a description.
extract_year_from_bug(b) ==
  LET looked_at == SelectSeq(DateFields, LAMBDA f :
                     /\ f \in DOMAIN Page[b] /\ Page[b][f] # Dateless
                     /\ f = "html_content" => "description" \in DOMAIN Page[b])
  IN  IF looked_at = << >> \/ Page[b][looked_at[1]] = Null THEN None
      ELSE Page[b][looked_at[1]]

load_keyword_matches(dbms) == matches[dbms]

\* Seeded fault: one answer stands for all repetitions.
BugLoad(dbms) ==
  LET Readable(b) == {r \in Rep : b \in DOMAIN lines[dbms][r] /\ lines[dbms][r][b].readable}
  IN  [r \in Rep |-> [b \in {x \in Report : Readable(x) # {}} |->
                        lines[dbms][Max(Readable(b))][b]]]

\* Lines that do not hold a JSON object are passed over.
load_llm_results(dbms) ==
  [r \in Rep |-> Restrict(lines[dbms][r],
                          {b \in DOMAIN lines[dbms][r] : lines[dbms][r][b].readable})]

all_bugs(llm) == UNION {DOMAIN llm[r] : r \in Rep}

\* Repetitions that call b a bug, and a memory safety bug.
bug_count(llm, b) ==
  Cardinality({r \in Rep : b \in DOMAIN llm[r] /\ llm[r][b].issue_type = "bug"})

memsafe_count(llm, b) ==
  Cardinality({r \in Rep : /\ b \in DOMAIN llm[r] /\ llm[r][b].issue_type = "bug"
                           /\ llm[r][b].is_memory_safety})

\* The bugs for which all repetitions name one implication.
unanimous(llm, memsafe, implication) ==
  {b \in memsafe : \A r \in Rep : llm[r][b].implication = implication}

Implications == {"data_loss", "system_crash", "none"}

analyze_dbms_by_year(dbms) ==
  LET keyword_matches == load_keyword_matches(dbms)
      llm == load_llm_results(dbms)
      bugs == {b \in all_bugs(llm) : bug_count(llm, b) = 3}
      memsafe == {b \in all_bugs(llm) : memsafe_count(llm, b) = 3}
      In(year, S) == Cardinality({b \in S : extract_year_from_bug(b) = year})
      years == {extract_year_from_bug(b) : b \in bugs \union memsafe \union keyword_matches}
  IN  [yearly |-> [year \in years \ {None} |->
                     [total |-> In(year, bugs), llm_memsafe |-> In(year, memsafe),
                      keyword_memsafe |-> In(year, keyword_matches)]],
       total |-> Cardinality(Scraped[dbms]),
       llm_memsafe |-> Cardinality(memsafe),
       implications_unanimous |->
         [i \in Implications |-> Cardinality(unanimous(llm, memsafe, i))]]

\* TABLE 1 ends with the totals, TABLE 2 has a column per category that occurs.
print_summary_tables(all) ==
  [databases |-> all,
   grand_total |-> Total([k \in DOMAIN all |-> all[k].total]),
   grand_memsafe |-> Total([k \in DOMAIN all |-> all[k].llm_memsafe]),
   active_cats |-> {i \in Implications :
                      \E k \in DOMAIN all : all[k].implications_unanimous[i] > 0}]

Yearly(dbms, yearly) ==
  LET years == SetToSortSeq(DOMAIN yearly, <)
  IN  [k \in DOMAIN years |-> [db |-> dbms, year |-> years[k], stats |-> yearly[years[k]]]]

export_to_csv ==
  LET all == [k \in DOMAIN DATABASES |-> analyze_dbms_by_year(DATABASES[k])]
  IN  /\ rows' = FlattenSeq([k \in DOMAIN all |-> Yearly(DATABASES[k], all[k].yearly)])
      /\ summaries' = print_summary_tables(all)
-----------------------------------------------------------------------------
RowsOf(db) == {rows[k] : k \in {j \in DOMAIN rows : rows[j].db = db}}
AddUp(S, Count(_)) == FoldSet(LAMBDA row, n : n + Count(row), 0, S)
LlmOf(row) == row.stats.llm_memsafe

Dated(db) == \A b \in Scraped[db] : extract_year_from_bug(b) # None

\* The CSV file, TABLE 1 and TABLE 2 tell one story: no year has more memory
\* safety bugs than bugs; the years of a database add up to its line of
\* TABLE 1, or to less if a bug of it has no date; that line exceeds neither
\* the bugs that were scraped nor, in TABLE 2, falls below its implications
\* (export_bug_results_to_csv.py:184-242 counts each in a different place).
BugTablesAgree ==
  track = "bugs" /\ summaries # << >> => \A k \in DOMAIN DATABASES :
    LET db == DATABASES[k]
        line == summaries.databases[k]
        years == AddUp(RowsOf(db), LlmOf)
    IN  /\ \A row \in RowsOf(db) : LlmOf(row) <= row.stats.total
        /\ years <= line.llm_memsafe
        /\ Dated(db) => years = line.llm_memsafe
        /\ line.llm_memsafe <= line.total
        /\ Total(line.implications_unanimous) <= line.llm_memsafe
        /\ summaries.grand_memsafe <= summaries.grand_total
=============================================================================
