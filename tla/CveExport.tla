------------------------------- MODULE CveExport -------------------------------
(***************************************************************************)
(* export_cve_results_to_csv.py: CVEs per database and year, and two       *)
(* tables.  As for bugs, but the year is in the name of the file, and the  *)
(* tables, unlike the CSV file, keep to the years 2015 to 2025.            *)
(***************************************************************************)
EXTENDS StudyResults, CveScrape

YEAR_MIN == 2015
YEAR_MAX == 2025
InYears(year) == YEAR_MIN <= year /\ year <= YEAR_MAX

NoYear == 0

extract_year_from_cve_path(c) == YearOf[c]

load_cve_keywords(dbms) == matches[dbms]

load_cve_results(dbms) ==
  [r \in Rep |-> [c \in {d \in DOMAIN lines[dbms][r] : lines[dbms][r][d].readable} |->
                    lines[dbms][r][c]]]

\* The CVEs that every repetition calls a bug, and a memory safety bug.
bug_in_all(llm) ==
  {c \in UNION {DOMAIN llm[r] : r \in Rep} :
     /\ extract_year_from_cve_path(c) # NoYear
     /\ \A r \in Rep : c \in DOMAIN llm[r] /\ llm[r][c].issue_type = "bug"}

memsafe_in_all(llm) == {c \in bug_in_all(llm) : \A r \in Rep : llm[r][c].is_memory_safety}

\* CVEs without a year are passed over, in every count.
cve_yearly(dbms) ==
  LET llm == load_cve_results(dbms)
      In(year, S) == Cardinality({c \in S : extract_year_from_cve_path(c) = year})
      seen == bug_in_all(llm) \union memsafe_in_all(llm) \union load_cve_keywords(dbms)
  IN  [year \in {extract_year_from_cve_path(c) : c \in seen} \ {NoYear} |->
         [total |-> In(year, bug_in_all(llm)), llm_memsafe |-> In(year, memsafe_in_all(llm)),
          keyword_memsafe |-> In(year, load_cve_keywords(dbms))]]

Effects == {"data_loss", "system_crash", "none"}

cve_summary(dbms) ==
  LET llm == load_cve_results(dbms)
      memsafe == {c \in memsafe_in_all(llm) : InYears(extract_year_from_cve_path(c))}
  IN  [total |-> Cardinality({c \in lists[dbms] : InYears(extract_year_from_cve_path(c))}),
       llm_memsafe |-> Cardinality(memsafe),
       implications_unanimous |->
         [i \in Effects |->
            Cardinality({c \in memsafe : \A r \in Rep : llm[r][c].implication = i})]]

print_cve_tables(all) ==
  [databases |-> all,
   grand_total |-> Total([k \in DOMAIN all |-> all[k].total]),
   grand_memsafe |-> Total([k \in DOMAIN all |-> all[k].llm_memsafe]),
   active_cats |-> {i \in Effects :
                      \E k \in DOMAIN all : all[k].implications_unanimous[i] > 0}]

\* The rows of a database, by year.
cve_rows(dbms) ==
  LET yearly == cve_yearly(dbms)
      years == SetToSortSeq(DOMAIN yearly, <)
  IN  [k \in DOMAIN years |-> [db |-> dbms, year |-> years[k], stats |-> yearly[years[k]]]]

export_cves_to_csv ==
  /\ rows' = FlattenSeq([k \in DOMAIN DATABASES |-> cve_rows(DATABASES[k])])
  /\ summaries' = print_cve_tables([k \in DOMAIN DATABASES |-> cve_summary(DATABASES[k])])
-----------------------------------------------------------------------------
CveRows(db, P(_)) == {rows[k] : k \in {j \in DOMAIN rows : rows[j].db = db /\ P(rows[j].year)}}
MemsafeIn(R) == FoldSet(LAMBDA row, n : n + row.stats.llm_memsafe, 0, R)

\* The CSV file and the tables of the CVEs agree on the years that both tell
\* of: the rows of 2015 to 2025 add up to the line of the database in TABLE 1,
\* no row has more memory safety CVEs than CVEs, and TABLE 2 never has more
\* than TABLE 1 (export_cve_results_to_csv.py:129-205).
CveTablesAgree ==
  track = "cves" /\ summaries # << >> => \A k \in DOMAIN DATABASES :
    LET line == summaries.databases[k]
    IN  /\ \A row \in CveRows(DATABASES[k], LAMBDA y : TRUE) :
             row.stats.llm_memsafe <= row.stats.total
        /\ MemsafeIn(CveRows(DATABASES[k], InYears)) = line.llm_memsafe
        /\ line.llm_memsafe <= line.total
        /\ Total(line.implications_unanimous) <= line.llm_memsafe
=============================================================================
