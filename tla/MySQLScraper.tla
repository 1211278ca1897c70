------------------------------ MODULE MySQLScraper ------------------------------
(***************************************************************************)
(* MySQLScraper.scrape: rows of a CSV index in the order of the bugs'      *)
(* numbers, from params['begin'] on, and one more request per bug for its  *)
(* page.  Nothing checks how that request ended: an error page is saved as *)
(* a report, and a bug whose page does not arrive is passed over.          *)
(***************************************************************************)
EXTENDS BugScraper

\* bug_age: a day more than the range, and whatever has no date.
MySQLListing(issues) ==
  InOrder({i \in Id : /\ issues[i].listed
                      /\ issues[i].created = NoDate \/ issues[i].created + 1 >= StartDate},
          LAMBDA i, j : i < j)

MySQLFetched == IF pc = "request" THEN at ELSE at + got

MySQLRequest ==
  /\ pc = "request"
  /\ AnsweredWith(MySQLListing(tracker), at)
  /\ pc' = IF batch' = << >> THEN "done" ELSE "issues"
  /\ UNCHANGED <<at, saved, faults, excused>>

Entered == Head(batch).created

MySQLEarly ==
  /\ pc = "issues" /\ batch # << >>
  /\ Entered # NoDate /\ Entered < StartDate
  /\ Skip

\* The rows come in the order of their dates, so no later one is in the range.
MySQLLate ==
  /\ pc = "issues" /\ batch # << >>
  /\ Entered # NoDate /\ Entered > EndDate
  /\ Ends("done")

\* A bug that its reporter has hidden since has a page that says so.
PageOf(id) == IF tracker[id].listed THEN "report" ELSE "error page"

fetch_bug_details ==
  /\ pc = "issues" /\ batch # << >>
  /\ in_date_range(Entered)
  /\ LET id == Head(batch).id
     IN  \/ ~CanSave /\ Ends("limit")
         \/ CanSave /\ save_bug(id, PageOf(id)) /\ NextIssue /\ UNCHANGED <<faults, excused>>
         \/ /\ Fault /\ CanSave
            /\ save_bug(id, "error page") /\ NextIssue
            /\ excused' = excused \union {id}
         \/ /\ Fault
            /\ NextIssue
            /\ excused' = excused \union {id}
            /\ UNCHANGED saved

MySQLNextPage ==
  /\ pc = "issues" /\ batch = << >>
  /\ at' = at + got
  /\ pc' = "request"
  /\ UNCHANGED <<answer, saved, faults, excused>>

MySQLRefused == pc = "request" /\ Fails

MySQL == MySQLRequest \/ MySQLEarly \/ MySQLLate \/ fetch_bug_details \/ MySQLNextPage
           \/ MySQLRefused
=============================================================================
