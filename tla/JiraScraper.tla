------------------------------ MODULE JiraScraper ------------------------------
(***************************************************************************)
(* JiraScraper.scrape: the issues created in the range, the latest first,  *)
(* from start_at on.  The query filters by date, the scraper does not.     *)
(***************************************************************************)
EXTENDS BugScraper

JiraListing(issues) ==
  InOrder({i \in Id : /\ issues[i].listed
                      /\ StartDate <= issues[i].created
                      /\ issues[i].created <= EndDate},
          LAMBDA i, j : i > j)

JiraFetched == IF pc = "request" THEN at ELSE at + got

JiraRequest ==
  /\ pc = "request"
  /\ AnsweredWith(JiraListing(tracker), at)
  /\ pc' = IF batch' = << >> THEN "done" ELSE "issues"
  /\ UNCHANGED <<at, saved, faults, excused>>

JiraIssue ==
  /\ pc = "issues" /\ batch # << >>
  /\ \/ ~CanSave /\ Ends("limit")
     \/ CanSave /\ save_bug(Head(batch).id, "report") /\ NextIssue /\ UNCHANGED <<faults, excused>>
     \/ CanSave /\ Fails

JiraNextPage ==
  /\ pc = "issues" /\ batch = << >>
  /\ at' = at + got
  /\ pc' = IF at' >= total THEN "done" ELSE "request"
  /\ UNCHANGED <<answer, saved, faults, excused>>

JiraRefused == pc = "request" /\ Fails

Jira == JiraRequest \/ JiraIssue \/ JiraNextPage \/ JiraRefused
=============================================================================
