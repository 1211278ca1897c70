----------------------------- MODULE GitHubScraper -----------------------------
(***************************************************************************)
(* GitHubScraper.scrape: closed issues in the order of their last update,  *)
(* page by page.  GitHub serves no page beyond the hundredth, so the       *)
(* scraper begins again at page 1 before that, with a later `since`: the   *)
(* pages from one reset to the next are a window.  Pull requests are       *)
(* issues to GitHub and are passed over.                                   *)
(***************************************************************************)
EXTENDS BugScraper

CONSTANT ResetPage   \* the page at which a window ends: 90

ASSUME ResetAssumption == ResetPage \in Nat /\ ResetPage > 1

VARIABLES
  since,       \* current_since
  lastUpdated  \* batch_last_updated, or NoDate

window == <<since, lastUpdated>>

Older(issues, i, j) ==
  \/ issues[i].updated < issues[j].updated
  \/ issues[i].updated = issues[j].updated /\ i < j

GitHubListing(issues) ==
  InOrder({i \in Id : issues[i].listed /\ issues[i].updated >= since},
          LAMBDA i, j : Older(issues, i, j))

GitHubFetched == IF pc = "request" THEN (at - 1) * PerPage ELSE at * PerPage

\* Seeded fault: a page without issues is not the end.
BugGitHubRequest ==
  /\ pc = "request"
  /\ AnsweredWith(GitHubListing(tracker), (at - 1) * PerPage)
  /\ pc' = IF batch' = << >> THEN "request" ELSE "issues"
  /\ UNCHANGED <<at, window, saved, faults, excused>>

GitHubRequest ==
  /\ pc = "request"
  /\ AnsweredWith(GitHubListing(tracker), (at - 1) * PerPage)
  /\ pc' = IF batch' = << >> THEN "done" ELSE "issues"
  /\ UNCHANGED <<at, window, saved, faults, excused>>

GitHubPull ==
  /\ pc = "issues" /\ batch # << >>
  /\ Head(batch).pull
  /\ Skip
  /\ UNCHANGED window

GitHubIssue ==
  /\ pc = "issues" /\ batch # << >>
  /\ ~Head(batch).pull
  /\ lastUpdated' = Head(batch).updated
  /\ UNCHANGED since
  /\ \/ /\ ~in_date_range(Head(batch).created)
        /\ Skip
     \/ /\ in_date_range(Head(batch).created)
        /\ \/ ~CanSave /\ Ends("limit")
           \/ /\ CanSave /\ save_bug(Head(batch).id, "report") /\ NextIssue
              /\ UNCHANGED <<faults, excused>>
           \/ CanSave /\ Fails

\* Issues of the second in which the window is cut that are on no page of it
\* yet: the next window begins a second later.
CutOff == {i \in Beyond(GitHubListing(tracker), GitHubFetched) :
             tracker[i].updated = lastUpdated}

\* Seeded fault: the next window begins two seconds later.
BugResetLate ==
  /\ at' = 1
  /\ since' = IF lastUpdated = NoDate THEN since ELSE lastUpdated + 2
  /\ pc' = "request"
  /\ excused' = excused \union CutOff
  /\ UNCHANGED <<lastUpdated, answer, saved>>

\* A new window: without an issue in the last ones, the same once more.
Reset ==
  /\ at' = 1
  /\ since' = IF lastUpdated = NoDate THEN since ELSE lastUpdated + 1
  /\ pc' = "request"
  /\ excused' = excused \union CutOff
  /\ UNCHANGED <<lastUpdated, answer, saved>>

HasNext == at * PerPage < total    \* 'next' in response.links

GitHubNextPage ==
  /\ pc = "issues" /\ batch = << >>
  /\ \/ ~HasNext /\ Ends("done") /\ UNCHANGED window
     \/ /\ HasNext /\ at + 1 < ResetPage
        /\ at' = at + 1 /\ pc' = "request"
        /\ UNCHANGED <<window, answer, saved, faults, excused>>
     \/ HasNext /\ at + 1 >= ResetPage /\ Reset /\ UNCHANGED faults

\* The request fails: with 422 a new window begins, else the scraper gives up.
GitHubRefused ==
  /\ pc = "request"
  /\ \/ Fault /\ Reset
     \/ Fails /\ UNCHANGED window

GitHub == GitHubRequest \/ GitHubPull \/ GitHubIssue \/ GitHubNextPage \/ GitHubRefused

\* The window is full of pull requests: no reset leads out of it.
PullsOnly ==
  LET listing == GitHubListing(tracker)
      n == (ResetPage - 1) * PerPage
  IN  Len(listing) > n /\ \A k \in 1 .. n : tracker[listing[k]].pull
=============================================================================
