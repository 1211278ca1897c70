------------------------------- MODULE ScrapeBugs -------------------------------
(***************************************************************************)
(* scrape_bugs.py: main runs one scraper after the other, whatever becomes *)
(* of each, while people work on the trackers.                             *)
(***************************************************************************)
EXTENDS GitHubScraper, JiraScraper, MySQLScraper

CONSTANTS
  Scrapers,    \* main's list: the kind of each scraper
  Scene,       \* bound: what a tracker of each kind may hold at first
  MaxChanges   \* bound: changes of a tracker while it is scraped

Kind == {"GitHub", "Jira", "MySQL"}

ASSUME MainAssumption ==
  /\ Scrapers \in Seq(Kind)
  /\ Scene \in [Kind -> SUBSET [Id -> Issue]]
  /\ MaxChanges \in Nat

VARIABLES
  turn,     \* the scraper of main's list whose turn it is
  now,      \* the second of the latest change of its tracker
  changes,  \* bounds the changes
  moved     \* issues changed since its first request (history)

world == <<tracker, now, changes, moved>>
scraping == <<pc, at, answer, window, saved, faults, excused>>
trackerVars == <<turn, dry_run, scraping, world>>

kind == Scrapers[turn]
Over == {"done", "limit", "failed"}
Nothing == [listed |-> FALSE, created |-> NoDate, updated |-> 0, pull |-> FALSE]

TrackersInit ==
  /\ turn = 0
  /\ dry_run \in BOOLEAN
  /\ pc = "done" /\ at = 0
  /\ batch = << >> /\ got = 0 /\ total = 0
  /\ since = NoDate /\ lastUpdated = NoDate
  /\ files = [i \in Id |-> "none"] /\ bugs_saved = 0
  /\ saves = [i \in Id |-> 0]
  /\ faults = 0 /\ excused = {}
  /\ tracker = [i \in Id |-> Nothing]
  /\ now = 0 /\ changes = 0 /\ moved = {}

\* The next scraper of the list, as __init__ leaves it.
NextScraper ==
  /\ pc \in Over /\ turn < Len(Scrapers)
  /\ turn' = turn + 1
  /\ pc' = "request"
  /\ at' = IF Scrapers[turn'] = "GitHub" THEN 1 ELSE 0
  /\ batch' = << >> /\ got' = 0 /\ total' = 0
  /\ since' = StartDate /\ lastUpdated' = NoDate
  /\ files' = [i \in Id |-> "none"] /\ bugs_saved' = 0
  /\ saves' = [i \in Id |-> 0]
  /\ faults' = 0 /\ excused' = {}
  /\ tracker' \in Scene[Scrapers[turn']]
  /\ now' = Max({tracker'[i].updated : i \in Id}) + 1
  /\ changes' = 0 /\ moved' = {}
  /\ UNCHANGED dry_run

Scrape ==
  /\ pc \notin Over
  /\ \/ kind = "GitHub" /\ GitHub
     \/ kind = "Jira" /\ Jira /\ UNCHANGED window
     \/ kind = "MySQL" /\ MySQL /\ UNCHANGED window
  /\ UNCHANGED <<turn, dry_run, world>>

Listing(issues) ==
  CASE kind = "GitHub" -> GitHubListing(issues)
    [] kind = "Jira" -> JiraListing(issues)
    [] kind = "MySQL" -> MySQLListing(issues)
Fetched ==
  CASE kind = "GitHub" -> GitHubFetched
    [] kind = "Jira" -> JiraFetched
    [] kind = "MySQL" -> MySQLFetched

NotYet(issue) == issue.created = NoDate /\ issue.updated = 0

\* An issue that is not listed is closed, shown, or reported; one that is, is
\* reopened or hidden, or somebody comments on it, which moves it on GitHub.
ChangedTo(issue, t) ==
  IF ~issue.listed
  THEN {[issue EXCEPT !.listed = TRUE, !.updated = t,
                      !.created = IF NotYet(issue) THEN t ELSE @]}
  ELSE {[issue EXCEPT !.listed = FALSE]}
         \union (IF kind = "GitHub" THEN {[issue EXCEPT !.updated = t]} ELSE {})

\* Only GitHub's order tells a change in the second of the last one from a later.
Seconds == IF kind = "GitHub" THEN {now, now + 1} ELSE {now}

\* People change an issue between two requests.  What slides over the place
\* that the scraper has reached will not be in an answer of this window.
Change ==
  /\ pc \notin Over /\ changes < MaxChanges
  /\ changes' = changes + 1
  /\ \E i \in Id, t \in Seconds :
       /\ \E issue \in ChangedTo(tracker[i], t) : tracker' = [tracker EXCEPT ![i] = issue]
       /\ now' = t
       /\ moved' = moved \union {i}
  /\ excused' = excused \union
       (Beyond(Listing(tracker), Fetched) \ Beyond(Listing(tracker'), Fetched))
  /\ UNCHANGED <<turn, dry_run, pc, at, answer, window, saved, faults>>

Main == NextScraper \/ Scrape

TrackersNext == Main \/ Change
-----------------------------------------------------------------------------
ScrapersTyped ==
  /\ turn \in 0 .. Len(Scrapers)
  /\ dry_run \in BOOLEAN
  /\ pc \in {"request", "issues"} \union Over
  /\ tracker \in [Id -> Issue]
  /\ at \in Nat /\ got \in 0 .. PerPage /\ total \in 0 .. Cardinality(Id)
  /\ batch \in Seq([id : Id, listed : {TRUE}, created : Nat, updated : Nat, pull : BOOLEAN])
  /\ since \in Nat /\ lastUpdated \in Nat
  /\ files \in [Id -> {"none", "report", "error page"}]
  /\ bugs_saved \in Nat /\ (dry_run => bugs_saved <= Limit)
  /\ saves \in [Id -> Nat]
  /\ now \in Nat /\ changes \in 0 .. MaxChanges /\ faults \in 0 .. MaxFaults
  /\ moved \subseteq Id /\ excused \subseteq Id

\* Who matches: an issue of the range that is not a pull request.
Matches(i) ==
  /\ in_date_range(tracker[i].created)
  /\ ~tracker[i].pull
  /\ kind = "Jira" => tracker[i].created # NoDate

\* Paging is exact up to what happens behind it.  No bug outside the range is
\* saved.  A scrape that ends by itself has saved each matching issue that
\* nobody changed meanwhile, but for three kinds: those that slid over the page
\* boundary as others were changed, those of the second in which a window of
\* GitHub was cut, and those of MySQL whose own page could not be had.  Windows
\* do not overlap and pages follow each other: while nothing changes, no bug is
\* saved twice, so a dry run has as many bugs as it counts
\* (scrape_bugs.py:116-168, 246-275, 344-391).
SavesWhatMatches ==
  /\ ScrapersTyped
  /\ turn > 0 => \A i \in Id \ moved : files[i] # "none" => Matches(i)
  /\ turn > 0 /\ pc = "done" =>
       \A i \in Id \ (moved \union excused) :
         tracker[i].listed /\ Matches(i) => files[i] = "report"
  /\ changes = 0 => \A i \in Id : saves[i] <= 1
=============================================================================
