------------------------------ MODULE BugScraper ------------------------------
(***************************************************************************)
(* What the scrapers of scrape_bugs.py share: the base class BugScraper,   *)
(* with its date filter and its directory of saved bugs, and the trackers  *)
(* that they page through.  A tracker is a service elsewhere: it answers   *)
(* each request from what it holds at that moment, may refuse a request,   *)
(* and its issues change between two requests.                             *)
(*                                                                         *)
(* Dates are numbers on one time line and a later issue has a larger       *)
(* number.  One scraper runs at a time: the variables are those of the     *)
(* scraper whose turn it is, and of its tracker.                           *)
(***************************************************************************)
EXTENDS Integers, Sequences, FiniteSets, SequencesExt

CONSTANTS
  Id,          \* numbers of issues
  StartDate,   \* --start-date
  EndDate,     \* --end-date
  Limit,       \* bugs that a dry run saves: 50
  PerPage,     \* issues on a page: 100 of GitHub, 50 of Jira
  MaxFaults    \* bound: requests refused and files not written, per scraper

NoDate == 0    \* of an issue without a date

Issue == [listed : BOOLEAN, created : Nat, updated : Nat, pull : BOOLEAN]

ASSUME ScraperAssumption ==
  /\ Id \subseteq Nat /\ IsFiniteSet(Id)
  /\ {StartDate, EndDate, MaxFaults} \subseteq Nat
  /\ {Limit, PerPage} \subseteq Nat \ {0}

VARIABLES
  tracker,      \* the tracker's issues
  dry_run,
  pc,           \* where scrape is, or how it ended
  at,           \* params['page'], start_at or params['begin']
  batch,        \* what is left of the answer to the last request
  got,          \* the length of that answer
  total,        \* how many issues matched when it was given
  files,        \* data_dir: what the file of each bug holds
  bugs_saved,
  faults,       \* bounds the faults
  saves,        \* how often each bug was saved (history)
  excused       \* issues that no request was answered with, see SavesWhatMatches (history)

answer == <<batch, got, total>>
saved == <<files, bugs_saved, saves>>

\* in_date_range, and parse_iso: a date that is missing or not one passes.
in_date_range(created) ==
  created = NoDate \/ (StartDate <= created /\ created <= EndDate)

\* The issues that match, in the order of the query, from an offset on.
Ids == SetToSortSeq(Id, <)
InOrder(S, Before(_, _)) == SortSeq(SelectSeq(Ids, LAMBDA i : i \in S), Before)
PageFrom(listing, offset) ==
  [k \in 1 .. Cardinality(1 .. PerPage \intersect 1 .. Len(listing) - offset) |->
     [id |-> listing[offset + k]] @@ tracker[listing[offset + k]]]

AnsweredWith(listing, offset) ==
  /\ batch' = PageFrom(listing, offset)
  /\ got' = Len(batch')
  /\ total' = Len(listing)

\* save_bug: a dry run that has its bugs refuses.
CanSave == ~(dry_run /\ bugs_saved >= Limit)

save_bug(id, content) ==
  /\ files' = [files EXCEPT ![id] = content]
  /\ bugs_saved' = bugs_saved + 1
  /\ saves' = [saves EXCEPT ![id] = @ + 1]

\* The next bug of the answer is done with.
NextIssue == batch' = Tail(batch) /\ UNCHANGED <<pc, at, got, total>>
Skip == NextIssue /\ UNCHANGED <<saved, faults, excused>>

\* The scraper ends: "done", "limit" of a dry run, or "failed".
Ends(how) ==
  /\ pc' = how
  /\ UNCHANGED <<at, answer, saved, faults, excused>>

Fault == faults < MaxFaults /\ faults' = faults + 1

Fails ==
  /\ Fault
  /\ pc' = "failed"
  /\ UNCHANGED <<at, answer, saved, excused>>

\* The issues after the first n of a listing.
Beyond(listing, n) == {listing[k] : k \in n + 1 .. Len(listing)}
=============================================================================
