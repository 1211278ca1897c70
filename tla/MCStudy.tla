-------------------------------- MODULE MCStudy --------------------------------
(* Three bugs with answers and three that only keywords flag, three CVEs, two   *)
(* databases.  The answers hold a contradiction (no bug, but memory safety), a  *)
(* vote that is split, implications that differ, and text that is no JSON.  Six *)
(* issues per tracker, a range that leaves out the first and may leave out the  *)
(* last, pages of two and windows of four.                                      *)
EXTENDS Study

Answer(readable, type, mem, implication) ==
  [readable |-> readable, issue_type |-> type, is_memory_safety |-> mem,
   implication |-> implication]

Crash == Answer(TRUE, "bug", TRUE, "system_crash")
Loss == Answer(TRUE, "bug", TRUE, "data_loss")
Misuse == Answer(TRUE, "programmer_error", TRUE, "none")
Garbage == Answer(FALSE, "bug", TRUE, "none")

MCById == <<"b1", "b2", "b3", "b4", "b5", "b6", "c1", "c2", "c3">>
MCDatabases == <<"d1", "d2">>
MCSay == [x \in Report |->
  CASE x = "b1" -> {Crash}
    [] x = "b2" -> {Crash, Loss, Misuse}
    [] x = "b3" -> {Loss}
    [] x = "c1" -> {Crash}
    [] x = "c2" -> {Loss, Garbage}
    [] OTHER -> {}]
MCKeyworded == {"b2", "b4", "b5", "b6", "c1"}
MCEarlier == [db \in Dbms |->
  IF db = "d1" THEN << <<"b1">>, <<"b2">>, <<"b4">> >> ELSE << >>]

MCScraped == [db \in Dbms |-> IF db = "d1" THEN {"b1", "b2", "b4", "b5"} ELSE {"b3", "b6"}]
\* b2 is GitHub's, b1's date cannot be read, b3 is MySQL's with the date in its page.
MCPage == [x \in Report |->
  CASE x = "b1" -> [created_at |-> Null, description |-> 2021]
    [] x = "b2" -> [created_at |-> 2020]
    [] x = "b3" -> [description |-> Dateless, html_content |-> 2019]
    [] OTHER -> [created |-> 2020]]

MCCve == {"c1", "c2", "c3"}
MCYearOf == [c \in Cve |-> CASE c = "c1" -> 2016 [] c = "c2" -> 2026 [] c = "c3" -> 2014]
MCNames == [c \in Cve |-> IF c = "c1" THEN {"d1", "d2"} ELSE {"d1"}]

MCScrapers == <<"GitHub", "Jira", "MySQL">>

Closed(created, updated) ==
  [listed |-> TRUE, created |-> created, updated |-> updated, pull |-> FALSE]
Pull(updated) == [Closed(2, updated) EXCEPT !.pull = TRUE]
Open(created) == [Closed(created, created) EXCEPT !.listed = FALSE]

\* Three issues of one second around the end of the first window, and a pull
\* request and an old issue in it; and one that starts with four pull requests.
Ties == <<Closed(1, 4), Pull(4), Closed(2, 5), Closed(3, 6), Closed(3, 6), Closed(4, 6)>>
Apart == <<Closed(1, 5), Closed(2, 4), Closed(2, 7), Closed(3, 6), Closed(4, 8), Open(5)>>
Pulls == <<Pull(4), Pull(4), Pull(5), Pull(5), Closed(3, 6), Closed(4, 7)>>

Reported == <<Closed(1, 1), Closed(2, 2), Closed(3, 3), Closed(4, 4), Closed(6, 6), Nothing>>
Undated ==
  <<Closed(1, 1), Closed(2, 2), Closed(NoDate, 2), Closed(5, 5), Closed(5, 5), Closed(6, 6)>>

MCScene == [GitHub |-> {Ties, Apart, Pulls}, Jira |-> {Reported},
            MySQL |-> {Undated}]
=============================================================================
