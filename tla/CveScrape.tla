------------------------------- MODULE CveScrape -------------------------------
(***************************************************************************)
(* scrape_cves.py: it downloads the archive of all CVEs, extracts it, and  *)
(* writes for each database a list of the CVEs that name it.  An archive   *)
(* or a directory that is there from an earlier run is used as it is,      *)
(* unless --force says otherwise; the program may be interrupted at any    *)
(* moment and leaves behind what it has written.  The archive grows while  *)
(* nobody looks.                                                           *)
(***************************************************************************)
EXTENDS Integers, Sequences, FiniteSets

CONSTANTS
  Cve,        \* the CVEs that there may ever be
  Databases,  \* --databases, in their order
  YearOf,     \* the year in the name of a CVE's file
  Names,      \* the databases that occur in a CVE's products and packages
  FirstYear,  \* 2015
  MaxScrapes  \* bound: runs of the program

Db == {Databases[k] : k \in DOMAIN Databases}

ASSUME CveAssumption ==
  /\ IsFiniteSet(Cve) /\ Databases # << >>
  /\ YearOf \in [Cve -> Nat]
  /\ Names \in [Cve -> SUBSET Db]
  /\ FirstYear \in Nat /\ MaxScrapes \in Nat

VARIABLES
  upstream,  \* the CVEs published so far
  zip,       \* main.zip: missing, a part of an archive, or whole
  packed,    \* the CVEs in a whole zip
  unzipped,  \* whether cvelistV5-main exists
  tree,      \* the CVEs in it, those that can be read
  lists,     \* the <database>_cves files
  scrape,    \* where the program is
  force,     \* --force
  left,      \* CVEs still to extract
  todo,      \* databases still to search for
  scrapes,   \* bounds the runs
  fetched,   \* the archive that this run has downloaded (history)
  whole      \* the CVEs of archives extracted to their end, but for those cut
             \* short since (history)

disk == <<zip, packed, unzipped, tree, lists>>
progress == <<left, todo, fetched>>
cveVars == <<upstream, disk, scrape, force, progress, scrapes, whole>>

CveInit ==
  /\ upstream = {} /\ zip = "missing" /\ packed = {}
  /\ unzipped = FALSE /\ tree = {}
  /\ lists = [db \in Db |-> {}]
  /\ scrape = "none" /\ force = FALSE
  /\ left = {} /\ todo = << >> /\ fetched = {}
  /\ scrapes = 0 /\ whole = {}

Idle == scrape \in {"none", "done", "stopped"}

Publish ==
  /\ \E c \in Cve \ upstream : upstream' = upstream \union {c}
  /\ UNCHANGED <<disk, scrape, force, progress, scrapes, whole>>

StartScrape ==
  /\ Idle /\ scrapes < MaxScrapes
  /\ scrapes' = scrapes + 1
  /\ force' \in BOOLEAN
  /\ fetched' = {} /\ left' = {}
  /\ \E skip_download \in BOOLEAN :
       scrape' = IF ~skip_download THEN "download"
                 ELSE IF unzipped THEN "search" ELSE "stopped"
  /\ todo' = Databases
  /\ UNCHANGED <<upstream, disk, whole>>

\* urlretrieve writes into the file that the next run will find.
download_cve_list ==
  /\ scrape = "download"
  /\ \/ /\ zip # "missing" /\ ~force
        /\ scrape' = "extract"
        /\ UNCHANGED zip
     \/ /\ zip = "missing" \/ force
        /\ scrape' = "downloading"
        /\ zip' = "part"
  /\ UNCHANGED <<upstream, packed, unzipped, tree, lists, force, progress, scrapes, whole>>

Downloaded ==
  /\ scrape = "downloading"
  /\ zip' = "whole" /\ packed' = upstream /\ fetched' = upstream
  /\ scrape' = "extract"
  /\ UNCHANGED <<upstream, unzipped, tree, lists, force, left, todo, scrapes, whole>>

\* Seeded fault: --force does not reach the extraction.
BugExtract ==
  /\ scrape = "extract"
  /\ \/ /\ unzipped
        /\ scrape' = "search"
        /\ UNCHANGED <<unzipped, left>>
     \/ /\ ~unzipped
        /\ zip = "whole"
        /\ scrape' = "extracting"
        /\ unzipped' = TRUE /\ left' = packed
     \/ /\ ~unzipped
        /\ zip = "part"
        /\ scrape' = "stopped"
        /\ UNCHANGED <<unzipped, left>>
  /\ UNCHANGED <<upstream, zip, packed, tree, lists, force, todo, fetched, scrapes, whole>>

\* A part of an archive is no zip file.
extract_cve_list ==
  /\ scrape = "extract"
  /\ \/ /\ unzipped /\ ~force
        /\ scrape' = "search"
        /\ UNCHANGED <<unzipped, left>>
     \/ /\ ~unzipped \/ force
        /\ zip = "whole"
        /\ scrape' = "extracting"
        /\ unzipped' = TRUE /\ left' = packed
     \/ /\ ~unzipped \/ force
        /\ zip = "part"
        /\ scrape' = "stopped"
        /\ UNCHANGED <<unzipped, left>>
  /\ UNCHANGED <<upstream, zip, packed, tree, lists, force, todo, fetched, scrapes, whole>>

\* extractall: one file after the other, over those that are there.
ExtractOne ==
  /\ scrape = "extracting"
  /\ \E c \in left : tree' = tree \union {c} /\ left' = left \ {c}
  /\ UNCHANGED <<upstream, zip, packed, unzipped, lists, scrape, force, todo, fetched, scrapes,
                 whole>>

Extracted ==
  /\ scrape = "extracting" /\ left = {}
  /\ scrape' = "search"
  /\ whole' = whole \union packed
  /\ UNCHANGED <<upstream, disk, force, progress, scrapes>>

search_cves_for_database(db) ==
  {c \in tree : YearOf[c] >= FirstYear /\ db \in Names[c]}

save_cve_list(db, matches) == lists' = [lists EXCEPT ![db] = matches]

SearchDatabase ==
  /\ scrape = "search" /\ todo # << >>
  /\ save_cve_list(Head(todo), search_cves_for_database(Head(todo)))
  /\ todo' = Tail(todo)
  /\ scrape' = IF todo' = << >> THEN "done" ELSE "search"
  /\ UNCHANGED <<upstream, zip, packed, unzipped, tree, force, left, fetched, scrapes, whole>>

\* The program is killed, or the network or the disk fails: a list that is
\* being written keeps what has been written of it, a CVE that is being
\* extracted is cut short, and then no JSON.
Interrupted ==
  /\ ~Idle
  /\ scrape' = "stopped"
  /\ \/ UNCHANGED <<lists, tree, whole>>
     \/ /\ scrape = "search"
        /\ \E some \in SUBSET search_cves_for_database(Head(todo)) :
             save_cve_list(Head(todo), some)
        /\ UNCHANGED <<tree, whole>>
     \/ /\ scrape = "extracting"
        /\ \E c \in left : tree' = tree \ {c} /\ whole' = whole \ {c}
        /\ UNCHANGED lists
  /\ UNCHANGED <<upstream, zip, packed, unzipped, force, progress, scrapes>>

scrape_cves ==
  \/ StartScrape \/ download_cve_list \/ Downloaded \/ extract_cve_list
  \/ ExtractOne \/ Extracted \/ SearchDatabase

CveNext == scrape_cves \/ Publish \/ Interrupted
-----------------------------------------------------------------------------
Match(db, cves) == {c \in cves : YearOf[c] >= FirstYear /\ db \in Names[c]}

\* A run that ends by itself leaves lists that hold each matching CVE of every
\* archive ever extracted to its end, whatever was interrupted since, but for
\* a CVE that was being extracted again at that moment; with --force also each
\* of the archive it has just downloaded, so that --force repairs an
\* extraction that was cut short (scrape_cves.py:31, 45).
ListsWhole ==
  scrape = "done" =>
    \A db \in Db :
      /\ Match(db, whole) \subseteq lists[db]
      /\ Match(db, fetched) \subseteq lists[db]
      /\ lists[db] \subseteq Match(db, upstream)
=============================================================================
