----------------------------- MODULE IndexBuild ------------------------------
(***************************************************************************)
(* Building the index of a chunk file and searching it meanwhile: the two  *)
(* SQLite files (sqlite_fts.py, vector.py), which are written aside and    *)
(* moved into place, and the two remote indexes (elasticsearch.py,         *)
(* milvus.py), which are filled where they are searched. Builders and the  *)
(* searcher are processes of their own and may be killed.                  *)
(***************************************************************************)
EXTENDS Naturals

CONSTANTS
  Builder,     \* build processes
  ChunkFile,   \* the chunk file each of them indexes; its fingerprint
  SearchedFile \* the chunk file of the searcher

\* A fingerprint tells a chunk file from no index.
ASSUME BuildAssumption ==
  /\ SearchedFile # "none"
  /\ \A b \in Builder : ChunkFile[b] # "none"

VARIABLES
  store,    \* sqlite_fts, sqlite_vector, elasticsearch or milvus
  place,    \* what is under the name of the index: a chunk file and how much of it
  aside,    \* the temporary file of each builder
  building, \* what each builder does next
  admitted, \* the searcher found the index to be that of its chunk file
  found     \* what the search read

bvars == <<store, place, aside, building, admitted, found>>

Local == store \in {"sqlite_fts", "sqlite_vector"}
Absent == [file |-> "none", rows |-> "none"]
Content(b, rows) == [file |-> ChunkFile[b], rows |-> rows]
Goes(b, stage) == building' = [building EXCEPT ![b] = stage]

BuildInit ==
  /\ store \in {"sqlite_fts", "sqlite_vector", "elasticsearch", "milvus"}
  /\ place = Absent
  /\ aside = [b \in Builder |-> Absent]
  /\ building = [b \in Builder |-> "start"]
  /\ admitted = FALSE
  /\ found = Absent

-----------------------------------------------------------------------------
(* Local files. *)

\* Mutant: the rows are written where they are searched.
WriteInPlace(b) ==
  /\ Local /\ building[b] = "start"
  /\ place' = Content(b, "some")
  /\ aside' = [aside EXCEPT ![b] = Content(b, "all")]
  /\ Goes(b, "check")
  /\ UNCHANGED <<store, admitted, found>>

\* The temporary file with its tables, rows and metadata, in one transaction.
Write(b) ==
  /\ Local /\ building[b] = "start"
  /\ \E rows \in {"some", "all"} : aside' = [aside EXCEPT ![b] = Content(b, rows)]
  /\ Goes(b, "check")
  /\ UNCHANGED <<store, place, admitted, found>>

\* Committed and PRAGMA quick_check passed: os.replace; else the file is removed.
Move(b) ==
  /\ Local /\ building[b] = "check"
  /\ place' = IF aside[b].rows = "all" THEN aside[b] ELSE place
  /\ aside' = [aside EXCEPT ![b] = Absent]
  /\ Goes(b, "done")
  /\ UNCHANGED <<store, admitted, found>>

-----------------------------------------------------------------------------
(* Remote indexes. *)

\* The metadata names the chunk file and the number of its chunks from the start; an
\* index of that name is refused.
Create(b) ==
  /\ ~Local /\ building[b] = "start"
  /\ IF place = Absent
     THEN place' = Content(b, "none") /\ Goes(b, "fill")
     ELSE Goes(b, "done") /\ UNCHANGED place
  /\ UNCHANGED <<store, aside, admitted, found>>

\* The bulk request or the insert takes all rows, some or none; with less than all of
\* them the build fails and nothing is removed.
Fill(b) ==
  /\ building[b] = "fill"
  /\ \E rows \in {"none", "some", "all"} : place' = Content(b, rows)
  /\ Goes(b, "done")
  /\ UNCHANGED <<store, aside, admitted, found>>

\* A build process is killed.
Killed(b) ==
  /\ building[b] \notin {"done", "start"}
  /\ Goes(b, "done")
  /\ UNCHANGED <<store, place, aside, admitted, found>>

-----------------------------------------------------------------------------
(* Searching. *)

\* verify_source and inspect: the fingerprint and count of the metadata. Milvus
\* and the vector file also count their rows; the FTS file and Elasticsearch do not.
Admits(index) ==
  /\ index.file = SearchedFile
  /\ store \in {"milvus", "sqlite_vector"} => index.rows = "all"

Admit ==
  /\ ~admitted /\ Admits(place)
  /\ admitted' = TRUE
  /\ UNCHANGED <<store, place, aside, building, found>>

\* The search opens the path, or asks the service, once more.
Find ==
  /\ admitted
  /\ found' = place
  /\ admitted' = FALSE
  /\ UNCHANGED <<store, place, aside, building>>

BuildNext ==
  \/ \E b \in Builder : Write(b) \/ Move(b) \/ Create(b) \/ Fill(b) \/ Killed(b)
  \/ Admit \/ Find

BuildSpec == BuildInit /\ [][BuildNext]_bvars

-----------------------------------------------------------------------------
(* Properties. *)

\* A search of a local file reads the whole index of one chunk file, although the
\* file may be replaced, by the index of another chunk file even, after it was admitted.
LocalSearchReadsWhole == Local => found = Absent \/ found.rows = "all"

\* A search of a Milvus collection reads every row of the chunk file it expects, and
\* one of an Elasticsearch index no row of another chunk file, whichever builds failed
\* halfway or were killed.
RemoteSearchReadsExpected == ~Local /\ found # Absent =>
  /\ found.file = SearchedFile
  /\ store = "milvus" => found.rows = "all"

\* A search reads the index it admitted, whatever builds go on, fail or are killed
\* between its check and its read.
SearchReadsWhole == LocalSearchReadsWhole /\ RemoteSearchReadsExpected

-----------------------------------------------------------------------------
(* What makes them inductive. *)

BuildTypeOK ==
  /\ store \in {"sqlite_fts", "sqlite_vector", "elasticsearch", "milvus"}
  /\ building \in [Builder -> {"start", "check", "fill", "done"}]
  /\ aside \in [Builder -> [file : {ChunkFile[b] : b \in Builder} \cup {"none"},
                           rows : {"none", "some", "all"}]]
  /\ admitted \in BOOLEAN

\* A local index is moved into place whole, and a filled one stays filled: the builder
\* that created a remote index is the only one that fills it, once.
BuildInv ==
  /\ Local => /\ place = Absent \/ place.rows = "all"
              /\ \A b \in Builder : building[b] # "fill"
  /\ ~Local => \A b \in Builder : building[b] = "fill" =>
       /\ place = Content(b, "none")
       /\ \A a \in Builder : building[a] = "fill" => a = b
  /\ ~Local /\ admitted => Admits(place)
  /\ SearchReadsWhole

=============================================================================
