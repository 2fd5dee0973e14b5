------------------------- MODULE MCIndexPublication -------------------------
(***************************************************************************)
(* Small instances of IndexPublication. v1 and v2 are two versions of one  *)
(* document; i1 and i2 ingest, r1 removes.                                 *)
(***************************************************************************)
EXTENDS IndexPublication, TLC

CONSTANTS v1, v2, d, e, k1, k2, i1, i2, r1

\* Each version has one ingestor and a key of its own; both are versions of d.
SuccessorDocument == v1 :> d @@ v2 :> d
OneEach == i1 :> v1 @@ i2 :> v2 @@ r1 :> v1
OwnKeys == i1 :> k1 @@ i2 :> k2

\* Versions of two documents whose ingestors present the same key.
TwoDocuments == v1 :> d @@ v2 :> e
OneKey == i1 :> k1 @@ i2 :> k1

\* Two ingestors replay the request for one version.
OneVersion == v1 :> d
Replayed == i1 :> v1 @@ i2 :> v1 @@ r1 :> v1
ReplayedOnly == i1 :> v1 @@ i2 :> v1

\* One ingestor, with nobody or with one remover beside it.
Alone == i1 :> v1
AloneAndRemoved == i1 :> v1 @@ r1 :> v1
AloneKey == i1 :> k1

\* The shared key: whichever version binds it first keeps it.
KeyConflict == i1 :> v1 @@ i2 :> v2
=============================================================================
