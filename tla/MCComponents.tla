----------------------------- MODULE MCComponents -----------------------------
(***************************************************************************)
(* The components around the index lifecycle and the online read path, one *)
(* in each behaviour: the state machines run, and the algorithms without a *)
(* state are applied once to an input of MCAlgorithms. They share no state *)
(* here; what of them runs concurrently in one process is composed in      *)
(* OnlineRead.                                                             *)
(***************************************************************************)
EXTENDS AnswerAssembly, ClaimAudit, AnswerApi, ApiProcess, EmbeddingPool, IsolatedRun,
        IndexBuild, Migrations, MCAlgorithms, TLC

CONSTANTS d1, d2, d3, e1 \* chunks, named for their documents d and e

-----------------------------------------------------------------------------
(* The constants of AnswerAssembly. Three chunks of one document push the only one of  *)
(* the other document out of the first three.                                         *)

LexicographicOrder == d1 :> 1 @@ d2 :> 2 @@ d3 :> 3 @@ e1 :> 0
Documents == d1 :> "d" @@ d2 :> "d" @@ d3 :> "d" @@ e1 :> "e"

\* Two quotes that contradict each other, a comparison and a text without numbers.
Weeks(n) == Text({}, {<<"week", n>>}, {}, {"trial", "dose"})
Comparing == Text({}, {}, {"comparative"}, {"trial", "dose"})
Plain == Text({}, {}, {}, {"trial"})
Lacking == Text({}, {}, {"insufficient"}, {})
Torn == Text({}, {<<"week", 6>>, <<"week", 8>>}, {"conflict"}, {"trial"})
ChunkQuotes == d1 :> Weeks(6) @@ d2 :> Weeks(8) @@ d3 :> Comparing @@ e1 :> Plain

Says(text, cites) == [clauses |-> <<text>>, cites |-> cites]
ModelReplies ==
  {<<Says(Weeks(6), {1})>>, <<Says(Weeks(6), {1}), Says(Weeks(8), {2})>>,
   <<Says(Weeks(6), {1, 2})>>, <<Says(Torn, {1, 2})>>, <<Says(Lacking, {3})>>,
   <<>>, <<Says(Weeks(6), {4})>>}

-----------------------------------------------------------------------------
(* The constants of the other state machines. *)

\* Two papers of a gate or a ladder, one of a canary.
RunScripts == "g" :> {"gate", "ladder"} @@ "c" :> {"canary"}
RunPapers == "g" :> 2 @@ "c" :> 1

\* One builder indexes another chunk file under the same name.
BuilderFiles == "b1" :> "ours" @@ "b2" :> "other" @@ "b3" :> "ours"

\* Two migrators of one build and one of another build, older or changed.
Checksums == "m1" :> <<"x", "y">> @@ "m2" :> <<"x", "y">> @@ "m3" :> <<"z">>

\* Chunks of one document, and one of another document beside it.
ChunkIn(d, tenant, visibility, libraries, active) ==
  [document |-> d, tenant |-> tenant, visibility |-> visibility, libraries |-> libraries,
   active |-> active]
TwoChunks ==
  {{c, e} : c \in {x \in StoredChunk : x.document = "d"},
            e \in {ChunkIn("e", "t", "tenant", {"lib"}, TRUE), ChunkIn("e", "t", "private", {}, TRUE)}}
ScopesOfT == {s \in Scope : s.tenant = "t" /\ s.documents.items \subseteq {"d"}}

\* Three chunks in a row; the second one is perhaps not what it seems.
EvidenceItem(c, quote, next) ==
  [chunk |-> c, quote |-> quote, owner |-> "me", active |-> TRUE, document |-> "d",
   version |-> "v1", previous |-> c - 1, next |-> next]
Seconds(quote) ==
  LET good == EvidenceItem(2, quote, 3) IN
  {good, [good EXCEPT !.owner = "other"], [good EXCEPT !.active = FALSE],
   [good EXCEPT !.version = "v0"], [good EXCEPT !.previous = 0], [good EXCEPT !.quote = Empty]}
Quoted == {Weeks(6), Weeks(8), Comparing, Plain}
ChunksInARow ==
  UNION {{<<EvidenceItem(1, p, 2), second, EvidenceItem(3, r, 0)>> : second \in Seconds(q)} :
           p, q, r \in Quoted}
OneVersion == [versions |-> [d \in {"d"} |-> "v1"], chunks |-> [c \in 1..3 |-> <<"d", "v1">>]]
ClausesSaid == {Weeks(6), Weeks(8), Comparing, Lacking, Torn}
ClaimsSaid ==
  [clauses : {<<a>> : a \in ClausesSaid} \cup {<<a, b>> : a, b \in ClausesSaid},
   cites : {<<1>>, <<2>>, <<1, 2>>, <<1, 3>>, <<2, 1>>}]

-----------------------------------------------------------------------------
VARIABLE subject \* the component of this behaviour

Machines == {"assembly", "claims", "access", "pool", "isolated", "index", "schema", "process"}
Algorithms == {"evaluation", "comparison", "chunks"}

-----------------------------------------------------------------------------
(* One component per behaviour; the others stay where they start. *)

machines == <<vars, audited, asked, poolvars, rvars, bvars, mvars, apivars>>

ComponentsInit ==
  /\ subject \in Machines \cup Algorithms
  /\ AlgorithmsInit
  /\ Init /\ AuditInit /\ AskInit /\ PoolInit /\ RunInit /\ BuildInit /\ MigrateInit /\ ApiInit
  /\ subject # "assembly" => \A field \in DOMAIN request : ~request[field]
  /\ subject # "isolated" => kind["g"] = "gate"
  /\ subject # "index" => store = "milvus"
  /\ subject # "process" => backend = "sqlite_fts5" /\ provider = "none"

ComponentsNext ==
  /\ UNCHANGED subject
  /\ \/ AlgorithmsNext(subject) /\ UNCHANGED machines
     \/ /\ subject = "assembly" /\ Next
        /\ UNCHANGED <<avars, audited, asked, poolvars, rvars, bvars, mvars, apivars>>
     \/ /\ subject = "claims" /\ Audit
        /\ UNCHANGED <<avars, vars, asked, poolvars, rvars, bvars, mvars, apivars>>
     \/ /\ subject = "access" /\ Ask
        /\ UNCHANGED <<avars, vars, audited, poolvars, rvars, bvars, mvars, apivars>>
     \/ /\ subject = "pool" /\ PoolNext
        /\ UNCHANGED <<avars, vars, audited, asked, rvars, bvars, mvars, apivars>>
     \/ /\ subject = "isolated" /\ RunNext
        /\ UNCHANGED <<avars, vars, audited, asked, poolvars, bvars, mvars, apivars>>
     \/ /\ subject = "index" /\ BuildNext
        /\ UNCHANGED <<avars, vars, audited, asked, poolvars, rvars, mvars, apivars>>
     \/ /\ subject = "schema" /\ MigrateNext
        /\ UNCHANGED <<avars, vars, audited, asked, poolvars, rvars, bvars, apivars>>
     \/ /\ subject = "process" /\ ApiNext
        /\ UNCHANGED <<avars, vars, audited, asked, poolvars, rvars, bvars, mvars>>

ComponentsSpec == ComponentsInit /\ [][ComponentsNext]_<<subject, avars, machines>>

=============================================================================
