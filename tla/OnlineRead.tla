------------------------------ MODULE OnlineRead ------------------------------
(***************************************************************************)
(* One question of the online Answer API, from the READY lookup to the     *)
(* returned answer: backend/retrieval/online.py, rag/online_consumer.py    *)
(* and the create_rag_answer handler of api/app.py, over the fact source   *)
(* that IndexPublication writes. Of that writer only its promise is used:  *)
(* versions are published and withdrawn as VersionVisibility says, and the *)
(* physical rows of a version change only after it was withdrawn.          *)
(*                                                                         *)
(* One step is one database statement, one call of an index, a model or a  *)
(* store, or one decision of the request thread between two of them. A     *)
(* hit is abstracted to the version its chunk belongs to: how ranks are    *)
(* fused, reranked and cited is the subject of AnswerAssembly.             *)
(***************************************************************************)
EXTENDS Naturals, FiniteSets

CONSTANTS
  Version,      \* immutable content versions
  Document,     \* (owner_id, document_id) pairs of one owner
  DocumentOf,   \* the document of each version
  DocumentRank, \* the order of document ids, in which routes are submitted
  Question,     \* the requests served by one process and one repository
  Request,      \* bound: the document ids asked for, and is there a planner?
  PoolCap,      \* the largest number of retrieval workers (32 in the code)
  MaxFaults     \* bound: how many calls fail

Backend == {"elasticsearch", "milvus"}
Embedding == "embedding"
Route == Backend \X Version
Task == Route \cup {<<Embedding>>}

ASSUME ReadAssumption ==
  /\ DocumentOf \in [Version -> Document]
  /\ DocumentRank \in [Document -> Nat]
  /\ \A d, e \in Document : DocumentRank[d] = DocumentRank[e] => d = e
  /\ Request \subseteq (SUBSET Document) \X BOOLEAN
  /\ PoolCap \in Nat \ {0}
  /\ MaxFaults \in Nat

VARIABLES
  visible,   \* PostgreSQL: the READY versions
  retired,   \* PostgreSQL: the INACTIVE versions
  rows,      \* Elasticsearch and Milvus: how much of a route is active
  aborted,   \* is the shared connection in a failed transaction?
  pc,        \* what the request thread of each question does next
  scope,     \* the document ids of the request; none means all documents
  planner,   \* is a route query planner configured?
  expected,  \* the versions the READY lookup returned
  embed,     \* the query embedding started beside route verification
  snap,      \* the chunk snapshot loaded beside route verification
  verified,  \* the verification of each route
  task,      \* the retrieval task of each route, and the embedding task
  hits,      \* the versions of the candidates that the searches returned
  evidence,  \* the versions the answer cites
  status,    \* the outcome
  whole,     \* history: the routes searched while all their rows were active
  stayed,    \* history: the versions visible from lookup to revalidation
  disturbed, \* history: did the scope change or a call fail, or the transaction before?
  faults     \* how many calls have failed

store == <<visible, retired, rows>>
threads == <<embed, snap, verified, task>>
answer == <<hits, evidence, status>>
history == <<whole, stayed>>
vars == <<store, aborted, pc, scope, planner, expected, threads, answer,
          history, disturbed, faults>>

Fact == INSTANCE VersionVisibility

Step == {"idle", "resolve", "verify", "join", "search", "revalidate", "fuse",
         "rerank", "generate", "rollback", "abandon", "done"}
ThreadState == {"none", "running", "rollback", "ok", "failed"}
TaskState == {"none", "pending", "ok", "failed"}
Outcome == {"none", "COMPLETED", "DEGRADED", "NO_EVIDENCE", "FORBIDDEN", "UNAVAILABLE"}
\* All rows of an index are active, fewer are, or the index is dropped.
Rows == {"all", "some", "absent"}

TypeOK ==
  /\ visible \subseteq Version /\ retired \subseteq Version
  /\ rows \in [Route -> Rows]
  /\ aborted \in BOOLEAN
  /\ pc \in [Question -> Step]
  /\ scope \in [Question -> SUBSET Document]
  /\ planner \in [Question -> BOOLEAN]
  /\ expected \in [Question -> SUBSET Version]
  /\ embed \in [Question -> ThreadState]
  /\ snap \in [Question -> ThreadState]
  /\ verified \in [Question -> [Route -> TaskState]]
  /\ task \in [Question -> [Task -> TaskState]]
  /\ hits \in [Question -> SUBSET Version]
  /\ evidence \in [Question -> SUBSET Version]
  /\ status \in [Question -> Outcome]
  /\ whole \in [Question -> SUBSET Route]
  /\ stayed \in [Question -> SUBSET Version]
  /\ disturbed \in [Question -> BOOLEAN]
  /\ faults \in Nat

NoTask == [t \in Task |-> "none"]
NoRoute == [r \in Route |-> "none"]

Init ==
  /\ Fact!Init
  /\ rows = [r \in Route |-> "all"]
  /\ aborted = FALSE
  /\ pc = [q \in Question |-> "idle"]
  /\ scope = [q \in Question |-> {}]
  /\ planner = [q \in Question |-> FALSE]
  /\ expected = [q \in Question |-> {}]
  /\ embed = [q \in Question |-> "none"]
  /\ snap = [q \in Question |-> "none"]
  /\ verified = [q \in Question |-> NoRoute]
  /\ task = [q \in Question |-> NoTask]
  /\ hits = [q \in Question |-> {}]
  /\ evidence = [q \in Question |-> {}]
  /\ status = [q \in Question |-> "none"]
  /\ whole = [q \in Question |-> {}]
  /\ stayed = [q \in Question |-> {}]
  /\ disturbed = [q \in Question |-> FALSE]
  /\ faults = 0

-----------------------------------------------------------------------------
(* The environment: publication, withdrawal and physical cleanup. *)

Open(q) == pc[q] \notin {"idle", "done"}
InScope(q, v) == scope[q] = {} \/ DocumentOf[v] \in scope[q]

\* Which open questions notice that v appears or disappears.
Disturb(v) ==
  disturbed' = [q \in Question |-> disturbed[q] \/ (Open(q) /\ InScope(q, v))]

\* Bound: the store stands still once every question has ended.
Watched == \E q \in Question : pc[q] # "done"

Publish(v) ==
  /\ Watched
  /\ v \notin visible
  /\ Fact!Publish(v)
  /\ Disturb(v)
  /\ UNCHANGED <<rows, aborted, pc, scope, planner, expected, threads, answer,
                 history, faults>>

\* The lookups of a question that was revalidated already are over.
Withdraw(v) ==
  /\ Watched
  /\ v \in visible
  /\ Fact!Withdraw(v)
  /\ Disturb(v)
  /\ stayed' = [q \in Question |->
                  IF pc[q] \in {"fuse", "rerank", "generate", "done"}
                  THEN stayed[q] ELSE stayed[q] \ {v}]
  /\ UNCHANGED <<rows, aborted, pc, scope, planner, expected, threads, answer,
                 whole, faults>>

\* deactivate_version rewrites rows in batches and the cleanup drops the index.
Decay == [all |-> "some", some |-> "absent", absent |-> "absent"]

\* Bounds: an open question may still read the rows, and one index decays.
Erode(b, v) ==
  /\ v \in retired
  /\ \E q \in Question : v \in expected[q] /\ pc[q] \in {"verify", "join", "search"}
  /\ rows[<<b, v>>] # "absent"
  /\ \A r \in Route \ {<<b, v>>} : rows[r] = "all"
  /\ rows' = [rows EXCEPT ![<<b, v>>] = Decay[@]]
  /\ UNCHANGED <<visible, retired, aborted, pc, scope, planner, expected, threads,
                 answer, history, disturbed, faults>>

-----------------------------------------------------------------------------
(* Steps and failures of a question. *)

Goto(q, step) == pc' = [pc EXCEPT ![q] = step]

Finish(q, outcome) ==
  /\ Goto(q, "done")
  /\ status' = [status EXCEPT ![q] = outcome]

\* A call fails; the questions in struck have a reason to fail now.
Fault(struck) ==
  /\ faults < MaxFaults
  /\ faults' = faults + 1
  /\ disturbed' = [q \in Question |-> disturbed[q] \/ q \in struck]

NoFault == UNCHANGED <<faults, disturbed>>

\* A statement on the shared connection fails: the first one because the
\* database does, the next ones because the transaction is aborted until a
\* question rolls it back.
StatementFails ==
  /\ aborted' = TRUE
  /\ \/ aborted /\ NoFault
     \/ ~aborted /\ Fault({q \in Question : Open(q)})

Lookup(q) == {v \in visible : InScope(q, v)}

ThreadsOf(q) == {embed[q], snap[q]} \cup {verified[q][r] : r \in Route}
                  \cup {task[q][t] : t \in Task}

\* ThreadPoolExecutor.shutdown(wait=True).
Joined(q) == ThreadsOf(q) \cap {"running", "rollback", "pending"} = {}

-----------------------------------------------------------------------------
(* resolve and what it starts. *)

Ask(q) ==
  /\ pc[q] = "idle"
  /\ \E request \in Request :
       /\ scope' = [scope EXCEPT ![q] = request[1]]
       /\ planner' = [planner EXCEPT ![q] = request[2]]
  /\ Goto(q, "resolve")
  /\ disturbed' = [disturbed EXCEPT ![q] = aborted]
  /\ UNCHANGED <<store, aborted, expected, threads, answer, history, faults>>

\* Every requested document must have a READY version. That no document has two
\* is the promise of VersionVisibility; the code raises if it is broken.
Admits(q, found) == scope[q] = {} \/ {DocumentOf[v] : v \in found} = scope[q]

Forbid(q) ==
  /\ pc[q] = "resolve"
  /\ ~aborted
  /\ ~Admits(q, Lookup(q))
  /\ Finish(q, "FORBIDDEN")
  /\ UNCHANGED <<store, aborted, scope, planner, expected, threads, hits, evidence,
                 history, disturbed, faults>>

\* Nothing is online: no hook runs, no route is built, no chunk is loaded.
ResolveNothing(q) ==
  /\ pc[q] = "resolve"
  /\ ~aborted
  /\ Lookup(q) = {}
  /\ Admits(q, {})
  /\ Goto(q, "join")
  /\ UNCHANGED <<store, aborted, scope, planner, expected, threads, answer, history,
                 disturbed, faults>>

\* The two hooks start the query embedding (unless a planner will choose the
\* queries) and the chunk snapshot; then both routes of every version are
\* submitted for verification.
Resolve(q) ==
  LET found == Lookup(q) IN
  /\ pc[q] = "resolve"
  /\ ~aborted
  /\ found # {}
  /\ Admits(q, found)
  /\ expected' = [expected EXCEPT ![q] = found]
  /\ stayed' = [stayed EXCEPT ![q] = found]
  /\ embed' = [embed EXCEPT ![q] = IF planner[q] THEN "none" ELSE "running"]
  /\ snap' = [snap EXCEPT ![q] = "running"]
  /\ verified' = [verified EXCEPT ![q] =
                    [r \in Route |-> IF r[2] \in found THEN "pending" ELSE "none"]]
  /\ Goto(q, "verify")
  /\ UNCHANGED <<store, aborted, scope, planner, task, answer, whole, disturbed, faults>>

\* resolve_online_versions raises, in resolve or in revalidate.
LookupFails(q) ==
  /\ pc[q] \in {"resolve", "revalidate"}
  /\ StatementFails
  /\ Goto(q, "rollback")
  /\ UNCHANGED <<store, scope, planner, expected, threads, answer, history>>

Rollback(q) ==
  /\ pc[q] = "rollback"
  /\ aborted' = FALSE
  /\ Goto(q, "abandon")
  /\ UNCHANGED <<store, scope, planner, expected, threads, answer, history,
                 disturbed, faults>>

-----------------------------------------------------------------------------
(* The threads that run beside route verification. *)

SetEmbed(q, state) == embed' = [embed EXCEPT ![q] = state]

EmbedQuestion(q) ==
  /\ embed[q] = "running"
  /\ \/ SetEmbed(q, "ok") /\ NoFault
     \/ SetEmbed(q, "failed") /\ Fault({q})
  /\ UNCHANGED <<store, aborted, pc, scope, planner, expected, snap, verified, task,
                 answer, history>>

SetSnap(q, state) == snap' = [snap EXCEPT ![q] = state]

\* load_online_chunks joins the READY versions once more, and the versions of
\* the chunks it finds must be exactly the ones asked for.
LoadSnapshot(q) ==
  /\ snap[q] = "running"
  /\ ~aborted
  /\ SetSnap(q, IF expected[q] \subseteq visible THEN "ok" ELSE "failed")
  /\ UNCHANGED <<store, aborted, pc, scope, planner, expected, embed, verified, task,
                 answer, history, disturbed, faults>>

SnapshotFails(q) ==
  /\ snap[q] = "running"
  /\ StatementFails
  /\ SetSnap(q, "rollback")
  /\ UNCHANGED <<store, pc, scope, planner, expected, embed, verified, task, answer,
                 history>>

RollbackSnapshot(q) ==
  /\ snap[q] = "rollback"
  /\ aborted' = FALSE
  /\ SetSnap(q, "failed")
  /\ UNCHANGED <<store, pc, scope, planner, expected, embed, verified, task, answer,
                 history, disturbed, faults>>

SetVerified(q, r, state) == verified' = [verified EXCEPT ![q][r] = state]

\* Mutant: the counts are returned and not compared.
VerifyReturnsCounts(q, r) ==
  /\ verified[q][r] = "pending"
  /\ SetVerified(q, r, rows[r])
  /\ UNCHANGED <<store, aborted, pc, scope, planner, expected, embed, snap, task,
                 answer, history, disturbed, faults>>

\* verify_online_version of either backend: the identity of the index, the
\* counts, and every row active. Two versions never share a worker pool slot
\* for long: all verifications are submitted at once and none waits for another.
VerifyRoute(q, r) ==
  /\ verified[q][r] = "pending"
  /\ \/ SetVerified(q, r, IF rows[r] = "all" THEN "ok" ELSE "failed") /\ NoFault
     \/ SetVerified(q, r, "failed") /\ Fault({q})
  /\ UNCHANGED <<store, aborted, pc, scope, planner, expected, embed, snap, task,
                 answer, history>>

\* The executor's with-block ends when every verification has.
EndVerify(q) ==
  LET states == {verified[q][r] : r \in Route} IN
  /\ pc[q] = "verify"
  /\ "pending" \notin states
  /\ Goto(q, IF "failed" \in states THEN "abandon" ELSE "join")
  /\ verified' = [verified EXCEPT ![q] = NoRoute]
  /\ UNCHANGED <<store, aborted, scope, planner, expected, embed, snap, task, answer,
                 history, disturbed, faults>>

-----------------------------------------------------------------------------
(* The retrieval pool. *)

RoutesOf(q) == Backend \X expected[q]

\* chunk_snapshot_future.result(), then the tasks of every route are submitted.
JoinSnapshot(q) ==
  /\ pc[q] = "join"
  /\ snap[q] \in {"none", "ok", "failed"}
  /\ \/ /\ snap[q] = "failed"
        /\ Goto(q, "abandon")
        /\ UNCHANGED task
     \/ /\ expected[q] = {}
        /\ Goto(q, "revalidate")
        /\ UNCHANGED task
     \/ /\ snap[q] = "ok"
        /\ Goto(q, "search")
        /\ task' = [task EXCEPT ![q] = [t \in Task |->
                      IF t = <<Embedding>> \/ t \in RoutesOf(q) THEN "pending" ELSE "none"]]
  /\ UNCHANGED <<store, aborted, scope, planner, expected, embed, snap, verified,
                 answer, history, disturbed, faults>>

\* Mutant: the embedding task is submitted after the searches that wait for it.
PositionEmbeddingLast(t) ==
  IF t = <<Embedding>> THEN 2 * Cardinality(Version) + 1
  ELSE 2 * DocumentRank[DocumentOf[t[2]]] + (IF t[1] = "elasticsearch" THEN 0 ELSE 1)

\* The order of submission: the embedding, then each route's two searches.
Position(t) ==
  IF t = <<Embedding>> THEN 0
  ELSE 2 * DocumentRank[DocumentOf[t[2]]] + (IF t[1] = "elasticsearch" THEN 1 ELSE 2)

Workers(q) ==
  LET wanted == 2 * Cardinality(expected[q]) + 1 IN
  IF wanted < PoolCap THEN wanted ELSE PoolCap

InState(q, state) == {t \in Task : task[q][t] = state}

\* The pool is first in, first out: its workers hold the oldest tasks that have
\* not ended.
Taken(q, t) ==
  /\ task[q][t] = "pending"
  /\ Cardinality({u \in InState(q, "pending") : Position(u) < Position(t)}) < Workers(q)

SetTask(q, t, state) == task' = [task EXCEPT ![q][t] = state]

\* Without a planner the task waits for the embedding that was started early,
\* otherwise it embeds the queries of the plan itself.
EmbedTask(q) ==
  /\ Taken(q, <<Embedding>>)
  /\ \/ /\ ~planner[q]
        /\ embed[q] \in {"ok", "failed"}
        /\ SetTask(q, <<Embedding>>, embed[q])
        /\ NoFault
     \/ planner[q] /\ SetTask(q, <<Embedding>>, "ok") /\ NoFault
     \/ planner[q] /\ SetTask(q, <<Embedding>>, "failed") /\ Fault({q})
  /\ UNCHANGED <<store, aborted, pc, scope, planner, expected, embed, snap, verified,
                 answer, history>>

\* A vector search blocks its worker until the query embedding is there.
Ready(q, r) ==
  r[1] = "milvus" => task[q][<<Embedding>>] \in {"ok", "failed"}

Searchable(q, r) ==
  rows[r] # "absent" /\ (r[1] = "milvus" => task[q][<<Embedding>>] = "ok")

\* Rows that are no longer active are not found.
Search(q, r) ==
  /\ Taken(q, r)
  /\ Ready(q, r)
  /\ Searchable(q, r)
  /\ SetTask(q, r, "ok")
  /\ \E found \in BOOLEAN :
       /\ hits' = [hits EXCEPT ![q] = IF found THEN @ \cup {r[2]} ELSE @]
  /\ whole' = [whole EXCEPT ![q] = IF rows[r] = "all" THEN @ \cup {r} ELSE @]
  /\ UNCHANGED <<store, aborted, pc, scope, planner, expected, embed, snap, verified,
                 evidence, status, stayed, disturbed, faults>>

\* Mutant: a search that fails counts as one without candidates.
SearchFailsOpen(q, r) ==
  /\ Taken(q, r)
  /\ Ready(q, r)
  /\ SetTask(q, r, "ok")
  /\ \/ ~Searchable(q, r) /\ NoFault
     \/ Fault({q})
  /\ UNCHANGED <<store, aborted, pc, scope, planner, expected, embed, snap, verified,
                 answer, history>>

SearchFails(q, r) ==
  /\ Taken(q, r)
  /\ Ready(q, r)
  /\ SetTask(q, r, "failed")
  /\ \/ ~Searchable(q, r) /\ NoFault
     \/ Fault({q})
  /\ UNCHANGED <<store, aborted, pc, scope, planner, expected, embed, snap, verified,
                 answer, history>>

\* The with-block ends when every task has, whichever failed first.
EndSearch(q) ==
  /\ pc[q] = "search"
  /\ InState(q, "pending") = {}
  /\ Goto(q, IF InState(q, "failed") # {} THEN "abandon" ELSE "revalidate")
  /\ task' = [task EXCEPT ![q] = NoTask]
  /\ UNCHANGED <<store, aborted, scope, planner, expected, embed, snap, verified, answer,
                 history, disturbed, faults>>

-----------------------------------------------------------------------------
(* revalidate, fusion, reranking and generation. *)

\* Mutant: it is enough that the documents are still online.
CurrentByDocument(q) ==
  {DocumentOf[v] : v \in Lookup(q)} = {DocumentOf[v] : v \in expected[q]}

\* Mutant: the second lookup forgets the requested documents.
CurrentGlobally(q) == visible = expected[q]

\* The second lookup must return exactly the versions of the first.
Current(q) == Lookup(q) = expected[q]

Revalidate(q) ==
  /\ pc[q] = "revalidate"
  /\ ~aborted
  /\ Goto(q, IF Current(q) THEN "fuse" ELSE "abandon")
  /\ UNCHANGED <<store, aborted, scope, planner, expected, threads, answer, history,
                 disturbed, faults>>

\* Mutant: the prewarm executor is shut down without waiting.
AbandonAtOnce(q) ==
  /\ pc[q] = "abandon"
  /\ Finish(q, "UNAVAILABLE")
  /\ UNCHANGED <<store, aborted, scope, planner, expected, threads, hits, evidence,
                 history, disturbed, faults>>

\* Any failure becomes OnlineVisibilityUnavailableError once the threads have
\* ended; the handler answers 403 and retryable.
Abandon(q) ==
  /\ pc[q] = "abandon"
  /\ Joined(q)
  /\ Finish(q, "UNAVAILABLE")
  /\ SetEmbed(q, "none") /\ SetSnap(q, "none")
  /\ UNCHANGED <<store, aborted, scope, planner, expected, verified, task, hits, evidence,
                 history, disturbed, faults>>

Cut(q, candidates) ==
  \E kept \in SUBSET candidates :
    /\ candidates # {} => kept # {}
    /\ evidence' = [evidence EXCEPT ![q] = kept]

\* Rank fusion keeps the best top_k of all candidates; the executors are shut
\* down before it.
Fuse(q) ==
  /\ pc[q] = "fuse"
  /\ Joined(q)
  /\ Cut(q, hits[q])
  /\ Goto(q, "rerank")
  /\ SetEmbed(q, "none") /\ SetSnap(q, "none")
  /\ UNCHANGED <<store, aborted, scope, planner, expected, verified, task, hits, status,
                 history, disturbed, faults>>

\* The reranker, or its fallback, or no reranker: some of the candidates. Nothing
\* is looked up again here or later.
Rerank(q) ==
  /\ pc[q] = "rerank"
  /\ Cut(q, evidence[q])
  /\ Goto(q, "generate")
  /\ UNCHANGED <<store, aborted, scope, planner, expected, threads, hits, status,
                 history, disturbed, faults>>

\* build_answer, then apply_real_generation if a provider is configured: a model
\* that fails degrades the answer and keeps its evidence.
Generate(q) ==
  /\ pc[q] = "generate"
  /\ \E outcome \in IF evidence[q] = {} THEN {"NO_EVIDENCE"} ELSE {"COMPLETED", "DEGRADED"} :
       Finish(q, outcome)
  /\ UNCHANGED <<store, aborted, scope, planner, expected, threads, hits, evidence,
                 history, disturbed, faults>>

-----------------------------------------------------------------------------

Environment == \E v \in Version :
  Publish(v) \/ Withdraw(v) \/ \E b \in Backend : Erode(b, v)

RequestThread(q) ==
  \/ Forbid(q) \/ ResolveNothing(q) \/ Resolve(q) \/ LookupFails(q) \/ Rollback(q)
  \/ EndVerify(q) \/ JoinSnapshot(q) \/ EndSearch(q)
  \/ Revalidate(q) \/ Abandon(q) \/ Fuse(q) \/ Rerank(q) \/ Generate(q)

WorkerThread(q) ==
  \/ EmbedQuestion(q) \/ LoadSnapshot(q) \/ SnapshotFails(q) \/ RollbackSnapshot(q)
  \/ \E r \in Route : VerifyRoute(q, r) \/ Search(q, r) \/ SearchFails(q, r)
  \/ EmbedTask(q)

Serve(q) == RequestThread(q) \/ WorkerThread(q)

Next == Environment \/ \E q \in Question : Ask(q) \/ Serve(q)

Spec == Init /\ [][Next]_vars

\* Threads are scheduled and every call returns or times out.
FairSpec == Spec /\ \A q \in Question : WF_vars(Serve(q))

-----------------------------------------------------------------------------
(* Properties. *)

Answered(q) == status[q] \in {"COMPLETED", "DEGRADED", "NO_EVIDENCE"}

\* The versions an answer cites were all READY at one moment, from the lookup
\* of the question to its revalidation, one version per document: a version
\* withdrawn or replaced in between is never cited, and one withdrawn before the
\* question began is not either. (It may be withdrawn during generation.)
EvidenceStayedVisible == \A q \in Question : Answered(q) =>
  /\ expected[q] \subseteq stayed[q]
  /\ evidence[q] \subseteq expected[q]
  /\ \A v, w \in evidence[q] : DocumentOf[v] = DocumentOf[w] => v = w

\* "No evidence" and every other answer rest on a search of both complete indexes
\* of every READY version in scope; a failed or half deactivated route makes the
\* question fail and is never mistaken for a search without hits.
AnswersSearchedEverything == \A q \in Question : Answered(q) =>
  /\ RoutesOf(q) \subseteq whole[q]
  /\ status[q] = "NO_EVIDENCE" => hits[q] = {}
  /\ scope[q] \subseteq {DocumentOf[v] : v \in expected[q]}

\* A question fails only if a call failed or a version in its scope was published or
\* withdrawn while it ran, or if it began in a transaction that another question broke:
\* the threads of a question never disturb each other, and whoever broke the
\* transaction is about to roll it back.
FailsOnlyForCause ==
  /\ \A q \in Question : status[q] = "UNAVAILABLE" => disturbed[q]
  /\ aborted => \E q \in Question : pc[q] = "rollback" \/ snap[q] = "rollback"

\* The request thread and the snapshot thread of a question never use the shared
\* connection at the same time, and no thread outlives its question.
ThreadsJoined == \A q \in Question :
  /\ pc[q] \in {"resolve", "revalidate", "rollback"} => snap[q] \notin {"running", "rollback"}
  /\ pc[q] \in {"rerank", "generate", "done"} => Joined(q)

\* Every question is answered or refused: no set of workers waits for a task that
\* no worker is left to run.
QuestionEnds == \A q \in Question : (pc[q] = "resolve") ~> (pc[q] = "done")

=============================================================================
