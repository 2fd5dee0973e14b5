# Verification of 智研 (personal academic RAG)

TLA+ models of the backend in `src/backend`, the TLC configurations that check
them on small instances, and theorems about them that TLAPS checks for every
value of the constants.

- [1. The system](#1-the-system)
- [2. Modules](#2-modules)
- [3. Runs](#3-runs)
- [4. Proofs](#4-proofs)
- [5. What the runs found](#5-what-the-runs-found)
- [6. Not modelled](#6-not-modelled)
- [7. Plan](#7-plan)

Check one model with `tlc -config MCPublishOverlap.cfg MCIndexPublication`, the
proofs of one with `tlapm IndexPublication_proofs.tla`.

## 1. The system

A user's PDFs are ingested into immutable *content versions*. Each version is
stored three times: as rows and chunk snapshots in PostgreSQL, which is the only
truth about its lifecycle, and as one physical index in Elasticsearch and one in
Milvus, which hold the same chunks for lexical and vector search. The online side
answers questions from the versions PostgreSQL calls `READY`. None of the three
stores shares a transaction with another.

| Component | State | Operations | Talks to |
|---|---|---|---|
| Fact source (`storage/postgres.py`, `models.py`, migrations 0001 and 0003) | version rows (status, revision, two index states), ingestion jobs by idempotency key | register, compare-and-swap transition, job update, finalize, record failure, resolve READY versions | everyone, one transaction per call |
| Persistent ingestion (`ingestion/persistent.py`) | what one call holds | register, start or resume, parse, record progress, put PDF, persist snapshot | fact source, PDF store |
| Publication (`ingestion/index_lifecycle.py`) | what one call holds | stage and mark each side, activate both, finalize, compensate, record failure | fact source, both writers |
| Inactivation (same file) | what one call holds | commit INACTIVE, invalidate, deactivate, enqueue three cleanups; collects failures | fact source, writers, queue |
| Index writers (`elasticsearch_writer.py`, `milvus_writer.py`) | one physical index per version | ensure staged, activate, verify, deactivate, delete | Elasticsearch, Milvus over HTTP/gRPC |
| PDF store (`storage/pdf_objects.py`) | one file per version | put, read, delete | file system |
| Cleanup queue (`postgres.py`, migration 0002, `ingestion/cleanup.py`) | jobs with attempts, leases and due times | enqueue, recover and claim, complete, fail | writers, PDF store |
| Online retrieval (`retrieval/online.py`) | what one question holds; a shared retriever and database connection | resolve, verify, snapshot, search, revalidate, fuse | fact source, both indexes, embedding model |
| Answer pipeline (`rag/online_consumer.py`, `online_reranker.py`, `rag/generation.py`, `api/app.py`) | what one request holds | rerank or fall back, build, generate, degrade | retrieval, models |
| Answer API process (`api/app.py`) | backend, verified index, embedding client | start, serve, shut down | everything online |
| Embedding client (`retrieval/embedding.py`) | lent, idle and closed connections, waiting threads | acquire, release, close | Ollama |
| Local and remote indexes of a chunk file (`sqlite_fts.py`, `vector.py`, `milvus.py`, `elasticsearch.py`) | a file with metadata, or a collection | build, replace, inspect, search | file system, services |
| Migrations (`storage/migrate.py`) | the table of applied migrations | look, execute, record | PostgreSQL |
| Isolated runs (`scripts/run_*`, `recover_*`, `audit_*`, `adjudicate_*`) | what one run created; reports | publish, measure, withdraw, clean up, judge | all of the above |
| Pure algorithms (`retrieval/hybrid.py`, `comparison_*`, `rag/claim_evidence.py`, `evaluation/*`, `ingestion/parser.py`, `splitter.py`) | none | fusion, coverage, decomposition, claim checks, scores, windows | |

**What is hard.** Publishing is a hand-made commit over three stores: two indexes
are staged and activated first, the row is made `READY` last, and what went wrong
in between is undone by compensation. Requests are idempotent by key and may be
replayed while an earlier run of the same request is still at work; a version may
be withdrawn at any point of it. Every process may die between any two calls, and
a call may fail after it has taken effect. Deletion is asynchronous, leased and
retried, by workers with clocks of their own. `PROJECT.json` lists each hazard at
its line.

**What makes it correct.** Fact source: no update is made from a stale copy, at
most one version of a document is READY, INACTIVE is final. Publication: READY
means two complete and active indexes, a stored snapshot and a SUCCEEDED job.
Inactivation: it withdraws at once and schedules all of the deletion. Cleanup:
only of what is INACTIVE, by one lease holder at a time, ending once. Online
side: an answer is built from versions that were READY from its lookup to its
revalidation, out of complete indexes, and shows what its claims cite. Isolated
runs: one that reports PASS left nothing behind.

## 2. Modules

| Module | Models |
|---|---|
| `IndexPublication` | ingestion, publication, inactivation over fact source, indexes and PDF store |
| `VersionVisibility` | what that promises a reader, abstractly |
| `CleanupQueue` | the leased queue of physical deletions and its workers |
| `OnlineRead` | one question's threads, connection and indexes, against what `VersionVisibility` allows |
| `AnswerAssembly` | the answer of one question, with values: search, fusion, selection, reranking, generation |
| `Ranking`, `ClaimEvidence` | the pure parts of it: RRF, coverage selection, reranking; the check of claims |
| `Orders` | sorting and selecting from sequences, in a form the prover knows |
| `ClaimAudit` | the audit of claims over sets of evidence and the second look of the competition pack |
| `Comparison` | decomposition of a question that compares two documents |
| `EmbeddingPool` | the connection pool of the embedding client |
| `ApiProcess`, `AnswerApi` | startup and shutdown of the API; scopes and filters of its four search backends |
| `IndexBuild` | building, replacing, admitting and reading an index of a chunk file |
| `Migrations` | racing migrators |
| `Chunking` | parser and splitter: lines, blocks, sections, units, windows, chunk records |
| `EvaluationCorpus`, `RetrievalMetrics`, `NliGate` | review lineage and lock readiness; scores and rates; the NLI candidate's gate |
| `Evaluation` | these three and `PairedGate` together |
| `IsolatedRun`, `PairedGate` | gate, ladder, canary, recovery and audit on one cleanup queue; the gate's verdict and its adjudication |
| `MCIndexPublication`, `MCCleanupQueue`, `MCOnlineRead`, `MCComponents` | small instances |
| `MCAlgorithms` | the inputs of the algorithms without a state |
| `IndexPublication_proofs` | theorems about publication, with any publishers and with one per version |
| `CleanupQueue_proofs`, `OnlineRead_proofs`, `IsolatedRun_proofs` | theorems about these three |
| `Processes_proofs` | theorems about `Migrations`, `IndexBuild`, `EmbeddingPool` and `ApiProcess` |
| `Answer_proofs` | theorems about `AnswerAssembly`, `AnswerApi` and `ClaimAudit` |
| `Algorithms_proofs` | theorems about the evaluation, the decomposition of comparisons and the splitter |
| `Orders_proofs` | what both of these need of sorting, selecting, folding, summing and flattening |

### IndexPublication

One step is one database transaction, one call of an index writer or one call of
the object store; what happens inside one is not visible to others. Only
`ensure_staged` is two steps (`OpenStage`, `FillStage`), since it looks at the
index first and writes later. An *ingestor* runs
`prepare_and_persist_pdf_ingestion` and then `publish_prepared_indexes`; a
*remover* runs `inactivate_and_schedule_cleanup`. `pc` is the next call of each,
`held` the version object it passes along (`version = repository.…` in the code),
`at` the writer its loop has reached, `blamed` the side it is about to record as
failed. These are local and vanish when the call returns, raises or dies.

| Variables | Code |
|---|---|
| `row` | `rag_document_versions`: status, revision, both index states, whether the parse and chunk times are set, whether there is a failure code |
| `job` | `rag_ingestion_jobs` by idempotency key |
| `snapshot`, `pdf` | `rag_pdf_objects` with `rag_chunks` (one transaction writes or deletes both); the file |
| `cleanup` | `rag_index_cleanup_jobs`: none, queued or done |
| `physical` | each index: absent, partial (rows missing), staged (complete), active (complete and active in every row) |

Every transition goes through `Accepts`, the revision check and transition graph
of `_transition_version`, which the database trigger repeats; a rejected one
raises, and each action says what its caller does then. `SetJob` is
`_update_ingestion_job`, which compares nothing. A failing call costs one of
`MaxFaults`, and may have taken effect. `LostFinalizeReply` allows the reply of the
finalizing commit to be lost. `Accepts` and `SetJob` in one action are one
transaction, as in `finalize_indexing_success` and `record_indexing_failure`.

Abstracted: chunk payloads, mappings, vectors and fingerprints (the writers refuse
what does not match; a version's chunks are immutable, so in the model nothing
differs); timestamps; failure codes; the document row; the query visibility
invalidator, which has no state in the repository. An index whose deactivation
fails half way is still "not active in every row", which is what `staged` means.
When a bulk request meets an Elasticsearch index that was deleted meanwhile,
Elasticsearch's default is to create it: `StageFails` has that outcome.
Cleanup is seen from here as jobs that delete, any number of times, and succeed.

### CleanupQueue

`job` is the table. `next_attempt_at` and `lease_expires_at` are the time left
until them by the slowest clock, so that `Tick` keeps them finite, and `Ahead` is
how far each worker's clock is ahead of it. `Claim` is both statements of
`claim_cleanup` in their one transaction; `Check` and `Drop` are the question and
the deletion inside `delete_version`, between which another lease holder may act.
`present` is what `delete_version` looks for: the index, or for a runtime snapshot
its registration row.

### VersionVisibility

A version becomes visible only while no other version of its document is, and
once withdrawn never again. `ImplementsVisibility` maps visible to the versions
with a READY row, both indexes active and a stored snapshot, and retired to those
that are INACTIVE: that many stores change in many steps and the promise changes
in one is what the refinement says.

### OnlineRead

`pc` is the request thread of a question; `embed` and `snap` are the two threads
that `resolve` starts beside route verification, `verified` the verification
threads and `task` the tasks of the retrieval pool, first in, first out, with
`Workers` workers of which a vector search keeps one while it waits for the
embedding. `aborted` is the state of the one PostgreSQL connection of the
repository: after a failed statement every statement fails until someone rolls
back. The environment publishes and withdraws as `VersionVisibility` says, which
is what `IndexPublication` implements, and the rows of a withdrawn version decay
while the question reads them. `whole`, `stayed` and `disturbed` are history: which
routes were searched while complete, what was visible throughout, and whether
there was a cause to fail. A question that begins while another one has
broken the transaction is disturbed from its start. A hit is the version of its chunk.

### AnswerAssembly, Ranking, ClaimEvidence, ClaimAudit

`AnswerAssembly` is one question with values: rankings of the two backends per
route, fusion, truncation, coverage selection or reranking, the answer of
`build_answer`, the model's reply and what `apply_real_generation` makes of it.
RRF scores are compared as fractions over a common denominator. A text is what
the regular expressions of `claim_evidence.py` extract: numbers, numbers with a
unit, groups of marker words, other words. `ClaimAudit` audits one claim: its step
takes a claim and the evidence it may rest on. `PackAudit` is the second look that the
competition pack takes with nothing but the evidence shown: it assumes that this is
current and authorized, and passes as soon as one claim cites two quotes,
supported or not.

### The other modules

`EmbeddingPool` has one step per lock-protected block and per network call, so a
notification wakes one waiting thread and a closed pool meets lent connections.
`IndexBuild` writes a new file and moves file and metadata into place in separate
steps, or fills a remote collection row by row. `Migrations` knows that a second
migrator waits at the lock of the first one's uncommitted row. `ApiProcess` starts
step by step, each of which may fail, and closes only a client it opened itself.
`IsolatedRun` executes scripts: their papers, measurements, failures, kills and the
worker batch that takes as many jobs as the script expects from a queue in which
others left some. `PairedGate` has the report with its rounding (numbers in units
of 10^-7, six decimals kept) and the adjudicator that recomputes it; `RetrievalMetrics`
the scores of rankings, and the gate's own implementation of them over the chunks
of an isolated run. `Chunking` abstracts a text to the lengths of its lines, their
heading level and whether they end a sentence, and finds chunk spans as the code
does. `Comparison` sees a query as clauses of tokens: names, markers, connectors,
shared tails, words. `AnswerApi` states the four filters field by field; its step is
the request that meets some stored chunks and the scope of the server.

What is sorted or selected in the modules that have theorems is written with `Orders`,
since TLAPS has no definition of `SortSeq` and `SelectSeq`. Each algorithm without a state
has one variable, the set of at most one input that its only step has taken, so that its
properties are invariants and its theorems are about every input.

## 3. Runs

| Run | Instance | Shows |
|---|---|---|
| `publish_succession` | versions v1, v2 of one document, an ingestor with its own key for each, a remover of v1; 2 starts, 1 fault | READY is servable, its job has succeeded, deletion only of INACTIVE, the promise of VersionVisibility |
| `publish_overlap` | one version, two ingestors with one key, a remover; 1 start each, 1 fault, lost replies | what holds with several publishers: no stale update, marked sides are staged, READY has its snapshot |
| `key_conflict` | two documents, one key; 2 starts, 1 fault | a key and its version are registered together or not at all |
| `replay` | one ingestor, one remover; 3 starts, 2 faults, fair | replays reach READY or INACTIVE; an inactivation that has begun queues all three jobs |
| `cleanup_queue` | 2 jobs, 2 workers one tick apart, 3 attempts, lease 2, retry 2 doubled up to 3, fair | limits, delays, leases, terminal states, every job ends |
| `online_question` | versions v1, v2 of one document and v3 of another, one question of four kinds, pool of 2, 1 fault, fair | evidence was visible throughout, everything is searched, failures have a cause, threads are joined, every question ends |
| `components` | one component per behaviour, below | seventeen properties of the other components |
| `overlap_servable`, `overlap_job`, `lost_reply`, `orphan_index`, `orphan_pdf` | the smallest instance of each | section 5 |

**Bounds.** Two versions of one document is what the unique index of migration
0003 is about, and two publishers of one version is the least number that
overlap; a third would repeat what the second does, since a version remembers
its publishers only by its revision and index states. With one fault and two
starts a publisher can fail at any step and be replayed over what it left; the
liveness run has two faults and three starts, so that a replay may fail too. Two
workers and two jobs let a lease be lost to another worker while a second job is
due; three attempts have a first, a middle and a last one; a lease of 2 and a
skew of 1 let a worker be slower than its lease and see it expired before or
after its holder does. `MaxAttempts`, `Lease`, `BaseRetry` and `MaxRetry` are the
code's parameters, not bounds; `MaxRuns` and `MaxFaults` are bounds.

A pool of 2 is smaller than the three or five tasks of a question, as 32 is smaller
than the tasks of 16 documents, so searches do wait for workers; one fault per
question is enough to leave the connection aborted, and what follows from that
is no further fault. The run has one question; the theorems about `OnlineRead` hold
for any number of them on one connection (section 4).

**components.** `MCComponents` extends the components, so that its properties are
theirs, and the configuration gives their constants. `subject` chooses the component;
the others rest. The state machines run: four callers over two embedding connections; one gate or ladder of two
papers and a canary of one, two attempts, two faults or kills; three builders of
which one has another chunk file; three migrators of two builds; one API process;
one answer of four chunks, two routes and seven replies; an audited claim of one or
two clauses on three neighbouring chunks, of which the second is perhaps not what it
seems; a request over two chunks and a scope with every combination of tenant,
visibility, library, folder and activity. Each algorithm without a state is
applied once to each of its inputs: papers of two or three pages of up to two
lines of seven kinds; questions of up to two clauses; two to four reviews;
rankings of up to three chunks; reports of up to three questions; measurements
that differ from a passing one around each threshold by less than the rounding.
Sizes of the splitter are scaled down by about a hundred, keeping which is larger.
`MCAlgorithms` defines these inputs; each behaviour takes one, so the run is broad (about
1.1 million states) and shallow. What an algorithm shares with a reference definition is
stated in its property.

**Fairness.** `FairSpec` of `IndexPublication` gives each ingestor weak fairness of
its own next step, since the operator replays a request until it is served
(LOCAL_PDF_INGESTION.md) and a call that has been started goes on; a remover is
fair only once its version is INACTIVE, since nothing obliges anyone to withdraw a
version, while `InactivationCleanupPendingError` obliges the caller to repeat one
that has begun. Crashes are not fair, and the bounded faults end: without that no
replay would be promised anything. In `CleanupQueue`, time passes and a worker
that can step does; its crashes and failing deletions are neither bounded nor
fair, and jobs still end because attempts are counted.

In `OnlineRead` every thread of a question is scheduled and every call returns or
raises, since the clients of the services have timeouts; the question itself, the
versions that come and go and the faults are not fair.

**Deadlock** is checked in the runs of the ingestion side, where `Finished` is the
one state in which each system may rest. `online_question` and `components` switch
it off: a question that is answered, an algorithm that was applied and a process
that has ended stop. That none stops earlier is `QuestionEnds`, `NobodyWaitsInVain`
and what the properties say of the final states.

**Mutants.** Each property has one plausible bug of the code, defined beside the
definition it replaces, that violates it on the same configuration.

## 4. Proofs

Each theorem holds for every value of the constants that satisfies the named
assumptions. Eight modules hold them; the inductive invariants they rest on are
defined beside the properties, in the module of the component, and were model-checked
on the instances of section 3 before they were proved.

### IndexPublication

`IndexPublication_proofs` proves for any sets of versions, documents, keys,
ingestors and removers, any bounds, and with or without lost replies:

| Theorem | Statement |
|---|---|
| `TypeCorrect` | `Spec => []TypeOK` |
| `CleanupSafe` | `Spec => []CleanupOnlyOfInactive` |
| `OptimisticConcurrency` | `Spec => []SnapshotCoherent` |
| `PublicationInvariant` | `Spec => []PublicationInv` |
| `MarkedSidesAreStaged` | `Spec => []MarkedMeansStaged` |
| `ReadyVersionsAreStored` | `Spec => []ReadyHasSnapshot` |
| `RegisteredVersionsHaveJobs` | `Spec => []RegisteredHasJob` |

Assumed are only `ConstantsAssumption` (the types of the constants; ingestors are
not removers) and `UnboundAssumption` (the marker of a free key is no version).

**The argument.** `MarkedMeansStaged` is not inductive: whether a mark may be
written depends on what its writer knows. `PublicationInv` adds that:

1. `HeldBehind`: nobody holds a revision beyond the row's, and one who holds the
   row's own revision holds the row. An accepted update raises the revision, so
   what everyone else holds falls behind, and `Accepts` refuses what is behind.
   `SnapshotCoherent` is this, weakened.
2. `StepKnowsStatus`: from its first update on an ingestor holds a PROCESSING
   row, and a remover that has passed its update works on an INACTIVE one.
   INACTIVE is final (`InactiveStays`), from the transition graph alone. Hence
   nothing but an INACTIVE version is ever queued for deletion.
3. `StepKnowsStates`: a publisher that stages the second side holds a row with the
   first one marked, one that activates or finalizes holds both marked, and one
   that is about to mark a side has it complete, unless the version is withdrawn.
   An index leaves `staged` and `active` only by deletion, hence only when the
   version is INACTIVE.
4. `StepHasStored`: what an ingestor stored stays until the version is withdrawn.
5. `MarkedMeansStaged` and `ReadyHasSnapshot` follow for the row that is written:
   the update is accepted only if the writer holds the current row, and 3 and 4
   say what the writer of each step has behind it.

The module has a lemma for what one step can do to a row (`RowStep`), to a cleanup
job, to what a process holds, to the physical and stored data, and to what a
process knows; each is proved action by action, and the invariant combines them.
`RegisteredHasJob` is inductive given the types: a row leaves ABSENT only in `Begin`, which
binds the key in the same transaction, and a key that is bound stays bound.

### IndexPublication with one publisher per version

Section 5 shows that READY need not mean servable when several publishers work on one
version or the reply of the last commit is lost. `IndexPublication_proofs` proves that
nothing else is needed, under the assumption `OnePublisher` in each theorem (two
ingestors of one version are the same; no lost reply of the finalizing commit):

| Theorem | Statement, if `OnePublisher` |
|---|---|
| `PublisherInvariant` | `Spec => []PublisherInv` |
| `ReadyVersionsAreServable` | `Spec => []ReadyIsServable` |
| `ReadyJobsSucceeded` | `Spec => []ReadyJobSucceeded` |
| `PublicationRefinesVisibility` | `Spec => ImplementsVisibility` |

**The argument.** `PublisherInv` adds to `PublicationInv` what the only publisher of a
version may rely on. `StepHasActivated`: what it has activated stays active until the
version is withdrawn, since only it and the cleanup touch the index. `PublishersDone`:
when the version is READY the publisher has returned, so nobody writes inactive rows or
compensates afterwards; a replay of a READY version is refused before it does anything.
`KeysBound`: a job that is bound to a version belongs to a request of its publisher, so
nobody else sets it after finalization has made it SUCCEEDED. For the refinement
`RowUpdates` says that a step changes one row and that only `Finalize` makes one READY.
A version then enters the mapped `visible` only in that step, which the transition
check (no other READY version of the document, the unique index of migration 0003)
allows only while no other version of the document is visible, and it leaves only into
`retired`; every other step is a stutter of `VersionVisibility`.

### CleanupQueue

`CleanupQueue_proofs` proves for any jobs, workers and clocks, any lease and delays:

| Theorem | Statement |
|---|---|
| `QueueTypeCorrect` | `Spec => []TypeOK` |
| `AttemptsBounded` | `Spec => []AttemptsWithinLimit` |
| `SucceededAreDeleted` | `Spec => []SucceededMeansDeleted` |
| `LeaseExclusive` | `Spec => []OneLeaseHolder` |
| `TerminalStays` | `Spec => TerminalIsFinal` |

Assumed are `QueueAssumption` and `DelayAssumption`: a doubled delay is a number,
which the prover cannot compute from the recursive definition of the power.

**The argument.** A lease is good as long as its token is in the row, however late
it is; so `OneLeaseHolder` needs that no two workers of a job were given the same
token. The token is the number of the attempt: a worker's is never beyond the
row's (`TokensBehind`), a claim gives the next one (`TokensDiffer`), and attempts
only grow. `RowSound` says what a status promises of the attempts: whoever may be
claimed has one left, a running row has its own number as its token, a waiting row
waits by the clock of the worker that failed or recovered it. `CompletesDeleted`
is the step before `SucceededMeansDeleted`. `Steps` is what any step may do to one
row; the transactions (`Recovered`, `Leased`, `Settle`) are shown to do only that.

### OnlineRead

`OnlineRead_proofs` proves for any versions and documents, any requests, pool size
and number of failures, and for **any number of questions** served at a time on
one connection, where the run has one question:

| Theorem | Statement |
|---|---|
| `ReadTypeCorrect` | `Spec => []TypeOK` |
| `EvidenceVisible` | `Spec => []EvidenceStayedVisible` |
| `SearchComplete` | `Spec => []AnswersSearchedEverything` |
| `NoThreadLeft` | `Spec => []ThreadsJoined` |
| `FailureHasCause` | `Spec => []FailsOnlyForCause` |

Assumed is `ReadAssumption`, the types of the constants.

**The argument.** Nothing tells a question that a version was withdrawn; it looks
twice. The invariant therefore carries what it cannot know: a version of the first
lookup that did not stay visible is *retired* (`LookupInv`), and so is one whose
rows were not all active when they were searched, because rows decay only after
the withdrawal (`StoreInv`). What the second lookup finds is visible, hence not
retired (a retired version never returns), hence everything stayed and everything
searched was whole (`AnswerKeeps`). `ThreadsInv` says in which steps each thread
may run; with it nothing reaches the hits or the evidence after revalidation. A
step of one question leaves all others as they are, except for the connection and for
`disturbed`, which only the last theorem needs (`OthersKeep`).

`FailsOnlyForCause` has an invariant of its own, `CauseInv`: a question that nothing
disturbed is *untroubled*, that is, no thread of it has failed, what it has still to
verify is what it looked up, and it would look up the same again. The hard part is the
shared connection. While its transaction is broken, every question that is open is
disturbed (`BrokenForAll`), and some thread has yet to roll back (`SomeoneRollsBack`);
so nobody meets a broken transaction without a cause, whoever broke it.

### Migrations and IndexBuild

| Theorem of `Processes_proofs` | Statement | Assumed |
|---|---|---|
| `MigrationsRunOnceAlways` | `MigrateSpec => []MigrationsRunOnce` | `MigrationAssumption` |
| `SearchesReadWhole` | `BuildSpec => []SearchReadsWhole` | `BuildAssumption` |

**The argument.** For any number of migrators of any builds: what an open transaction
has executed nobody has recorded, and nobody else executes it, because the insertion of
its row blocks the others; what it has passed it found recorded with its own checksum
or executed itself (`OpenTransaction`). So a commit records only what was unrecorded,
and without a gap. For any number of builders: a local file is moved into place whole, and a
remote collection is filled once, by the one builder that created it (`BuildInv`); a
remote search that was admitted is still admitted when it reads.

### EmbeddingPool and ApiProcess

| Theorem of `Processes_proofs` | Statement | Assumed |
|---|---|---|
| `PoolInvariant` | `PoolSpec => []PoolInv` | `PoolAssumption` |
| `WaitersHaveWakers` | `PoolSpec => []NobodyWaitsInVain` | `PoolAssumption` |
| `ConnectionsAreAccounted` | `PoolSpec => []ConnectionsAccounted` | `PoolAssumption` |
| `ProcessServesVerified` | `ApiSpec => []ServesVerifiedAndCloses` | |

**The argument.** `NobodyWaitsInVain` is not inductive: that a waiting thread has a waker
follows from counting. The client counts the idle and the lent connections and nothing
else (`Counted`), each lent one is held by exactly one caller on its way to a release
(`HeldInUse`), and the limit is at least one. A thread waits only when none is idle and
the count is at the limit, so some other caller holds one; `Cardinality` of these sets
is the one place of the proof that needs the theorems about finite sets. A socket stays
open only while somebody will close it (`SocketsOwned`). `PoolAssumption`: finitely many
callers, at least as many connection objects, a positive limit. For the process,
`StartsInOrder` says that what its backend searches is verified or still on its list.

### IsolatedRun

| Theorem of `IsolatedRun_proofs` | Statement |
|---|---|
| `RunInvariant` | `RunSpec => []RunInv` |
| `PassMeansErasedAlways` | `RunSpec => []PassMeansErased` |
| `CleanMeansErasedAlways` | `RunSpec => []CleanMeansErased` |

for any number of runs, papers, attempts and faults. Assumed is `RunAssumption`: a run
belongs to the scripts of the repository, has papers, and the canary has one.

**The argument.** A gate that reports PASS has not looked at what it left in the
indexes; it has counted. That this is enough is `GateAlone`: as long as nothing failed
a gate is alone with the queue, which it found empty, every active job is one of its
own versions, and results and remaining jobs together are three for each of its
versions. With as many successes as that nothing is left, and what succeeded was
deleted (`JobsClean`). A canary shares the queue with what others left, and takes as
many jobs as it scheduled, perhaps not its own; it is safe because it looks for its
snapshot rows, which stand behind its indexes in the queue (`CanaryInOrder`,
`SnapshotLast`). `PassedIsGone` keeps what has passed gone while later runs work.

### The answer

`Answer_proofs` proves for any chunks, routes, rankings, scores, replies and limits:

| Theorem | Statement | Assumed |
|---|---|---|
| `AccessIsNeverWidened` | `AskSpec => []AccessNeverWidens` | `AccessAssumption` |
| `AssemblyInvariant` | `AssemblySpec => []AssemblyInv` | `AssemblyAssumption` |
| `FusionKeepsAgreementAlways` | `AssemblySpec => []FusionKeepsAgreement` | the same |
| `RerankingIsSelection` | `AssemblySpec => []RerankingStaysWithin` | the same |
| `CitationsAreOfClaims` | `AssemblySpec => []CitationsMatchClaims` | the same |
| `EnforcementBacksClaims` | `AssemblySpec => []EnforcedClaimsAreBacked` | the same |
| `CoverageCostsOne` | `AssemblySpec => []CoverageDisplacesOne` | the same, `TopK = 3` and two routes |
| `AuditsAgree` | `AuditSpec => []ClaimAuditSound` | `AuditAssumption` |

`AccessAssumption` and `AuditAssumption` give the types of the inputs. The coverage
selection is made for three places and two documents: with other numbers the code
selects nothing and the property would say nothing of it.

**The argument.** Each of these is about data: sorted, selected and summed. Four groups of
lemmas carry them.

- *Access.* The three ways to decide (`Authorized`, `EsFilter`, `MilvusFilter`) are
  rewritten to one normal form, in which they differ only by `Readable`. Narrowing to
  documents keeps the visibility, tenant and libraries by which another chunk of the same
  document was authorized.
- *Order.* An element of a finite strict order is sorted to the place that is one more
  than the number of those before it (`OrderedSorts`), which makes sorting a bijection
  without induction; `PickedSelects`, `TopCuts` and `IncreasingIsSorted` follow.
- *Folds.* The score of a chunk is a fold over the rankings, and folds are recursive.
  That a fold exists, is unique, does not depend on the order and sums up is proved by a
  least counterexample, since the induction theorems cannot be instantiated. From it: two
  rankings that agree give the better chunk the higher score (`BetterRanksScoreMore`).
- *Audits.* Cited positions increase, so that the audit, which sorts them, reads the
  quotes that the check of the answer reads; what supports a claim states its numbers
  without contradiction (`SupportedStatesFacts`); evidence that is current looks current
  to a reader who has nothing else (`ShownLooksCurrent`).

`AssemblyInv` itself says what each stage of the answer keeps of the one before:
rankings of a route list the chunks of its document once, the fused order is theirs,
the choice is out of it, the evidence is the choice.

### The algorithms

`Algorithms_proofs` proves for any corpus, rankings, logits, measurements, questions and papers:

| Theorem | Statement | Assumed |
|---|---|---|
| `EvaluationIsAlwaysSound` | `EvaluationSpec => []EvaluationIsSound` | the next four |
| `LockReadyIsReviewedAlways` | `CorpusSpec => []LockReadyMeansReviewed` | `CorpusAssumption` |
| `MetricsAreAlwaysSound` | `MetricsSpec => []MetricsAreSound` | `MetricsAssumption` |
| `NliGateIsHonest` | `NliSpec => []NliGateHonest` | `NliAssumption` |
| `VerdictsAlwaysAgree` | `GateSpec => []VerdictsAgree` | `GateAssumption` |
| `ComparisonsAlwaysKeepSides` | `PlanSpec => []ComparisonKeepsSides` | `ComparisonAssumption` |
| `ChunksAlwaysCoverText` | `SplitSpec => []ChunksCoverText` | `SplitterAssumption` |

The assumptions are what the code's own validation guarantees of an input: finite sets
of records with known statuses, rankings without repetition, measurements within their
ranges. `MetricsAssumption` also has the discounts decrease, as 1/log2(rank + 1) does.
`SplitterAssumption` has no line of a page empty, as `_normalize_page_text` leaves them, and
of the sizes only what `CONFIG` and `_chunk_text` guarantee: a target within the maximum, an
overlap smaller than the chunk.
Nothing changes once an input was taken; the invariant of each is only that it is one of the
inputs, and the work is to show that the property holds of every input.

**The argument.**

- *Scores.* `MetricsAreSound` says that no ranking scores more than the ideal one. The gain
  of a chunk is a sum of layers, one per grade, each worth its rank's discount; the sum
  over a layer's ranks is at most that over as many first ranks (`FirstWeighMost`,
  `MoreWeighMore`), and this is what the ideal ranking has. The n-th smallest of some
  values exists and lies at least at t just if fewer than n are below t (`NthIsAPlace`),
  which gives that percentiles are ordered (`PercentilesAreOrdered`). A mean is complete
  only if all of its parts are (`MeansAreFull`), however it is rounded.
- *Gates.* The paired gate subtracts and then rounds, its adjudicator rounds and then
  subtracts. Both differ by at most a unit of the last decimal, and the comparisons of
  the adjudicator allow two, so for a measurement whose cleanup is proven the two
  verdicts agree, whatever the rest. The NLI gate counts what is entailed of two finite
  sets: to entail one more pair only adds to both counts, and a share of all of them
  leaves none out.
- *Comparison.* Each word of a question has a place, its clause and position. A query is
  a sequence of places; for each operation on queries there is a lemma on their sets of
  places (`PartHasItsPlaces` to `PlacesAreOwn`). A clause that names both documents is cut
  at the connector between the two names, and what follows the second is given to both
  (`SplitKeepsSides`); one that names none goes to both routes unless it leads
  (`UnnamedAreKept`).
- *Structural splitting.* What is cut at starts of lines tiles what it is cut from
  (`BetweenTiles`): sections tile the text, units a section (`SectionsTile`, `AtomsTile`), and
  no unit exceeds the maximum. Each round of `_group_units` takes units within the maximum
  and continues behind its first and not behind its last one (`NextIndexAdvances`), so the
  loop ends at the last unit and its groups leave no gap (`GroupCovers`). Chunks stay in
  order when the sections are flattened, as each section has a range of its own
  (`FlattenedClimbs`), and a chunk that is dropped holds no character of a line. The blocks
  of a page hold its lines from one to another; a chunk that meets a block and any line of
  the text meets a line of that block's page, so the pages of the blocks are those of the
  lines.
- *Fixed splitting.* The invariant `Filling` is kept by each round of `_chunk_text`
  (`FilledKeeps`): the texts finished so far, and the current one, consist of pieces of the
  text in order, are bounded, hold every page seen so far, and, as long as no page is shorter
  than the overlap, each starts where the search for it does or later. The length of a text
  is a sum over its pieces; what is carried over is at most an overlap of it
  (`CarriedIsText`), the windows of a long page are an overlap apart (`WindowsAreTexts`).

The rounds of these loops are recursive functions. That such a function exists and takes
values is proved by `WalkExists` and `FillExists`, and what every round keeps holds at the
end by `BoundedInduction`, whose hypothesis is about a set, not an operator.

**Only model-checked.** `ReplayConverges`, `InactivationCompletes`, `EveryJobEnds` and
`QuestionEnds`: liveness under fairness and `ENABLED` are out of the prover's reach. The five
properties of section 5 do not hold of the code.

## 5. What the runs found

Each of the five runs below checks one statement of the documentation, and TLC
shows how the code departs from it.

- `overlap_servable`: with two publishers of one version the slower one writes
  inactive rows over, or compensates, the indexes of the version that the faster
  one has made READY. The version stays READY, fails verification online, and
  cannot be replayed, since READY is refused.
- `overlap_job`: the slower one's unconditional job update leaves the READY
  version's job RUNNING or FAILED.
- `lost_reply`: the exception of a finalization that did commit is compensated
  like one that did not.
- `orphan_index`: a publisher that was at work when its version was withdrawn
  creates the index again after its deletion, and no job is queued a second time.
- `orphan_pdf`: a crash between the PDF file and its registration leaves a file
  that cleanup reports as deleted.

With one publisher per version and no lost reply the first three do not happen:
`publish_succession` checks that and the theorems about one publisher prove it. What holds with
any publishers is what the other theorems of `IndexPublication_proofs` say. Online retrieval verifies the physical indexes of a READY version before
it uses them, so the first and third make a version unavailable, not wrong.

Modelling the other components showed, beside what their properties say:

- *Splitter.* In the fixed strategy only page boundaries end a unit: `splitter.py`
  matches separators with `fullmatch` on the separator alone, where the lookbehind
  of the sentence alternative can never hold. A paper with a page shorter than the
  overlap may be refused as SPLITTER_SOURCE_SPAN_INVALID, since the lower bound of
  the search (line 334) counts source characters and the carried tail normalized
  ones; `Chunking` has that refusal, and `FixedSplitTraces` says what holds of what is
  not refused. Chunks may exceed the chunk size by the overlap and a separator. In the
  structural strategies a chunk may lie wholly inside its predecessor, and the pieces of
  a long sentence may leave one of line breaks only, which the splitter drops; if it were
  kept, the ingestion would refuse the paper, since such a chunk meets no block.
- *Comparison.* Words between the connector and the second name reach no route, and
  a name that is repeated in a shared tail reaches both.
- *Coverage.* With a reranker configured retrieval asks for the reranker's number of
  candidates, and the coverage selection, made for three, falls back unless that number
  is three.
- *Claims.* The docstring of `verify_claim_evidence_sets` says a neighbour is added only
  if it upgrades support; the code adds one, too, that makes evidence conflict.
- *Isolated runs.* Jobs that a killed run left in the queue cannot be drained by the
  scripts: a gate refuses to start, a canary takes as many jobs as it added, and the
  recovery accepts only its own nine untouched jobs.
- *Indexes.* The SQLite file and the Elasticsearch index are admitted by their
  metadata alone; a half filled Elasticsearch index passes `verify_source`, so for it
  `RemoteSearchReadsExpected` speaks of the content and not of its completeness.
- *Filters.* Narrowing a scope to documents keeps it from widening because the chunks of
  one document have one tenant, visibility and library; the property assumes it.
- *Gate.* The gate rounds differences and the adjudicator subtracts rounded numbers: they
  differ by up to one unit of the last decimal, and the tolerance of two is enough.
  With exact comparison the adjudicator would reject passing reports.
- *NLI gate.* Of equal logits the first label counts, which is entailment.

## 6. Not modelled

- Payloads: texts, embeddings, vectors, index mappings, analyzers and the scores
  of the engines and models. They are abstracted to what the properties tell
  apart, and an engine may return any ranking.
- HTTP, SQL and file formats, sanitizing of error texts, logging and latencies.
- `evaluation/harness.py` and `evaluation/reranker.py`: sequential drivers that compare
  fixture cases, without state.
- The scripts that validate contracts, package releases, screen rerankers or prepare
  remote hosts, and `deploy/` and `machine/`: they read files and compare them with
  constants; nothing in them interacts with anything.
- Contracts and fixtures: JSON schemas and example data.
- Two questions at once on one connection are in `OnlineRead` and in its theorems,
  but not in its run: the state space multiplies by two thousand.

## 7. Plan

1. Every invariant and action property the passing runs check is a theorem. What remains
   model-checked is liveness, and stays so with these provers.
2. Eight modules with theorems are as many as the project keeps: further proofs go to the
   module of the component they are closest to.
