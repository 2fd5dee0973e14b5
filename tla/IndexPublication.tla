-------------------------- MODULE IndexPublication --------------------------
(***************************************************************************)
(* Ingestion, dual-index publication and inactivation of document          *)
(* versions: backend/ingestion/persistent.py and index_lifecycle.py over   *)
(* the PostgreSQL fact source of backend/storage/postgres.py, the two      *)
(* physical indexes (Elasticsearch, Milvus) and the PDF object store.      *)
(*                                                                         *)
(* One step is one database transaction, one call of an index writer or    *)
(* one call of the object store: what another process can see in between.  *)
(* An ingestor runs prepare_and_persist_pdf_ingestion and then             *)
(* publish_prepared_indexes; a remover runs inactivate_and_schedule_cleanup.*)
(***************************************************************************)
EXTENDS Naturals, FiniteSets

CONSTANTS
  Version,           \* immutable content versions
  Document,          \* (owner_id, document_id) pairs
  DocumentOf,        \* the document of each version
  Key,               \* idempotency keys of ingestion requests
  Ingestor,          \* ingestion requests, replayed until they are served
  Remover,           \* delete, revoke or expire requests
  VersionOf,         \* the version a process works on
  KeyOf,             \* the idempotency key an ingestor presents
  MaxRuns,           \* bound: how often one ingestor is started
  MaxFaults,         \* bound: how many crashes and failed calls happen
  LostFinalizeReply  \* may the reply of the finalizing commit be lost?

Process == Ingestor \cup Remover
Backend == {"elasticsearch_chunks", "milvus_vectors"}
CleanupBackend == Backend \cup {"runtime_snapshot"}

ASSUME ConstantsAssumption ==
  /\ DocumentOf \in [Version -> Document]
  /\ VersionOf \in [Process -> Version]
  /\ KeyOf \in [Ingestor -> Key]
  /\ Ingestor \cap Remover = {}
  /\ MaxRuns \in Nat
  /\ MaxFaults \in Nat
  /\ LostFinalizeReply \in BOOLEAN

ES == "elasticsearch_chunks"
MILVUS == "milvus_vectors"
Unbound == "unbound"

ASSUME UnboundAssumption == Unbound \notin Version

LifecycleStatus ==
  {"ABSENT", "REGISTERED", "PROCESSING", "REVIEW", "READY", "FAILED", "INACTIVE"}

IndexState == {"PENDING", "READY", "FAILED"}

\* A physical index: not created, created with rows missing, complete but not
\* active in every row, complete and active in every row.
Physical == {"absent", "partial", "staged", "active"}

\* Mutant: a version that failed once may not be tried again.
AllowedTransitionsWithoutRetry ==
  [ABSENT |-> {}, REGISTERED |-> {"PROCESSING", "INACTIVE"},
   PROCESSING |-> {"REVIEW", "READY", "FAILED", "INACTIVE"},
   REVIEW |-> {"PROCESSING", "FAILED", "INACTIVE"}, READY |-> {"INACTIVE"},
   FAILED |-> {"INACTIVE"}, INACTIVE |-> {}]

\* ALLOWED_LIFECYCLE_TRANSITIONS, with ABSENT for a row that does not exist.
AllowedTransitions ==
  [ABSENT     |-> {},
   REGISTERED |-> {"PROCESSING", "INACTIVE"},
   PROCESSING |-> {"REVIEW", "READY", "FAILED", "INACTIVE"},
   REVIEW     |-> {"PROCESSING", "FAILED", "INACTIVE"},
   READY      |-> {"INACTIVE"},
   FAILED     |-> {"PROCESSING", "INACTIVE"},
   INACTIVE   |-> {}]

\* A row of rag_document_versions. The four parse and chunk timestamps are set
\* together (chunked); failure_code is abstracted to whether there is one.
Row == [status : LifecycleStatus, revision : Nat,
        states : [Backend -> IndexState], chunked : BOOLEAN, failed : BOOLEAN]

NoRow == [status |-> "ABSENT", revision |-> 0,
          states |-> [b \in Backend |-> "PENDING"],
          chunked |-> FALSE, failed |-> FALSE]

\* Mutant: the job's first status is written to the version.
RegisteredAsPending == [NoRow EXCEPT !.status = "PENDING", !.revision = 1]

\* register_version's insert.
RegisteredRow == [NoRow EXCEPT !.status = "REGISTERED", !.revision = 1]

CleanupStatus == {"none", "queued", "done"}

JobStatus == {"PENDING", "RUNNING", "SUCCEEDED", "FAILED"}

Job == [version : Version \cup {Unbound}, status : JobStatus]

VARIABLES
  row,       \* PostgreSQL: rag_document_versions
  job,       \* PostgreSQL: rag_ingestion_jobs, by idempotency key
  snapshot,  \* PostgreSQL: are the PDF registration and the chunk rows stored?
  cleanup,   \* PostgreSQL: rag_index_cleanup_jobs
  pdf,       \* object store: is the PDF file there?
  physical,  \* Elasticsearch and Milvus: the physical index of each version
  pc,        \* what each process does next
  held,      \* the version row each process read or wrote last
  at,        \* the backend each process works on
  blamed,    \* the backend whose failure an ingestor is about to record
  runs,      \* how often each ingestor was started
  faults     \* how many faults have happened

vars == <<row, job, snapshot, cleanup, pdf, physical,
          pc, held, at, blamed, runs, faults>>

IngestorStep == {"idle", "resume", "start", "ingest", "put", "snapshot",
                 "stage", "fill", "mark", "activate", "finalize",
                 "compensate", "record", "failjob"}
RemoverStep == {"idle", "inactivate", "deactivate", "enqueue", "enqueue_runtime"}

TypeOK ==
  /\ row \in [Version -> Row]
  /\ job \in [Key -> Job]
  /\ snapshot \in [Version -> BOOLEAN]
  /\ cleanup \in [CleanupBackend -> [Version -> CleanupStatus]]
  /\ pdf \in [Version -> BOOLEAN]
  /\ physical \in [Backend -> [Version -> Physical]]
  /\ pc \in [Process -> IngestorStep \cup RemoverStep]
  /\ held \in [Process -> Row]
  /\ at \in [Process -> Backend]
  /\ blamed \in [Process -> Backend]
  /\ runs \in [Ingestor -> Nat]
  /\ faults \in Nat

Init ==
  /\ row = [v \in Version |-> NoRow]
  /\ job = [k \in Key |-> [version |-> Unbound, status |-> "PENDING"]]
  /\ snapshot = [v \in Version |-> FALSE]
  /\ cleanup = [c \in CleanupBackend |-> [v \in Version |-> "none"]]
  /\ pdf = [v \in Version |-> FALSE]
  /\ physical = [b \in Backend |-> [v \in Version |-> "absent"]]
  /\ pc = [p \in Process |-> "idle"]
  /\ held = [p \in Process |-> NoRow]
  /\ at = [p \in Process |-> ES]
  /\ blamed = [p \in Process |-> ES]
  /\ runs = [p \in Ingestor |-> 0]
  /\ faults = 0

-----------------------------------------------------------------------------
(* The fact source. *)

\* Mutant: the caller's copy is checked, and the row is not compared with it.
AcceptsStale(p, target) ==
  \/ target \in AllowedTransitions[held[p].status]
  \/ held[p].status = "PROCESSING" /\ target = "PROCESSING"

\* The compare-and-swap of _transition_version and the trigger behind it.
Accepts(p, target) ==
  LET current == row[VersionOf[p]] IN
  /\ current.revision = held[p].revision
  /\ \/ target \in AllowedTransitions[current.status]
     \/ current.status = "PROCESSING" /\ target = "PROCESSING"

\* Mutant: without the unique index of migration 0003.
MayBeReadyBeside(v) == row[v].chunked

\* DocumentVersionLifecycleV1's READY check and the unique index of 0003.
MayBeReady(v) ==
  /\ row[v].chunked
  /\ \A u \in Version \ {v} :
       DocumentOf[u] = DocumentOf[v] => row[u].status # "READY"

\* Mutant: the update keeps the revision it has compared.
RevisedInPlace(p, target) == [row[VersionOf[p]] EXCEPT !.status = target]

\* The row written by an accepted update, before what the update itself changes.
Revised(p, target) ==
  [row[VersionOf[p]] EXCEPT !.status = target, !.revision = @ + 1]

Goto(p, step) == pc' = [pc EXCEPT ![p] = step]

\* A process returns or raises: its local state is gone.
Return(p) ==
  /\ Goto(p, "idle")
  /\ held' = [held EXCEPT ![p] = NoRow]
  /\ at' = [at EXCEPT ![p] = ES]
  /\ blamed' = [blamed EXCEPT ![p] = ES]

Commit(p, new) ==
  /\ row' = [row EXCEPT ![VersionOf[p]] = new]
  /\ held' = [held EXCEPT ![p] = new]

\* transition_version on its own: a rejected one raises through the caller.
Transition(p, target, new, step) ==
  \/ /\ Accepts(p, target)
     /\ Commit(p, new)
     /\ Goto(p, step)
     /\ UNCHANGED <<at, blamed>>
  \/ /\ ~Accepts(p, target)
     /\ Return(p)
     /\ UNCHANGED row

\* Mutant: only a PENDING job is updated.
SetPendingJob(p, status) ==
  job' = [job EXCEPT ![KeyOf[p]].status = IF @ = "PENDING" THEN status ELSE @]

\* _update_ingestion_job compares neither the job's status nor its version.
SetJob(p, status) == job' = [job EXCEPT ![KeyOf[p]].status = status]

Fault == faults < MaxFaults /\ faults' = faults + 1

-----------------------------------------------------------------------------
(* prepare_persistent_pdf_ingestion. *)

\* Mutant: the last request that presents a key owns it.
BindableAlways(p) == TRUE

\* _register_ingestion_job: a key stands for one version.
Bindable(p) == job[KeyOf[p]].version \in {VersionOf[p], Unbound}

\* register_version inserts the row or returns the one that is there.
Registered(v) == IF row[v].status = "ABSENT" THEN RegisteredRow ELSE row[v]

\* register_version_and_ingestion_job, one transaction: a key bound to another
\* version rolls both rows back. The row returned decides what
\* _start_or_resume_processing does; it refuses READY and INACTIVE.
Begin(p) ==
  LET v == VersionOf[p]
      found == Registered(v)
  IN
  /\ pc[p] = "idle"
  /\ runs[p] < MaxRuns
  /\ runs' = [runs EXCEPT ![p] = @ + 1]
  /\ \/ /\ ~Bindable(p)
        /\ UNCHANGED <<row, job, pc, held>>
     \/ /\ Bindable(p)
        /\ row' = [row EXCEPT ![v] = found]
        /\ job' = [job EXCEPT ![KeyOf[p]].version = v]
        /\ \/ /\ found.status \in {"READY", "INACTIVE"}
              /\ UNCHANGED <<pc, held>>
           \/ /\ found.status \notin {"READY", "INACTIVE"}
              /\ held' = [held EXCEPT ![p] = found]
              /\ Goto(p, IF found.status = "PROCESSING" THEN "start" ELSE "resume")
  /\ UNCHANGED <<snapshot, cleanup, pdf, physical, at, blamed, faults>>

\* _start_or_resume_processing: REGISTERED, REVIEW and FAILED enter PROCESSING.
Resume(p) ==
  /\ pc[p] = "resume"
  /\ Transition(p, "PROCESSING",
                [Revised(p, "PROCESSING") EXCEPT !.failed = FALSE], "start")
  /\ UNCHANGED <<job, snapshot, cleanup, pdf, physical, runs, faults>>

\* update_ingestion_job to RUNNING: neither the job's status nor the version's
\* revision is compared.
StartJob(p) ==
  /\ pc[p] = "start"
  /\ SetJob(p, "RUNNING")
  /\ Goto(p, "ingest")
  /\ UNCHANGED <<row, snapshot, cleanup, pdf, physical, held, at, blamed, runs, faults>>

\* The PDF parses with PASS: parse and chunk times are recorded.
IngestPasses(p) ==
  /\ pc[p] = "ingest"
  /\ Transition(p, "PROCESSING",
                [Revised(p, "PROCESSING") EXCEPT !.chunked = TRUE, !.failed = FALSE],
                "put")
  /\ UNCHANGED <<job, snapshot, cleanup, pdf, physical, runs, faults>>

\* The PDF parses with REVIEW; counted as a fault because it needs a new request.
IngestNeedsReview(p) ==
  /\ pc[p] = "ingest"
  /\ Fault
  /\ Transition(p, "REVIEW",
                [Revised(p, "REVIEW") EXCEPT !.chunked = TRUE, !.failed = FALSE],
                "failjob")
  /\ UNCHANGED <<job, snapshot, cleanup, pdf, physical, runs>>

\* Parsing, put_pdf or persist_runtime_snapshot fails: _record_failure writes the
\* version first and the job in a second transaction.
FailVersion(p) ==
  /\ pc[p] \in {"ingest", "put", "snapshot"}
  /\ Fault
  /\ Transition(p, "FAILED", [Revised(p, "FAILED") EXCEPT !.failed = TRUE], "failjob")
  /\ UNCHANGED <<job, snapshot, cleanup, pdf, physical, runs>>

FailJob(p) ==
  /\ pc[p] = "failjob"
  /\ SetJob(p, "FAILED")
  /\ Return(p)
  /\ UNCHANGED <<row, snapshot, cleanup, pdf, physical, runs, faults>>

(* prepare_and_persist_pdf_ingestion. *)

PutPdf(p) ==
  /\ pc[p] = "put"
  /\ pdf' = [pdf EXCEPT ![VersionOf[p]] = TRUE]
  /\ Goto(p, "snapshot")
  /\ UNCHANGED <<row, job, snapshot, cleanup, physical, held, at, blamed, runs, faults>>

\* persist_runtime_snapshot does not look at the lifecycle of the version.
PersistSnapshot(p) ==
  /\ pc[p] = "snapshot"
  /\ snapshot' = [snapshot EXCEPT ![VersionOf[p]] = TRUE]
  /\ Goto(p, "stage")
  /\ UNCHANGED <<row, job, cleanup, pdf, physical, held, at, blamed, runs, faults>>

-----------------------------------------------------------------------------
(* publish_prepared_indexes. *)

Complete(b, v) == physical[b][v] \in {"staged", "active"}

SetPhysical(b, v, state) == physical' = [physical EXCEPT ![b][v] = state]

\* Mutant: an index that exists is taken to hold all rows.
OpenStageTrusting(p) ==
  /\ pc[p] = "stage"
  /\ SetPhysical(at[p], VersionOf[p],
                 IF physical[at[p]][VersionOf[p]] = "absent" THEN "partial"
                 ELSE physical[at[p]][VersionOf[p]])
  /\ Goto(p, IF physical[at[p]][VersionOf[p]] = "absent" THEN "fill" ELSE "mark")
  /\ UNCHANGED <<row, job, snapshot, cleanup, pdf, held, at, blamed, runs, faults>>

\* ensure_staged, first half: create the index if it is missing, then look
\* whether rows are missing.
OpenStage(p) ==
  LET b == at[p]
      v == VersionOf[p]
  IN
  /\ pc[p] = "stage"
  /\ SetPhysical(b, v, IF physical[b][v] = "absent" THEN "partial" ELSE physical[b][v])
  /\ Goto(p, IF Complete(b, v) THEN "mark" ELSE "fill")
  /\ UNCHANGED <<row, job, snapshot, cleanup, pdf, held, at, blamed, runs, faults>>

\* ensure_staged, second half: write the rows, all of them inactive, whatever
\* has happened to the index since it was inspected.
FillStage(p) ==
  /\ pc[p] = "fill"
  /\ physical[at[p]][VersionOf[p]] # "absent"
  /\ SetPhysical(at[p], VersionOf[p], "staged")
  /\ Goto(p, "mark")
  /\ UNCHANGED <<row, job, snapshot, cleanup, pdf, held, at, blamed, runs, faults>>

\* ensure_staged raises; the rows may have been written before it did. A bulk
\* request creates an Elasticsearch index that a cleanup has deleted meanwhile,
\* without the identity that the check of the rows, or a later replay, asks for.
StageFails(p) ==
  LET b == at[p]
      v == VersionOf[p]
  IN
  /\ pc[p] \in {"stage", "fill"}
  /\ \/ /\ pc[p] = "fill" /\ physical[b][v] = "absent"
        /\ UNCHANGED faults
        /\ \/ UNCHANGED physical
           \/ b = ES /\ SetPhysical(b, v, "partial")
     \/ Fault /\ UNCHANGED physical
     \/ /\ pc[p] = "fill" /\ physical[b][v] # "absent"
        /\ Fault
        /\ SetPhysical(b, v, "staged")
  /\ blamed' = [blamed EXCEPT ![p] = b]
  /\ Goto(p, "record")
  /\ UNCHANGED <<row, job, snapshot, cleanup, pdf, held, at, runs>>

\* One side is staged: record it. A rejected update raises and nothing is undone.
MarkStaged(p) ==
  LET b == at[p] IN
  /\ pc[p] = "mark"
  /\ \/ /\ Accepts(p, "PROCESSING")
        /\ Commit(p, [Revised(p, "PROCESSING") EXCEPT
                        !.states[b] = "READY", !.failed = FALSE])
        /\ Goto(p, IF b = ES THEN "stage" ELSE "activate")
        /\ at' = [at EXCEPT ![p] = IF b = ES THEN MILVUS ELSE ES]
        /\ UNCHANGED blamed
     \/ /\ ~Accepts(p, "PROCESSING")
        /\ Return(p)
        /\ UNCHANGED row
  /\ UNCHANGED <<job, snapshot, cleanup, pdf, physical, runs, faults>>

\* Mutant: the first side that is activated decides.
ActivateOne(p) ==
  /\ pc[p] = "activate"
  /\ Complete(at[p], VersionOf[p])
  /\ SetPhysical(at[p], VersionOf[p], "active")
  /\ Goto(p, "finalize")
  /\ UNCHANGED <<row, job, snapshot, cleanup, pdf, held, at, blamed, runs, faults>>

\* activate_version: Elasticsearch first, then Milvus.
Activate(p) ==
  LET b == at[p] IN
  /\ pc[p] = "activate"
  /\ Complete(b, VersionOf[p])
  /\ SetPhysical(b, VersionOf[p], "active")
  /\ Goto(p, IF b = ES THEN "activate" ELSE "finalize")
  /\ at' = [at EXCEPT ![p] = IF b = ES THEN MILVUS ELSE ES]
  /\ UNCHANGED <<row, job, snapshot, cleanup, pdf, held, blamed, runs, faults>>

\* activate_version raises: the index is gone or incomplete, or the call fails
\* with or without having taken effect.
ActivateFails(p) ==
  LET b == at[p]
      v == VersionOf[p]
  IN
  /\ pc[p] = "activate"
  /\ \/ ~Complete(b, v) /\ UNCHANGED <<physical, faults>>
     \/ Fault /\ UNCHANGED physical
     \/ Complete(b, v) /\ Fault /\ SetPhysical(b, v, "active")
  /\ blamed' = [blamed EXCEPT ![p] = b]
  /\ at' = [at EXCEPT ![p] = ES]
  /\ Goto(p, "compensate")
  /\ UNCHANGED <<row, job, snapshot, cleanup, pdf, held, runs>>

\* finalize_indexing_success: the version becomes READY and the job SUCCEEDED in
\* one transaction.
Finalize(p) ==
  /\ pc[p] = "finalize"
  /\ Accepts(p, "READY")
  /\ MayBeReady(VersionOf[p])
  /\ row' = [row EXCEPT ![VersionOf[p]] =
               [Revised(p, "READY") EXCEPT
                  !.states = [b \in Backend |-> "READY"], !.failed = FALSE]]
  /\ SetJob(p, "SUCCEEDED")
  /\ \/ Return(p) /\ UNCHANGED faults
     \/ /\ LostFinalizeReply
        /\ Fault
        /\ Goto(p, "compensate")
        /\ UNCHANGED <<held, at, blamed>>
  /\ UNCHANGED <<snapshot, cleanup, pdf, physical, runs>>

\* The transaction is refused, or fails before it commits.
FinalizeFails(p) ==
  /\ pc[p] = "finalize"
  /\ \/ ~(Accepts(p, "READY") /\ MayBeReady(VersionOf[p])) /\ UNCHANGED faults
     \/ Fault
  /\ blamed' = [blamed EXCEPT ![p] = ES]
  /\ Goto(p, "compensate")
  /\ UNCHANGED <<row, job, snapshot, cleanup, pdf, physical, held, at, runs>>

\* Deactivating an index that is absent or incomplete leaves it as it is.
Deactivated(b, v) == IF Complete(b, v) THEN "staged" ELSE physical[b][v]

\* _compensate_deactivation: both writers, and a failure does not stop it.
Compensate(p) ==
  LET b == at[p] IN
  /\ pc[p] = "compensate"
  /\ \/ SetPhysical(b, VersionOf[p], Deactivated(b, VersionOf[p])) /\ UNCHANGED faults
     \/ Fault /\ UNCHANGED physical
  /\ Goto(p, IF b = ES THEN "compensate" ELSE "record")
  /\ at' = [at EXCEPT ![p] = IF b = ES THEN MILVUS ELSE ES]
  /\ UNCHANGED <<row, job, snapshot, cleanup, pdf, held, blamed, runs>>

\* record_indexing_failure: version and job in one transaction, or neither.
RecordFailure(p) ==
  /\ pc[p] = "record"
  /\ \/ /\ Accepts(p, "PROCESSING")
        /\ row' = [row EXCEPT ![VersionOf[p]] =
                     [Revised(p, "PROCESSING") EXCEPT
                        !.states[blamed[p]] = "FAILED", !.failed = TRUE]]
        /\ SetJob(p, "FAILED")
     \/ ~Accepts(p, "PROCESSING") /\ UNCHANGED <<row, job>>
  /\ Return(p)
  /\ UNCHANGED <<snapshot, cleanup, pdf, physical, runs, faults>>

-----------------------------------------------------------------------------
(* inactivate_and_schedule_cleanup. *)

\* Mutant: a version that is INACTIVE already is not taken up again.
FetchOnline(p) ==
  /\ pc[p] = "idle"
  /\ row[VersionOf[p]].status \notin {"ABSENT", "INACTIVE"}
  /\ held' = [held EXCEPT ![p] = row[VersionOf[p]]]
  /\ Goto(p, "inactivate")
  /\ UNCHANGED <<row, job, snapshot, cleanup, pdf, physical, at, blamed, runs, faults>>

\* The caller holds the version as it read it, INACTIVE already on a replay.
Fetch(p) ==
  LET v == VersionOf[p] IN
  /\ pc[p] = "idle"
  /\ row[v].status # "ABSENT"
  /\ held' = [held EXCEPT ![p] = row[v]]
  /\ Goto(p, IF row[v].status = "INACTIVE" THEN "deactivate" ELSE "inactivate")
  /\ UNCHANGED <<row, job, snapshot, cleanup, pdf, physical, at, blamed, runs, faults>>

Inactivate(p) ==
  /\ pc[p] = "inactivate"
  /\ Transition(p, "INACTIVE", Revised(p, "INACTIVE"), "deactivate")
  /\ UNCHANGED <<job, snapshot, cleanup, pdf, physical, runs, faults>>

\* Each side is deactivated; a failure is collected and the call goes on.
Deactivate(p) ==
  LET b == at[p] IN
  /\ pc[p] = "deactivate"
  /\ \/ SetPhysical(b, VersionOf[p], Deactivated(b, VersionOf[p])) /\ UNCHANGED faults
     \/ Fault /\ UNCHANGED physical
  /\ Goto(p, "enqueue")
  /\ UNCHANGED <<row, job, snapshot, cleanup, pdf, held, at, blamed, runs>>

\* enqueue_cleanup: only for an INACTIVE version, and an existing job, finished
\* or not, is returned as it is.
Enqueued(c, v) ==
  IF cleanup[c][v] = "none" /\ row[v].status = "INACTIVE" THEN "queued" ELSE cleanup[c][v]

EnqueueCleanup(p, c) ==
  \/ /\ cleanup' = [cleanup EXCEPT ![c][VersionOf[p]] = Enqueued(c, VersionOf[p])]
     /\ UNCHANGED faults
  \/ Fault /\ UNCHANGED cleanup

Enqueue(p) ==
  LET b == at[p] IN
  /\ pc[p] = "enqueue"
  /\ EnqueueCleanup(p, b)
  /\ Goto(p, IF b = ES THEN "deactivate" ELSE "enqueue_runtime")
  /\ at' = [at EXCEPT ![p] = IF b = ES THEN MILVUS ELSE ES]
  /\ UNCHANGED <<row, job, snapshot, pdf, physical, held, blamed, runs>>

EnqueueRuntime(p) ==
  /\ pc[p] = "enqueue_runtime"
  /\ EnqueueCleanup(p, "runtime_snapshot")
  /\ Return(p)
  /\ UNCHANGED <<row, job, snapshot, pdf, physical, runs>>

-----------------------------------------------------------------------------
(* The cleanup worker, without the leases and attempts of CleanupQueue: a job  *)
(* may delete its object several times, when leases are lost, and the last time *)
(* it succeeds. One that runs out of attempts stays queued here.                *)

Attempt(c, v) ==
  /\ cleanup[c][v] = "queued"
  /\ \/ cleanup' = [cleanup EXCEPT ![c][v] = "done"]
     \/ UNCHANGED cleanup

CleanIndex(b, v) ==
  /\ Attempt(b, v)
  /\ SetPhysical(b, v, "absent")
  /\ UNCHANGED <<row, job, snapshot, pdf, pc, held, at, blamed, runs, faults>>

\* PersistentRuntimeSnapshotCleaner finds the PDF through its registration row:
\* without a row there is nothing to delete and the job succeeds. It deletes the
\* file first, so that a purge that fails leaves the row for the next attempt.
CleanRuntime(v) ==
  /\ cleanup["runtime_snapshot"][v] = "queued"
  /\ pdf' = [pdf EXCEPT ![v] = pdf[v] /\ ~snapshot[v]]
  /\ \/ Attempt("runtime_snapshot", v) /\ snapshot' = [snapshot EXCEPT ![v] = FALSE]
     \/ UNCHANGED <<cleanup, snapshot>>
  /\ UNCHANGED <<row, job, physical, pc, held, at, blamed, runs, faults>>

\* A process dies, or an exception nobody handles ends its call.
Crash(p) ==
  /\ pc[p] # "idle"
  /\ Fault
  /\ Return(p)
  /\ UNCHANGED <<row, job, snapshot, cleanup, pdf, physical, runs>>

\* Every ingestor has used its runs and every process has returned.
Finished ==
  /\ \A p \in Ingestor : runs[p] = MaxRuns
  /\ \A p \in Process : pc[p] = "idle"
  /\ UNCHANGED vars

IngestorNext(p) ==
  \/ Begin(p) \/ Resume(p) \/ StartJob(p) \/ IngestPasses(p)
  \/ IngestNeedsReview(p) \/ FailVersion(p) \/ FailJob(p)
  \/ PutPdf(p) \/ PersistSnapshot(p)
  \/ OpenStage(p) \/ FillStage(p) \/ StageFails(p) \/ MarkStaged(p)
  \/ Activate(p) \/ ActivateFails(p) \/ Finalize(p) \/ FinalizeFails(p)
  \/ Compensate(p) \/ RecordFailure(p)

RemoverNext(p) ==
  \/ Fetch(p) \/ Inactivate(p) \/ Deactivate(p) \/ Enqueue(p) \/ EnqueueRuntime(p)

CleanerNext ==
  \E v \in Version : CleanRuntime(v) \/ \E b \in Backend : CleanIndex(b, v)

Next ==
  \/ \E p \in Ingestor : IngestorNext(p)
  \/ \E p \in Remover : RemoverNext(p)
  \/ \E p \in Process : Crash(p)
  \/ CleanerNext
  \/ Finished

Spec == Init /\ [][Next]_vars

-----------------------------------------------------------------------------
(* Fairness. *)

\* What a process does of its own accord: its own next call, and no fault.
Progress(p) == IF p \in Ingestor THEN IngestorNext(p) ELSE RemoverNext(p)

\* The operator replays a request until it is served (LOCAL_PDF_INGESTION.md)
\* and an inactivation that has begun until nothing is pending
\* (InactivationCleanupPendingError). Nothing obliges anyone to begin one.
Replays(p) ==
  \/ p \in Ingestor
  \/ p \in Remover /\ row[VersionOf[p]].status = "INACTIVE"

FairSpec ==
  /\ Spec
  /\ \A p \in Process : WF_vars(Replays(p) /\ Progress(p))

-----------------------------------------------------------------------------
(* Properties. *)

Ready(v) == row[v].status = "READY"

\* Optimistic concurrency is sound: a process whose revision still matches holds
\* the current row, so an accepted update overwrites nothing it has not seen
\* (_transition_version patches what it reads under the row lock, its callers
\* compute index_states and the next step from the row they hold).
SnapshotCoherent ==
  \A p \in Process :
    pc[p] # "idle" /\ held[p].revision = row[VersionOf[p]].revision
      => held[p] = row[VersionOf[p]]

\* The fact source never claims more than the indexes hold: a side recorded as
\* staged is complete until the version is withdrawn, whatever crashes, replays
\* and second publishers of the same version do in publish_prepared_indexes.
MarkedMeansStaged ==
  \A v \in Version, b \in Backend :
    row[v].states[b] = "READY" /\ row[v].status # "INACTIVE" => Complete(b, v)

\* A READY version can be read back: its PDF, its registration and its chunk rows
\* are there (prepare_and_persist before publish, purge only after INACTIVE).
ReadyHasSnapshot == \A v \in Version : Ready(v) => pdf[v] /\ snapshot[v]

\* Physical deletion is only ever scheduled for, and done to, a version that can
\* never be served again: enqueue_cleanup reads INACTIVE, and INACTIVE is final.
CleanupOnlyOfInactive ==
  \A c \in CleanupBackend, v \in Version :
    cleanup[c][v] # "none" => row[v].status = "INACTIVE"

-----------------------------------------------------------------------------
(* What makes them inductive. *)

\* No process is ahead of the fact source, and one that is level with it agrees
\* with it.
HeldBehind ==
  /\ \A v \in Version : row[v].status = "ABSENT" => row[v].revision = 0
  /\ \A p \in Process :
       pc[p] # "idle" =>
         /\ held[p].revision <= row[VersionOf[p]].revision
         /\ held[p].revision = row[VersionOf[p]].revision => held[p] = row[VersionOf[p]]

\* From its first update on an ingestor holds a PROCESSING row; what a remover
\* does after its update it does to an INACTIVE version.
StepKnowsStatus ==
  \A p \in Process :
    /\ pc[p] \in IngestorStep \ {"idle", "resume", "failjob"} => held[p].status = "PROCESSING"
    /\ pc[p] \in {"deactivate", "enqueue", "enqueue_runtime"} =>
         row[VersionOf[p]].status = "INACTIVE"

\* The second side is staged after the first has been recorded, and nothing is
\* activated before both have been.
StepKnowsStates ==
  \A p \in Process :
    /\ pc[p] \in {"idle", "resume", "start", "ingest", "put", "snapshot"} => at[p] = ES
    /\ pc[p] \in {"stage", "fill", "mark"} /\ at[p] = MILVUS => held[p].states[ES] = "READY"
    /\ pc[p] \in {"activate", "finalize"} => \A b \in Backend : held[p].states[b] = "READY"
    /\ pc[p] = "mark" =>
         Complete(at[p], VersionOf[p]) \/ row[VersionOf[p]].status = "INACTIVE"

\* What an ingestor has stored stays stored until the version is withdrawn.
StepHasStored ==
  \A p \in Process :
    \/ row[VersionOf[p]].status = "INACTIVE"
    \/ /\ pc[p] \in {"snapshot", "stage", "fill", "mark", "activate", "finalize"} => pdf[VersionOf[p]]
       /\ pc[p] \in {"stage", "fill", "mark", "activate", "finalize"} => snapshot[VersionOf[p]]

PublicationInv ==
  /\ TypeOK
  /\ CleanupOnlyOfInactive
  /\ HeldBehind
  /\ StepKnowsStatus
  /\ StepKnowsStates
  /\ StepHasStored
  /\ MarkedMeansStaged
  /\ ReadyHasSnapshot

-----------------------------------------------------------------------------
(* What holds of one publisher per version, and what a reader may rely on. *)

\* A READY version can be searched: both physical indexes are active in every
\* row, through crashes, compensation, replay and the removal of other versions.
ReadyIsServable == \A v \in Version, b \in Backend : Ready(v) => physical[b][v] = "active"

\* READY and SUCCEEDED go together (POSTGRESQL_FACT_SOURCE.md): no job of a READY
\* version is left PENDING, RUNNING or FAILED.
ReadyJobSucceeded ==
  \A v \in Version, k \in Key :
    Ready(v) /\ job[k].version = v => job[k].status = "SUCCEEDED"

\* One key, one version, atomically (register_version_and_ingestion_job): no
\* version row is left without a job by a registration that was rolled back.
RegisteredHasJob ==
  \A v \in Version : row[v].status # "ABSENT" => \E k \in Key : job[k].version = v

\* One ingestor works on each version, and it learns when its last commit succeeded.
OnePublisher ==
  /\ \A p, q \in Ingestor : VersionOf[p] = VersionOf[q] => p = q
  /\ LostFinalizeReply = FALSE

\* What makes these inductive. A request at work has its key bound, and a key is bound
\* to the version of a request that presented it.
KeysBound ==
  /\ \A p \in Ingestor : pc[p] # "idle" => job[KeyOf[p]].version = VersionOf[p]
  /\ \A k \in Key :
       job[k].version # Unbound =>
         \E p \in Ingestor : KeyOf[p] = k /\ VersionOf[p] = job[k].version

\* Nobody is at work on a READY version.
PublishersDone == \A p \in Ingestor : Ready(VersionOf[p]) => pc[p] = "idle"

\* What a publisher has activated stays active until the version is withdrawn.
StepHasActivated ==
  \A p \in Ingestor :
    \/ row[VersionOf[p]].status = "INACTIVE"
    \/ /\ pc[p] = "activate" /\ at[p] = MILVUS => physical[ES][VersionOf[p]] = "active"
       /\ pc[p] = "finalize" => \A b \in Backend : physical[b][VersionOf[p]] = "active"

PublisherInv ==
  /\ PublicationInv
  /\ RegisteredHasJob
  /\ KeysBound
  /\ PublishersDone
  /\ StepHasActivated
  /\ ReadyIsServable
  /\ ReadyJobSucceeded

\* After the three cleanup jobs nothing of the version is left (PROJECT_DOCUMENTATION.md).
CleanedIndexesAreGone ==
  \A v \in Version, b \in Backend : cleanup[b][v] = "done" => physical[b][v] = "absent"

CleanedSnapshotIsGone ==
  \A v \in Version :
    cleanup["runtime_snapshot"][v] = "done" => ~pdf[v] /\ ~snapshot[v]

\* What the subsystem promises its readers: the versions with both indexes active
\* and a stored snapshot behind a READY row appear one per document, all at once,
\* and leave once, for good.
Servable ==
  {v \in Version : Ready(v) /\ pdf[v] /\ snapshot[v]
                     /\ \A b \in Backend : physical[b][v] = "active"}

Visibility == INSTANCE VersionVisibility WITH
  visible <- Servable,
  retired <- {v \in Version : row[v].status = "INACTIVE"}

ImplementsVisibility == Visibility!Spec

\* A request that is replayed until it passes is served in the end, unless the
\* version is withdrawn: no crash or failure leaves a version that a replay of the
\* same request cannot bring to READY.
ReplayConverges ==
  \A p \in Ingestor : <>(row[VersionOf[p]].status \in {"READY", "INACTIVE"})

\* Once INACTIVE is committed, all three cleanup jobs are queued in the end, though
\* the call that committed it crashed or had its calls fail. (CleanupQueue shows
\* that a queued job ends.)
InactivationCompletes ==
  \A v \in Version, c \in CleanupBackend :
    row[v].status = "INACTIVE" ~> cleanup[c][v] # "none"

=============================================================================
