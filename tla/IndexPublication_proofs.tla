---------------------- MODULE IndexPublication_proofs ----------------------
(***************************************************************************)
(* Theorems about IndexPublication, for any number of versions, keys,      *)
(* ingestors, removers and faults; and what it guarantees beyond these     *)
(* when every version has one publisher, which learns of its last commit:  *)
(* READY versions are servable, their jobs have succeeded, and readers see *)
(* what VersionVisibility promises.                                        *)
(***************************************************************************)
EXTENDS IndexPublication, TLAPS

\* A row stays a row when its fields are given values of their types.
LEMMA RowEdits ==
  ASSUME NEW r \in Row
  PROVE  /\ \A f \in BOOLEAN : [r EXCEPT !.failed = f] \in Row
         /\ \A c, f \in BOOLEAN : [r EXCEPT !.chunked = c, !.failed = f] \in Row
         /\ \A b \in Backend, i \in IndexState, f \in BOOLEAN :
              [r EXCEPT !.states[b] = i, !.failed = f] \in Row
         /\ \A t \in [Backend -> IndexState], f \in BOOLEAN :
              [r EXCEPT !.states = t, !.failed = f] \in Row
  BY DEF Row

LEMMA BackendTypes == ES \in Backend /\ MILVUS \in Backend /\ ES # MILVUS
  BY DEF ES, MILVUS, Backend

LEMMA RevisedType ==
  ASSUME TypeOK, NEW p \in Process, NEW s \in LifecycleStatus
  PROVE  Revised(p, s) \in Row
  <1>1. row[VersionOf[p]] \in Row
    BY ConstantsAssumption DEF TypeOK
  <1>2. row[VersionOf[p]].revision + 1 \in Nat
    BY <1>1 DEF Row
  <1> QED
    BY <1>1, <1>2 DEF Revised, Row

LEMMA InitType == Init => TypeOK
  BY ConstantsAssumption DEF Init, TypeOK, NoRow, Row, Job, LifecycleStatus, IndexState,
     CleanupStatus, JobStatus, Physical, IngestorStep, RemoverStep, Backend, CleanupBackend, ES

\* What the parts of the actions leave typed.
LEMMA ReturnType ==
  ASSUME TypeOK, NEW p \in Process, Return(p)
  PROVE  /\ pc' \in [Process -> IngestorStep \cup RemoverStep]
         /\ held' \in [Process -> Row]
         /\ at' \in [Process -> Backend]
         /\ blamed' \in [Process -> Backend]
  <1>1. NoRow \in Row
    BY DEF NoRow, Row, LifecycleStatus, IndexState
  <1> QED
    BY <1>1, BackendTypes DEF TypeOK, Return, Goto, IngestorStep

LEMMA TransitionType ==
  ASSUME TypeOK, NEW p \in Process, NEW target, NEW new \in Row,
         NEW step \in IngestorStep \cup RemoverStep, Transition(p, target, new, step)
  PROVE  /\ row' \in [Version -> Row]
         /\ pc' \in [Process -> IngestorStep \cup RemoverStep]
         /\ held' \in [Process -> Row]
         /\ at' \in [Process -> Backend]
         /\ blamed' \in [Process -> Backend]
  <1>1. CASE Accepts(p, target)
    <2>1. Commit(p, new) /\ Goto(p, step) /\ UNCHANGED <<at, blamed>>
      BY <1>1 DEF Transition
    <2> QED
      BY <2>1 DEF TypeOK, Commit, Goto
  <1>2. CASE ~Accepts(p, target)
    BY <1>2, ReturnType DEF TypeOK, Transition
  <1> QED
    BY <1>1, <1>2

LEMMA SetJobType ==
  ASSUME TypeOK, NEW p \in Ingestor, NEW s \in JobStatus, SetJob(p, s)
  PROVE  job' \in [Key -> Job]
  BY ConstantsAssumption DEF TypeOK, SetJob, Job

LEMMA SetPhysicalType ==
  ASSUME TypeOK, NEW b \in Backend, NEW v \in Version, NEW s \in Physical,
         SetPhysical(b, v, s)
  PROVE  physical' \in [Backend -> [Version -> Physical]]
  BY DEF TypeOK, SetPhysical

LEMMA CleanupType ==
  ASSUME TypeOK, NEW c \in CleanupBackend, NEW v \in Version, NEW s \in CleanupStatus,
         cleanup' = [cleanup EXCEPT ![c][v] = s]
  PROVE  cleanup' \in [CleanupBackend -> [Version -> CleanupStatus]]
  BY DEF TypeOK

LEMMA TypeFacts ==
  ASSUME TypeOK, NEW p \in Process
  PROVE  /\ VersionOf[p] \in Version
         /\ row[VersionOf[p]] \in Row
         /\ at[p] \in Backend
         /\ physical[at[p]][VersionOf[p]] \in Physical
  BY ConstantsAssumption DEF TypeOK

LEMMA RegisteredType == RegisteredRow \in Row
  BY DEF RegisteredRow, NoRow, Row, LifecycleStatus, IndexState

\* Every step preserves the types.
LEMMA TypeStep == TypeOK /\ [Next]_vars => TypeOK'
  <1> SUFFICES ASSUME TypeOK, [Next]_vars PROVE TypeOK'
    OBVIOUS
  <1> USE BackendTypes, ConstantsAssumption
  <1>a. Ingestor \subseteq Process /\ Remover \subseteq Process
    BY DEF Process
  <1>b. {"idle", "resume", "start", "ingest", "put", "snapshot", "stage", "fill", "mark",
         "activate", "finalize", "compensate", "record", "failjob"} \subseteq IngestorStep
    BY DEF IngestorStep
  <1>c. {"inactivate", "deactivate", "enqueue", "enqueue_runtime"} \subseteq RemoverStep
    BY DEF RemoverStep
  <1>d. {"REGISTERED", "PROCESSING", "REVIEW", "READY", "FAILED", "INACTIVE"}
          \subseteq LifecycleStatus
    BY DEF LifecycleStatus
  <1>e. {"READY", "FAILED"} \subseteq IndexState /\ {"RUNNING", "SUCCEEDED", "FAILED"} \subseteq JobStatus
    BY DEF IndexState, JobStatus
  <1>f. {"absent", "partial", "staged", "active"} \subseteq Physical
    BY DEF Physical
  <1>g. \A p \in Process, q \in LifecycleStatus : Revised(p, q) \in Row
    BY RevisedType
  <1>1. ASSUME NEW p \in Ingestor, Begin(p) PROVE TypeOK'
    <2>1. Registered(VersionOf[p]) \in Row /\ VersionOf[p] \in Version /\ KeyOf[p] \in Key
      BY <1>a, RegisteredType, TypeFacts DEF Registered
    <2>2. CASE ~Bindable(p)
      BY <1>1, <2>2 DEF TypeOK, Begin
    <2>3. CASE Bindable(p)
      <3> DEFINE found == Registered(VersionOf[p])
      <3>0. /\ row' = [row EXCEPT ![VersionOf[p]] = found]
            /\ job' = [job EXCEPT ![KeyOf[p]].version = VersionOf[p]]
            /\ \/ UNCHANGED <<pc, held>>
               \/ /\ held' = [held EXCEPT ![p] = found]
                  /\ Goto(p, IF found.status = "PROCESSING" THEN "start" ELSE "resume")
        BY <1>1, <2>3 DEF Begin
      <3> HIDE DEF found
      <3>1. row' \in [Version -> Row]
        BY <2>1, <3>0 DEF TypeOK, found
      <3>2. job' \in [Key -> Job]
        BY <2>1, <3>0, ZenonT(30) DEF TypeOK, Job
      <3>3. pc' \in [Process -> IngestorStep \cup RemoverStep]
        BY <1>a, <1>b, <3>0 DEF TypeOK, Goto
      <3>4. held' \in [Process -> Row]
        BY <2>1, <3>0 DEF TypeOK, found
      <3>5. runs' \in [Ingestor -> Nat]
        BY <1>1 DEF TypeOK, Begin
      <3> QED
        BY <1>1, <3>1, <3>2, <3>3, <3>4, <3>5 DEF TypeOK, Begin
    <2> QED
      BY <2>2, <2>3
  <1>2. ASSUME NEW p \in Ingestor, Resume(p) PROVE TypeOK'
    <2>1. Revised(p, "PROCESSING") \in Row
      BY <1>a, <1>d, <1>g
    <2>2. [Revised(p, "PROCESSING") EXCEPT !.failed = FALSE] \in Row
      BY <2>1, RowEdits
    <2> QED
      BY <1>a, <1>b, <1>c, <1>2, <2>2, TransitionType DEF TypeOK, Resume
  <1>3. ASSUME NEW p \in Ingestor, StartJob(p) PROVE TypeOK'
    BY <1>a, <1>b, <1>e, <1>3, SetJobType DEF TypeOK, StartJob, Goto
  <1>4. ASSUME NEW p \in Ingestor, IngestPasses(p) PROVE TypeOK'
    <2>1. Revised(p, "PROCESSING") \in Row
      BY <1>a, <1>d, <1>g
    <2>2. [Revised(p, "PROCESSING") EXCEPT !.chunked = TRUE, !.failed = FALSE] \in Row
      BY <2>1, RowEdits
    <2> QED
      BY <1>a, <1>b, <1>c, <1>4, <2>2, TransitionType DEF TypeOK, IngestPasses
  <1>5. ASSUME NEW p \in Ingestor, IngestNeedsReview(p) PROVE TypeOK'
    <2>1. Revised(p, "REVIEW") \in Row
      BY <1>a, <1>d, <1>g
    <2>2. [Revised(p, "REVIEW") EXCEPT !.chunked = TRUE, !.failed = FALSE] \in Row
      BY <2>1, RowEdits
    <2>3. faults' \in Nat
      BY <1>5 DEF TypeOK, IngestNeedsReview, Fault
    <2> QED
      BY <1>a, <1>b, <1>5, <2>2, <2>3, TransitionType DEF TypeOK, IngestNeedsReview
  <1>6. ASSUME NEW p \in Ingestor, FailVersion(p) PROVE TypeOK'
    <2>1. Revised(p, "FAILED") \in Row
      BY <1>a, <1>d, <1>g
    <2>2. [Revised(p, "FAILED") EXCEPT !.failed = TRUE] \in Row
      BY <2>1, RowEdits
    <2>3. faults' \in Nat
      BY <1>6 DEF TypeOK, FailVersion, Fault
    <2> QED
      BY <1>a, <1>b, <1>6, <2>2, <2>3, TransitionType DEF TypeOK, FailVersion
  <1>7. ASSUME NEW p \in Ingestor, FailJob(p) PROVE TypeOK'
    BY <1>a, <1>e, <1>7, SetJobType, ReturnType DEF TypeOK, FailJob
  <1>8. ASSUME NEW p \in Ingestor, PutPdf(p) PROVE TypeOK'
    BY <1>a, <1>b, <1>8, TypeFacts DEF TypeOK, PutPdf, Goto
  <1>9. ASSUME NEW p \in Ingestor, PersistSnapshot(p) PROVE TypeOK'
    BY <1>a, <1>b, <1>9, TypeFacts DEF TypeOK, PersistSnapshot, Goto
  <1>10. ASSUME NEW p \in Ingestor, OpenStage(p) PROVE TypeOK'
    BY <1>a, <1>b, <1>f, <1>10, TypeFacts, SetPhysicalType DEF TypeOK, OpenStage, Goto
  <1>11. ASSUME NEW p \in Ingestor, FillStage(p) PROVE TypeOK'
    BY <1>a, <1>b, <1>f, <1>11, TypeFacts, SetPhysicalType DEF TypeOK, FillStage, Goto
  <1>12. ASSUME NEW p \in Ingestor, StageFails(p) PROVE TypeOK'
    BY <1>a, <1>b, <1>f, <1>12, TypeFacts, SetPhysicalType DEF TypeOK, StageFails, Goto, Fault
  <1>13. ASSUME NEW p \in Ingestor, MarkStaged(p) PROVE TypeOK'
    <2> DEFINE new == [Revised(p, "PROCESSING") EXCEPT !.states[at[p]] = "READY", !.failed = FALSE]
    <2>1. new \in Row
      <3>1. Revised(p, "PROCESSING") \in Row /\ at[p] \in Backend
        BY <1>a, <1>d, <1>g, TypeFacts
      <3> QED
        BY <1>e, <3>1, RowEdits
    <2>2. CASE Accepts(p, "PROCESSING")
      <3>1. Commit(p, new)
        BY <1>13, <2>2 DEF MarkStaged
      <3>2. pc' \in [Process -> IngestorStep \cup RemoverStep]
        BY <1>a, <1>b, <1>13, <2>2 DEF TypeOK, MarkStaged, Goto
      <3>3. at' \in [Process -> Backend] /\ UNCHANGED blamed
        BY <1>a, <1>13, <2>2 DEF TypeOK, MarkStaged
      <3> QED
        BY <1>13, <2>1, <3>1, <3>2, <3>3 DEF TypeOK, MarkStaged, Commit
    <2>3. CASE ~Accepts(p, "PROCESSING")
      BY <1>a, <1>13, <2>3, ReturnType DEF TypeOK, MarkStaged
    <2> QED
      BY <2>2, <2>3
  <1>14. ASSUME NEW p \in Ingestor, Activate(p) PROVE TypeOK'
    BY <1>a, <1>b, <1>f, <1>14, TypeFacts, SetPhysicalType DEF TypeOK, Activate, Goto
  <1>15. ASSUME NEW p \in Ingestor, ActivateFails(p) PROVE TypeOK'
    BY <1>a, <1>b, <1>f, <1>15, TypeFacts, SetPhysicalType DEF TypeOK, ActivateFails, Goto, Fault
  <1>16. ASSUME NEW p \in Ingestor, Finalize(p) PROVE TypeOK'
    <2>1. [Revised(p, "READY") EXCEPT !.states = [b \in Backend |-> "READY"], !.failed = FALSE] \in Row
      <3>1. [b \in Backend |-> "READY"] \in [Backend -> IndexState]
        BY <1>e
      <3> QED
        BY <1>a, <1>d, <1>g, <3>1, RowEdits
    <2>2. row' \in [Version -> Row]
      BY <1>16, <2>1 DEF TypeOK, Finalize
    <2>3. job' \in [Key -> Job]
      BY <1>16, <1>e, SetJobType DEF Finalize
    <2>4. CASE Return(p) /\ UNCHANGED faults
      BY <1>a, <1>16, <2>2, <2>3, <2>4, ReturnType DEF TypeOK, Finalize
    <2>5. CASE Fault /\ Goto(p, "compensate") /\ UNCHANGED <<held, at, blamed>>
      BY <1>a, <1>b, <1>16, <2>2, <2>3, <2>5 DEF TypeOK, Finalize, Fault, Goto
    <2> QED
      BY <1>16, <2>4, <2>5 DEF Finalize
  <1>17. ASSUME NEW p \in Ingestor, FinalizeFails(p) PROVE TypeOK'
    BY <1>a, <1>b, <1>17 DEF TypeOK, FinalizeFails, Goto, Fault
  <1>18. ASSUME NEW p \in Ingestor, Compensate(p) PROVE TypeOK'
    BY <1>a, <1>b, <1>f, <1>18, TypeFacts, SetPhysicalType DEF TypeOK, Compensate, Goto, Fault, Deactivated
  <1>19. ASSUME NEW p \in Ingestor, RecordFailure(p) PROVE TypeOK'
    <2> DEFINE new == [Revised(p, "PROCESSING") EXCEPT !.states[blamed[p]] = "FAILED", !.failed = TRUE]
    <2>1. new \in Row
      <3>1. Revised(p, "PROCESSING") \in Row /\ blamed[p] \in Backend
        BY <1>a, <1>d, <1>g DEF TypeOK
      <3> QED
        BY <1>e, <3>1, RowEdits
    <2>2. row' \in [Version -> Row]
      BY <1>19, <2>1 DEF TypeOK, RecordFailure
    <2>3. job' \in [Key -> Job]
      BY <1>19, <1>e, SetJobType DEF TypeOK, RecordFailure
    <2> QED
      BY <1>a, <1>19, <2>2, <2>3, ReturnType DEF TypeOK, RecordFailure
  <1>20. ASSUME NEW p \in Remover, Fetch(p) PROVE TypeOK'
    BY <1>a, <1>c, <1>20, TypeFacts DEF TypeOK, Fetch, Goto
  <1>21. ASSUME NEW p \in Remover, Inactivate(p) PROVE TypeOK'
    <2>1. Revised(p, "INACTIVE") \in Row
      BY <1>a, <1>d, <1>g
    <2> QED
      BY <1>a, <1>c, <1>21, <2>1, TransitionType DEF TypeOK, Inactivate
  <1>22. ASSUME NEW p \in Remover, Deactivate(p) PROVE TypeOK'
    BY <1>a, <1>c, <1>b, <1>f, <1>22, TypeFacts, SetPhysicalType DEF TypeOK, Deactivate, Goto, Fault, Deactivated
  <1>23. ASSUME NEW p \in Process, NEW c \in CleanupBackend, EnqueueCleanup(p, c) 
          PROVE  cleanup' \in [CleanupBackend -> [Version -> CleanupStatus]] /\ faults' \in Nat
    <2>1. VersionOf[p] \in Version
      BY TypeFacts
    <2>2. Enqueued(c, VersionOf[p]) \in CleanupStatus
      BY <2>1 DEF TypeOK, Enqueued, CleanupStatus
    <2>3. CASE cleanup' = [cleanup EXCEPT ![c][VersionOf[p]] = Enqueued(c, VersionOf[p])]
      BY <1>23, <2>1, <2>2, <2>3, CleanupType DEF TypeOK, EnqueueCleanup, Fault
    <2> QED
      BY <1>23, <2>3 DEF TypeOK, EnqueueCleanup, Fault
  <1>24. ASSUME NEW p \in Remover, Enqueue(p) PROVE TypeOK'
    BY <1>a, <1>b, <1>c, <1>24, <1>23 DEF TypeOK, Enqueue, Goto, CleanupBackend
  <1>25. ASSUME NEW p \in Remover, EnqueueRuntime(p) PROVE TypeOK'
    BY <1>a, <1>25, <1>23, ReturnType DEF TypeOK, EnqueueRuntime, CleanupBackend
  <1>26. ASSUME NEW p \in Process, Crash(p) PROVE TypeOK'
    BY <1>26, ReturnType DEF TypeOK, Crash, Fault
  <1>27. ASSUME NEW c \in CleanupBackend, NEW v \in Version, Attempt(c, v)
          PROVE  cleanup' \in [CleanupBackend -> [Version -> CleanupStatus]]
    BY <1>27, CleanupType DEF TypeOK, Attempt, CleanupStatus
  <1>28. ASSUME NEW v \in Version, CleanRuntime(v) PROVE TypeOK'
    <2>1. pdf' \in [Version -> BOOLEAN]
      <3>1. (pdf[v] /\ ~snapshot[v]) \in BOOLEAN
        OBVIOUS
      <3> QED
        BY <1>28, <3>1 DEF TypeOK, CleanRuntime
    <2> QED
      BY <1>28, <1>27, <2>1 DEF TypeOK, CleanRuntime, CleanupBackend
  <1>29. ASSUME NEW v \in Version, NEW b \in Backend, CleanIndex(b, v) PROVE TypeOK'
    BY <1>29, <1>f, <1>27, SetPhysicalType DEF TypeOK, CleanIndex, CleanupBackend
  <1>30. ASSUME Finished PROVE TypeOK'
    BY <1>30 DEF TypeOK, Finished, vars
  <1>31. ASSUME UNCHANGED vars PROVE TypeOK'
    BY <1>31 DEF TypeOK, vars
  <1> QED
    BY <1>1, <1>2, <1>3, <1>4, <1>5, <1>6, <1>7, <1>8, <1>9, <1>10, <1>11, <1>12, <1>13, <1>14, <1>15, <1>16, <1>17, <1>18, <1>19, <1>20, <1>21, <1>22, <1>23, <1>24, <1>25, <1>26, <1>27, <1>28, <1>29, <1>30, <1>31
       DEF Next, IngestorNext, RemoverNext, CleanerNext

\* Type correctness: the rows, jobs and indexes only ever take the values the
\* tables and the writers allow.
THEOREM TypeCorrect == Spec => []TypeOK
  BY InitType, TypeStep, PTL DEF Spec

-----------------------------------------------------------------------------
(* What a step does to the fact source. *)

\* A row appears REGISTERED, or takes an allowed transition and a new revision.
RowStep(v) ==
  \/ row'[v] = row[v]
  \/ row[v].status = "ABSENT" /\ row'[v] = RegisteredRow
  \/ /\ row'[v].revision = row[v].revision + 1
     /\ \/ row'[v].status \in AllowedTransitions[row[v].status]
        \/ row[v].status = "PROCESSING" /\ row'[v].status = "PROCESSING"

LEMMA RevisedFields ==
  ASSUME TypeOK, NEW p \in Process, NEW s
  PROVE  LET r == Revised(p, s)
             c == row[VersionOf[p]]
         IN  /\ r.status = s /\ r.revision = c.revision + 1
             /\ r.states = c.states /\ r.chunked = c.chunked /\ r.failed = c.failed
  BY TypeFacts DEF Revised, Row

\* An update that is accepted is a RowStep of its version and of no other.
LEMMA AcceptedRowStep ==
  ASSUME TypeOK, NEW p \in Process, NEW s, NEW new, Accepts(p, s),
         new.status = s, new.revision = row[VersionOf[p]].revision + 1,
         row' = [row EXCEPT ![VersionOf[p]] = new]
  PROVE  \A v \in Version : RowStep(v)
  <1> SUFFICES ASSUME NEW v \in Version PROVE RowStep(v)
    OBVIOUS
  <1>1. CASE v = VersionOf[p]
    BY <1>1, TypeFacts DEF TypeOK, Accepts, RowStep
  <1>2. CASE v # VersionOf[p]
    BY <1>2, TypeFacts DEF TypeOK, RowStep
  <1> QED
    BY <1>1, <1>2

LEMMA TransitionRowStep ==
  ASSUME TypeOK, NEW p \in Process, NEW s, NEW new, NEW step, Transition(p, s, new, step),
         new.status = s, new.revision = row[VersionOf[p]].revision + 1
  PROVE  \A v \in Version : RowStep(v)
  <1>1. CASE Accepts(p, s)
    <2>1. row' = [row EXCEPT ![VersionOf[p]] = new]
      BY <1>1 DEF Transition, Commit
    <2> QED
      BY <1>1, <2>1, AcceptedRowStep
  <1>2. CASE ~Accepts(p, s)
    BY <1>2 DEF Transition, RowStep
  <1> QED
    BY <1>1, <1>2

LEMMA RowSteps == TypeOK /\ [Next]_vars => \A v \in Version : RowStep(v)
  <1> SUFFICES ASSUME TypeOK, [Next]_vars PROVE \A v \in Version : RowStep(v)
    OBVIOUS
  <1>a. Ingestor \subseteq Process /\ Remover \subseteq Process
    BY DEF Process
  <1>1. ASSUME NEW p \in Ingestor, Begin(p) PROVE \A v \in Version : RowStep(v)
    <2> SUFFICES ASSUME NEW v \in Version PROVE RowStep(v)
      OBVIOUS
    <2>1. \/ row' = row
          \/ row' = [row EXCEPT ![VersionOf[p]] = Registered(VersionOf[p])]
      BY <1>1 DEF Begin
    <2> QED
      BY <1>a, <2>1, TypeFacts DEF TypeOK, Registered, RowStep
  <1>2. ASSUME NEW p \in Ingestor, Resume(p) PROVE \A v \in Version : RowStep(v)
    <2> DEFINE new == [Revised(p, "PROCESSING") EXCEPT !.failed = FALSE]
    <2>1. new.status = "PROCESSING" /\ new.revision = row[VersionOf[p]].revision + 1
      <3>1. Revised(p, "PROCESSING") \in Row
        BY <1>a, RevisedType DEF LifecycleStatus
      <3> QED
        BY <1>a, <3>1, RevisedFields DEF Row
    <2> QED
      BY <1>a, <1>2, <2>1, TransitionRowStep DEF Resume
  <1>3. ASSUME NEW p \in Ingestor, StartJob(p) PROVE \A v \in Version : RowStep(v)
    BY <1>3 DEF StartJob, RowStep
  <1>4. ASSUME NEW p \in Ingestor, IngestPasses(p) PROVE \A v \in Version : RowStep(v)
    <2> DEFINE new == [Revised(p, "PROCESSING") EXCEPT !.chunked = TRUE, !.failed = FALSE]
    <2>1. new.status = "PROCESSING" /\ new.revision = row[VersionOf[p]].revision + 1
      <3>1. Revised(p, "PROCESSING") \in Row
        BY <1>a, RevisedType DEF LifecycleStatus
      <3> QED
        BY <1>a, <3>1, RevisedFields DEF Row
    <2> QED
      BY <1>a, <1>4, <2>1, TransitionRowStep DEF IngestPasses
  <1>5. ASSUME NEW p \in Ingestor, IngestNeedsReview(p) PROVE \A v \in Version : RowStep(v)
    <2> DEFINE new == [Revised(p, "REVIEW") EXCEPT !.chunked = TRUE, !.failed = FALSE]
    <2>1. new.status = "REVIEW" /\ new.revision = row[VersionOf[p]].revision + 1
      <3>1. Revised(p, "REVIEW") \in Row
        BY <1>a, RevisedType DEF LifecycleStatus
      <3> QED
        BY <1>a, <3>1, RevisedFields DEF Row
    <2> QED
      BY <1>a, <1>5, <2>1, TransitionRowStep DEF IngestNeedsReview
  <1>6. ASSUME NEW p \in Ingestor, FailVersion(p) PROVE \A v \in Version : RowStep(v)
    <2> DEFINE new == [Revised(p, "FAILED") EXCEPT !.failed = TRUE]
    <2>1. new.status = "FAILED" /\ new.revision = row[VersionOf[p]].revision + 1
      <3>1. Revised(p, "FAILED") \in Row
        BY <1>a, RevisedType DEF LifecycleStatus
      <3> QED
        BY <1>a, <3>1, RevisedFields DEF Row
    <2> QED
      BY <1>a, <1>6, <2>1, TransitionRowStep DEF FailVersion
  <1>7. ASSUME NEW p \in Ingestor, FailJob(p) PROVE \A v \in Version : RowStep(v)
    BY <1>7 DEF FailJob, RowStep
  <1>8. ASSUME NEW p \in Ingestor, PutPdf(p) PROVE \A v \in Version : RowStep(v)
    BY <1>8 DEF PutPdf, RowStep
  <1>9. ASSUME NEW p \in Ingestor, PersistSnapshot(p) PROVE \A v \in Version : RowStep(v)
    BY <1>9 DEF PersistSnapshot, RowStep
  <1>10. ASSUME NEW p \in Ingestor, OpenStage(p) PROVE \A v \in Version : RowStep(v)
    BY <1>10 DEF OpenStage, RowStep
  <1>11. ASSUME NEW p \in Ingestor, FillStage(p) PROVE \A v \in Version : RowStep(v)
    BY <1>11 DEF FillStage, RowStep
  <1>12. ASSUME NEW p \in Ingestor, StageFails(p) PROVE \A v \in Version : RowStep(v)
    BY <1>12 DEF StageFails, RowStep
  <1>13. ASSUME NEW p \in Ingestor, MarkStaged(p) PROVE \A v \in Version : RowStep(v)
    <2> DEFINE new == [Revised(p, "PROCESSING") EXCEPT !.states[at[p]] = "READY", !.failed = FALSE]
    <2>1. new.status = "PROCESSING" /\ new.revision = row[VersionOf[p]].revision + 1
      <3>1. Revised(p, "PROCESSING") \in Row
        BY <1>a, RevisedType DEF LifecycleStatus
      <3> QED
        BY <1>a, <3>1, RevisedFields DEF Row
    <2>2. CASE Accepts(p, "PROCESSING")
      BY <1>a, <1>13, <2>1, <2>2, AcceptedRowStep DEF MarkStaged, Commit
    <2>3. CASE ~Accepts(p, "PROCESSING")
      BY <1>13, <2>3 DEF MarkStaged, RowStep
    <2> QED
      BY <2>2, <2>3
  <1>14. ASSUME NEW p \in Ingestor, Activate(p) PROVE \A v \in Version : RowStep(v)
    BY <1>14 DEF Activate, RowStep
  <1>15. ASSUME NEW p \in Ingestor, ActivateFails(p) PROVE \A v \in Version : RowStep(v)
    BY <1>15 DEF ActivateFails, RowStep
  <1>16. ASSUME NEW p \in Ingestor, Finalize(p) PROVE \A v \in Version : RowStep(v)
    <2> DEFINE new == [Revised(p, "READY") EXCEPT !.states = [b \in Backend |-> "READY"], !.failed = FALSE]
    <2>1. new.status = "READY" /\ new.revision = row[VersionOf[p]].revision + 1
      <3>1. Revised(p, "READY") \in Row
        BY <1>a, RevisedType DEF LifecycleStatus
      <3> QED
        BY <1>a, <3>1, RevisedFields DEF Row
    <2> QED
      BY <1>a, <1>16, <2>1, AcceptedRowStep DEF Finalize
  <1>17. ASSUME NEW p \in Ingestor, FinalizeFails(p) PROVE \A v \in Version : RowStep(v)
    BY <1>17 DEF FinalizeFails, RowStep
  <1>18. ASSUME NEW p \in Ingestor, Compensate(p) PROVE \A v \in Version : RowStep(v)
    BY <1>18 DEF Compensate, RowStep
  <1>19. ASSUME NEW p \in Ingestor, RecordFailure(p) PROVE \A v \in Version : RowStep(v)
    <2> DEFINE new == [Revised(p, "PROCESSING") EXCEPT !.states[blamed[p]] = "FAILED", !.failed = TRUE]
    <2>1. new.status = "PROCESSING" /\ new.revision = row[VersionOf[p]].revision + 1
      <3>1. Revised(p, "PROCESSING") \in Row
        BY <1>a, RevisedType DEF LifecycleStatus
      <3> QED
        BY <1>a, <3>1, RevisedFields DEF Row
    <2>2. CASE Accepts(p, "PROCESSING")
      BY <1>a, <1>19, <2>1, <2>2, AcceptedRowStep DEF RecordFailure
    <2>3. CASE ~Accepts(p, "PROCESSING")
      BY <1>19, <2>3 DEF RecordFailure, RowStep
    <2> QED
      BY <2>2, <2>3
  <1>20. ASSUME NEW p \in Remover, Fetch(p) PROVE \A v \in Version : RowStep(v)
    BY <1>20 DEF Fetch, RowStep
  <1>21. ASSUME NEW p \in Remover, Inactivate(p) PROVE \A v \in Version : RowStep(v)
    <2> DEFINE new == Revised(p, "INACTIVE")
    <2>1. new.status = "INACTIVE" /\ new.revision = row[VersionOf[p]].revision + 1
      <3>1. Revised(p, "INACTIVE") \in Row
        BY <1>a, RevisedType DEF LifecycleStatus
      <3> QED
        BY <1>a, <3>1, RevisedFields DEF Row
    <2> QED
      BY <1>a, <1>21, <2>1, TransitionRowStep DEF Inactivate
  <1>22. ASSUME NEW p \in Remover, Deactivate(p) PROVE \A v \in Version : RowStep(v)
    BY <1>22 DEF Deactivate, RowStep
  <1>23. ASSUME NEW p \in Remover, Enqueue(p) PROVE \A v \in Version : RowStep(v)
    BY <1>23 DEF Enqueue, RowStep
  <1>24. ASSUME NEW p \in Remover, EnqueueRuntime(p) PROVE \A v \in Version : RowStep(v)
    BY <1>24 DEF EnqueueRuntime, RowStep
  <1>25. ASSUME NEW p \in Process, Crash(p) PROVE \A v \in Version : RowStep(v)
    BY <1>25 DEF Crash, RowStep
  <1>26. ASSUME NEW u \in Version, CleanRuntime(u) PROVE \A v \in Version : RowStep(v)
    BY <1>26 DEF CleanRuntime, RowStep
  <1>27. ASSUME NEW u \in Version, NEW b \in Backend, CleanIndex(b, u) PROVE \A v \in Version : RowStep(v)
    BY <1>27 DEF CleanIndex, RowStep
  <1>28. ASSUME Finished PROVE \A v \in Version : RowStep(v)
    BY <1>28 DEF Finished, vars, RowStep
  <1>29. ASSUME UNCHANGED vars PROVE \A v \in Version : RowStep(v)
    BY <1>29 DEF vars, RowStep
  <1> QED
    BY <1>1, <1>2, <1>3, <1>4, <1>5, <1>6, <1>7, <1>8, <1>9, <1>10, <1>11, <1>12, <1>13, <1>14, <1>15, <1>16, <1>17, <1>18, <1>19, <1>20, <1>21, <1>22, <1>23, <1>24, <1>25, <1>26, <1>27, <1>28, <1>29
       DEF Next, IngestorNext, RemoverNext, CleanerNext

\* INACTIVE is final: no registration, resumption, publication or compensation
\* brings a withdrawn version back.
LEMMA InactiveStays ==
  ASSUME TypeOK, [Next]_vars, NEW v \in Version, row[v].status = "INACTIVE"
  PROVE  row'[v].status = "INACTIVE"
  <1>1. AllowedTransitions["INACTIVE"] = {}
    BY DEF AllowedTransitions
  <1> QED
    BY <1>1, RowSteps DEF RowStep

-----------------------------------------------------------------------------
(* Registration: what a step does to the jobs, and where rows come from. *)

\* A job changes by a registration, which binds its key, or by a request at work.
JobStep(k) ==
  \/ job'[k] = job[k]
  \/ \E p \in Ingestor :
       /\ KeyOf[p] = k /\ pc[p] = "idle" /\ Bindable(p)
       /\ job'[k].version = VersionOf[p] /\ job'[k].status = job[k].status
  \/ \E p \in Ingestor :
       KeyOf[p] = k /\ pc[p] # "idle" /\ job'[k].version = job[k].version

\* A row appears, and a request gets to work, with the key bound to the version.
RegistrationStep ==
  /\ \A k \in Key : JobStep(k)
  /\ \A v \in Version :
       row[v].status = "ABSENT" =>
         row'[v] = row[v] \/ \E p \in Ingestor : job'[KeyOf[p]].version = v
  /\ \A p \in Ingestor :
       pc[p] = "idle" /\ pc'[p] # "idle" =>
         /\ job'[KeyOf[p]].version = VersionOf[p]
         /\ row'[VersionOf[p]].status \notin {"READY", "INACTIVE"}

LEMMA SetJobStep ==
  ASSUME TypeOK, NEW p \in Ingestor, NEW status, SetJob(p, status), pc[p] # "idle"
  PROVE  \A k \in Key : JobStep(k)
  BY ConstantsAssumption DEF TypeOK, Job, SetJob, JobStep

\* A process that is at work and neither registers nor appears.
LEMMA AtWorkRegisters ==
  ASSUME TypeOK, NEW p \in Process, pc[p] # "idle",
         \A q \in Process \ {p} : pc'[q] = pc[q],
         \A k \in Key : JobStep(k),
         \A v \in Version : row[v].status = "ABSENT" => row'[v] = row[v]
  PROVE  RegistrationStep
  BY DEF Process, RegistrationStep

LEMMA AcceptsPresent ==
  ASSUME TypeOK, NEW p \in Process, NEW s, NEW new, Accepts(p, s),
         row' = [row EXCEPT ![VersionOf[p]] = new]
  PROVE  \A v \in Version : row[v].status = "ABSENT" => row'[v] = row[v]
  <1>1. AllowedTransitions["ABSENT"] = {}
    BY DEF AllowedTransitions
  <1> QED
    BY <1>1, TypeFacts DEF TypeOK, Accepts

LEMMA TransitionRegisters ==
  ASSUME TypeOK, NEW p \in Process, NEW s, NEW new, NEW step, Transition(p, s, new, step),
         pc[p] # "idle", UNCHANGED job
  PROVE  RegistrationStep
  <1>1. \A q \in Process \ {p} : pc'[q] = pc[q]
    BY DEF TypeOK, Transition, Return, Goto
  <1>2. \A v \in Version : row[v].status = "ABSENT" => row'[v] = row[v]
    BY AcceptsPresent DEF Transition, Commit
  <1>3. \A k \in Key : JobStep(k)
    BY DEF JobStep
  <1> QED
    BY <1>1, <1>2, <1>3, AtWorkRegisters

LEMMA GotoRegisters ==
  ASSUME TypeOK, NEW p \in Process, pc[p] # "idle", UNCHANGED <<row, job>>,
         (\E step : Goto(p, step)) \/ Return(p)
  PROVE  RegistrationStep
  <1>1. \A q \in Process \ {p} : pc'[q] = pc[q]
    BY DEF TypeOK, Return, Goto
  <1> QED
    BY <1>1, AtWorkRegisters DEF JobStep

LEMMA RegistrationSteps == TypeOK /\ [Next]_vars => RegistrationStep
  <1> SUFFICES ASSUME TypeOK, [Next]_vars PROVE RegistrationStep
    OBVIOUS
  <1>a. Ingestor \subseteq Process /\ Remover \subseteq Process /\ Ingestor \cap Remover = {}
    BY ConstantsAssumption DEF Process
  <1>b. ASSUME UNCHANGED <<row, job, pc>> PROVE RegistrationStep
    BY <1>b DEF JobStep, RegistrationStep
  <1>1. ASSUME NEW p \in Ingestor, Begin(p) PROVE RegistrationStep
    <2>1. CASE ~Bindable(p)
      BY <1>b, <1>1, <2>1 DEF Begin
    <2>2. CASE Bindable(p)
      <3>1. /\ job' = [job EXCEPT ![KeyOf[p]].version = VersionOf[p]]
            /\ row' = [row EXCEPT ![VersionOf[p]] = Registered(VersionOf[p])]
            /\ \A q \in Process \ {p} : pc'[q] = pc[q]
            /\ pc'[p] = pc[p] \/ Registered(VersionOf[p]).status \notin {"READY", "INACTIVE"}
        BY <1>a, <1>1, <2>2 DEF TypeOK, Begin, Goto
      <3>2. KeyOf[p] \in Key /\ VersionOf[p] \in Version /\ pc[p] = "idle"
        BY <1>a, <1>1, ConstantsAssumption DEF Begin
      <3>3. job'[KeyOf[p]].version = VersionOf[p] /\ job'[KeyOf[p]].status = job[KeyOf[p]].status
        BY <3>1, <3>2 DEF TypeOK, Job
      <3>4. \A k \in Key : JobStep(k)
        BY <2>2, <3>1, <3>2, <3>3 DEF TypeOK, JobStep
      <3>5. \A v \in Version \ {VersionOf[p]} : row'[v] = row[v]
        BY <3>1 DEF TypeOK
      <3>6. row'[VersionOf[p]] = Registered(VersionOf[p])
        BY <3>1, <3>2 DEF TypeOK
      <3> QED
        BY <1>a, <3>1, <3>2, <3>3, <3>4, <3>5, <3>6 DEF RegistrationStep
    <2> QED
      BY <2>1, <2>2
  <1>2. ASSUME NEW p \in Ingestor, Resume(p) PROVE RegistrationStep
    BY <1>a, <1>2, TransitionRegisters DEF Resume
  <1>3. ASSUME NEW p \in Ingestor, StartJob(p) PROVE RegistrationStep
    <2>1. \A q \in Process \ {p} : pc'[q] = pc[q]
      BY <1>a, <1>3 DEF TypeOK, StartJob, Return, Goto
    <2> QED
      BY <1>a, <1>3, <2>1, SetJobStep, AtWorkRegisters DEF StartJob
  <1>4. ASSUME NEW p \in Ingestor, IngestPasses(p) PROVE RegistrationStep
    BY <1>a, <1>4, TransitionRegisters DEF IngestPasses
  <1>5. ASSUME NEW p \in Ingestor, IngestNeedsReview(p) PROVE RegistrationStep
    BY <1>a, <1>5, TransitionRegisters DEF IngestNeedsReview
  <1>6. ASSUME NEW p \in Ingestor, FailVersion(p) PROVE RegistrationStep
    BY <1>a, <1>6, TransitionRegisters DEF FailVersion
  <1>7. ASSUME NEW p \in Ingestor, FailJob(p) PROVE RegistrationStep
    <2>1. \A q \in Process \ {p} : pc'[q] = pc[q]
      BY <1>a, <1>7 DEF TypeOK, FailJob, Return, Goto
    <2> QED
      BY <1>a, <1>7, <2>1, SetJobStep, AtWorkRegisters DEF FailJob
  <1>8. ASSUME NEW p \in Ingestor, PutPdf(p) PROVE RegistrationStep
    BY <1>a, <1>8, GotoRegisters DEF PutPdf
  <1>9. ASSUME NEW p \in Ingestor, PersistSnapshot(p) PROVE RegistrationStep
    BY <1>a, <1>9, GotoRegisters DEF PersistSnapshot
  <1>10. ASSUME NEW p \in Ingestor, OpenStage(p) PROVE RegistrationStep
    BY <1>a, <1>10, GotoRegisters DEF OpenStage
  <1>11. ASSUME NEW p \in Ingestor, FillStage(p) PROVE RegistrationStep
    BY <1>a, <1>11, GotoRegisters DEF FillStage
  <1>12. ASSUME NEW p \in Ingestor, StageFails(p) PROVE RegistrationStep
    BY <1>a, <1>12, GotoRegisters DEF StageFails
  <1>13. ASSUME NEW p \in Ingestor, MarkStaged(p) PROVE RegistrationStep
    <2>1. \A q \in Process \ {p} : pc'[q] = pc[q]
      BY <1>a, <1>13 DEF TypeOK, MarkStaged, Return, Goto
    <2>2. \A v \in Version : row[v].status = "ABSENT" => row'[v] = row[v]
      BY <1>a, <1>13, AcceptsPresent DEF MarkStaged, Commit
    <2>3. pc[p] # "idle" /\ \A k \in Key : JobStep(k)
      BY <1>13 DEF MarkStaged, JobStep
    <2> QED
      BY <1>a, <2>1, <2>2, <2>3, AtWorkRegisters
  <1>14. ASSUME NEW p \in Ingestor, Activate(p) PROVE RegistrationStep
    BY <1>a, <1>14, GotoRegisters DEF Activate
  <1>15. ASSUME NEW p \in Ingestor, ActivateFails(p) PROVE RegistrationStep
    BY <1>a, <1>15, GotoRegisters DEF ActivateFails
  <1>16. ASSUME NEW p \in Ingestor, Finalize(p) PROVE RegistrationStep
    <2>1. \A q \in Process \ {p} : pc'[q] = pc[q]
      BY <1>a, <1>16 DEF TypeOK, Finalize, Return, Goto
    <2>2. \A v \in Version : row[v].status = "ABSENT" => row'[v] = row[v]
      BY <1>a, <1>16, AcceptsPresent DEF Finalize
    <2>3. pc[p] # "idle" /\ \A k \in Key : JobStep(k)
      BY <1>16, SetJobStep DEF Finalize, JobStep
    <2> QED
      BY <1>a, <2>1, <2>2, <2>3, AtWorkRegisters
  <1>17. ASSUME NEW p \in Ingestor, FinalizeFails(p) PROVE RegistrationStep
    BY <1>a, <1>17, GotoRegisters DEF FinalizeFails
  <1>18. ASSUME NEW p \in Ingestor, Compensate(p) PROVE RegistrationStep
    BY <1>a, <1>18, GotoRegisters DEF Compensate
  <1>19. ASSUME NEW p \in Ingestor, RecordFailure(p) PROVE RegistrationStep
    <2>1. \A q \in Process \ {p} : pc'[q] = pc[q]
      BY <1>a, <1>19 DEF TypeOK, RecordFailure, Return, Goto
    <2>2. \A v \in Version : row[v].status = "ABSENT" => row'[v] = row[v]
      BY <1>a, <1>19, AcceptsPresent DEF RecordFailure
    <2>3. pc[p] # "idle" /\ \A k \in Key : JobStep(k)
      BY <1>19, SetJobStep DEF RecordFailure, JobStep
    <2> QED
      BY <1>a, <2>1, <2>2, <2>3, AtWorkRegisters
  <1>20. ASSUME NEW p \in Remover, Fetch(p) PROVE RegistrationStep
    BY <1>a, <1>20 DEF TypeOK, Fetch, Goto, JobStep, RegistrationStep
  <1>21. ASSUME NEW p \in Remover, Inactivate(p) PROVE RegistrationStep
    BY <1>a, <1>21, TransitionRegisters DEF Inactivate
  <1>22. ASSUME NEW p \in Remover, Deactivate(p) PROVE RegistrationStep
    BY <1>a, <1>22, GotoRegisters DEF Deactivate
  <1>23. ASSUME NEW p \in Remover, Enqueue(p) PROVE RegistrationStep
    BY <1>a, <1>23, GotoRegisters DEF Enqueue
  <1>24. ASSUME NEW p \in Remover, EnqueueRuntime(p) PROVE RegistrationStep
    BY <1>a, <1>24, GotoRegisters DEF EnqueueRuntime
  <1>25. ASSUME NEW p \in Process, Crash(p) PROVE RegistrationStep
    BY <1>a, <1>25, GotoRegisters DEF Crash
  <1>26. ASSUME NEW v \in Version, CleanRuntime(v) PROVE RegistrationStep
    BY <1>b, <1>26 DEF CleanRuntime
  <1>27. ASSUME NEW v \in Version, NEW b \in Backend, CleanIndex(b, v) PROVE RegistrationStep
    BY <1>b, <1>27 DEF CleanIndex
  <1>28. ASSUME Finished PROVE RegistrationStep
    BY <1>b, <1>28 DEF Finished, vars
  <1>29. ASSUME UNCHANGED vars PROVE RegistrationStep
    BY <1>b, <1>29 DEF vars
  <1> QED
    BY <1>1, <1>2, <1>3, <1>4, <1>5, <1>6, <1>7, <1>8, <1>9, <1>10, <1>11, <1>12, <1>13, <1>14, <1>15, <1>16, <1>17, <1>18, <1>19, <1>20, <1>21, <1>22, <1>23, <1>24, <1>25, <1>26, <1>27, <1>28, <1>29
       DEF Next, IngestorNext, RemoverNext, CleanerNext

\* A key stays bound to the version it was bound to first.
LEMMA BoundStays ==
  ASSUME TypeOK, [Next]_vars, NEW k \in Key, job[k].version # Unbound
  PROVE  job'[k].version = job[k].version
  <1>1. JobStep(k)
    BY RegistrationSteps DEF RegistrationStep
  <1> QED
    BY <1>1 DEF JobStep, Bindable

LEMMA RegisteredHasJobStep ==
  TypeOK /\ RegisteredHasJob /\ [Next]_vars => RegisteredHasJob'
  <1> SUFFICES ASSUME TypeOK, RegisteredHasJob, [Next]_vars, NEW v \in Version,
                      row'[v].status # "ABSENT"
               PROVE  \E k \in Key : job'[k].version = v
    BY DEF RegisteredHasJob
  <1>1. CASE row[v].status = "ABSENT"
    BY <1>1, RegistrationSteps, ConstantsAssumption DEF RegistrationStep
  <1>2. CASE row[v].status # "ABSENT"
    <2>1. PICK k \in Key : job[k].version = v
      BY <1>2 DEF RegisteredHasJob
    <2> QED
      BY <2>1, BoundStays, UnboundAssumption
  <1> QED
    BY <1>1, <1>2

\* A version row and its job come and stay together (register_version_and_ingestion_job),
\* whoever else presents the key.
THEOREM RegisteredVersionsHaveJobs == Spec => []RegisteredHasJob
  <1>1. Init => RegisteredHasJob
    BY DEF Init, RegisteredHasJob, NoRow
  <1> QED
    BY <1>1, RegisteredHasJobStep, TypeCorrect, PTL DEF Spec

-----------------------------------------------------------------------------
(* Physical deletion. *)

\* A cleanup job appears for an INACTIVE version only.
CleanupStep(c, v) ==
  cleanup'[c][v] # "none" => cleanup[c][v] # "none" \/ row[v].status = "INACTIVE"

LEMMA EnqueueCleanupStep ==
  ASSUME TypeOK, NEW p \in Process, NEW b \in CleanupBackend, EnqueueCleanup(p, b)
  PROVE  \A c \in CleanupBackend, v \in Version : CleanupStep(c, v)
  <1> SUFFICES ASSUME NEW c \in CleanupBackend, NEW v \in Version PROVE CleanupStep(c, v)
    OBVIOUS
  <1>1. CASE cleanup' = [cleanup EXCEPT ![b][VersionOf[p]] = Enqueued(b, VersionOf[p])]
    BY <1>1, TypeFacts DEF TypeOK, Enqueued, CleanupStep
  <1>2. CASE UNCHANGED cleanup
    BY <1>2 DEF CleanupStep
  <1> QED
    BY <1>1, <1>2 DEF EnqueueCleanup

LEMMA AttemptStep ==
  ASSUME TypeOK, NEW b \in CleanupBackend, NEW u \in Version, Attempt(b, u)
  PROVE  \A c \in CleanupBackend, v \in Version : CleanupStep(c, v)
  BY DEF TypeOK, Attempt, CleanupStep

LEMMA CleanupSteps == TypeOK /\ [Next]_vars => \A c \in CleanupBackend, v \in Version : CleanupStep(c, v)
  <1> SUFFICES ASSUME TypeOK, [Next]_vars PROVE \A c \in CleanupBackend, v \in Version : CleanupStep(c, v)
    OBVIOUS
  <1>1. ASSUME NEW p \in Ingestor, Begin(p) PROVE \A c \in CleanupBackend, v \in Version : CleanupStep(c, v)
    BY <1>1 DEF Begin, CleanupStep
  <1>2. ASSUME NEW p \in Ingestor, Resume(p) PROVE \A c \in CleanupBackend, v \in Version : CleanupStep(c, v)
    BY <1>2 DEF Resume, CleanupStep
  <1>3. ASSUME NEW p \in Ingestor, StartJob(p) PROVE \A c \in CleanupBackend, v \in Version : CleanupStep(c, v)
    BY <1>3 DEF StartJob, CleanupStep
  <1>4. ASSUME NEW p \in Ingestor, IngestPasses(p) PROVE \A c \in CleanupBackend, v \in Version : CleanupStep(c, v)
    BY <1>4 DEF IngestPasses, CleanupStep
  <1>5. ASSUME NEW p \in Ingestor, IngestNeedsReview(p) PROVE \A c \in CleanupBackend, v \in Version : CleanupStep(c, v)
    BY <1>5 DEF IngestNeedsReview, CleanupStep
  <1>6. ASSUME NEW p \in Ingestor, FailVersion(p) PROVE \A c \in CleanupBackend, v \in Version : CleanupStep(c, v)
    BY <1>6 DEF FailVersion, CleanupStep
  <1>7. ASSUME NEW p \in Ingestor, FailJob(p) PROVE \A c \in CleanupBackend, v \in Version : CleanupStep(c, v)
    BY <1>7 DEF FailJob, CleanupStep
  <1>8. ASSUME NEW p \in Ingestor, PutPdf(p) PROVE \A c \in CleanupBackend, v \in Version : CleanupStep(c, v)
    BY <1>8 DEF PutPdf, CleanupStep
  <1>9. ASSUME NEW p \in Ingestor, PersistSnapshot(p) PROVE \A c \in CleanupBackend, v \in Version : CleanupStep(c, v)
    BY <1>9 DEF PersistSnapshot, CleanupStep
  <1>10. ASSUME NEW p \in Ingestor, OpenStage(p) PROVE \A c \in CleanupBackend, v \in Version : CleanupStep(c, v)
    BY <1>10 DEF OpenStage, CleanupStep
  <1>11. ASSUME NEW p \in Ingestor, FillStage(p) PROVE \A c \in CleanupBackend, v \in Version : CleanupStep(c, v)
    BY <1>11 DEF FillStage, CleanupStep
  <1>12. ASSUME NEW p \in Ingestor, StageFails(p) PROVE \A c \in CleanupBackend, v \in Version : CleanupStep(c, v)
    BY <1>12 DEF StageFails, CleanupStep
  <1>13. ASSUME NEW p \in Ingestor, MarkStaged(p) PROVE \A c \in CleanupBackend, v \in Version : CleanupStep(c, v)
    BY <1>13 DEF MarkStaged, CleanupStep
  <1>14. ASSUME NEW p \in Ingestor, Activate(p) PROVE \A c \in CleanupBackend, v \in Version : CleanupStep(c, v)
    BY <1>14 DEF Activate, CleanupStep
  <1>15. ASSUME NEW p \in Ingestor, ActivateFails(p) PROVE \A c \in CleanupBackend, v \in Version : CleanupStep(c, v)
    BY <1>15 DEF ActivateFails, CleanupStep
  <1>16. ASSUME NEW p \in Ingestor, Finalize(p) PROVE \A c \in CleanupBackend, v \in Version : CleanupStep(c, v)
    BY <1>16 DEF Finalize, CleanupStep
  <1>17. ASSUME NEW p \in Ingestor, FinalizeFails(p) PROVE \A c \in CleanupBackend, v \in Version : CleanupStep(c, v)
    BY <1>17 DEF FinalizeFails, CleanupStep
  <1>18. ASSUME NEW p \in Ingestor, Compensate(p) PROVE \A c \in CleanupBackend, v \in Version : CleanupStep(c, v)
    BY <1>18 DEF Compensate, CleanupStep
  <1>19. ASSUME NEW p \in Ingestor, RecordFailure(p) PROVE \A c \in CleanupBackend, v \in Version : CleanupStep(c, v)
    BY <1>19 DEF RecordFailure, CleanupStep
  <1>20. ASSUME NEW p \in Remover, Fetch(p) PROVE \A c \in CleanupBackend, v \in Version : CleanupStep(c, v)
    BY <1>20 DEF Fetch, CleanupStep
  <1>21. ASSUME NEW p \in Remover, Inactivate(p) PROVE \A c \in CleanupBackend, v \in Version : CleanupStep(c, v)
    BY <1>21 DEF Inactivate, CleanupStep
  <1>22. ASSUME NEW p \in Remover, Deactivate(p) PROVE \A c \in CleanupBackend, v \in Version : CleanupStep(c, v)
    BY <1>22 DEF Deactivate, CleanupStep
  <1>23. ASSUME NEW p \in Remover, Enqueue(p) PROVE \A c \in CleanupBackend, v \in Version : CleanupStep(c, v)
    BY <1>23, EnqueueCleanupStep DEF Enqueue, TypeOK, Process, CleanupBackend
  <1>24. ASSUME NEW p \in Remover, EnqueueRuntime(p) PROVE \A c \in CleanupBackend, v \in Version : CleanupStep(c, v)
    BY <1>24, EnqueueCleanupStep DEF EnqueueRuntime, TypeOK, Process, CleanupBackend
  <1>25. ASSUME NEW p \in Process, Crash(p) PROVE \A c \in CleanupBackend, v \in Version : CleanupStep(c, v)
    BY <1>25 DEF Crash, CleanupStep
  <1>26. ASSUME NEW u \in Version, CleanRuntime(u) PROVE \A c \in CleanupBackend, v \in Version : CleanupStep(c, v)
    <2>1. CASE Attempt("runtime_snapshot", u)
      BY <2>1, AttemptStep DEF CleanupBackend
    <2>2. CASE UNCHANGED cleanup
      BY <2>2 DEF CleanupStep
    <2> QED
      BY <1>26, <2>1, <2>2 DEF CleanRuntime
  <1>27. ASSUME NEW u \in Version, NEW b \in Backend, CleanIndex(b, u) PROVE \A c \in CleanupBackend, v \in Version : CleanupStep(c, v)
    BY <1>27, AttemptStep DEF CleanIndex, CleanupBackend
  <1>28. ASSUME Finished PROVE \A c \in CleanupBackend, v \in Version : CleanupStep(c, v)
    BY <1>28 DEF Finished, vars, CleanupStep
  <1>29. ASSUME UNCHANGED vars PROVE \A c \in CleanupBackend, v \in Version : CleanupStep(c, v)
    BY <1>29 DEF vars, CleanupStep
  <1> QED
    BY <1>1, <1>2, <1>3, <1>4, <1>5, <1>6, <1>7, <1>8, <1>9, <1>10, <1>11, <1>12, <1>13, <1>14, <1>15, <1>16, <1>17, <1>18, <1>19, <1>20, <1>21, <1>22, <1>23, <1>24, <1>25, <1>26, <1>27, <1>28, <1>29
       DEF Next, IngestorNext, RemoverNext, CleanerNext

LEMMA CleanupOnlyStep == TypeOK /\ CleanupOnlyOfInactive /\ [Next]_vars => CleanupOnlyOfInactive'
  BY InactiveStays, CleanupSteps DEF CleanupOnlyOfInactive, CleanupStep

\* Physical deletion is only ever scheduled for a version that is INACTIVE and
\* stays so (enqueue_cleanup, ALLOWED_LIFECYCLE_TRANSITIONS).
THEOREM CleanupSafe == Spec => []CleanupOnlyOfInactive
  <1>1. Init => CleanupOnlyOfInactive
    BY DEF Init, CleanupOnlyOfInactive
  <1>2. CleanupOnlyOfInactive /\ TypeOK /\ [Next]_vars => CleanupOnlyOfInactive'
    BY CleanupOnlyStep
  <1> QED
    BY <1>1, <1>2, TypeCorrect, PTL DEF Spec

-----------------------------------------------------------------------------
(* Optimistic concurrency. *)

\* After a step a process is idle, holds the current row, or holds what it held.
HeldStep(q) ==
  \/ pc'[q] = "idle"
  \/ held'[q] = row'[VersionOf[q]]
  \/ pc[q] # "idle" /\ pc'[q] # "idle" /\ held'[q] = held[q]

LEMMA ReturnHeldStep ==
  ASSUME TypeOK, NEW p \in Process, Return(p), UNCHANGED row
  PROVE  \A q \in Process : HeldStep(q)
  BY DEF TypeOK, Return, Goto, HeldStep

\* A step that touches neither the held rows nor another process's pc.
LEMMA GotoHeldStep ==
  ASSUME TypeOK, NEW p \in Process, NEW step, Goto(p, step), pc[p] # "idle", UNCHANGED held
  PROVE  \A q \in Process : HeldStep(q)
  BY DEF TypeOK, Goto, HeldStep

LEMMA CommitHeldStep ==
  ASSUME TypeOK, NEW p \in Process, NEW new, NEW step, Commit(p, new), Goto(p, step)
  PROVE  \A q \in Process : HeldStep(q)
  BY TypeFacts DEF TypeOK, Commit, Goto, HeldStep

LEMMA TransitionHeldStep ==
  ASSUME TypeOK, NEW p \in Process, NEW s, NEW new, NEW step, Transition(p, s, new, step)
  PROVE  \A q \in Process : HeldStep(q)
  BY CommitHeldStep, ReturnHeldStep DEF Transition

LEMMA HeldSteps == TypeOK /\ [Next]_vars => \A q \in Process : HeldStep(q)
  <1> SUFFICES ASSUME TypeOK, [Next]_vars PROVE \A q \in Process : HeldStep(q)
    OBVIOUS
  <1>a. Ingestor \subseteq Process /\ Remover \subseteq Process
    BY DEF Process
  <1>1. ASSUME NEW p \in Ingestor, Begin(p) PROVE \A q \in Process : HeldStep(q)
    BY <1>a, <1>1, TypeFacts DEF TypeOK, Begin, Goto, HeldStep
  <1>2. ASSUME NEW p \in Ingestor, Resume(p) PROVE \A q \in Process : HeldStep(q)
    BY <1>a, <1>2, TransitionHeldStep DEF Resume
  <1>3. ASSUME NEW p \in Ingestor, StartJob(p) PROVE \A q \in Process : HeldStep(q)
    BY <1>a, <1>3, GotoHeldStep DEF StartJob
  <1>4. ASSUME NEW p \in Ingestor, IngestPasses(p) PROVE \A q \in Process : HeldStep(q)
    BY <1>a, <1>4, TransitionHeldStep DEF IngestPasses
  <1>5. ASSUME NEW p \in Ingestor, IngestNeedsReview(p) PROVE \A q \in Process : HeldStep(q)
    BY <1>a, <1>5, TransitionHeldStep DEF IngestNeedsReview
  <1>6. ASSUME NEW p \in Ingestor, FailVersion(p) PROVE \A q \in Process : HeldStep(q)
    BY <1>a, <1>6, TransitionHeldStep DEF FailVersion
  <1>7. ASSUME NEW p \in Ingestor, FailJob(p) PROVE \A q \in Process : HeldStep(q)
    BY <1>a, <1>7, ReturnHeldStep DEF FailJob
  <1>8. ASSUME NEW p \in Ingestor, PutPdf(p) PROVE \A q \in Process : HeldStep(q)
    BY <1>a, <1>8, GotoHeldStep DEF PutPdf
  <1>9. ASSUME NEW p \in Ingestor, PersistSnapshot(p) PROVE \A q \in Process : HeldStep(q)
    BY <1>a, <1>9, GotoHeldStep DEF PersistSnapshot
  <1>10. ASSUME NEW p \in Ingestor, OpenStage(p) PROVE \A q \in Process : HeldStep(q)
    BY <1>a, <1>10, GotoHeldStep DEF OpenStage
  <1>11. ASSUME NEW p \in Ingestor, FillStage(p) PROVE \A q \in Process : HeldStep(q)
    BY <1>a, <1>11, GotoHeldStep DEF FillStage
  <1>12. ASSUME NEW p \in Ingestor, StageFails(p) PROVE \A q \in Process : HeldStep(q)
    BY <1>a, <1>12, GotoHeldStep DEF StageFails
  <1>13. ASSUME NEW p \in Ingestor, MarkStaged(p) PROVE \A q \in Process : HeldStep(q)
    BY <1>a, <1>13, CommitHeldStep, ReturnHeldStep DEF MarkStaged
  <1>14. ASSUME NEW p \in Ingestor, Activate(p) PROVE \A q \in Process : HeldStep(q)
    BY <1>a, <1>14, GotoHeldStep DEF Activate
  <1>15. ASSUME NEW p \in Ingestor, ActivateFails(p) PROVE \A q \in Process : HeldStep(q)
    BY <1>a, <1>15, GotoHeldStep DEF ActivateFails
  <1>16. ASSUME NEW p \in Ingestor, Finalize(p) PROVE \A q \in Process : HeldStep(q)
    BY <1>a, <1>16, GotoHeldStep DEF TypeOK, Finalize, Return, Goto, HeldStep
  <1>17. ASSUME NEW p \in Ingestor, FinalizeFails(p) PROVE \A q \in Process : HeldStep(q)
    BY <1>a, <1>17, GotoHeldStep DEF FinalizeFails
  <1>18. ASSUME NEW p \in Ingestor, Compensate(p) PROVE \A q \in Process : HeldStep(q)
    BY <1>a, <1>18, GotoHeldStep DEF Compensate
  <1>19. ASSUME NEW p \in Ingestor, RecordFailure(p) PROVE \A q \in Process : HeldStep(q)
    BY <1>a, <1>19 DEF TypeOK, RecordFailure, Return, Goto, HeldStep
  <1>20. ASSUME NEW p \in Remover, Fetch(p) PROVE \A q \in Process : HeldStep(q)
    BY <1>a, <1>20, TypeFacts DEF TypeOK, Fetch, Goto, HeldStep
  <1>21. ASSUME NEW p \in Remover, Inactivate(p) PROVE \A q \in Process : HeldStep(q)
    BY <1>a, <1>21, TransitionHeldStep DEF Inactivate
  <1>22. ASSUME NEW p \in Remover, Deactivate(p) PROVE \A q \in Process : HeldStep(q)
    BY <1>a, <1>22, GotoHeldStep DEF Deactivate
  <1>23. ASSUME NEW p \in Remover, Enqueue(p) PROVE \A q \in Process : HeldStep(q)
    BY <1>a, <1>23, GotoHeldStep DEF Enqueue
  <1>24. ASSUME NEW p \in Remover, EnqueueRuntime(p) PROVE \A q \in Process : HeldStep(q)
    BY <1>a, <1>24, ReturnHeldStep DEF EnqueueRuntime
  <1>25. ASSUME NEW p \in Process, Crash(p) PROVE \A q \in Process : HeldStep(q)
    BY <1>a, <1>25, ReturnHeldStep DEF Crash
  <1>26. ASSUME NEW v \in Version, CleanRuntime(v) PROVE \A q \in Process : HeldStep(q)
    BY <1>26 DEF CleanRuntime, HeldStep
  <1>27. ASSUME NEW v \in Version, NEW b \in Backend, CleanIndex(b, v) PROVE \A q \in Process : HeldStep(q)
    BY <1>27 DEF CleanIndex, HeldStep
  <1>28. ASSUME Finished PROVE \A q \in Process : HeldStep(q)
    BY <1>28 DEF Finished, vars, HeldStep
  <1>29. ASSUME UNCHANGED vars PROVE \A q \in Process : HeldStep(q)
    BY <1>29 DEF vars, HeldStep
  <1> QED
    BY <1>1, <1>2, <1>3, <1>4, <1>5, <1>6, <1>7, <1>8, <1>9, <1>10, <1>11, <1>12, <1>13, <1>14, <1>15, <1>16, <1>17, <1>18, <1>19, <1>20, <1>21, <1>22, <1>23, <1>24, <1>25, <1>26, <1>27, <1>28, <1>29
       DEF Next, IngestorNext, RemoverNext, CleanerNext

LEMMA HeldBehindStep == TypeOK /\ HeldBehind /\ [Next]_vars => HeldBehind'
  <1> SUFFICES ASSUME TypeOK, HeldBehind, [Next]_vars PROVE HeldBehind'
    OBVIOUS
  <1>1. \A v \in Version : row'[v].status = "ABSENT" => row'[v].revision = 0
    <2>1. \A s \in LifecycleStatus : "ABSENT" \notin AllowedTransitions[s]
      BY DEF AllowedTransitions, LifecycleStatus
    <2>2. RegisteredRow.status = "REGISTERED"
      BY DEF RegisteredRow, NoRow
    <2> QED
      BY <2>1, <2>2, RowSteps DEF TypeOK, HeldBehind, RowStep, Row
  <1>2. ASSUME NEW q \in Process, pc'[q] # "idle"
        PROVE  /\ held'[q].revision <= row'[VersionOf[q]].revision
               /\ held'[q].revision = row'[VersionOf[q]].revision
                    => held'[q] = row'[VersionOf[q]]
    <2>1. CASE held'[q] = row'[VersionOf[q]]
      <3>1. row'[VersionOf[q]].revision \in Nat
        BY TypeStep, ConstantsAssumption DEF TypeOK, Row
      <3> QED
        BY <2>1, <3>1
    <2>2. CASE pc[q] # "idle" /\ held'[q] = held[q]
      <3>1. held[q] \in Row /\ row[VersionOf[q]] \in Row /\ VersionOf[q] \in Version
        BY TypeFacts DEF TypeOK
      <3>2. /\ held[q].revision <= row[VersionOf[q]].revision
            /\ held[q].revision = row[VersionOf[q]].revision => held[q] = row[VersionOf[q]]
        BY <2>2 DEF HeldBehind
      <3>3. \/ row'[VersionOf[q]] = row[VersionOf[q]]
            \/ row[VersionOf[q]].revision = 0 /\ row'[VersionOf[q]].revision = 1
            \/ row'[VersionOf[q]].revision = row[VersionOf[q]].revision + 1
        BY <3>1, RowSteps DEF HeldBehind, RowStep, RegisteredRow, NoRow
      <3> QED
        BY <2>2, <3>1, <3>2, <3>3 DEF Row
    <2> QED
      BY <1>2, <2>1, <2>2, HeldSteps DEF HeldStep
  <1> QED
    BY <1>1, <1>2 DEF HeldBehind

\* The compare-and-swap on the revision is enough: a process whose revision still
\* matches holds the very row it is about to overwrite (_transition_version).
THEOREM OptimisticConcurrency == Spec => []SnapshotCoherent
  <1>1. Init => HeldBehind
    BY ConstantsAssumption DEF Init, HeldBehind, NoRow
  <1>2. TypeOK /\ HeldBehind /\ [Next]_vars => HeldBehind'
    BY HeldBehindStep
  <1>3. HeldBehind => SnapshotCoherent
    BY DEF HeldBehind, SnapshotCoherent
  <1> QED
    BY <1>1, <1>2, <1>3, TypeCorrect, PTL DEF Spec

-----------------------------------------------------------------------------
(* What a process knows at each of its steps. *)

Publishing == IngestorStep \ {"idle", "resume", "failjob"}
Removing == {"deactivate", "enqueue", "enqueue_runtime"}

StatusKnown(q) ==
  /\ pc[q] \in Publishing => held[q].status = "PROCESSING"
  /\ pc[q] \in Removing => row[VersionOf[q]].status = "INACTIVE"

LEMMA StepsDiffer ==
  /\ {"start", "ingest", "put", "snapshot", "stage", "fill", "mark", "activate", "finalize",
      "compensate", "record"} = Publishing
  /\ {"idle", "resume", "failjob", "inactivate"} \cap (Publishing \cup Removing) = {}
  /\ Publishing \cap Removing = {}
  BY DEF Publishing, Removing, IngestorStep

LEMMA ReturnStatus ==
  ASSUME TypeOK, [Next]_vars, \A q \in Process : StatusKnown(q), NEW p \in Process, Return(p)
  PROVE  \A q \in Process : StatusKnown(q)'
  <1> SUFFICES ASSUME NEW q \in Process PROVE StatusKnown(q)'
    OBVIOUS
  <1>1. pc'[q] = "idle" \/ (pc'[q] = pc[q] /\ held'[q] = held[q])
    BY DEF TypeOK, Return, Goto
  <1>2. row[VersionOf[q]].status = "INACTIVE" => row'[VersionOf[q]].status = "INACTIVE"
    BY InactiveStays, TypeFacts
  <1>3. "idle" \notin Publishing /\ "idle" \notin Removing
    BY StepsDiffer
  <1>4. StatusKnown(q)
    OBVIOUS
  <1> QED
    BY <1>1, <1>2, <1>3, <1>4 DEF StatusKnown

\* A step within the ingestor's or within the remover's part.
LEMMA GotoStatus ==
  ASSUME TypeOK, [Next]_vars, \A q \in Process : StatusKnown(q), NEW p \in Process, NEW step, Goto(p, step),
         UNCHANGED held,
         \/ step \notin Publishing \cup Removing
         \/ step \in Publishing /\ pc[p] \in Publishing
         \/ step \in Removing /\ pc[p] \in Removing
  PROVE  \A q \in Process : StatusKnown(q)'
  <1> SUFFICES ASSUME NEW q \in Process PROVE StatusKnown(q)'
    OBVIOUS
  <1>1. pc'[q] = pc[q] \/ (q = p /\ pc'[q] = step)
    BY DEF TypeOK, Goto
  <1>2. row[VersionOf[q]].status = "INACTIVE" => row'[VersionOf[q]].status = "INACTIVE"
    BY InactiveStays, TypeFacts
  <1>3. Publishing \cap Removing = {}
    BY StepsDiffer
  <1>4. StatusKnown(q)
    OBVIOUS
  <1> QED
    BY <1>1, <1>2, <1>3, <1>4 DEF StatusKnown

LEMMA CommitStatus ==
  ASSUME TypeOK, [Next]_vars, \A q \in Process : StatusKnown(q), NEW p \in Process, NEW new, NEW step,
         Commit(p, new), Goto(p, step),
         \/ step \notin Publishing \cup Removing
         \/ step \in Publishing /\ new.status = "PROCESSING"
         \/ step \in Removing /\ new.status = "INACTIVE"
  PROVE  \A q \in Process : StatusKnown(q)'
  <1> SUFFICES ASSUME NEW q \in Process PROVE StatusKnown(q)'
    OBVIOUS
  <1>1. CASE q # p
    <2>1. pc'[q] = pc[q] /\ held'[q] = held[q]
      BY <1>1 DEF TypeOK, Commit, Goto
    <2> QED
      BY <2>1, InactiveStays, TypeFacts DEF StatusKnown
  <1>2. CASE q = p
    <2>1. pc'[p] = step /\ held'[p] = new /\ row'[VersionOf[p]] = new
      BY TypeFacts DEF TypeOK, Commit, Goto
    <2> QED
      BY <1>2, <2>1, StepsDiffer DEF StatusKnown
  <1> QED
    BY <1>1, <1>2

LEMMA TransitionStatus ==
  ASSUME TypeOK, [Next]_vars, \A q \in Process : StatusKnown(q), NEW p \in Process, NEW s, NEW new, NEW step,
         Transition(p, s, new, step),
         \/ step \notin Publishing \cup Removing
         \/ step \in Publishing /\ new.status = "PROCESSING"
         \/ step \in Removing /\ new.status = "INACTIVE"
  PROVE  \A q \in Process : StatusKnown(q)'
  BY CommitStatus, ReturnStatus DEF Transition

LEMMA StatusStep == TypeOK /\ (\A q \in Process : StatusKnown(q)) /\ [Next]_vars => \A q \in Process : StatusKnown(q)'
  <1> SUFFICES ASSUME TypeOK, \A q \in Process : StatusKnown(q), [Next]_vars PROVE \A q \in Process : StatusKnown(q)'
    OBVIOUS
  <1>a. Ingestor \subseteq Process /\ Remover \subseteq Process
    BY DEF Process
  <1>1. ASSUME NEW p \in Ingestor, Begin(p) PROVE \A q \in Process : StatusKnown(q)'
    <2> SUFFICES ASSUME NEW q \in Process PROVE StatusKnown(q)'
      OBVIOUS
    <2> DEFINE found == Registered(VersionOf[p])
    <2>1. \/ pc'[q] = pc[q] /\ held'[q] = held[q]
          \/ pc'[q] = "resume"
          \/ pc'[q] = "start" /\ held'[q] = found /\ found.status = "PROCESSING"
      BY <1>a, <1>1 DEF TypeOK, Begin, Goto
    <2> QED
      BY <2>1, StepsDiffer, InactiveStays, TypeFacts DEF StatusKnown
  <1>2. ASSUME NEW p \in Ingestor, Resume(p) PROVE \A q \in Process : StatusKnown(q)'
    <2> DEFINE new == [Revised(p, "PROCESSING") EXCEPT !.failed = FALSE]
    <2>1. new.status = "PROCESSING"
      <3>1. Revised(p, "PROCESSING") \in Row
        BY <1>a, RevisedType DEF LifecycleStatus
      <3> QED
        BY <1>a, <3>1, RevisedFields DEF Row
    <2> QED
      BY <1>a, <1>2, <2>1, StepsDiffer, TransitionStatus DEF Resume
  <1>3. ASSUME NEW p \in Ingestor, StartJob(p) PROVE \A q \in Process : StatusKnown(q)'
    BY <1>a, <1>3, StepsDiffer, GotoStatus DEF StartJob
  <1>4. ASSUME NEW p \in Ingestor, IngestPasses(p) PROVE \A q \in Process : StatusKnown(q)'
    <2> DEFINE new == [Revised(p, "PROCESSING") EXCEPT !.chunked = TRUE, !.failed = FALSE]
    <2>1. new.status = "PROCESSING"
      <3>1. Revised(p, "PROCESSING") \in Row
        BY <1>a, RevisedType DEF LifecycleStatus
      <3> QED
        BY <1>a, <3>1, RevisedFields DEF Row
    <2> QED
      BY <1>a, <1>4, <2>1, StepsDiffer, TransitionStatus DEF IngestPasses
  <1>5. ASSUME NEW p \in Ingestor, IngestNeedsReview(p) PROVE \A q \in Process : StatusKnown(q)'
    BY <1>a, <1>5, StepsDiffer, TransitionStatus DEF IngestNeedsReview
  <1>6. ASSUME NEW p \in Ingestor, FailVersion(p) PROVE \A q \in Process : StatusKnown(q)'
    BY <1>a, <1>6, StepsDiffer, TransitionStatus DEF FailVersion
  <1>7. ASSUME NEW p \in Ingestor, FailJob(p) PROVE \A q \in Process : StatusKnown(q)'
    BY <1>a, <1>7, ReturnStatus DEF FailJob
  <1>8. ASSUME NEW p \in Ingestor, PutPdf(p) PROVE \A q \in Process : StatusKnown(q)'
    BY <1>a, <1>8, StepsDiffer, GotoStatus DEF PutPdf
  <1>9. ASSUME NEW p \in Ingestor, PersistSnapshot(p) PROVE \A q \in Process : StatusKnown(q)'
    BY <1>a, <1>9, StepsDiffer, GotoStatus DEF PersistSnapshot
  <1>10. ASSUME NEW p \in Ingestor, OpenStage(p) PROVE \A q \in Process : StatusKnown(q)'
    BY <1>a, <1>10, StepsDiffer, GotoStatus DEF OpenStage
  <1>11. ASSUME NEW p \in Ingestor, FillStage(p) PROVE \A q \in Process : StatusKnown(q)'
    BY <1>a, <1>11, StepsDiffer, GotoStatus DEF FillStage
  <1>12. ASSUME NEW p \in Ingestor, StageFails(p) PROVE \A q \in Process : StatusKnown(q)'
    BY <1>a, <1>12, StepsDiffer, GotoStatus DEF StageFails
  <1>13. ASSUME NEW p \in Ingestor, MarkStaged(p) PROVE \A q \in Process : StatusKnown(q)'
    <2> DEFINE new == [Revised(p, "PROCESSING") EXCEPT !.states[at[p]] = "READY", !.failed = FALSE]
    <2>1. new.status = "PROCESSING"
      <3>1. Revised(p, "PROCESSING") \in Row
        BY <1>a, RevisedType DEF LifecycleStatus
      <3> QED
        BY <1>a, <3>1, RevisedFields DEF Row
    <2> HIDE DEF new
    <2>2. CASE Accepts(p, "PROCESSING")
      <3>1. PICK step \in Publishing : Commit(p, new) /\ Goto(p, step)
        BY <1>13, <2>2, StepsDiffer DEF MarkStaged, new
      <3> QED
        BY <1>a, <2>1, <3>1, CommitStatus
    <2>3. CASE ~Accepts(p, "PROCESSING")
      BY <1>a, <1>13, <2>3, ReturnStatus DEF MarkStaged
    <2> QED
      BY <2>2, <2>3
  <1>14. ASSUME NEW p \in Ingestor, Activate(p) PROVE \A q \in Process : StatusKnown(q)'
    BY <1>a, <1>14, StepsDiffer, GotoStatus DEF Activate
  <1>15. ASSUME NEW p \in Ingestor, ActivateFails(p) PROVE \A q \in Process : StatusKnown(q)'
    BY <1>a, <1>15, StepsDiffer, GotoStatus DEF ActivateFails
  <1>16. ASSUME NEW p \in Ingestor, Finalize(p) PROVE \A q \in Process : StatusKnown(q)'
    BY <1>a, <1>16, StepsDiffer, GotoStatus, ReturnStatus DEF Finalize
  <1>17. ASSUME NEW p \in Ingestor, FinalizeFails(p) PROVE \A q \in Process : StatusKnown(q)'
    BY <1>a, <1>17, StepsDiffer, GotoStatus DEF FinalizeFails
  <1>18. ASSUME NEW p \in Ingestor, Compensate(p) PROVE \A q \in Process : StatusKnown(q)'
    BY <1>a, <1>18, StepsDiffer, GotoStatus DEF Compensate
  <1>19. ASSUME NEW p \in Ingestor, RecordFailure(p) PROVE \A q \in Process : StatusKnown(q)'
    BY <1>a, <1>19, ReturnStatus DEF RecordFailure
  <1>20. ASSUME NEW p \in Remover, Fetch(p) PROVE \A q \in Process : StatusKnown(q)'
    <2> SUFFICES ASSUME NEW q \in Process PROVE StatusKnown(q)'
      OBVIOUS
    <2>1. \/ pc'[q] = pc[q] /\ held'[q] = held[q]
          \/ q = p /\ pc'[q] = "inactivate"
          \/ q = p /\ pc'[q] = "deactivate" /\ row[VersionOf[q]].status = "INACTIVE"
      BY <1>a, <1>20 DEF TypeOK, Fetch, Goto
    <2>2. "deactivate" \in Removing
      BY DEF Removing
    <2> QED
      BY <2>1, <2>2, StepsDiffer, InactiveStays, TypeFacts DEF StatusKnown
  <1>21. ASSUME NEW p \in Remover, Inactivate(p) PROVE \A q \in Process : StatusKnown(q)'
    <2> DEFINE new == Revised(p, "INACTIVE")
    <2>1. new.status = "INACTIVE"
      <3>1. Revised(p, "INACTIVE") \in Row
        BY <1>a, RevisedType DEF LifecycleStatus
      <3> QED
        BY <1>a, <3>1, RevisedFields DEF Row
    <2> QED
      BY <1>a, <1>21, <2>1, StepsDiffer, TransitionStatus DEF Inactivate, Removing
  <1>22. ASSUME NEW p \in Remover, Deactivate(p) PROVE \A q \in Process : StatusKnown(q)'
    BY <1>a, <1>22, GotoStatus DEF Deactivate, Removing
  <1>23. ASSUME NEW p \in Remover, Enqueue(p) PROVE \A q \in Process : StatusKnown(q)'
    BY <1>a, <1>23, GotoStatus DEF Enqueue, Removing
  <1>24. ASSUME NEW p \in Remover, EnqueueRuntime(p) PROVE \A q \in Process : StatusKnown(q)'
    BY <1>a, <1>24, ReturnStatus DEF EnqueueRuntime
  <1>25. ASSUME NEW p \in Process, Crash(p) PROVE \A q \in Process : StatusKnown(q)'
    BY <1>a, <1>25, ReturnStatus DEF Crash
  <1>26. ASSUME NEW v \in Version, CleanRuntime(v) PROVE \A q \in Process : StatusKnown(q)'
    BY <1>26, InactiveStays, TypeFacts DEF CleanRuntime, StatusKnown
  <1>27. ASSUME NEW v \in Version, NEW b \in Backend, CleanIndex(b, v) PROVE \A q \in Process : StatusKnown(q)'
    BY <1>27, InactiveStays, TypeFacts DEF CleanIndex, StatusKnown
  <1>28. ASSUME Finished PROVE \A q \in Process : StatusKnown(q)'
    BY <1>28, InactiveStays, TypeFacts DEF Finished, vars, StatusKnown
  <1>29. ASSUME UNCHANGED vars PROVE \A q \in Process : StatusKnown(q)'
    BY <1>29, InactiveStays, TypeFacts DEF vars, StatusKnown
  <1> QED
    BY <1>1, <1>2, <1>3, <1>4, <1>5, <1>6, <1>7, <1>8, <1>9, <1>10, <1>11, <1>12, <1>13, <1>14, <1>15, <1>16, <1>17, <1>18, <1>19, <1>20, <1>21, <1>22, <1>23, <1>24, <1>25, <1>26, <1>27, <1>28, <1>29
       DEF Next, IngestorNext, RemoverNext, CleanerNext

LEMMA StepKnowsStatusStep == TypeOK /\ StepKnowsStatus /\ [Next]_vars => StepKnowsStatus'
  BY StatusStep DEF StepKnowsStatus, StatusKnown, Publishing, Removing

-----------------------------------------------------------------------------
(* What is stored outside the version rows. *)

\* A step takes rows out of an index, or the PDF and the chunks away, only when
\* their cleanup job is queued.
DataStep ==
  /\ \A b \in Backend, v \in Version :
       Complete(b, v) /\ cleanup[b][v] = "none" => Complete(b, v)'
  /\ \A v \in Version :
       cleanup["runtime_snapshot"][v] = "none" =>
         /\ pdf[v] => pdf'[v]
         /\ snapshot[v] => snapshot'[v]

\* No call of a writer, successful or failing, makes a complete index incomplete.
LEMMA SetPhysicalKeeps ==
  ASSUME TypeOK, NEW c \in Backend, NEW u \in Version, NEW state, SetPhysical(c, u, state),
         Complete(c, u) => state \in {"staged", "active"},
         UNCHANGED <<pdf, snapshot>>
  PROVE  DataStep
  BY DEF TypeOK, SetPhysical, Complete, DataStep

LEMMA DataUnchanged ==
  ASSUME UNCHANGED <<physical, pdf, snapshot>>
  PROVE  DataStep
  BY DEF Complete, DataStep

LEMMA DataSteps == TypeOK /\ [Next]_vars => DataStep
  <1> SUFFICES ASSUME TypeOK, [Next]_vars PROVE DataStep
    OBVIOUS
  <1>a. Ingestor \subseteq Process /\ Remover \subseteq Process
    BY DEF Process
  <1>1. ASSUME NEW p \in Ingestor, Begin(p) PROVE DataStep
    BY <1>1, DataUnchanged DEF Begin
  <1>2. ASSUME NEW p \in Ingestor, Resume(p) PROVE DataStep
    BY <1>2, DataUnchanged DEF Resume
  <1>3. ASSUME NEW p \in Ingestor, StartJob(p) PROVE DataStep
    BY <1>3, DataUnchanged DEF StartJob
  <1>4. ASSUME NEW p \in Ingestor, IngestPasses(p) PROVE DataStep
    BY <1>4, DataUnchanged DEF IngestPasses
  <1>5. ASSUME NEW p \in Ingestor, IngestNeedsReview(p) PROVE DataStep
    BY <1>5, DataUnchanged DEF IngestNeedsReview
  <1>6. ASSUME NEW p \in Ingestor, FailVersion(p) PROVE DataStep
    BY <1>6, DataUnchanged DEF FailVersion
  <1>7. ASSUME NEW p \in Ingestor, FailJob(p) PROVE DataStep
    BY <1>7, DataUnchanged DEF FailJob
  <1>8. ASSUME NEW p \in Ingestor, PutPdf(p) PROVE DataStep
    BY <1>a, <1>8, TypeFacts DEF TypeOK, PutPdf, Complete, DataStep
  <1>9. ASSUME NEW p \in Ingestor, PersistSnapshot(p) PROVE DataStep
    BY <1>a, <1>9, TypeFacts DEF TypeOK, PersistSnapshot, Complete, DataStep
  <1>10. ASSUME NEW p \in Ingestor, OpenStage(p) PROVE DataStep
    BY <1>a, <1>10, TypeFacts, SetPhysicalKeeps, DataUnchanged DEF OpenStage, Complete
  <1>11. ASSUME NEW p \in Ingestor, FillStage(p) PROVE DataStep
    BY <1>a, <1>11, TypeFacts, SetPhysicalKeeps, DataUnchanged DEF FillStage, Complete
  <1>12. ASSUME NEW p \in Ingestor, StageFails(p) PROVE DataStep
    BY <1>a, <1>12, TypeFacts, SetPhysicalKeeps, DataUnchanged DEF StageFails, Complete
  <1>13. ASSUME NEW p \in Ingestor, MarkStaged(p) PROVE DataStep
    BY <1>13, DataUnchanged DEF MarkStaged
  <1>14. ASSUME NEW p \in Ingestor, Activate(p) PROVE DataStep
    BY <1>a, <1>14, TypeFacts, SetPhysicalKeeps, DataUnchanged DEF Activate, Complete
  <1>15. ASSUME NEW p \in Ingestor, ActivateFails(p) PROVE DataStep
    BY <1>a, <1>15, TypeFacts, SetPhysicalKeeps, DataUnchanged DEF ActivateFails, Complete
  <1>16. ASSUME NEW p \in Ingestor, Finalize(p) PROVE DataStep
    BY <1>16, DataUnchanged DEF Finalize
  <1>17. ASSUME NEW p \in Ingestor, FinalizeFails(p) PROVE DataStep
    BY <1>17, DataUnchanged DEF FinalizeFails
  <1>18. ASSUME NEW p \in Ingestor, Compensate(p) PROVE DataStep
    BY <1>a, <1>18, TypeFacts, SetPhysicalKeeps, DataUnchanged DEF Compensate, Complete, Deactivated
  <1>19. ASSUME NEW p \in Ingestor, RecordFailure(p) PROVE DataStep
    BY <1>19, DataUnchanged DEF RecordFailure
  <1>20. ASSUME NEW p \in Remover, Fetch(p) PROVE DataStep
    BY <1>20, DataUnchanged DEF Fetch
  <1>21. ASSUME NEW p \in Remover, Inactivate(p) PROVE DataStep
    BY <1>21, DataUnchanged DEF Inactivate
  <1>22. ASSUME NEW p \in Remover, Deactivate(p) PROVE DataStep
    BY <1>a, <1>22, TypeFacts, SetPhysicalKeeps, DataUnchanged DEF Deactivate, Complete, Deactivated
  <1>23. ASSUME NEW p \in Remover, Enqueue(p) PROVE DataStep
    BY <1>23, DataUnchanged DEF Enqueue
  <1>24. ASSUME NEW p \in Remover, EnqueueRuntime(p) PROVE DataStep
    BY <1>24, DataUnchanged DEF EnqueueRuntime
  <1>25. ASSUME NEW p \in Process, Crash(p) PROVE DataStep
    BY <1>25, DataUnchanged DEF Crash
  <1>26. ASSUME NEW v \in Version, CleanRuntime(v) PROVE DataStep
    BY <1>26 DEF TypeOK, CleanRuntime, Attempt, Complete, DataStep
  <1>27. ASSUME NEW v \in Version, NEW b \in Backend, CleanIndex(b, v) PROVE DataStep
    BY <1>27 DEF TypeOK, CleanIndex, Attempt, SetPhysical, Complete, DataStep
  <1>28. ASSUME Finished PROVE DataStep
    BY <1>28, DataUnchanged DEF Finished, vars
  <1>29. ASSUME UNCHANGED vars PROVE DataStep
    BY <1>29, DataUnchanged DEF vars
  <1> QED
    BY <1>1, <1>2, <1>3, <1>4, <1>5, <1>6, <1>7, <1>8, <1>9, <1>10, <1>11, <1>12, <1>13, <1>14, <1>15, <1>16, <1>17, <1>18, <1>19, <1>20, <1>21, <1>22, <1>23, <1>24, <1>25, <1>26, <1>27, <1>28, <1>29
       DEF Next, IngestorNext, RemoverNext, CleanerNext

\* Until the version is withdrawn, what is complete or stored stays so.
LEMMA DataStays ==
  ASSUME TypeOK, CleanupOnlyOfInactive, [Next]_vars, NEW v \in Version,
         row[v].status # "INACTIVE"
  PROVE  /\ \A b \in Backend : Complete(b, v) => Complete(b, v)'
         /\ pdf[v] => pdf'[v]
         /\ snapshot[v] => snapshot'[v]
  BY DataSteps DEF CleanupOnlyOfInactive, CleanupBackend, DataStep

-----------------------------------------------------------------------------
(* What an ingestor has recorded and stored at each of its steps. *)

Early == {"idle", "resume", "start", "ingest", "put", "snapshot"}
Staging == {"stage", "fill", "mark"}
Activating == {"activate", "finalize"}

Known(q) ==
  /\ pc[q] \in Early => at[q] = ES
  /\ pc[q] \in Staging /\ at[q] = MILVUS => held[q].states[ES] = "READY"
  /\ pc[q] \in Activating => \A b \in Backend : held[q].states[b] = "READY"
  /\ row[VersionOf[q]].status # "INACTIVE" =>
       /\ pc[q] = "mark" => Complete(at[q], VersionOf[q])
       /\ pc[q] \in Staging \cup Activating \cup {"snapshot"} => pdf[VersionOf[q]]
       /\ pc[q] \in Staging \cup Activating => snapshot[VersionOf[q]]

\* No process but p moves, and none but p learns anything.
Others(p) ==
  \A q \in Process \ {p} : pc'[q] = pc[q] /\ at'[q] = at[q] /\ held'[q] = held[q]

LEMMA OthersKnow ==
  ASSUME TypeOK, CleanupOnlyOfInactive, HeldBehind, [Next]_vars,
         \A q \in Process : Known(q),
         NEW p \in Process, Others(p)
  PROVE  \A q \in Process \ {p} : Known(q)'
  <1> SUFFICES ASSUME NEW q \in Process \ {p} PROVE Known(q)'
    OBVIOUS
  <1> DEFINE v == VersionOf[q]
  <1>1. pc'[q] = pc[q] /\ at'[q] = at[q] /\ held'[q] = held[q] /\ Known(q)
    BY DEF Others
  <1>2. v \in Version /\ at[q] \in Backend
    BY TypeFacts
  <1>3. CASE row[v].status = "INACTIVE"
    BY <1>1, <1>2, <1>3, InactiveStays DEF Known
  <1>4. CASE row[v].status # "INACTIVE"
    <2>1. /\ Complete(at[q], v) => Complete(at[q], v)'
          /\ pdf[v] => pdf'[v]
          /\ snapshot[v] => snapshot'[v]
      BY <1>1, <1>2, <1>4, DataStays DEF Complete
    <2> QED
      BY <1>1, <1>4, <2>1 DEF Known
  <1> QED
    BY <1>3, <1>4

LEMMA StepSets ==
  /\ Early \cap (Staging \cup Activating) = {}
  /\ Staging \cap Activating = {}
  /\ {"failjob", "compensate", "record", "inactivate", "deactivate", "enqueue", "enqueue_runtime"}
       \cap (Early \cup Staging \cup Activating) = {}
  BY DEF Early, Staging, Activating

\* A step after which there is nothing to know.
LEMMA NothingKnown ==
  ASSUME TypeOK, CleanupOnlyOfInactive, HeldBehind, [Next]_vars,
         \A q \in Process : Known(q),
         NEW p \in Process, Others(p), pc'[p] \notin Early \cup Staging \cup Activating
  PROVE  \A q \in Process : Known(q)'
  <1>1. Known(p)'
    BY DEF Known, Early, Staging
  <1> QED
    BY <1>1, OthersKnow

LEMMA ReturnKnows ==
  ASSUME TypeOK, CleanupOnlyOfInactive, HeldBehind, [Next]_vars,
         \A q \in Process : Known(q),
         NEW p \in Process, Return(p)
  PROVE  \A q \in Process : Known(q)'
  <1>1. Others(p) /\ pc'[p] = "idle" /\ at'[p] = ES
    BY DEF TypeOK, Return, Goto, Others
  <1>2. Known(p)'
    BY <1>1 DEF Known, Early, Staging, Activating
  <1> QED
    BY <1>1, <1>2, OthersKnow

\* A transition on its own: either it is rejected, or the process goes on with new.
LEMMA TransitionKnows ==
  ASSUME TypeOK, CleanupOnlyOfInactive, HeldBehind, [Next]_vars,
         \A q \in Process : Known(q),
         NEW p \in Process, NEW t, NEW new, NEW step, Transition(p, t, new, step),
         \/ step \in {"failjob", "deactivate"}
         \/ step \in Early \ {"snapshot"} /\ pc[p] \in Early
  PROVE  \A q \in Process : Known(q)'
  <1>1. CASE Accepts(p, t)
    <2>1. Others(p) /\ pc'[p] = step /\ at'[p] = at[p]
      BY <1>1 DEF TypeOK, Transition, Commit, Goto, Others
    <2>2. Known(p)
      OBVIOUS
    <2>3. Known(p)'
      BY <2>1, <2>2 DEF Known, Early, Staging, Activating
    <2> QED
      BY <2>1, <2>3, OthersKnow
  <1>2. CASE ~Accepts(p, t)
    BY <1>2, ReturnKnows DEF Transition
  <1> QED
    BY <1>1, <1>2

LEMMA KnownStep ==
  TypeOK /\ CleanupOnlyOfInactive /\ HeldBehind /\ (\A q \in Process : Known(q)) /\ [Next]_vars
    => \A q \in Process : Known(q)'
  <1> SUFFICES ASSUME TypeOK, CleanupOnlyOfInactive, HeldBehind, [Next]_vars, \A q \in Process : Known(q)
               PROVE  \A q \in Process : Known(q)'
    OBVIOUS
  <1>a. Ingestor \subseteq Process /\ Remover \subseteq Process
    BY DEF Process
  <1>b. ASSUME NEW p \in Process, row[VersionOf[p]].status # "INACTIVE"
        PROVE  /\ Complete(at[p], VersionOf[p]) => physical'[at[p]][VersionOf[p]] \in {"staged", "active"}
               /\ pdf[VersionOf[p]] => pdf'[VersionOf[p]]
               /\ snapshot[VersionOf[p]] => snapshot'[VersionOf[p]]
    BY <1>b, DataStays, TypeFacts DEF Complete
  <1>c. \A p \in Process : row'[VersionOf[p]].status # "INACTIVE" => row[VersionOf[p]].status # "INACTIVE"
    BY InactiveStays, TypeFacts
  <1>1. ASSUME NEW p \in Ingestor, Begin(p) PROVE \A q \in Process : Known(q)'
    <2>1. Others(p) /\ pc'[p] \in {"idle", "resume", "start"} /\ pc[p] = "idle" /\ at'[p] = at[p]
      BY <1>a, <1>1 DEF TypeOK, Begin, Goto, Others
    <2>2. Known(p)
      BY <1>a
    <2>3. Known(p)'
      BY <1>a, <1>b, <1>c, <1>1, <2>1, <2>2 DEF Known, Early, Staging, Activating
    <2> QED
      BY <1>a, <2>1, <2>3, OthersKnow
  <1>2. ASSUME NEW p \in Ingestor, Resume(p) PROVE \A q \in Process : Known(q)'
    BY <1>a, <1>2, TransitionKnows DEF Resume, Early
  <1>3. ASSUME NEW p \in Ingestor, StartJob(p) PROVE \A q \in Process : Known(q)'
    <2>1. Others(p) /\ pc'[p] = "ingest" /\ pc[p] = "start" /\ at'[p] = at[p]
      BY <1>a, <1>3 DEF TypeOK, StartJob, Goto, Others
    <2>2. Known(p)
      BY <1>a
    <2>3. Known(p)'
      BY <1>a, <1>b, <1>c, <1>3, <2>1, <2>2 DEF Known, Early, Staging, Activating
    <2> QED
      BY <1>a, <2>1, <2>3, OthersKnow
  <1>4. ASSUME NEW p \in Ingestor, IngestPasses(p) PROVE \A q \in Process : Known(q)'
    BY <1>a, <1>4, TransitionKnows DEF IngestPasses, Early
  <1>5. ASSUME NEW p \in Ingestor, IngestNeedsReview(p) PROVE \A q \in Process : Known(q)'
    BY <1>a, <1>5, TransitionKnows DEF IngestNeedsReview, Early
  <1>6. ASSUME NEW p \in Ingestor, FailVersion(p) PROVE \A q \in Process : Known(q)'
    BY <1>a, <1>6, TransitionKnows DEF FailVersion, Early
  <1>7. ASSUME NEW p \in Ingestor, FailJob(p) PROVE \A q \in Process : Known(q)'
    BY <1>a, <1>7, ReturnKnows DEF FailJob
  <1>8. ASSUME NEW p \in Ingestor, PutPdf(p) PROVE \A q \in Process : Known(q)'
    <2>1. Others(p) /\ pc'[p] = "snapshot" /\ pc[p] = "put" /\ at'[p] = at[p]
      BY <1>a, <1>8 DEF TypeOK, PutPdf, Goto, Others
    <2>2. Known(p)
      BY <1>a
    <2>3. Known(p)'
      BY <1>a, <1>b, <1>c, <1>8, <2>1, <2>2, TypeFacts DEF Known, Early, Staging, Activating, TypeOK, PutPdf
    <2> QED
      BY <1>a, <2>1, <2>3, OthersKnow
  <1>9. ASSUME NEW p \in Ingestor, PersistSnapshot(p) PROVE \A q \in Process : Known(q)'
    <2>1. Others(p) /\ pc'[p] = "stage" /\ pc[p] = "snapshot" /\ at'[p] = at[p]
      BY <1>a, <1>9 DEF TypeOK, PersistSnapshot, Goto, Others
    <2>2. Known(p)
      BY <1>a
    <2>3. Known(p)'
      BY <1>a, <1>b, <1>c, <1>9, <2>1, <2>2, BackendTypes, TypeFacts DEF Known, Early, Staging, Activating, TypeOK, PersistSnapshot
    <2> QED
      BY <1>a, <2>1, <2>3, OthersKnow
  <1>10. ASSUME NEW p \in Ingestor, OpenStage(p) PROVE \A q \in Process : Known(q)'
    <2>1. Others(p) /\ pc'[p] \in {"mark", "fill"} /\ pc[p] = "stage" /\ at'[p] = at[p] /\ held'[p] = held[p]
            /\ (pc'[p] = "mark" => Complete(at[p], VersionOf[p]))
      BY <1>a, <1>10 DEF TypeOK, OpenStage, Goto, Others
    <2>2. Known(p)
      BY <1>a
    <2>3. Known(p)'
      BY <1>a, <1>b, <1>c, <1>10, <2>1, <2>2 DEF Known, Early, Staging, Activating, Complete
    <2> QED
      BY <1>a, <2>1, <2>3, OthersKnow
  <1>11. ASSUME NEW p \in Ingestor, FillStage(p) PROVE \A q \in Process : Known(q)'
    <2>1. Others(p) /\ pc'[p] = "mark" /\ pc[p] = "fill" /\ at'[p] = at[p] /\ held'[p] = held[p]
      BY <1>a, <1>11 DEF TypeOK, FillStage, Goto, Others
    <2>2. Known(p)
      BY <1>a
    <2>3. Known(p)'
      BY <1>a, <1>b, <1>c, <1>11, <2>1, <2>2, TypeFacts DEF Known, Early, Staging, Activating, TypeOK, FillStage, SetPhysical, Complete
    <2> QED
      BY <1>a, <2>1, <2>3, OthersKnow
  <1>12. ASSUME NEW p \in Ingestor, StageFails(p) PROVE \A q \in Process : Known(q)'
    <2>1. Others(p) /\ pc'[p] = "record"
      BY <1>a, <1>12 DEF TypeOK, StageFails, Goto, Others
    <2> QED
      BY <1>a, <2>1, StepSets, NothingKnown
  <1>13. ASSUME NEW p \in Ingestor, MarkStaged(p) PROVE \A q \in Process : Known(q)'
    <2>1. CASE ~Accepts(p, "PROCESSING")
      BY <1>a, <1>13, <2>1, ReturnKnows DEF MarkStaged
    <2>2. CASE Accepts(p, "PROCESSING")
      <3> DEFINE new == [Revised(p, "PROCESSING") EXCEPT !.states[at[p]] = "READY", !.failed = FALSE]
      <3>1. Commit(p, new) /\ pc[p] = "mark"
        BY <1>13, <2>2 DEF MarkStaged
      <3>2. /\ at[p] \in Backend /\ held[p] \in Row
            /\ held[p] = row[VersionOf[p]] /\ new.status = "PROCESSING"
            /\ new.states = [held[p].states EXCEPT ![at[p]] = "READY"]
        <4>1. Revised(p, "PROCESSING") \in Row
          BY <1>a, RevisedType DEF LifecycleStatus
        <4>2. held[p] = row[VersionOf[p]]
          BY <1>a, <2>2, <3>1 DEF HeldBehind, Accepts
        <4> QED
          BY <1>a, <4>1, <4>2, TypeFacts, RevisedFields DEF TypeOK, Row
      <3> HIDE DEF new
      <3>3. Others(p) /\ held'[p] = new
        BY <1>a, <1>13, <2>2, <3>1 DEF TypeOK, MarkStaged, Commit, Goto, Others
      <3>4. Known(p)
        BY <1>a
      <3>5. ASSUME at[p] = ES PROVE Known(p)'
        <4>1. pc'[p] = "stage" /\ at'[p] = MILVUS
          BY <1>a, <1>13, <2>2, <3>5 DEF TypeOK, MarkStaged, Goto
        <4>2. new.states[ES] = "READY"
          BY <3>2, <3>5 DEF Row
        <4> QED
          BY <1>a, <1>b, <1>c, <3>1, <3>3, <3>4, <4>1, <4>2 DEF Known, Early, Staging, Activating
      <3>6. ASSUME at[p] # ES PROVE Known(p)'
        <4>1. pc'[p] = "activate" /\ at[p] = MILVUS
          BY <1>a, <1>13, <2>2, <3>2, <3>6 DEF TypeOK, MarkStaged, Goto, Backend, ES, MILVUS
        <4>2. held[p].states[ES] = "READY"
          BY <3>1, <3>4, <4>1 DEF Known, Staging
        <4>3. \A b \in Backend : new.states[b] = "READY"
          BY <3>2, <4>1, <4>2 DEF Row, Backend, ES, MILVUS
        <4> QED
          BY <1>a, <1>b, <1>c, <3>1, <3>3, <3>4, <4>1, <4>3 DEF Known, Early, Staging, Activating
      <3>7. Known(p)'
        BY <3>5, <3>6
      <3> QED
        BY <1>a, <3>3, <3>7, OthersKnow
    <2> QED
      BY <2>1, <2>2
  <1>14. ASSUME NEW p \in Ingestor, Activate(p) PROVE \A q \in Process : Known(q)'
    <2>1. Others(p) /\ pc'[p] \in Activating /\ pc[p] \in Activating /\ held'[p] = held[p]
      BY <1>a, <1>14 DEF TypeOK, Activate, Goto, Others, Activating
    <2>2. Known(p)
      BY <1>a
    <2>3. Known(p)'
      BY <1>a, <1>b, <1>c, <1>14, <2>1, <2>2 DEF Known, Early, Staging, Activating
    <2> QED
      BY <1>a, <2>1, <2>3, OthersKnow
  <1>15. ASSUME NEW p \in Ingestor, ActivateFails(p) PROVE \A q \in Process : Known(q)'
    <2>1. Others(p) /\ pc'[p] = "compensate"
      BY <1>a, <1>15 DEF TypeOK, ActivateFails, Goto, Others
    <2> QED
      BY <1>a, <2>1, StepSets, NothingKnown
  <1>16. ASSUME NEW p \in Ingestor, Finalize(p) PROVE \A q \in Process : Known(q)'
    <2>1. CASE Return(p)
      BY <1>a, <2>1, ReturnKnows
    <2>2. CASE Goto(p, "compensate") /\ UNCHANGED <<held, at, blamed>>
      <3>1. Others(p) /\ pc'[p] = "compensate"
        BY <1>a, <2>2 DEF TypeOK, Goto, Others
      <3> QED
        BY <1>a, <3>1, StepSets, NothingKnown
    <2> QED
      BY <1>16, <2>1, <2>2 DEF Finalize
  <1>17. ASSUME NEW p \in Ingestor, FinalizeFails(p) PROVE \A q \in Process : Known(q)'
    <2>1. Others(p) /\ pc'[p] = "compensate"
      BY <1>a, <1>17 DEF TypeOK, FinalizeFails, Goto, Others
    <2> QED
      BY <1>a, <2>1, StepSets, NothingKnown
  <1>18. ASSUME NEW p \in Ingestor, Compensate(p) PROVE \A q \in Process : Known(q)'
    <2>1. Others(p) /\ pc'[p] \in {"compensate", "record"}
      BY <1>a, <1>18 DEF TypeOK, Compensate, Goto, Others
    <2> QED
      BY <1>a, <2>1, StepSets, NothingKnown
  <1>19. ASSUME NEW p \in Ingestor, RecordFailure(p) PROVE \A q \in Process : Known(q)'
    BY <1>a, <1>19, ReturnKnows DEF RecordFailure
  <1>20. ASSUME NEW p \in Remover, Fetch(p) PROVE \A q \in Process : Known(q)'
    <2>1. Others(p) /\ pc'[p] \in {"inactivate", "deactivate", "enqueue", "enqueue_runtime"}
      BY <1>a, <1>20 DEF TypeOK, Fetch, Goto, Others
    <2> QED
      BY <1>a, <2>1, StepSets, NothingKnown
  <1>21. ASSUME NEW p \in Remover, Inactivate(p) PROVE \A q \in Process : Known(q)'
    BY <1>a, <1>21, TransitionKnows DEF Inactivate, Early
  <1>22. ASSUME NEW p \in Remover, Deactivate(p) PROVE \A q \in Process : Known(q)'
    <2>1. Others(p) /\ pc'[p] \in {"inactivate", "deactivate", "enqueue", "enqueue_runtime"}
      BY <1>a, <1>22 DEF TypeOK, Deactivate, Goto, Others
    <2> QED
      BY <1>a, <2>1, StepSets, NothingKnown
  <1>23. ASSUME NEW p \in Remover, Enqueue(p) PROVE \A q \in Process : Known(q)'
    <2>1. Others(p) /\ pc'[p] \in {"inactivate", "deactivate", "enqueue", "enqueue_runtime"}
      BY <1>a, <1>23 DEF TypeOK, Enqueue, Goto, Others
    <2> QED
      BY <1>a, <2>1, StepSets, NothingKnown
  <1>24. ASSUME NEW p \in Remover, EnqueueRuntime(p) PROVE \A q \in Process : Known(q)'
    BY <1>a, <1>24, ReturnKnows DEF EnqueueRuntime
  <1>25. ASSUME NEW p \in Process, Crash(p) PROVE \A q \in Process : Known(q)'
    BY <1>a, <1>25, ReturnKnows DEF Crash
  <1>26. ASSUME NEW v \in Version, CleanRuntime(v) PROVE \A q \in Process : Known(q)'
    <2> SUFFICES ASSUME NEW p \in Process PROVE Known(p)'
      OBVIOUS
    <2>1. Others(p) /\ pc'[p] = pc[p] /\ at'[p] = at[p] /\ held'[p] = held[p]
      BY <1>26 DEF CleanRuntime, Others
    <2>2. Known(p)
      OBVIOUS
    <2> QED
      BY <1>b, <1>c, <2>1, <2>2 DEF Known, Complete
  <1>27. ASSUME NEW v \in Version, NEW b \in Backend, CleanIndex(b, v) PROVE \A q \in Process : Known(q)'
    <2> SUFFICES ASSUME NEW p \in Process PROVE Known(p)'
      OBVIOUS
    <2>1. Others(p) /\ pc'[p] = pc[p] /\ at'[p] = at[p] /\ held'[p] = held[p]
      BY <1>27 DEF CleanIndex, Others
    <2>2. Known(p)
      OBVIOUS
    <2> QED
      BY <1>b, <1>c, <2>1, <2>2 DEF Known, Complete
  <1>28. ASSUME Finished PROVE \A q \in Process : Known(q)'
    <2> SUFFICES ASSUME NEW p \in Process PROVE Known(p)'
      OBVIOUS
    <2>1. Others(p) /\ pc'[p] = pc[p] /\ at'[p] = at[p] /\ held'[p] = held[p]
      BY <1>28 DEF Finished, vars, Others
    <2>2. Known(p)
      OBVIOUS
    <2> QED
      BY <1>b, <1>c, <2>1, <2>2 DEF Known, Complete
  <1>29. ASSUME UNCHANGED vars PROVE \A q \in Process : Known(q)'
    <2> SUFFICES ASSUME NEW p \in Process PROVE Known(p)'
      OBVIOUS
    <2>1. Others(p) /\ pc'[p] = pc[p] /\ at'[p] = at[p] /\ held'[p] = held[p]
      BY <1>29 DEF vars, Others
    <2>2. Known(p)
      OBVIOUS
    <2> QED
      BY <1>b, <1>c, <2>1, <2>2 DEF Known, Complete
  <1> QED
    BY <1>1, <1>2, <1>3, <1>4, <1>5, <1>6, <1>7, <1>8, <1>9, <1>10, <1>11, <1>12, <1>13, <1>14, <1>15, <1>16, <1>17, <1>18, <1>19, <1>20, <1>21, <1>22, <1>23, <1>24, <1>25, <1>26, <1>27, <1>28, <1>29
       DEF Next, IngestorNext, RemoverNext, CleanerNext

LEMMA StepKnowsStatesStep ==
  /\ TypeOK /\ CleanupOnlyOfInactive /\ HeldBehind /\ StepKnowsStates /\ StepHasStored
  /\ [Next]_vars
  => StepKnowsStates' /\ StepHasStored'
  <1> SUFFICES ASSUME TypeOK, CleanupOnlyOfInactive, HeldBehind, StepKnowsStates, StepHasStored,
                      [Next]_vars
               PROVE  StepKnowsStates' /\ StepHasStored'
    OBVIOUS
  <1>1. \A q \in Process : Known(q)
    BY DEF StepKnowsStates, StepHasStored, Known, Early, Staging, Activating
  <1>2. \A q \in Process : Known(q)'
    BY <1>1, KnownStep
  <1> QED
    BY <1>2 DEF StepKnowsStates, StepHasStored, Known, Early, Staging, Activating

-----------------------------------------------------------------------------
(* What the fact source claims. *)

\* A side is recorded as staged when it is complete, and a version READY when its
\* PDF and chunks are stored.
ClaimStep(v) ==
  /\ \A b \in Backend :
       row'[v].states[b] = "READY" =>
         row[v].states[b] = "READY" \/ Complete(b, v) \/ row[v].status = "INACTIVE"
  /\ row'[v].status = "READY" => row[v].status = "READY" \/ (pdf[v] /\ snapshot[v])

LEMMA RowUnchangedClaims ==
  ASSUME UNCHANGED row
  PROVE  \A v \in Version : ClaimStep(v)
  BY DEF ClaimStep

\* An update that leaves index_states alone and does not publish.
LEMMA CommitClaims ==
  ASSUME TypeOK, NEW p \in Process, NEW new,
         row' = [row EXCEPT ![VersionOf[p]] = new],
         new.status # "READY",
         \A b \in Backend : new.states[b] = "READY" =>
           \/ row[VersionOf[p]].states[b] = "READY"
           \/ Complete(b, VersionOf[p])
           \/ row[VersionOf[p]].status = "INACTIVE"
  PROVE  \A v \in Version : ClaimStep(v)
  BY TypeFacts DEF TypeOK, ClaimStep

LEMMA TransitionClaims ==
  ASSUME TypeOK, NEW p \in Process, NEW t, NEW new, NEW step, Transition(p, t, new, step),
         new.status # "READY", new.states = row[VersionOf[p]].states
  PROVE  \A v \in Version : ClaimStep(v)
  <1>1. CASE Accepts(p, t)
    <2>1. row' = [row EXCEPT ![VersionOf[p]] = new]
      BY <1>1 DEF Transition, Commit
    <2> QED
      BY <2>1, CommitClaims
  <1>2. CASE ~Accepts(p, t)
    BY <1>2, RowUnchangedClaims DEF Transition
  <1> QED
    BY <1>1, <1>2

LEMMA ClaimSteps ==
  TypeOK /\ HeldBehind /\ (\A q \in Process : Known(q)) /\ [Next]_vars => \A v \in Version : ClaimStep(v)
  <1> SUFFICES ASSUME TypeOK, HeldBehind, \A q \in Process : Known(q), [Next]_vars
               PROVE  \A v \in Version : ClaimStep(v)
    OBVIOUS
  <1>a. Ingestor \subseteq Process /\ Remover \subseteq Process
    BY DEF Process
  <1>b. \A p \in Process : Known(p)
    OBVIOUS
  <1>1. ASSUME NEW p \in Ingestor, Begin(p) PROVE \A v \in Version : ClaimStep(v)
    <2>1. CASE UNCHANGED row
      BY <2>1, RowUnchangedClaims
    <2>2. CASE row' = [row EXCEPT ![VersionOf[p]] = Registered(VersionOf[p])]
      <3> SUFFICES ASSUME NEW v \in Version PROVE ClaimStep(v)
        OBVIOUS
      <3>1. RegisteredRow.status = "REGISTERED" /\ \A b \in Backend : RegisteredRow.states[b] = "PENDING"
        BY DEF RegisteredRow, NoRow
      <3>2. row'[v] = row[v] \/ row'[v] = RegisteredRow
        BY <1>a, <2>2, TypeFacts DEF TypeOK, Registered
      <3> QED
        BY <3>1, <3>2 DEF ClaimStep
    <2> QED
      BY <1>1, <2>1, <2>2 DEF Begin
  <1>2. ASSUME NEW p \in Ingestor, Resume(p) PROVE \A v \in Version : ClaimStep(v)
    <2> DEFINE new == [Revised(p, "PROCESSING") EXCEPT !.failed = FALSE]
    <2>1. Revised(p, "PROCESSING") \in Row
      BY <1>a, RevisedType DEF LifecycleStatus
    <2>2. new.status = "PROCESSING" /\ new.states = row[VersionOf[p]].states
      BY <1>a, <2>1, RevisedFields DEF Row
    <2> QED
      BY <1>a, <1>2, <2>2, TransitionClaims DEF Resume
  <1>3. ASSUME NEW p \in Ingestor, StartJob(p) PROVE \A v \in Version : ClaimStep(v)
    BY <1>3, RowUnchangedClaims DEF StartJob
  <1>4. ASSUME NEW p \in Ingestor, IngestPasses(p) PROVE \A v \in Version : ClaimStep(v)
    <2> DEFINE new == [Revised(p, "PROCESSING") EXCEPT !.chunked = TRUE, !.failed = FALSE]
    <2>1. Revised(p, "PROCESSING") \in Row
      BY <1>a, RevisedType DEF LifecycleStatus
    <2>2. new.status = "PROCESSING" /\ new.states = row[VersionOf[p]].states
      BY <1>a, <2>1, RevisedFields DEF Row
    <2> QED
      BY <1>a, <1>4, <2>2, TransitionClaims DEF IngestPasses
  <1>5. ASSUME NEW p \in Ingestor, IngestNeedsReview(p) PROVE \A v \in Version : ClaimStep(v)
    <2> DEFINE new == [Revised(p, "REVIEW") EXCEPT !.chunked = TRUE, !.failed = FALSE]
    <2>1. Revised(p, "REVIEW") \in Row
      BY <1>a, RevisedType DEF LifecycleStatus
    <2>2. new.status = "REVIEW" /\ new.states = row[VersionOf[p]].states
      BY <1>a, <2>1, RevisedFields DEF Row
    <2> QED
      BY <1>a, <1>5, <2>2, TransitionClaims DEF IngestNeedsReview
  <1>6. ASSUME NEW p \in Ingestor, FailVersion(p) PROVE \A v \in Version : ClaimStep(v)
    <2> DEFINE new == [Revised(p, "FAILED") EXCEPT !.failed = TRUE]
    <2>1. Revised(p, "FAILED") \in Row
      BY <1>a, RevisedType DEF LifecycleStatus
    <2>2. new.status = "FAILED" /\ new.states = row[VersionOf[p]].states
      BY <1>a, <2>1, RevisedFields DEF Row
    <2> QED
      BY <1>a, <1>6, <2>2, TransitionClaims DEF FailVersion
  <1>7. ASSUME NEW p \in Ingestor, FailJob(p) PROVE \A v \in Version : ClaimStep(v)
    BY <1>7, RowUnchangedClaims DEF FailJob
  <1>8. ASSUME NEW p \in Ingestor, PutPdf(p) PROVE \A v \in Version : ClaimStep(v)
    BY <1>8, RowUnchangedClaims DEF PutPdf
  <1>9. ASSUME NEW p \in Ingestor, PersistSnapshot(p) PROVE \A v \in Version : ClaimStep(v)
    BY <1>9, RowUnchangedClaims DEF PersistSnapshot
  <1>10. ASSUME NEW p \in Ingestor, OpenStage(p) PROVE \A v \in Version : ClaimStep(v)
    BY <1>10, RowUnchangedClaims DEF OpenStage
  <1>11. ASSUME NEW p \in Ingestor, FillStage(p) PROVE \A v \in Version : ClaimStep(v)
    BY <1>11, RowUnchangedClaims DEF FillStage
  <1>12. ASSUME NEW p \in Ingestor, StageFails(p) PROVE \A v \in Version : ClaimStep(v)
    BY <1>12, RowUnchangedClaims DEF StageFails
  <1>13. ASSUME NEW p \in Ingestor, MarkStaged(p) PROVE \A v \in Version : ClaimStep(v)
    <2>1. CASE Accepts(p, "PROCESSING")
      <3> DEFINE new == [Revised(p, "PROCESSING") EXCEPT !.states[at[p]] = "READY", !.failed = FALSE]
      <3>1. pc[p] = "mark" /\ row' = [row EXCEPT ![VersionOf[p]] = new]
        BY <1>13, <2>1 DEF MarkStaged, Commit
      <3>2. Revised(p, "PROCESSING") \in Row /\ at[p] \in Backend
        BY <1>a, RevisedType DEF TypeOK, LifecycleStatus
      <3>3. /\ new.status = "PROCESSING"
            /\ new.states = [row[VersionOf[p]].states EXCEPT ![at[p]] = "READY"]
        BY <1>a, <3>2, RevisedFields DEF Row
      <3>4. row[VersionOf[p]].states \in [Backend -> IndexState]
        BY <1>a, TypeFacts DEF Row
      <3>5. \A b \in Backend : new.states[b] = "READY" =>
              \/ row[VersionOf[p]].states[b] = "READY"
              \/ Complete(b, VersionOf[p])
              \/ row[VersionOf[p]].status = "INACTIVE"
        BY <1>a, <1>b, <3>1, <3>2, <3>3, <3>4 DEF Known
      <3> HIDE DEF new
      <3> QED
        BY <1>a, <3>1, <3>3, <3>5, CommitClaims
    <2>2. CASE ~Accepts(p, "PROCESSING")
      BY <1>13, <2>2, RowUnchangedClaims DEF MarkStaged
    <2> QED
      BY <2>1, <2>2
  <1>14. ASSUME NEW p \in Ingestor, Activate(p) PROVE \A v \in Version : ClaimStep(v)
    BY <1>14, RowUnchangedClaims DEF Activate
  <1>15. ASSUME NEW p \in Ingestor, ActivateFails(p) PROVE \A v \in Version : ClaimStep(v)
    BY <1>15, RowUnchangedClaims DEF ActivateFails
  <1>16. ASSUME NEW p \in Ingestor, Finalize(p) PROVE \A v \in Version : ClaimStep(v)
    <2> SUFFICES ASSUME NEW v \in Version PROVE ClaimStep(v)
      OBVIOUS
    <2>1. CASE v # VersionOf[p]
      <3>1. row'[v] = row[v]
        BY <1>16, <2>1 DEF TypeOK, Finalize
      <3> QED
        BY <3>1 DEF ClaimStep
    <2>2. CASE v = VersionOf[p]
      <3>1. held[p] = row[v] /\ pc[p] = "finalize" /\ Known(p)
        BY <1>a, <1>b, <1>16, <2>2 DEF Finalize, Accepts, HeldBehind
      <3>2. \A b \in Backend : row[v].states[b] = "READY"
        BY <3>1 DEF Known, Activating
      <3>3. row[v].status # "INACTIVE"
        <4>1. AllowedTransitions["INACTIVE"] = {}
          BY DEF AllowedTransitions
        <4> QED
          BY <1>16, <2>2, <4>1 DEF Finalize, Accepts
      <3>4. pdf[v] /\ snapshot[v]
        BY <2>2, <3>1, <3>3 DEF Known, Activating
      <3> QED
        BY <3>2, <3>4 DEF ClaimStep
    <2> QED
      BY <2>1, <2>2
  <1>17. ASSUME NEW p \in Ingestor, FinalizeFails(p) PROVE \A v \in Version : ClaimStep(v)
    BY <1>17, RowUnchangedClaims DEF FinalizeFails
  <1>18. ASSUME NEW p \in Ingestor, Compensate(p) PROVE \A v \in Version : ClaimStep(v)
    BY <1>18, RowUnchangedClaims DEF Compensate
  <1>19. ASSUME NEW p \in Ingestor, RecordFailure(p) PROVE \A v \in Version : ClaimStep(v)
    <2>1. CASE Accepts(p, "PROCESSING")
      <3> DEFINE new == [Revised(p, "PROCESSING") EXCEPT !.states[blamed[p]] = "FAILED", !.failed = TRUE]
      <3>1. row' = [row EXCEPT ![VersionOf[p]] = new]
        BY <1>19, <2>1 DEF RecordFailure
      <3>2. Revised(p, "PROCESSING") \in Row /\ blamed[p] \in Backend
        BY <1>a, RevisedType DEF TypeOK, LifecycleStatus
      <3>3. /\ new.status = "PROCESSING"
            /\ new.states = [row[VersionOf[p]].states EXCEPT ![blamed[p]] = "FAILED"]
        BY <1>a, <3>2, RevisedFields DEF Row
      <3>4. row[VersionOf[p]].states \in [Backend -> IndexState]
        BY <1>a, TypeFacts DEF Row
      <3>5. \A b \in Backend : new.states[b] = "READY" =>
              \/ row[VersionOf[p]].states[b] = "READY"
              \/ Complete(b, VersionOf[p])
              \/ row[VersionOf[p]].status = "INACTIVE"
        BY <3>2, <3>3, <3>4
      <3> HIDE DEF new
      <3> QED
        BY <1>a, <3>1, <3>3, <3>5, CommitClaims
    <2>2. CASE ~Accepts(p, "PROCESSING")
      BY <1>19, <2>2, RowUnchangedClaims DEF RecordFailure
    <2> QED
      BY <2>1, <2>2
  <1>20. ASSUME NEW p \in Remover, Fetch(p) PROVE \A v \in Version : ClaimStep(v)
    BY <1>20, RowUnchangedClaims DEF Fetch
  <1>21. ASSUME NEW p \in Remover, Inactivate(p) PROVE \A v \in Version : ClaimStep(v)
    <2> DEFINE new == Revised(p, "INACTIVE")
    <2>1. Revised(p, "INACTIVE") \in Row
      BY <1>a, RevisedType DEF LifecycleStatus
    <2>2. new.status = "INACTIVE" /\ new.states = row[VersionOf[p]].states
      BY <1>a, <2>1, RevisedFields DEF Row
    <2> QED
      BY <1>a, <1>21, <2>2, TransitionClaims DEF Inactivate
  <1>22. ASSUME NEW p \in Remover, Deactivate(p) PROVE \A v \in Version : ClaimStep(v)
    BY <1>22, RowUnchangedClaims DEF Deactivate
  <1>23. ASSUME NEW p \in Remover, Enqueue(p) PROVE \A v \in Version : ClaimStep(v)
    BY <1>23, RowUnchangedClaims DEF Enqueue
  <1>24. ASSUME NEW p \in Remover, EnqueueRuntime(p) PROVE \A v \in Version : ClaimStep(v)
    BY <1>24, RowUnchangedClaims DEF EnqueueRuntime
  <1>25. ASSUME NEW p \in Process, Crash(p) PROVE \A v \in Version : ClaimStep(v)
    BY <1>25, RowUnchangedClaims DEF Crash
  <1>26. ASSUME NEW u \in Version, CleanRuntime(u) PROVE \A v \in Version : ClaimStep(v)
    BY <1>26, RowUnchangedClaims DEF CleanRuntime
  <1>27. ASSUME NEW u \in Version, NEW b \in Backend, CleanIndex(b, u) PROVE \A v \in Version : ClaimStep(v)
    BY <1>27, RowUnchangedClaims DEF CleanIndex
  <1>28. ASSUME Finished PROVE \A v \in Version : ClaimStep(v)
    BY <1>28, RowUnchangedClaims DEF Finished, vars
  <1>29. ASSUME UNCHANGED vars PROVE \A v \in Version : ClaimStep(v)
    BY <1>29, RowUnchangedClaims DEF vars
  <1> QED
    BY <1>1, <1>2, <1>3, <1>4, <1>5, <1>6, <1>7, <1>8, <1>9, <1>10, <1>11, <1>12, <1>13, <1>14, <1>15, <1>16, <1>17, <1>18, <1>19, <1>20, <1>21, <1>22, <1>23, <1>24, <1>25, <1>26, <1>27, <1>28, <1>29
       DEF Next, IngestorNext, RemoverNext, CleanerNext

LEMMA ClaimsStep ==
  /\ TypeOK /\ CleanupOnlyOfInactive /\ HeldBehind /\ StepKnowsStates /\ StepHasStored
  /\ MarkedMeansStaged /\ ReadyHasSnapshot /\ [Next]_vars
  => MarkedMeansStaged' /\ ReadyHasSnapshot'
  <1> SUFFICES ASSUME TypeOK, CleanupOnlyOfInactive, HeldBehind, StepKnowsStates, StepHasStored,
                      MarkedMeansStaged, ReadyHasSnapshot, [Next]_vars
               PROVE  MarkedMeansStaged' /\ ReadyHasSnapshot'
    OBVIOUS
  <1>1. \A q \in Process : Known(q)
    BY DEF StepKnowsStates, StepHasStored, Known, Early, Staging, Activating
  <1>2. \A v \in Version : ClaimStep(v)
    BY <1>1, ClaimSteps
  <1>3. ASSUME NEW v \in Version, row'[v].status # "INACTIVE", NEW b \in Backend,
               row'[v].states[b] = "READY"
        PROVE  Complete(b, v)'
    <2>1. row[v].status # "INACTIVE"
      BY <1>3, InactiveStays
    <2>2. Complete(b, v)
      BY <1>2, <1>3, <2>1 DEF ClaimStep, MarkedMeansStaged
    <2> QED
      BY <2>1, <2>2, DataStays
  <1>4. ASSUME NEW v \in Version, row'[v].status = "READY"
        PROVE  pdf'[v] /\ snapshot'[v]
    <2>1. row[v].status # "INACTIVE"
      BY <1>4, InactiveStays
    <2>2. pdf[v] /\ snapshot[v]
      BY <1>2, <1>4 DEF ClaimStep, ReadyHasSnapshot, Ready
    <2> QED
      BY <2>1, <2>2, DataStays
  <1> QED
    BY <1>3, <1>4 DEF MarkedMeansStaged, ReadyHasSnapshot, Ready

-----------------------------------------------------------------------------
(* The invariant and what follows from it. *)

LEMMA InitInv == Init => PublicationInv
  <1> SUFFICES ASSUME Init PROVE PublicationInv
    OBVIOUS
  <1>1. TypeOK
    BY InitType
  <1>2. CleanupOnlyOfInactive
    BY DEF Init, CleanupOnlyOfInactive
  <1>3. HeldBehind
    BY ConstantsAssumption DEF Init, HeldBehind, NoRow
  <1>4. StepKnowsStatus /\ StepKnowsStates /\ StepHasStored
    BY DEF Init, StepKnowsStatus, StepKnowsStates, StepHasStored, IngestorStep
  <1>5. MarkedMeansStaged /\ ReadyHasSnapshot
    BY DEF Init, MarkedMeansStaged, ReadyHasSnapshot, Ready, NoRow
  <1> QED
    BY <1>1, <1>2, <1>3, <1>4, <1>5 DEF PublicationInv

LEMMA PublicationInvStep == PublicationInv /\ [Next]_vars => PublicationInv'
  <1> SUFFICES ASSUME PublicationInv, [Next]_vars PROVE PublicationInv'
    OBVIOUS
  <1> USE DEF PublicationInv
  <1>1. TypeOK' /\ CleanupOnlyOfInactive' /\ HeldBehind'
    BY TypeStep, CleanupOnlyStep, HeldBehindStep
  <1>2. StepKnowsStatus'
    BY StepKnowsStatusStep
  <1>3. StepKnowsStates' /\ StepHasStored'
    BY StepKnowsStatesStep
  <1>4. MarkedMeansStaged' /\ ReadyHasSnapshot'
    BY ClaimsStep
  <1> QED
    BY <1>1, <1>2, <1>3, <1>4

\* The inductive invariant of ingestion, publication and inactivation.
THEOREM PublicationInvariant == Spec => []PublicationInv
  BY InitInv, PublicationInvStep, PTL DEF Spec

\* A side recorded as staged is complete until the version is withdrawn, however
\* many ingestors publish it at once and wherever they crash.
THEOREM MarkedSidesAreStaged == Spec => []MarkedMeansStaged
  <1>1. PublicationInv => MarkedMeansStaged
    BY DEF PublicationInv
  <1> QED
    BY <1>1, PublicationInvariant, PTL

\* A READY version has its PDF, its registration and its chunk rows.
THEOREM ReadyVersionsAreStored == Spec => []ReadyHasSnapshot
  <1>1. PublicationInv => ReadyHasSnapshot
    BY DEF PublicationInv
  <1> QED
    BY <1>1, PublicationInvariant, PTL

-----------------------------------------------------------------------------
(* One publisher for each version, which learns of its last commit.        *)

(* What a step does to the rows: to one of them, and READY only by Finalize. *)

\* A version becomes READY.
Finalizes(v) == \E p \in Ingestor : VersionOf[p] = v /\ Finalize(p)

RowUpdate ==
  \/ row' = row
  \/ \E v \in Version :
       /\ \A u \in Version \ {v} : row'[u] = row[u]
       /\ row'[v].status = "READY" => row[v].status = "READY" \/ Finalizes(v)

LEMMA TransitionUpdates ==
  ASSUME TypeOK, NEW p \in Process, NEW s, NEW new, NEW step, Transition(p, s, new, step),
         new.status # "READY"
  PROVE  RowUpdate
  <1>1. row' = row \/ row' = [row EXCEPT ![VersionOf[p]] = new]
    BY DEF Transition, Commit
  <1>2. VersionOf[p] \in Version
    BY TypeFacts
  <1> QED
    BY <1>1, <1>2 DEF TypeOK, RowUpdate

LEMMA RowUpdates == TypeOK /\ [Next]_vars => RowUpdate
  <1> SUFFICES ASSUME TypeOK, [Next]_vars PROVE RowUpdate
    OBVIOUS
  <1>a. Ingestor \subseteq Process /\ Remover \subseteq Process
    BY DEF Process
  <1>1. ASSUME NEW p \in Ingestor, Begin(p) PROVE RowUpdate
    <2>1. row' = row \/ row' = [row EXCEPT ![VersionOf[p]] = Registered(VersionOf[p])]
      BY <1>1 DEF Begin
    <2>2. Registered(VersionOf[p]).status = "READY" => row[VersionOf[p]].status = "READY"
      BY DEF Registered, RegisteredRow, NoRow
    <2>3. VersionOf[p] \in Version
      BY <1>a, TypeFacts
    <2> QED
      BY <2>1, <2>2, <2>3 DEF TypeOK, RowUpdate
  <1>2. ASSUME NEW p \in Ingestor, Resume(p) PROVE RowUpdate
    <2> DEFINE new == [Revised(p, "PROCESSING") EXCEPT !.failed = FALSE]
    <2>1. new.status # "READY"
      BY <1>a, RevisedType, RevisedFields DEF LifecycleStatus, Row
    <2> QED
      BY <1>a, <1>2, <2>1, TransitionUpdates DEF Resume
  <1>3. ASSUME NEW p \in Ingestor, StartJob(p) PROVE RowUpdate
    BY <1>3 DEF StartJob, RowUpdate
  <1>4. ASSUME NEW p \in Ingestor, IngestPasses(p) PROVE RowUpdate
    <2> DEFINE new == [Revised(p, "PROCESSING") EXCEPT !.chunked = TRUE, !.failed = FALSE]
    <2>1. new.status # "READY"
      BY <1>a, RevisedType, RevisedFields DEF LifecycleStatus, Row
    <2> QED
      BY <1>a, <1>4, <2>1, TransitionUpdates DEF IngestPasses
  <1>5. ASSUME NEW p \in Ingestor, IngestNeedsReview(p) PROVE RowUpdate
    <2> DEFINE new == [Revised(p, "REVIEW") EXCEPT !.chunked = TRUE, !.failed = FALSE]
    <2>1. new.status # "READY"
      BY <1>a, RevisedType, RevisedFields DEF LifecycleStatus, Row
    <2> QED
      BY <1>a, <1>5, <2>1, TransitionUpdates DEF IngestNeedsReview
  <1>6. ASSUME NEW p \in Ingestor, FailVersion(p) PROVE RowUpdate
    <2> DEFINE new == [Revised(p, "FAILED") EXCEPT !.failed = TRUE]
    <2>1. new.status # "READY"
      BY <1>a, RevisedType, RevisedFields DEF LifecycleStatus, Row
    <2> QED
      BY <1>a, <1>6, <2>1, TransitionUpdates DEF FailVersion
  <1>7. ASSUME NEW p \in Ingestor, FailJob(p) PROVE RowUpdate
    BY <1>7 DEF FailJob, RowUpdate
  <1>8. ASSUME NEW p \in Ingestor, PutPdf(p) PROVE RowUpdate
    BY <1>8 DEF PutPdf, RowUpdate
  <1>9. ASSUME NEW p \in Ingestor, PersistSnapshot(p) PROVE RowUpdate
    BY <1>9 DEF PersistSnapshot, RowUpdate
  <1>10. ASSUME NEW p \in Ingestor, OpenStage(p) PROVE RowUpdate
    BY <1>10 DEF OpenStage, RowUpdate
  <1>11. ASSUME NEW p \in Ingestor, FillStage(p) PROVE RowUpdate
    BY <1>11 DEF FillStage, RowUpdate
  <1>12. ASSUME NEW p \in Ingestor, StageFails(p) PROVE RowUpdate
    BY <1>12 DEF StageFails, RowUpdate
  <1>13. ASSUME NEW p \in Ingestor, MarkStaged(p) PROVE RowUpdate
    <2> DEFINE new == [Revised(p, "PROCESSING") EXCEPT !.states[at[p]] = "READY", !.failed = FALSE]
    <2>1. new.status # "READY"
      BY <1>a, RevisedType, RevisedFields DEF LifecycleStatus, Row
    <2>2. row' = row \/ row' = [row EXCEPT ![VersionOf[p]] = new]
      BY <1>13 DEF MarkStaged, Commit
    <2>3. VersionOf[p] \in Version
      BY <1>a, TypeFacts
    <2> QED
      BY <2>1, <2>2, <2>3 DEF TypeOK, RowUpdate
  <1>14. ASSUME NEW p \in Ingestor, Activate(p) PROVE RowUpdate
    BY <1>14 DEF Activate, RowUpdate
  <1>15. ASSUME NEW p \in Ingestor, ActivateFails(p) PROVE RowUpdate
    BY <1>15 DEF ActivateFails, RowUpdate
  <1>16. ASSUME NEW p \in Ingestor, Finalize(p) PROVE RowUpdate
    <2>1. VersionOf[p] \in Version /\ Finalizes(VersionOf[p])
      BY <1>a, <1>16, TypeFacts DEF Finalizes
    <2>2. \A u \in Version \ {VersionOf[p]} : row'[u] = row[u]
      BY <1>16 DEF TypeOK, Finalize
    <2> QED
      BY <2>1, <2>2 DEF RowUpdate
  <1>17. ASSUME NEW p \in Ingestor, FinalizeFails(p) PROVE RowUpdate
    BY <1>17 DEF FinalizeFails, RowUpdate
  <1>18. ASSUME NEW p \in Ingestor, Compensate(p) PROVE RowUpdate
    BY <1>18 DEF Compensate, RowUpdate
  <1>19. ASSUME NEW p \in Ingestor, RecordFailure(p) PROVE RowUpdate
    <2> DEFINE new == [Revised(p, "PROCESSING") EXCEPT !.states[blamed[p]] = "FAILED", !.failed = TRUE]
    <2>1. new.status # "READY"
      BY <1>a, RevisedType, RevisedFields DEF LifecycleStatus, Row
    <2>2. row' = row \/ row' = [row EXCEPT ![VersionOf[p]] = new]
      BY <1>19 DEF RecordFailure
    <2>3. VersionOf[p] \in Version
      BY <1>a, TypeFacts
    <2> QED
      BY <2>1, <2>2, <2>3 DEF TypeOK, RowUpdate
  <1>20. ASSUME NEW p \in Remover, Fetch(p) PROVE RowUpdate
    BY <1>20 DEF Fetch, RowUpdate
  <1>21. ASSUME NEW p \in Remover, Inactivate(p) PROVE RowUpdate
    <2> DEFINE new == Revised(p, "INACTIVE")
    <2>1. new.status # "READY"
      BY <1>a, RevisedType, RevisedFields DEF LifecycleStatus, Row
    <2> QED
      BY <1>a, <1>21, <2>1, TransitionUpdates DEF Inactivate
  <1>22. ASSUME NEW p \in Remover, Deactivate(p) PROVE RowUpdate
    BY <1>22 DEF Deactivate, RowUpdate
  <1>23. ASSUME NEW p \in Remover, Enqueue(p) PROVE RowUpdate
    BY <1>23 DEF Enqueue, RowUpdate
  <1>24. ASSUME NEW p \in Remover, EnqueueRuntime(p) PROVE RowUpdate
    BY <1>24 DEF EnqueueRuntime, RowUpdate
  <1>25. ASSUME NEW p \in Process, Crash(p) PROVE RowUpdate
    BY <1>25 DEF Crash, RowUpdate
  <1>26. ASSUME NEW v \in Version, CleanRuntime(v) PROVE RowUpdate
    BY <1>26 DEF CleanRuntime, RowUpdate
  <1>27. ASSUME NEW v \in Version, NEW b \in Backend, CleanIndex(b, v) PROVE RowUpdate
    BY <1>27 DEF CleanIndex, RowUpdate
  <1>28. ASSUME Finished PROVE RowUpdate
    BY <1>28 DEF Finished, vars, RowUpdate
  <1>29. ASSUME UNCHANGED vars PROVE RowUpdate
    BY <1>29 DEF vars, RowUpdate
  <1> QED
    BY <1>1, <1>2, <1>3, <1>4, <1>5, <1>6, <1>7, <1>8, <1>9, <1>10, <1>11, <1>12, <1>13, <1>14, <1>15, <1>16, <1>17, <1>18, <1>19, <1>20, <1>21, <1>22, <1>23, <1>24, <1>25, <1>26, <1>27, <1>28, <1>29
       DEF Next, IngestorNext, RemoverNext, CleanerNext

LEMMA ReadyByFinalize ==
  ASSUME TypeOK, [Next]_vars, NEW v \in Version, row[v].status # "READY",
         row'[v].status = "READY"
  PROVE  Finalizes(v)
  BY RowUpdates DEF RowUpdate

-----------------------------------------------------------------------------
(* What a step does to the physical indexes. *)

\* An index of a version that is not withdrawn is changed by a publisher of the
\* version, at the side it works on.
PhysicalStep(b, v) ==
  \/ physical'[b][v] = physical[b][v]
  \/ row[v].status = "INACTIVE"
  \/ \E p \in Ingestor :
       /\ VersionOf[p] = v /\ at[p] = b
       /\ pc[p] \in {"stage", "fill", "activate", "compensate"}
       /\ pc[p] = "activate" => physical'[b][v] = "active"

LEMMA SetPhysicalStep ==
  ASSUME TypeOK, NEW p \in Process, NEW state, SetPhysical(at[p], VersionOf[p], state),
         \/ row[VersionOf[p]].status = "INACTIVE"
         \/ /\ p \in Ingestor /\ pc[p] \in {"stage", "fill", "activate", "compensate"}
            /\ pc[p] = "activate" => state = "active"
  PROVE  \A b \in Backend, v \in Version : PhysicalStep(b, v)
  <1> SUFFICES ASSUME NEW b \in Backend, NEW v \in Version PROVE PhysicalStep(b, v)
    OBVIOUS
  <1>1. CASE b = at[p] /\ v = VersionOf[p]
    <2>1. physical'[b][v] = state
      BY <1>1 DEF TypeOK, SetPhysical
    <2> QED
      BY <1>1, <2>1 DEF PhysicalStep
  <1>2. CASE ~(b = at[p] /\ v = VersionOf[p])
    BY <1>2 DEF TypeOK, SetPhysical, PhysicalStep
  <1> QED
    BY <1>1, <1>2

LEMMA PhysicalSteps ==
  TypeOK /\ StepKnowsStatus /\ CleanupOnlyOfInactive /\ [Next]_vars =>
    \A b \in Backend, v \in Version : PhysicalStep(b, v)
  <1> SUFFICES ASSUME TypeOK, StepKnowsStatus, CleanupOnlyOfInactive, [Next]_vars
               PROVE  \A b \in Backend, v \in Version : PhysicalStep(b, v)
    OBVIOUS
  <1>a. Ingestor \subseteq Process /\ Remover \subseteq Process
    BY DEF Process
  <1>b. ASSUME UNCHANGED physical PROVE \A b \in Backend, v \in Version : PhysicalStep(b, v)
    BY <1>b DEF PhysicalStep
  <1>1. ASSUME NEW p \in Ingestor, Begin(p) PROVE \A c \in Backend, u \in Version : PhysicalStep(c, u)
    BY <1>b, <1>1 DEF Begin
  <1>2. ASSUME NEW p \in Ingestor, Resume(p) PROVE \A c \in Backend, u \in Version : PhysicalStep(c, u)
    BY <1>b, <1>2 DEF Resume
  <1>3. ASSUME NEW p \in Ingestor, StartJob(p) PROVE \A c \in Backend, u \in Version : PhysicalStep(c, u)
    BY <1>b, <1>3 DEF StartJob
  <1>4. ASSUME NEW p \in Ingestor, IngestPasses(p) PROVE \A c \in Backend, u \in Version : PhysicalStep(c, u)
    BY <1>b, <1>4 DEF IngestPasses
  <1>5. ASSUME NEW p \in Ingestor, IngestNeedsReview(p) PROVE \A c \in Backend, u \in Version : PhysicalStep(c, u)
    BY <1>b, <1>5 DEF IngestNeedsReview
  <1>6. ASSUME NEW p \in Ingestor, FailVersion(p) PROVE \A c \in Backend, u \in Version : PhysicalStep(c, u)
    BY <1>b, <1>6 DEF FailVersion
  <1>7. ASSUME NEW p \in Ingestor, FailJob(p) PROVE \A c \in Backend, u \in Version : PhysicalStep(c, u)
    BY <1>b, <1>7 DEF FailJob
  <1>8. ASSUME NEW p \in Ingestor, PutPdf(p) PROVE \A c \in Backend, u \in Version : PhysicalStep(c, u)
    BY <1>b, <1>8 DEF PutPdf
  <1>9. ASSUME NEW p \in Ingestor, PersistSnapshot(p) PROVE \A c \in Backend, u \in Version : PhysicalStep(c, u)
    BY <1>b, <1>9 DEF PersistSnapshot
  <1>10. ASSUME NEW p \in Ingestor, OpenStage(p) PROVE \A c \in Backend, u \in Version : PhysicalStep(c, u)
    BY <1>a, <1>b, <1>10, SetPhysicalStep DEF OpenStage
  <1>11. ASSUME NEW p \in Ingestor, FillStage(p) PROVE \A c \in Backend, u \in Version : PhysicalStep(c, u)
    BY <1>a, <1>b, <1>11, SetPhysicalStep DEF FillStage
  <1>12. ASSUME NEW p \in Ingestor, StageFails(p) PROVE \A c \in Backend, u \in Version : PhysicalStep(c, u)
    BY <1>a, <1>b, <1>12, SetPhysicalStep DEF StageFails
  <1>13. ASSUME NEW p \in Ingestor, MarkStaged(p) PROVE \A c \in Backend, u \in Version : PhysicalStep(c, u)
    BY <1>b, <1>13 DEF MarkStaged
  <1>14. ASSUME NEW p \in Ingestor, Activate(p) PROVE \A c \in Backend, u \in Version : PhysicalStep(c, u)
    BY <1>a, <1>b, <1>14, SetPhysicalStep DEF Activate
  <1>15. ASSUME NEW p \in Ingestor, ActivateFails(p) PROVE \A c \in Backend, u \in Version : PhysicalStep(c, u)
    BY <1>a, <1>b, <1>15, SetPhysicalStep DEF ActivateFails
  <1>16. ASSUME NEW p \in Ingestor, Finalize(p) PROVE \A c \in Backend, u \in Version : PhysicalStep(c, u)
    BY <1>b, <1>16 DEF Finalize
  <1>17. ASSUME NEW p \in Ingestor, FinalizeFails(p) PROVE \A c \in Backend, u \in Version : PhysicalStep(c, u)
    BY <1>b, <1>17 DEF FinalizeFails
  <1>18. ASSUME NEW p \in Ingestor, Compensate(p) PROVE \A c \in Backend, u \in Version : PhysicalStep(c, u)
    BY <1>a, <1>b, <1>18, SetPhysicalStep DEF Compensate
  <1>19. ASSUME NEW p \in Ingestor, RecordFailure(p) PROVE \A c \in Backend, u \in Version : PhysicalStep(c, u)
    BY <1>b, <1>19 DEF RecordFailure
  <1>20. ASSUME NEW p \in Remover, Fetch(p) PROVE \A c \in Backend, u \in Version : PhysicalStep(c, u)
    BY <1>b, <1>20 DEF Fetch
  <1>21. ASSUME NEW p \in Remover, Inactivate(p) PROVE \A c \in Backend, u \in Version : PhysicalStep(c, u)
    BY <1>b, <1>21 DEF Inactivate
  <1>22. ASSUME NEW p \in Remover, Deactivate(p) PROVE \A c \in Backend, u \in Version : PhysicalStep(c, u)
    <2>1. row[VersionOf[p]].status = "INACTIVE"
      BY <1>a, <1>22 DEF Deactivate, StepKnowsStatus
    <2> QED
      BY <1>a, <1>b, <1>22, <2>1, SetPhysicalStep DEF Deactivate
  <1>23. ASSUME NEW p \in Remover, Enqueue(p) PROVE \A c \in Backend, u \in Version : PhysicalStep(c, u)
    BY <1>b, <1>23 DEF Enqueue
  <1>24. ASSUME NEW p \in Remover, EnqueueRuntime(p) PROVE \A c \in Backend, u \in Version : PhysicalStep(c, u)
    BY <1>b, <1>24 DEF EnqueueRuntime
  <1>25. ASSUME NEW p \in Process, Crash(p) PROVE \A c \in Backend, u \in Version : PhysicalStep(c, u)
    BY <1>b, <1>25 DEF Crash
  <1>26. ASSUME NEW v \in Version, CleanRuntime(v) PROVE \A c \in Backend, u \in Version : PhysicalStep(c, u)
    BY <1>b, <1>26 DEF CleanRuntime
  <1>27. ASSUME NEW v \in Version, NEW b \in Backend, CleanIndex(b, v) PROVE \A c \in Backend, u \in Version : PhysicalStep(c, u)
    <2>1. row[v].status = "INACTIVE"
      BY <1>27 DEF CleanIndex, Attempt, CleanupOnlyOfInactive, CleanupBackend
    <2> QED
      BY <1>27, <2>1 DEF TypeOK, CleanIndex, SetPhysical, PhysicalStep
  <1>28. ASSUME Finished PROVE \A c \in Backend, u \in Version : PhysicalStep(c, u)
    BY <1>b, <1>28 DEF Finished, vars
  <1>29. ASSUME UNCHANGED vars PROVE \A c \in Backend, u \in Version : PhysicalStep(c, u)
    BY <1>b, <1>29 DEF vars
  <1> QED
    BY <1>1, <1>2, <1>3, <1>4, <1>5, <1>6, <1>7, <1>8, <1>9, <1>10, <1>11, <1>12, <1>13, <1>14, <1>15, <1>16, <1>17, <1>18, <1>19, <1>20, <1>21, <1>22, <1>23, <1>24, <1>25, <1>26, <1>27, <1>28, <1>29
       DEF Next, IngestorNext, RemoverNext, CleanerNext

-----------------------------------------------------------------------------
(* Activation. *)

\* A publisher reaches the second side, and the finalization, by activating the side
\* before it.
ActivationStep(p) ==
  /\ pc'[p] = "activate" /\ at'[p] = MILVUS =>
       \/ pc[p] = "activate" /\ at[p] = MILVUS
       \/ physical'[ES][VersionOf[p]] = "active"
  /\ pc'[p] = "finalize" =>
       \/ pc[p] = "finalize"
       \/ /\ pc[p] = "activate" /\ at[p] = MILVUS
          /\ physical'[MILVUS][VersionOf[p]] = "active"

LEMMA ElsewhereActivation ==
  ASSUME TypeOK, NEW p \in Process, \A q \in Process \ {p} : pc'[q] = pc[q] /\ at'[q] = at[q],
         p \in Ingestor => ActivationStep(p)
  PROVE  \A q \in Ingestor : ActivationStep(q)
  BY DEF Process, ActivationStep

LEMMA GotoActivation ==
  ASSUME TypeOK, NEW p \in Process, NEW step, Goto(p, step),
         step \notin {"activate", "finalize"}, \A q \in Process \ {p} : at'[q] = at[q]
  PROVE  \A q \in Ingestor : ActivationStep(q)
  <1>1. pc'[p] = step /\ \A q \in Process \ {p} : pc'[q] = pc[q]
    BY DEF TypeOK, Goto
  <1> QED
    BY <1>1, ElsewhereActivation DEF ActivationStep

LEMMA ReturnActivation ==
  ASSUME TypeOK, NEW p \in Process, Return(p)
  PROVE  \A q \in Ingestor : ActivationStep(q)
  <1>1. Goto(p, "idle") /\ \A q \in Process \ {p} : at'[q] = at[q]
    BY DEF TypeOK, Return
  <1> QED
    BY <1>1, GotoActivation

LEMMA TransitionActivation ==
  ASSUME TypeOK, NEW p \in Process, NEW s, NEW new, NEW step, Transition(p, s, new, step),
         step \notin {"activate", "finalize"}
  PROVE  \A q \in Ingestor : ActivationStep(q)
  BY GotoActivation, ReturnActivation DEF Transition

LEMMA ActivationSteps == TypeOK /\ [Next]_vars => \A q \in Ingestor : ActivationStep(q)
  <1> SUFFICES ASSUME TypeOK, [Next]_vars PROVE \A q \in Ingestor : ActivationStep(q)
    OBVIOUS
  <1>a. Ingestor \subseteq Process /\ Remover \subseteq Process
    BY DEF Process
  <1>b. ASSUME UNCHANGED <<pc, at>> PROVE \A q \in Ingestor : ActivationStep(q)
    BY <1>b DEF ActivationStep
  <1>1. ASSUME NEW p \in Ingestor, Begin(p) PROVE \A q \in Ingestor : ActivationStep(q)
    <2>1. UNCHANGED <<pc, at>> \/ ((Goto(p, "start") \/ Goto(p, "resume")) /\ UNCHANGED at)
      BY <1>1 DEF Begin
    <2> QED
      BY <1>a, <1>b, <2>1, GotoActivation
  <1>2. ASSUME NEW p \in Ingestor, Resume(p) PROVE \A q \in Ingestor : ActivationStep(q)
    BY <1>a, <1>2, TransitionActivation DEF Resume
  <1>3. ASSUME NEW p \in Ingestor, StartJob(p) PROVE \A q \in Ingestor : ActivationStep(q)
    BY <1>a, <1>3, GotoActivation DEF StartJob
  <1>4. ASSUME NEW p \in Ingestor, IngestPasses(p) PROVE \A q \in Ingestor : ActivationStep(q)
    BY <1>a, <1>4, TransitionActivation DEF IngestPasses
  <1>5. ASSUME NEW p \in Ingestor, IngestNeedsReview(p) PROVE \A q \in Ingestor : ActivationStep(q)
    BY <1>a, <1>5, TransitionActivation DEF IngestNeedsReview
  <1>6. ASSUME NEW p \in Ingestor, FailVersion(p) PROVE \A q \in Ingestor : ActivationStep(q)
    BY <1>a, <1>6, TransitionActivation DEF FailVersion
  <1>7. ASSUME NEW p \in Ingestor, FailJob(p) PROVE \A q \in Ingestor : ActivationStep(q)
    BY <1>a, <1>7, ReturnActivation DEF FailJob
  <1>8. ASSUME NEW p \in Ingestor, PutPdf(p) PROVE \A q \in Ingestor : ActivationStep(q)
    BY <1>a, <1>8, GotoActivation DEF PutPdf
  <1>9. ASSUME NEW p \in Ingestor, PersistSnapshot(p) PROVE \A q \in Ingestor : ActivationStep(q)
    BY <1>a, <1>9, GotoActivation DEF PersistSnapshot
  <1>10. ASSUME NEW p \in Ingestor, OpenStage(p) PROVE \A q \in Ingestor : ActivationStep(q)
    BY <1>a, <1>10, GotoActivation DEF OpenStage
  <1>11. ASSUME NEW p \in Ingestor, FillStage(p) PROVE \A q \in Ingestor : ActivationStep(q)
    BY <1>a, <1>11, GotoActivation DEF FillStage
  <1>12. ASSUME NEW p \in Ingestor, StageFails(p) PROVE \A q \in Ingestor : ActivationStep(q)
    BY <1>a, <1>12, GotoActivation DEF StageFails
  <1>13. ASSUME NEW p \in Ingestor, MarkStaged(p) PROVE \A q \in Ingestor : ActivationStep(q)
    <2>1. CASE Accepts(p, "PROCESSING")
      <3>1. \A q \in Process \ {p} : pc'[q] = pc[q] /\ at'[q] = at[q]
        BY <1>13, <2>1 DEF TypeOK, MarkStaged, Goto
      <3>2. pc'[p] = (IF at[p] = ES THEN "stage" ELSE "activate")
        BY <1>a, <1>13, <2>1 DEF TypeOK, MarkStaged, Goto
      <3>3. at'[p] = (IF at[p] = ES THEN MILVUS ELSE ES)
        BY <1>a, <1>13, <2>1 DEF TypeOK, MarkStaged
      <3>4. ActivationStep(p)
        BY <3>2, <3>3, BackendTypes DEF ActivationStep
      <3> QED
        BY <1>a, <3>1, <3>4, ElsewhereActivation
    <2>2. CASE ~Accepts(p, "PROCESSING")
      BY <1>a, <1>13, <2>2, ReturnActivation DEF MarkStaged
    <2> QED
      BY <2>1, <2>2
  <1>14. ASSUME NEW p \in Ingestor, Activate(p) PROVE \A q \in Ingestor : ActivationStep(q)
    <2>1. \A q \in Process \ {p} : pc'[q] = pc[q] /\ at'[q] = at[q]
      BY <1>14 DEF TypeOK, Activate, Goto
    <2>2. pc[p] = "activate" /\ pc'[p] = (IF at[p] = ES THEN "activate" ELSE "finalize")
      BY <1>a, <1>14 DEF TypeOK, Activate, Goto
    <2>3. at[p] \in {ES, MILVUS}
      BY <1>a, TypeFacts DEF Backend, ES, MILVUS
    <2>4. physical'[at[p]][VersionOf[p]] = "active"
      BY <1>a, <1>14, TypeFacts DEF TypeOK, Activate, SetPhysical
    <2>5. ActivationStep(p)
      BY <2>2, <2>3, <2>4, BackendTypes DEF ActivationStep
    <2> QED
      BY <1>a, <2>1, <2>5, ElsewhereActivation
  <1>15. ASSUME NEW p \in Ingestor, ActivateFails(p) PROVE \A q \in Ingestor : ActivationStep(q)
    <2>1. Goto(p, "compensate") /\ \A q \in Process \ {p} : at'[q] = at[q]
      BY <1>a, <1>15 DEF TypeOK, ActivateFails
    <2> QED
      BY <1>a, <2>1, GotoActivation
  <1>16. ASSUME NEW p \in Ingestor, Finalize(p) PROVE \A q \in Ingestor : ActivationStep(q)
    <2>1. Return(p) \/ (Goto(p, "compensate") /\ UNCHANGED at)
      BY <1>16 DEF Finalize
    <2> QED
      BY <1>a, <2>1, GotoActivation, ReturnActivation
  <1>17. ASSUME NEW p \in Ingestor, FinalizeFails(p) PROVE \A q \in Ingestor : ActivationStep(q)
    BY <1>a, <1>17, GotoActivation DEF FinalizeFails
  <1>18. ASSUME NEW p \in Ingestor, Compensate(p) PROVE \A q \in Ingestor : ActivationStep(q)
    <2>1. (Goto(p, "compensate") \/ Goto(p, "record")) /\ \A q \in Process \ {p} : at'[q] = at[q]
      BY <1>a, <1>18 DEF TypeOK, Compensate
    <2> QED
      BY <1>a, <2>1, GotoActivation
  <1>19. ASSUME NEW p \in Ingestor, RecordFailure(p) PROVE \A q \in Ingestor : ActivationStep(q)
    BY <1>a, <1>19, ReturnActivation DEF RecordFailure
  <1>20. ASSUME NEW p \in Remover, Fetch(p) PROVE \A q \in Ingestor : ActivationStep(q)
    BY <1>a, <1>20, GotoActivation DEF Fetch
  <1>21. ASSUME NEW p \in Remover, Inactivate(p) PROVE \A q \in Ingestor : ActivationStep(q)
    BY <1>a, <1>21, TransitionActivation DEF Inactivate
  <1>22. ASSUME NEW p \in Remover, Deactivate(p) PROVE \A q \in Ingestor : ActivationStep(q)
    BY <1>a, <1>22, GotoActivation DEF Deactivate
  <1>23. ASSUME NEW p \in Remover, Enqueue(p) PROVE \A q \in Ingestor : ActivationStep(q)
    <2>1. (Goto(p, "deactivate") \/ Goto(p, "enqueue_runtime")) /\ \A q \in Process \ {p} : at'[q] = at[q]
      BY <1>a, <1>23 DEF TypeOK, Enqueue
    <2> QED
      BY <1>a, <2>1, GotoActivation
  <1>24. ASSUME NEW p \in Remover, EnqueueRuntime(p) PROVE \A q \in Ingestor : ActivationStep(q)
    BY <1>a, <1>24, ReturnActivation DEF EnqueueRuntime
  <1>25. ASSUME NEW p \in Process, Crash(p) PROVE \A q \in Ingestor : ActivationStep(q)
    BY <1>25, ReturnActivation DEF Crash
  <1>26. ASSUME NEW v \in Version, CleanRuntime(v) PROVE \A q \in Ingestor : ActivationStep(q)
    BY <1>b, <1>26 DEF CleanRuntime
  <1>27. ASSUME NEW v \in Version, NEW b \in Backend, CleanIndex(b, v) PROVE \A q \in Ingestor : ActivationStep(q)
    BY <1>b, <1>27 DEF CleanIndex
  <1>28. ASSUME Finished PROVE \A q \in Ingestor : ActivationStep(q)
    BY <1>b, <1>28 DEF Finished, vars
  <1>29. ASSUME UNCHANGED vars PROVE \A q \in Ingestor : ActivationStep(q)
    BY <1>b, <1>29 DEF vars
  <1> QED
    BY <1>1, <1>2, <1>3, <1>4, <1>5, <1>6, <1>7, <1>8, <1>9, <1>10, <1>11, <1>12, <1>13, <1>14, <1>15, <1>16, <1>17, <1>18, <1>19, <1>20, <1>21, <1>22, <1>23, <1>24, <1>25, <1>26, <1>27, <1>28, <1>29
       DEF Next, IngestorNext, RemoverNext, CleanerNext

-----------------------------------------------------------------------------
(* One publisher. *)

LEMMA KeysBoundStep == TypeOK /\ KeysBound /\ [Next]_vars => KeysBound'
  <1> SUFFICES ASSUME TypeOK, KeysBound, [Next]_vars PROVE KeysBound'
    OBVIOUS
  <1>1. \A p \in Ingestor : KeyOf[p] \in Key /\ VersionOf[p] \in Version
    BY ConstantsAssumption DEF Process
  <1>2. RegistrationStep
    BY RegistrationSteps
  <1>3. ASSUME NEW p \in Ingestor, pc'[p] # "idle" PROVE job'[KeyOf[p]].version = VersionOf[p]
    <2>1. CASE pc[p] = "idle"
      BY <1>2, <1>3, <2>1 DEF RegistrationStep
    <2>2. CASE pc[p] # "idle"
      <3>1. job[KeyOf[p]].version = VersionOf[p]
        BY <2>2 DEF KeysBound
      <3> QED
        BY <1>1, <3>1, BoundStays, UnboundAssumption
    <2> QED
      BY <2>1, <2>2
  <1>4. ASSUME NEW k \in Key, job'[k].version # Unbound
        PROVE  \E p \in Ingestor : KeyOf[p] = k /\ VersionOf[p] = job'[k].version
    <2>1. JobStep(k)
      BY <1>2 DEF RegistrationStep
    <2> QED
      BY <1>4, <2>1 DEF JobStep, KeysBound
  <1> QED
    BY <1>3, <1>4 DEF KeysBound

\* Finalizing returns, and leaves the version READY and its job SUCCEEDED.
LEMMA FinalizeReturns ==
  ASSUME OnePublisher, TypeOK, NEW p \in Ingestor, Finalize(p)
  PROVE  /\ pc[p] = "finalize" /\ pc'[p] = "idle"
         /\ row[VersionOf[p]].status = "PROCESSING"
         /\ job'[KeyOf[p]].status = "SUCCEEDED"
         /\ MayBeReady(VersionOf[p])
         /\ UNCHANGED <<physical, pdf, snapshot>>
  <1>1. pc'[p] = "idle"
    BY DEF OnePublisher, TypeOK, Finalize, Return, Goto, Process
  <1>2. row[VersionOf[p]].status = "PROCESSING"
    <2>1. row[VersionOf[p]].status \in LifecycleStatus
      BY TypeFacts DEF Process, Row
    <2> QED
      BY <2>1 DEF Finalize, Accepts, AllowedTransitions, LifecycleStatus
  <1>3. job'[KeyOf[p]].status = "SUCCEEDED"
    BY ConstantsAssumption DEF TypeOK, Finalize, SetJob, Job
  <1> QED
    BY <1>1, <1>2, <1>3 DEF Finalize

LEMMA PublishersDoneStep ==
  ASSUME OnePublisher, TypeOK, PublishersDone, [Next]_vars
  PROVE  PublishersDone'
  <1> SUFFICES ASSUME NEW p \in Ingestor, row'[VersionOf[p]].status = "READY"
               PROVE  pc'[p] = "idle"
    BY DEF PublishersDone, Ready
  <1>1. VersionOf[p] \in Version
    BY TypeFacts DEF Process
  <1>2. CASE row[VersionOf[p]].status = "READY"
    <2>1. pc[p] = "idle"
      BY <1>2 DEF PublishersDone, Ready
    <2> QED
      BY <2>1, RegistrationSteps DEF RegistrationStep
  <1>3. CASE row[VersionOf[p]].status # "READY"
    <2>1. PICK q \in Ingestor : VersionOf[q] = VersionOf[p] /\ Finalize(q)
      BY <1>1, <1>3, ReadyByFinalize DEF Finalizes
    <2>2. q = p
      BY <2>1 DEF OnePublisher
    <2> QED
      BY <2>1, <2>2, FinalizeReturns
  <1> QED
    BY <1>2, <1>3

\* What the one publisher does not touch in this step stays.
LEMMA OwnIndexStays ==
  ASSUME OnePublisher, TypeOK, StepKnowsStatus, CleanupOnlyOfInactive, [Next]_vars,
         NEW p \in Ingestor, NEW b \in Backend, row[VersionOf[p]].status # "INACTIVE",
         physical[b][VersionOf[p]] = "active",
         \/ pc[p] \notin {"stage", "fill", "activate", "compensate"}
         \/ pc[p] = "activate"
  PROVE  physical'[b][VersionOf[p]] = "active"
  <1>1. VersionOf[p] \in Version
    BY TypeFacts DEF Process
  <1>2. PhysicalStep(b, VersionOf[p])
    BY <1>1, PhysicalSteps
  <1> QED
    BY <1>2 DEF OnePublisher, PhysicalStep

LEMMA StepHasActivatedStep ==
  ASSUME OnePublisher, TypeOK, StepKnowsStatus, CleanupOnlyOfInactive, StepHasActivated,
         [Next]_vars
  PROVE  StepHasActivated'
  <1> SUFFICES ASSUME NEW p \in Ingestor, row'[VersionOf[p]].status # "INACTIVE"
               PROVE  /\ pc'[p] = "activate" /\ at'[p] = MILVUS => physical'[ES][VersionOf[p]] = "active"
                      /\ pc'[p] = "finalize" => \A b \in Backend : physical'[b][VersionOf[p]] = "active"
    BY DEF StepHasActivated
  <1>1. VersionOf[p] \in Version
    BY TypeFacts DEF Process
  <1>2. row[VersionOf[p]].status # "INACTIVE"
    BY <1>1, InactiveStays
  <1>3. ActivationStep(p)
    BY ActivationSteps
  <1>4. ASSUME pc[p] = "activate", at[p] = MILVUS PROVE physical'[ES][VersionOf[p]] = "active"
    <2>1. physical[ES][VersionOf[p]] = "active"
      BY <1>2, <1>4 DEF StepHasActivated
    <2> QED
      BY <1>2, <1>4, <2>1, OwnIndexStays, BackendTypes
  <1>5. ASSUME pc[p] = "finalize" PROVE \A b \in Backend : physical'[b][VersionOf[p]] = "active"
    <2> SUFFICES ASSUME NEW b \in Backend PROVE physical'[b][VersionOf[p]] = "active"
      OBVIOUS
    <2>1. physical[b][VersionOf[p]] = "active"
      BY <1>2, <1>5 DEF StepHasActivated
    <2> QED
      BY <1>2, <1>5, <2>1, OwnIndexStays
  <1>6. Backend = {ES, MILVUS}
    BY DEF Backend, ES, MILVUS
  <1> QED
    BY <1>3, <1>4, <1>5, <1>6 DEF ActivationStep

LEMMA ReadyIsServableStep ==
  ASSUME OnePublisher, TypeOK, StepKnowsStatus, CleanupOnlyOfInactive, StepHasActivated,
         PublishersDone, ReadyIsServable, [Next]_vars
  PROVE  ReadyIsServable'
  <1> SUFFICES ASSUME NEW v \in Version, NEW b \in Backend, row'[v].status = "READY"
               PROVE  physical'[b][v] = "active"
    BY DEF ReadyIsServable, Ready
  <1>1. CASE row[v].status = "READY"
    <2>1. physical[b][v] = "active"
      BY <1>1 DEF ReadyIsServable, Ready
    <2>2. \A p \in Ingestor : VersionOf[p] = v => pc[p] = "idle"
      BY <1>1 DEF PublishersDone, Ready
    <2>3. PhysicalStep(b, v)
      BY PhysicalSteps
    <2> QED
      BY <1>1, <2>1, <2>2, <2>3 DEF PhysicalStep
  <1>2. CASE row[v].status # "READY"
    <2>1. PICK p \in Ingestor : VersionOf[p] = v /\ Finalize(p)
      BY <1>2, ReadyByFinalize DEF Finalizes
    <2>2. pc[p] = "finalize" /\ row[v].status = "PROCESSING" /\ UNCHANGED physical
      BY <2>1, FinalizeReturns
    <2> QED
      BY <2>1, <2>2 DEF StepHasActivated
  <1> QED
    BY <1>1, <1>2

LEMMA ReadyJobSucceededStep ==
  ASSUME OnePublisher, TypeOK, RegisteredHasJob, KeysBound, KeysBound', PublishersDone,
         ReadyJobSucceeded, [Next]_vars
  PROVE  ReadyJobSucceeded'
  <1> SUFFICES ASSUME NEW v \in Version, NEW k \in Key, row'[v].status = "READY",
                      job'[k].version = v
               PROVE  job'[k].status = "SUCCEEDED"
    BY DEF ReadyJobSucceeded, Ready
  <1>1. PICK p \in Ingestor : KeyOf[p] = k /\ VersionOf[p] = v
    BY UnboundAssumption DEF KeysBound
  <1>2. CASE row[v].status # "READY"
    <2>1. PICK q \in Ingestor : VersionOf[q] = v /\ Finalize(q)
      BY <1>2, ReadyByFinalize DEF Finalizes
    <2>2. q = p
      BY <1>1, <2>1 DEF OnePublisher
    <2> QED
      BY <1>1, <2>1, <2>2, FinalizeReturns
  <1>3. CASE row[v].status = "READY"
    <2>1. PICK j \in Key : job[j].version = v
      BY <1>3 DEF RegisteredHasJob
    <2>2. PICK q \in Ingestor : KeyOf[q] = j /\ VersionOf[q] = v
      BY <2>1, UnboundAssumption DEF KeysBound
    <2>3. job[k].version = v /\ job[k].status = "SUCCEEDED"
      BY <1>1, <1>3, <2>1, <2>2 DEF OnePublisher, ReadyJobSucceeded, Ready
    <2>4. \A i \in Ingestor : KeyOf[i] = k => pc[i] = "idle"
      BY <1>3, <2>3 DEF KeysBound, PublishersDone, Ready
    <2>5. JobStep(k)
      BY RegistrationSteps DEF RegistrationStep
    <2> QED
      BY <2>3, <2>4, <2>5 DEF JobStep
  <1> QED
    BY <1>2, <1>3

LEMMA PublisherInit == Init => PublisherInv
  <1> SUFFICES ASSUME Init PROVE PublisherInv
    OBVIOUS
  <1>1. PublicationInv
    BY InitInv
  <1>2. \A v \in Version : row[v].status = "ABSENT"
    BY DEF Init, NoRow
  <1>3. \A p \in Ingestor : pc[p] = "idle"
    BY DEF Init, Process
  <1>4. \A k \in Key : job[k].version = Unbound
    BY DEF Init
  <1>5. KeysBound /\ PublishersDone /\ StepHasActivated
    BY <1>3, <1>4 DEF KeysBound, PublishersDone, StepHasActivated
  <1>6. RegisteredHasJob /\ ReadyIsServable /\ ReadyJobSucceeded
    BY <1>2 DEF RegisteredHasJob, ReadyIsServable, ReadyJobSucceeded, Ready
  <1> QED
    BY <1>1, <1>5, <1>6 DEF PublisherInv

LEMMA PublisherStep ==
  ASSUME OnePublisher
  PROVE  PublisherInv /\ [Next]_vars => PublisherInv'
  <1> SUFFICES ASSUME PublisherInv, [Next]_vars PROVE PublisherInv'
    OBVIOUS
  <1>1. TypeOK /\ StepKnowsStatus /\ CleanupOnlyOfInactive
    BY DEF PublisherInv, PublicationInv
  <1>2. PublicationInv' /\ RegisteredHasJob'
    BY <1>1, PublicationInvStep, RegisteredHasJobStep DEF PublisherInv
  <1>3. KeysBound' /\ PublishersDone'
    BY <1>1, KeysBoundStep, PublishersDoneStep DEF PublisherInv
  <1>4. StepHasActivated'
    BY <1>1, StepHasActivatedStep DEF PublisherInv
  <1>5. ReadyIsServable'
    BY <1>1, ReadyIsServableStep DEF PublisherInv
  <1>6. ReadyJobSucceeded'
    BY <1>1, <1>3, ReadyJobSucceededStep DEF PublisherInv
  <1> QED
    BY <1>2, <1>3, <1>4, <1>5, <1>6 DEF PublisherInv

-----------------------------------------------------------------------------
(* Theorems. *)

\* The inductive invariant of one publisher per version (publish_prepared_indexes).
THEOREM PublisherInvariant ==
  ASSUME OnePublisher
  PROVE  Spec => []PublisherInv
  BY PublisherInit, PublisherStep, PTL DEF Spec

\* With one publisher per version READY means that both indexes are active in every
\* row, wherever the publisher crashes and whatever it is replayed over.
THEOREM ReadyVersionsAreServable ==
  ASSUME OnePublisher
  PROVE  Spec => []ReadyIsServable
  <1>1. PublisherInv => ReadyIsServable
    BY DEF PublisherInv
  <1> QED
    BY <1>1, PublisherInvariant, PTL

\* With one publisher per version no job of a READY version is left unfinished
\* (finalize_indexing_success, _update_ingestion_job), although keys are shared with
\* other versions.
THEOREM ReadyJobsSucceeded ==
  ASSUME OnePublisher
  PROVE  Spec => []ReadyJobSucceeded
  <1>1. PublisherInv => ReadyJobSucceeded
    BY DEF PublisherInv
  <1> QED
    BY <1>1, PublisherInvariant, PTL

-----------------------------------------------------------------------------
(* The refinement. *)

\* Behind a READY row everything that makes a version servable is there.
LEMMA ServableIsReady ==
  ASSUME PublisherInv
  PROVE  Servable = {v \in Version : row[v].status = "READY"}
  BY DEF PublisherInv, PublicationInv, ReadyIsServable, ReadyHasSnapshot, Ready, Servable

LEMMA VisibilityInit == Init => Visibility!Init
  BY DEF Init, NoRow, Servable, Ready, Visibility!Init

LEMMA VisibilityStep ==
  ASSUME OnePublisher, PublisherInv, PublisherInv', [Next]_vars
  PROVE  [Visibility!Next]_(Visibility!vars)
  <1> DEFINE retired == {v \in Version : row[v].status = "INACTIVE"}
  <1>1. Servable = {v \in Version : row[v].status = "READY"}
    BY ServableIsReady
  <1>2. Servable' = {v \in Version : row'[v].status = "READY"}
    BY ServableIsReady DEF PublisherInv, PublicationInv, ReadyIsServable, ReadyHasSnapshot,
       Ready, Servable
  <1>3. TypeOK
    BY DEF PublisherInv, PublicationInv
  <1>4. CASE row' = row
    BY <1>1, <1>2, <1>4 DEF Visibility!vars
  <1>5. ASSUME NEW v \in Version, \A u \in Version \ {v} : row'[u] = row[u]
        PROVE  [Visibility!Next]_(Visibility!vars)
    <2>1. CASE row'[v].status = "READY" /\ row[v].status # "READY"
      <3>1. PICK p \in Ingestor : VersionOf[p] = v /\ Finalize(p)
        BY <1>3, <2>1, ReadyByFinalize DEF Finalizes
      <3>2. row[v].status = "PROCESSING" /\ MayBeReady(v)
        BY <1>3, <3>1, FinalizeReturns
      <3>3. Servable' = Servable \cup {v}
        BY <1>1, <1>2, <1>5, <2>1
      <3>4. \A u \in Servable : DocumentOf[u] # DocumentOf[v]
        BY <1>1, <2>1, <3>2 DEF MayBeReady
      <3>5. v \notin retired /\ retired' = retired
        BY <1>5, <2>1, <3>2
      <3>6. Visibility!Publish(v)
        BY <3>3, <3>4, <3>5 DEF Visibility!Publish
      <3> QED
        BY <3>6 DEF Visibility!Next
    <2>2. CASE row'[v].status = "INACTIVE" /\ row[v].status # "INACTIVE"
      <3>1. Servable' = Servable \ {v}
        BY <1>1, <1>2, <1>5, <2>2
      <3>2. v \notin retired /\ retired' = retired \cup {v}
        BY <1>5, <2>2
      <3>3. Visibility!Withdraw(v)
        BY <3>1, <3>2 DEF Visibility!Withdraw
      <3> QED
        BY <3>3 DEF Visibility!Next
    <2>3. CASE /\ row'[v].status = "READY" <=> row[v].status = "READY"
               /\ row'[v].status = "INACTIVE" <=> row[v].status = "INACTIVE"
      <3>1. Servable' = Servable /\ retired' = retired
        BY <1>1, <1>2, <1>5, <2>3
      <3> QED
        BY <3>1 DEF Visibility!vars
    <2>4. RowStep(v)
      BY <1>3, RowSteps
    <2>5. row[v].status = "READY" =>
            row'[v] = row[v] \/ row'[v].status = "INACTIVE"
      BY <2>4 DEF RowStep, AllowedTransitions
    <2>6. row[v].status = "INACTIVE" => row'[v].status = "INACTIVE"
      BY <1>3, InactiveStays
    <2> QED
      BY <2>1, <2>2, <2>3, <2>5, <2>6
  <1> QED
    BY <1>3, <1>4, <1>5, RowUpdates DEF RowUpdate

\* With one publisher per version the many steps over three stores look to a reader
\* like single ones: versions appear one per document, and leave once, for good.
THEOREM PublicationRefinesVisibility ==
  ASSUME OnePublisher
  PROVE  Spec => ImplementsVisibility
  <1>1. PublisherInv /\ PublisherInv' /\ [Next]_vars => [Visibility!Next]_(Visibility!vars)
    BY VisibilityStep
  <1> QED
    BY <1>1, VisibilityInit, PublisherInvariant, PTL
       DEF Spec, ImplementsVisibility, Visibility!Spec

=============================================================================
