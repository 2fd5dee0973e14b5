----------------------------- MODULE IsolatedRun -----------------------------
(***************************************************************************)
(* The validation scripts that publish papers under an owner of their own, *)
(* measure, and delete them again on the shared database and indexes:      *)
(* run_phase3_comparison_paired_dev_gate.py ("gate"),                      *)
(* run_phase3_candidate_ladder_localization.py ("ladder"),                 *)
(* run_stage1_remote_canary.py ("canary"), the recovery and the audit of   *)
(* what a killed gate leaves behind. One script runs at a time; it can be  *)
(* killed at every step, and the cleanup queue outlives it.                *)
(*                                                                         *)
(* IndexPublication and CleanupQueue have the inside of publication,       *)
(* inactivation and the queue; here they are steps of a longer protocol.   *)
(***************************************************************************)
EXTENDS Naturals, Sequences, FiniteSets, SequencesExt

CONSTANTS
  RunId,       \* run ids; each stands for an owner of its own
  Scripts,     \* the scripts a run id may belong to
  Papers,      \* how many papers a run publishes (3; the canary 1)
  MaxAttempts, \* max_attempts of a cleanup job
  MaxFaults    \* bound: kills and failing calls of a behaviour

\* A run belongs to the scripts of the repository; the canary publishes one paper.
ASSUME RunAssumption == \A r \in RunId :
  /\ Scripts[r] \subseteq {"gate", "ladder", "canary"}
  /\ Papers[r] \in Nat \ {0}
  /\ "canary" \in Scripts[r] => Papers[r] = 1

Backend == {"elasticsearch", "milvus", "snapshot"}
BackendOrder == <<"elasticsearch", "milvus", "snapshot">>
Version == UNION {{r} \X (1..Papers[r]) : r \in RunId}
VersionsOf(r) == {v \in Version : v[1] = r}
JobsOf(r) == VersionsOf(r) \X Backend
Expected(r) == 3 * Papers[r]

\* What a script knows. made: versions published so far; failed: primary_error is set;
\* served: the API client exists; recovers: the script is the recovery; todo, short: the
\* jobs to enqueue and that one was not; job, results: those of the worker.
Started(r, stage, made) ==
  [run |-> r, stage |-> stage, made |-> made, failed |-> FALSE, served |-> FALSE,
   recovers |-> FALSE, todo |-> <<>>, short |-> FALSE, results |-> <<>>, job |-> <<>>]
Idle == Started("none", "idle", {})

VARIABLES
  kind,     \* the script of each run id
  script,   \* the running script
  version,  \* lifecycle_status of each version
  stored,   \* what exists: <<version, backend>>; "snapshot" are its rows and its PDF
  queue,    \* due cleanup jobs in the order of next_attempt_at
  resting,  \* RETRY jobs that are not due
  leased,   \* RUNNING jobs
  settled,  \* SUCCEEDED and FAILED jobs, with their status
  attempts, \* attempt_count
  report,   \* the last report of each run id
  faults    \* how many faults happened

rvars == <<kind, script, version, stored, queue, resting, leased, settled, attempts,
           report, faults>>
database == <<version, stored>>
jobs == <<queue, resting, leased, settled, attempts>>

RunInit ==
  /\ kind \in {k \in [RunId -> UNION {Scripts[r] : r \in RunId}] : \A r \in RunId : k[r] \in Scripts[r]}
  /\ script = Idle
  /\ version = [v \in Version |-> "none"]
  /\ stored = {}
  /\ queue = <<>> /\ resting = {} /\ leased = {} /\ settled = {}
  /\ attempts = [j \in Version \X Backend |-> 0]
  /\ report = [r \in RunId |-> "none"]
  /\ faults = 0

\* PENDING, RETRY and RUNNING jobs.
Active == ToSet(queue) \cup resting \cup leased
Known == Active \cup {s[1] : s \in settled}
Ready(r) == {v \in VersionsOf(r) : version[v] = "READY"}
Whole(v) == {v} \X Backend

Enter(stage) == script' = [script EXCEPT !.stage = stage]
At(stage) == script.stage = stage
Fault == faults < MaxFaults /\ faults' = faults + 1

\* What the script returns in the end.
Finish(r, verdict) ==
  /\ report' = [report EXCEPT ![r] = verdict]
  /\ script' = Idle

-----------------------------------------------------------------------------
(* Starting. *)

\* _require_empty_cleanup_queue and the check that the owner has no READY version.
StartGate(r) ==
  /\ script = Idle /\ kind[r] \in {"gate", "ladder"}
  /\ Active = {} /\ Ready(r) = {}
  /\ script' = Started(r, "publish", {})
  /\ UNCHANGED <<kind, database, jobs, report, faults>>

\* The canary resumes from its READY version and looks at no queue.
StartCanary(r) ==
  /\ script = Idle /\ kind[r] = "canary"
  /\ script' = IF Ready(r) = {} THEN Started(r, "publish", {})
               ELSE Started(r, "measure", Ready(r))
  /\ UNCHANGED <<kind, database, jobs, report, faults>>

\* _require_frozen_precondition: nothing of the run was cleaned yet and the queue
\* holds its jobs only.
Recoverable(r) ==
  /\ \A v \in VersionsOf(r) : version[v] = "INACTIVE" /\ <<v, "snapshot">> \in stored
  /\ ToSet(queue) = JobsOf(r) /\ resting = {} /\ leased = {}
  /\ \A j \in JobsOf(r) : attempts[j] = 0

StartRecovery(r) ==
  /\ script = Idle /\ kind[r] = "gate" /\ Recoverable(r)
  /\ script' = [Started(r, "work", VersionsOf(r)) EXCEPT !.recovers = TRUE]
  /\ UNCHANGED <<kind, database, jobs, report, faults>>

-----------------------------------------------------------------------------
(* Publication and measurement. *)

\* A failing call leaves the part of the version that was written before it; a
\* version that is INACTIVE is refused.
Publish ==
  /\ At("publish")
  /\ LET r == script.run IN
     \E v \in VersionsOf(r) \ script.made :
       /\ \A u \in VersionsOf(r) \ script.made : v[2] <= u[2]
       /\ \/ /\ version[v] # "INACTIVE"
             /\ version' = [version EXCEPT ![v] = "READY"]
             /\ stored' = stored \cup Whole(v)
             /\ script' = [script EXCEPT !.made = @ \cup {v},
                             !.stage = IF script.made \cup {v} = VersionsOf(r)
                                       THEN "measure" ELSE "publish"]
             /\ UNCHANGED faults
          \/ /\ version[v] # "INACTIVE" /\ Fault
             /\ \E part \in {{}, {"snapshot"}, {"snapshot", "elasticsearch"}, Backend} :
                  stored' = stored \cup {v} \X part
             /\ \E status \in {"PROCESSING", "FAILED"} : version' = [version EXCEPT ![v] = status]
             /\ script' = [script EXCEPT !.failed = TRUE, !.stage = "fail"]
          \/ /\ version[v] = "INACTIVE"
             /\ script' = [script EXCEPT !.failed = TRUE, !.stage = "fail"]
             /\ UNCHANGED <<database, faults>>
  /\ UNCHANGED <<kind, jobs, report>>

\* The READY scope and the chunk identities are verified and the control arm is built,
\* with the API client that is asked again after the cleanup.
BuildControl ==
  /\ At("measure") /\ kind[script.run] \in {"gate", "ladder"}
  /\ \/ script' = [script EXCEPT !.served = TRUE, !.stage = "control"]
     \/ script' = [script EXCEPT !.failed = TRUE, !.stage = "retire"]
  /\ UNCHANGED <<kind, database, jobs, report, faults>>

\* A stage of the measurement, which may raise; every error leads to the cleanup.
Measure(stage, next) ==
  /\ At(stage)
  /\ Enter(next) \/ script' = [script EXCEPT !.failed = TRUE, !.stage = "retire"]
  /\ UNCHANGED <<kind, database, jobs, report, faults>>

\* The control must miss the target questions, or the treatment is never built.
RunControl == Measure("control", "treatment") /\ kind[script.run] = "gate"
RunTreatment == Measure("treatment", "regression")
RunRegression == Measure("regression", "verdict")

\* The thresholds are met or not (PairedGate).
Adjudicate == Measure("verdict", "retire")

\* A diagnosis passes whatever it finds.
Diagnose == Measure("control", "retire") /\ kind[script.run] = "ladder"

\* The canary stops at a failed check and leaves its version READY for the next try; a
\* reranker that fell back is remembered until the cleanup is done.
Probe ==
  /\ At("measure") /\ kind[script.run] = "canary"
  /\ \/ /\ \E failed \in BOOLEAN :
             script' = [script EXCEPT !.failed = failed, !.stage = "retire"]
        /\ UNCHANGED faults
     \/ Enter("fail") /\ Fault
  /\ UNCHANGED <<kind, database, jobs, report>>

\* Where an error leads: the gates clean up what they published, the canary stops.
Fail ==
  /\ At("fail")
  /\ IF kind[script.run] = "canary"
     THEN Finish(script.run, "FAIL")
     ELSE Enter("retire") /\ UNCHANGED report
  /\ UNCHANGED <<kind, database, jobs, faults>>

-----------------------------------------------------------------------------
(* inactivate_and_schedule_cleanup for each published version. *)

Inactivate ==
  /\ At("retire") /\ script.todo = <<>>
  /\ \E v \in script.made :
       /\ version[v] = "READY"
       /\ \A u \in script.made : version[u] = "READY" => v[2] <= u[2]
       /\ version' = [version EXCEPT ![v] = "INACTIVE"]
       /\ script' = [script EXCEPT !.todo = [n \in 1..3 |-> <<v, BackendOrder[n]>>]]
  /\ UNCHANGED <<kind, stored, jobs, report, faults>>

\* A failing enqueue is remembered and the others still happen.
Enqueue ==
  /\ At("retire") /\ script.todo # <<>>
  /\ \/ queue' = Append(queue, Head(script.todo)) /\ UNCHANGED faults
        /\ script' = [script EXCEPT !.todo = Tail(@)]
     \/ Fault /\ UNCHANGED queue
        /\ script' = [script EXCEPT !.todo = Tail(@), !.short = TRUE]
  /\ UNCHANGED <<kind, database, resting, leased, settled, attempts, report>>

\* An incomplete version raises, and versions after it stay READY; the gates check
\* that exactly their jobs are active, the canary does not.
Scheduled ==
  /\ At("retire") /\ script.todo = <<>>
  /\ script.short \/ script.made \cap Ready(script.run) = {}
  /\ LET isolated == Active = script.made \X Backend IN
     IF script.short \/ (kind[script.run] # "canary" /\ ~isolated)
     THEN Finish(script.run, "FAIL")
     ELSE Enter("work") /\ UNCHANGED report
  /\ UNCHANGED <<kind, database, jobs, faults>>

-----------------------------------------------------------------------------
(* PersistentIndexCleanupWorker.run_batch(max_jobs=Expected). *)

Remaining == Len(script.results) < Expected(script.run)

\* claim_cleanup: expired leases first, then the job that is due longest.
Claim ==
  /\ At("work") /\ Remaining
  /\ \E expired \in SUBSET leased :
       LET spent == {j \in expired : attempts[j] >= MaxAttempts}
           due == queue \o SetToSeq(expired \ spent)
       IN
       /\ due # <<>>
       /\ queue' = Tail(due)
       /\ leased' = (leased \ expired) \cup {Head(due)}
       /\ settled' = settled \cup spent \X {"FAILED"}
       /\ attempts' = [attempts EXCEPT ![Head(due)] = @ + 1]
       /\ script' = [script EXCEPT !.job = Head(due), !.stage = "delete"]
  /\ UNCHANGED <<kind, database, resting, report, faults>>

Outcome(succeeded) ==
  script' = [script EXCEPT !.results = Append(@, succeeded), !.job = <<>>, !.stage = "work"]

\* delete_version of the backend. A failure, before or after its effect, is recorded
\* with a delay.
Delete ==
  /\ At("delete")
  /\ \/ /\ stored' = stored \ {script.job}
        /\ Enter("complete")
        /\ UNCHANGED <<resting, leased, settled, faults>>
     \/ /\ Fault
        /\ stored' \in {stored, stored \ {script.job}}
        /\ leased' = leased \ {script.job}
        /\ IF attempts[script.job] >= MaxAttempts
           THEN settled' = settled \cup {<<script.job, "FAILED">>} /\ UNCHANGED resting
           ELSE resting' = resting \cup {script.job} /\ UNCHANGED settled
        /\ Outcome(FALSE)
  /\ UNCHANGED <<kind, version, queue, attempts, report>>

Complete ==
  /\ At("complete")
  /\ leased' = leased \ {script.job}
  /\ settled' = settled \cup {<<script.job, "SUCCEEDED">>}
  /\ Outcome(TRUE)
  /\ UNCHANGED <<kind, database, queue, resting, attempts, report, faults>>

\* A delay has passed.
Wake(j) ==
  /\ j \in resting
  /\ resting' = resting \ {j}
  /\ queue' = Append(queue, j)
  /\ UNCHANGED <<kind, script, database, leased, settled, attempts, report, faults>>

-----------------------------------------------------------------------------
(* The verdict. *)

AllSucceeded ==
  Len(script.results) = Expected(script.run) /\ \A i \in DOMAIN script.results : script.results[i]

\* Mutant: the canary trusts the number of its results.
CanaryTrustsCount(r) == AllSucceeded

\* The canary also looks for the PDF registration of its version, reconciles and asks.
CanaryClean(r) ==
  AllSucceeded /\ Ready(r) = {} /\ \A v \in VersionsOf(r) : <<v, "snapshot">> \notin stored

\* cleanup_ok, the refused question and the failed reconciliation of the gates.
GateClean(r) ==
  /\ AllSucceeded
  /\ script.made = VersionsOf(r) /\ Ready(r) = {}
  /\ script.served

\* _postcondition_pass of the recovery.
Recovered(r) ==
  /\ \A v \in VersionsOf(r) : version[v] = "INACTIVE" /\ <<v, "snapshot">> \notin stored
  /\ \A j \in JobsOf(r) : <<j, "SUCCEEDED">> \in settled
  /\ Active = {}

Verdict(r) ==
  LET clean ==
        IF script.recovers THEN AllSucceeded /\ Recovered(r)
        ELSE IF kind[r] = "canary" THEN CanaryClean(r) ELSE GateClean(r)
  IN IF clean /\ ~script.failed THEN "PASS" ELSE "FAIL"

Conclude ==
  /\ At("work")
  /\ ~Remaining \/ queue = <<>>
  /\ Finish(script.run, Verdict(script.run))
  /\ UNCHANGED <<kind, database, jobs, faults>>

\* The process is killed; a claimed job keeps its lease.
Kill ==
  /\ script # Idle /\ Fault
  /\ Finish(script.run, "none")
  /\ UNCHANGED <<kind, database, jobs>>

RunNext ==
  \/ \E r \in RunId : StartGate(r) \/ StartCanary(r) \/ StartRecovery(r)
  \/ Publish \/ BuildControl \/ RunControl \/ RunTreatment \/ RunRegression \/ Adjudicate
  \/ Diagnose \/ Probe \/ Fail
  \/ Inactivate \/ Enqueue \/ Scheduled
  \/ Claim \/ Delete \/ Complete \/ Conclude \/ Kill
  \/ \E j \in resting : Wake(j)

RunSpec == RunInit /\ [][RunNext]_rvars

-----------------------------------------------------------------------------
(* The audit (evaluate_snapshot): PostgreSQL only. *)

Rows(r) == {v \in VersionsOf(r) : version[v] # "none"}
RowsStored(r) == {v \in VersionsOf(r) : <<v, "snapshot">> \in stored}

\* Mutant: the cleanup jobs are not looked at.
AuditRowsOnly(r) ==
  RowsStored(r) = {} /\ \A v \in Rows(r) : version[v] = "INACTIVE"

Clean(r) ==
  /\ Active = {} /\ RowsStored(r) = {}
  /\ \A v \in Rows(r) : version[v] = "INACTIVE"
  /\ {s \in settled : s[1] \in JobsOf(r)} = (Rows(r) \X Backend) \X {"SUCCEEDED"}

-----------------------------------------------------------------------------
(* Properties. *)

Erased(r) ==
  /\ \A v \in VersionsOf(r) : version[v] \in {"none", "INACTIVE"} /\ Whole(v) \cap stored = {}
  /\ Active \cap JobsOf(r) = {}

\* A run that reports PASS left nothing behind, whatever earlier runs left in the
\* queue its worker took the jobs from.
PassMeansErased == \A r \in RunId : report[r] = "PASS" => Erased(r)

\* What the audit calls clean has no index left either, although the audit never
\* asks the index services.
CleanMeansErased == script = Idle => \A r \in RunId : Clean(r) => Erased(r)

-----------------------------------------------------------------------------
(* What makes them inductive. *)

Job == Version \X Backend
JobsFrom(v, n) == [i \in 1..(4 - n) |-> <<v, BackendOrder[i + n - 1]>>]
Publishing == {"publish", "measure", "control", "treatment", "regression", "verdict", "fail",
               "retire"}
Working == {"work", "delete", "complete"}

RunStage == Publishing \cup Working \cup {"idle"}
ToEnqueue == {JobsFrom(v, n) : v \in Version, n \in 1..3} \cup {<<>>}
Script ==
  [run : RunId \cup {"none"}, stage : RunStage, made : SUBSET Version, failed : BOOLEAN,
   served : BOOLEAN, recovers : BOOLEAN, todo : ToEnqueue, short : BOOLEAN,
   results : Seq(BOOLEAN), job : Job \cup {<<>>}]

RunTypeOK ==
  /\ kind \in [RunId -> {"gate", "ladder", "canary"}] /\ \A r \in RunId : kind[r] \in Scripts[r]
  /\ script \in Script
  /\ script = Idle \/ (script.run \in RunId /\ script.stage # "idle")
  /\ script.made \subseteq VersionsOf(script.run)
  /\ version \in [Version -> {"none", "PROCESSING", "FAILED", "READY", "INACTIVE"}]
  /\ stored \subseteq Job /\ resting \subseteq Job /\ leased \subseteq Job
  /\ queue \in Seq(Job)
  /\ settled \subseteq Job \X {"SUCCEEDED", "FAILED"}
  /\ attempts \in [Job -> Nat]
  /\ report \in [RunId -> {"none", "PASS", "FAIL"}]
  /\ IsFiniteSet(leased)

\* Cleanup jobs are of INACTIVE versions, which are never published again; what succeeded
\* or was deleted is gone.
JobsClean ==
  /\ \A j \in Known \cup ToSet(script.todo) : version[j[1]] = "INACTIVE"
  /\ \A v \in Version :
       /\ version[v] = "none" => Whole(v) \cap stored = {}
       /\ version[v] = "READY" => Whole(v) \subseteq stored
  /\ \A j \in stored : <<j, "SUCCEEDED">> \notin settled
  /\ IF script.stage \in {"delete", "complete"} THEN script.job \in leased ELSE script.job = <<>>
  /\ script.stage = "complete" => script.job \notin stored
  /\ script.stage # "retire" => script.todo = <<>>
  /\ script.stage \notin Working => script.results = <<>>

\* A job is at one place of the queue.
JobsOnce ==
  /\ \A i, k \in DOMAIN queue : queue[i] = queue[k] => i = k
  /\ ToSet(queue) \cap resting = {} /\ ToSet(queue) \cap leased = {} /\ resting \cap leased = {}
  /\ ToSet(script.todo) \cap Active = {}

Flawless == \A i \in DOMAIN script.results : script.results[i]
RunsGate == script # Idle /\ kind[script.run] # "canary" /\ ~script.recovers
RunsCanary == script # Idle /\ kind[script.run] = "canary"

\* As long as nothing failed the gates delete the jobs they scheduled, one result for each.
GateAlone ==
  /\ RunsGate /\ script.stage \in Publishing => resting = {} /\ leased = {}
  /\ RunsGate /\ script.stage \in Working /\ Flawless =>
       /\ resting = {} /\ leased = {script.job} \ {<<>>}
       /\ Active \subseteq script.made \X Backend
       /\ (script.made \X Backend) \cap stored \subseteq Active
       /\ \A v \in script.made : version[v] = "INACTIVE"
       /\ Len(script.results) + Cardinality(Active) = 3 * Cardinality(script.made)

\* As long as nothing failed, what is left of a version is deleted next, or it is in the
\* queue, or will be, no later than its snapshot rows, which exist as long as they are due.
SnapshotLast(v) ==
  LET snapshot == <<v, "snapshot">> IN
  /\ Whole(v) \cap resting = {} /\ Whole(v) \cap leased \subseteq {script.job}
  /\ snapshot \in ToSet(queue) \cup ToSet(script.todo) => snapshot \in stored
  /\ \A j \in Whole(v) \cap (stored \cup ToSet(queue)) :
       \/ j \in ToSet(script.todo) \cup {script.job}
       \/ j \in ToSet(queue) /\ snapshot \in ToSet(script.todo)
       \/ \E i, k \in DOMAIN queue : i <= k /\ queue[i] = j /\ queue[k] = snapshot

CanaryInOrder == RunsCanary =>
  /\ ~script.recovers /\ script.stage \in {"publish", "measure", "fail", "retire"} \cup Working
  /\ script.stage \in {"measure", "retire"} \cup Working =>
       /\ script.made = VersionsOf(script.run)
       /\ \A v \in script.made : version[v] \in {"READY", "INACTIVE"}
  /\ script.stage = "measure" => \A v \in script.made : version[v] = "READY"
  /\ script.stage \in Working => ~script.short
  /\ script.stage \in {"retire"} \cup Working /\ ~script.short /\ Flawless =>
       \A v \in script.made : version[v] = "INACTIVE" => SnapshotLast(v)

\* A run that passed is gone for good: nothing of it is published or scheduled again.
PassedIsGone == \A r \in RunId : report[r] = "PASS" =>
  /\ \A v \in VersionsOf(r) : version[v] = "INACTIVE" /\ Whole(v) \cap stored = {}
  /\ (Active \cup ToSet(script.todo)) \cap JobsOf(r) = {}

RunInv == RunTypeOK /\ JobsClean /\ JobsOnce /\ GateAlone /\ CanaryInOrder /\ PassedIsGone

=============================================================================
