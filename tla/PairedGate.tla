------------------------------ MODULE PairedGate ------------------------------
(***************************************************************************)
(* The verdict of the paired gate on an experiment                         *)
(* (run_phase3_comparison_paired_dev_gate.py) and the second opinion of    *)
(* adjudicate_phase3_comparison_paired_dev_report.py, which sees only the  *)
(* report, with its numbers rounded, and computes every gain and every     *)
(* drop again. IsolatedRun has the run that measures; here a measurement   *)
(* is given.                                                               *)
(*                                                                         *)
(* Numbers are in units of 10^-7, latencies of 10^-7 ms; reports have six  *)
(* decimals.                                                               *)
(***************************************************************************)
EXTENDS Integers, FiniteSets

CONSTANTS
  Targets,    \* target questions (4)
  EmptyCases, \* questions of the dev split without evidence (9)
  CanarySize, \* canary questions of each category (9, 3, 3)
  Versions,   \* papers of the isolated run (3)
  Jobs,       \* their cleanup jobs (9)
  Measurements \* what the two arms may measure

One == 10000000
Percent == One \div 100
Category == {"ANSWERABLE", "NO_EVIDENCE", "FORBIDDEN"}
Experiments == {"decomposition", "coverage"}

\* Recall and nDCG of questions are means of numbers between 0 and 1.
Mean == 0..One
IsArm(arm) == arm.strict \in 0..Targets /\ arm.recall \in Mean /\ arm.ndcg \in Mean
IsMeasurement(m) ==
  /\ m.experiment \in Experiments
  /\ \A arm \in {m.control, m.treatment, m.others.control, m.others.treatment} : IsArm(arm)
  /\ m.empty.control \in 0..EmptyCases /\ m.empty.treatment \in 0..EmptyCases
  /\ m.cost.control \in Nat /\ m.cost.treatment \in Nat /\ m.cost.variable \in Nat
  /\ m.applied \in 0..Targets /\ m.changed \in 0..Targets

\* load_canary: the cases are known by name, and so many of each category.
IsCanary(cases) == \A k \in Category :
  /\ IsFiniteSet({c \in cases : c.category = k})
  /\ Cardinality({c \in cases : c.category = k}) = CanarySize[k]

ASSUME GateAssumption ==
  /\ Targets \in Nat \ {0} /\ EmptyCases \in Nat /\ Versions \in Nat /\ Jobs \in Nat
  /\ CanarySize \in [Category -> Nat]
  /\ \A m \in Measurements : IsMeasurement(m) /\ IsCanary(m.canary)
       /\ \A c \in m.canary : c.category \in Category

VARIABLE measured \* the measurement of this behaviour, once the gate has ended

\* round(value, 6)
Rounded(x) == 10 * ((x + 5) \div 10)

-----------------------------------------------------------------------------
(* The gate. A measurement has, for each arm, the results of the target questions, of  *)
(* the other questions, and the latencies.                                             *)

\* _target_metrics
TargetMetrics(arm) ==
  [strict |-> arm.strict, total |-> Targets,
   recall |-> Rounded(arm.recall), ndcg |-> Rounded(arm.ndcg)]

TargetGains(control, treatment) ==
  [strict |-> (treatment.strict - control.strict) * (One \div Targets),
   recall |-> Rounded(treatment.recall - control.recall),
   ndcg |-> Rounded(treatment.ndcg - control.ndcg)]

MaxRecallDrop(experiment) == IF experiment = "decomposition" THEN Percent ELSE 0

\* The drops are rounded after the subtraction.
NonRegression(experiment, control, treatment) ==
  [control |-> [recall |-> Rounded(control.recall), ndcg |-> Rounded(control.ndcg)],
   treatment |-> [recall |-> Rounded(treatment.recall), ndcg |-> Rounded(treatment.ndcg)],
   recallDrop |-> Rounded(control.recall - treatment.recall),
   ndcgDrop |-> Rounded(control.ndcg - treatment.ndcg),
   maxRecallDrop |-> MaxRecallDrop(experiment)]

\* evaluate_canary: both arms answer the same, and as the category expects. located:
\* the evidence lies on the required pages.
CanaryPasses(case) ==
  /\ case.control = case.treatment
  /\ CASE case.category = "ANSWERABLE" -> case.control = "COMPLETED" /\ case.located
       [] case.category = "NO_EVIDENCE" -> case.control = "NO_EVIDENCE"
       [] OTHER -> case.control = "FORBIDDEN"

Canary(cases) ==
  LET passed == {c \in cases : CanaryPasses(c)} IN
  [passed |-> Cardinality(passed), total |-> Cardinality(cases),
   category |-> [k \in Category |-> Cardinality({c \in passed : c.category = k})],
   exact |-> passed = cases]

\* evaluate_dev_no_evidence
NoEvidence(control, treatment) ==
  [control |-> control, treatment |-> treatment, noWorse |-> treatment >= control]

\* _latency_summary
Cost(cost) ==
  [control |-> Rounded(cost.control), treatment |-> Rounded(cost.treatment),
   incremental |-> Rounded(cost.treatment - cost.control), variable |-> Rounded(cost.variable)]

\* _observation_summary of the target questions
Observations(applied, changed) ==
  [count |-> Targets, applied |-> applied, fallback |-> Targets - applied, changed |-> changed]

CanaryTotal == CanarySize["ANSWERABLE"] + CanarySize["NO_EVIDENCE"] + CanarySize["FORBIDDEN"]

\* quality_pass
QualityPass(r) ==
  /\ r.treatment.strict >= Targets - 1
  /\ r.gains.strict >= One \div 2 /\ r.gains.recall >= 20 * Percent /\ r.gains.ndcg >= 10 * Percent
  /\ r.regression.recallDrop <= MaxRecallDrop(r.experiment) /\ r.regression.ndcgDrop <= Percent
  /\ r.noEvidence.noWorse
  /\ r.canary.passed = CanaryTotal
  /\ r.cost.incremental <= 50 * One /\ r.cost.variable <= 5 * One
  /\ r.experiment = "coverage" => r.observations.applied = Targets

ReportSections(m) ==
  LET control == TargetMetrics(m.control)
      treatment == TargetMetrics(m.treatment)
  IN [experiment |-> m.experiment, control |-> control, treatment |-> treatment,
      gains |-> TargetGains(control, treatment),
      regression |-> NonRegression(m.experiment, m.others.control, m.others.treatment),
      noEvidence |-> NoEvidence(m.empty.control, m.empty.treatment),
      canary |-> Canary(m.canary), cost |-> Cost(m.cost),
      observations |-> Observations(m.applied, m.changed)]

\* The cleanup behind the run: how many versions and jobs it saw, how many succeeded,
\* whether a question about the papers was forbidden, whether their reconciliation
\* failed, and whether something raised on the way.
CleanupSummary(c) ==
  [versions |-> c.versions, observed |-> c.observed, succeeded |-> c.succeeded, expected |-> Jobs,
   failedClosed |-> c.failedClosed, answer |-> IF c.forbidden THEN 403 ELSE 0,
   status |-> IF ~c.raised /\ c.versions = Versions /\ c.observed = Jobs /\ c.succeeded = c.observed
                 /\ c.forbidden /\ c.failedClosed
              THEN "PASS" ELSE "FAIL"]

NotStarted ==
  [versions |-> 0, observed |-> 0, succeeded |-> 0, expected |-> 0, failedClosed |-> FALSE,
   answer |-> 0, status |-> "NOT_STARTED"]

\* The report: a control that answers a target question stops the gate, an error leaves
\* no section; a cleanup that is not proven fails any of them, and the gate that refused
\* to start had none.
Report(m) ==
  LET sections == ReportSections(m)
      cleanup == IF m.ended = "refused" THEN NotStarted ELSE CleanupSummary(m.cleanup)
      quality == sections.control.strict = 0 /\ QualityPass(sections)
      error ==
        IF m.ended = "refused" THEN "ARGUMENTS"
        ELSE IF cleanup.status # "PASS" THEN "CLEANUP_PROOF_FAILED"
        ELSE IF m.ended = "error" THEN "ERROR"
        ELSE IF sections.control.strict # 0 THEN "CONTROL_BASELINE_MISMATCH"
        ELSE IF ~quality THEN "QUALITY_OR_COST_THRESHOLD_NOT_MET"
        ELSE "none"
  IN [status |-> IF error = "none" THEN "PASS" ELSE "FAIL", error |-> error,
      cleanup |-> cleanup, sections |-> sections]

-----------------------------------------------------------------------------
(* The adjudicator. It compares with a tolerance of two units of the last decimal.     *)

IsClose(left, right) == LET d == left - right IN -20 <= d /\ d <= 20
Proportion(x) == 0 <= x /\ x <= One

GainsValid(r) ==
  /\ r.control.strict = 0 /\ r.treatment.strict \in {Targets - 1, Targets}
  /\ \A arm \in {r.control, r.treatment} : Proportion(arm.recall) /\ Proportion(arm.ndcg)
  /\ IsClose(r.gains.strict, (r.treatment.strict - r.control.strict) * (One \div Targets))
  /\ IsClose(r.gains.recall, r.treatment.recall - r.control.recall)
  /\ IsClose(r.gains.ndcg, r.treatment.ndcg - r.control.ndcg)
  /\ r.gains.strict >= One \div 2 /\ r.gains.recall >= 20 * Percent /\ r.gains.ndcg >= 10 * Percent

RegressionValid(r) ==
  LET control == r.regression.control
      treatment == r.regression.treatment
  IN /\ r.regression.maxRecallDrop = MaxRecallDrop(r.experiment)
     /\ \A arm \in {control, treatment} : Proportion(arm.recall) /\ Proportion(arm.ndcg)
     /\ IsClose(r.regression.recallDrop, control.recall - treatment.recall)
     /\ IsClose(r.regression.ndcgDrop, control.ndcg - treatment.ndcg)
     /\ r.regression.recallDrop <= MaxRecallDrop(r.experiment)
     /\ r.regression.ndcgDrop <= Percent

NoEvidenceValid(r) ==
  /\ r.noEvidence.noWorse
  /\ {r.noEvidence.control, r.noEvidence.treatment} \subseteq 0..EmptyCases
  /\ r.noEvidence.treatment >= r.noEvidence.control

CanaryValid(r) ==
  r.canary.passed = CanaryTotal /\ r.canary.total = CanaryTotal
    /\ r.canary.category = CanarySize /\ r.canary.exact

CostValid(r) ==
  /\ r.cost.control >= 0 /\ r.cost.treatment >= 0
  /\ IsClose(r.cost.incremental, r.cost.treatment - r.cost.control)
  /\ r.cost.incremental <= 50 * One
  /\ 0 <= r.cost.variable /\ r.cost.variable <= 5 * One

ObservationsValid(r) == r.experiment = "coverage" =>
  /\ r.observations.count = Targets
  /\ r.observations.applied = Targets /\ r.observations.fallback = 0
  /\ r.observations.changed \in 0..Targets

\* _validate_cleanup
CleanupValid(cleanup) ==
  /\ cleanup.status = "PASS"
  /\ cleanup.versions = Versions
  /\ cleanup.succeeded = Jobs /\ cleanup.expected = Jobs
  /\ cleanup.failedClosed /\ cleanup.answer = 403

\* adjudicate_report
Adjudication(report) ==
  LET r == report.sections
      valid == GainsValid(r) /\ RegressionValid(r) /\ NoEvidenceValid(r) /\ CanaryValid(r)
                 /\ CostValid(r) /\ ObservationsValid(r)
  IN IF ~CleanupValid(report.cleanup) THEN "REJECTED"
     ELSE IF report.status = "FAIL" THEN "FAIL"
     ELSE IF valid THEN "PASS"
     ELSE "REJECTED"

-----------------------------------------------------------------------------
(* A gate measures and reports; its report is adjudicated afterwards. *)

GateInit == measured = {}

RunGate == measured = {} /\ \E m \in Measurements : measured' = {m}

GateSpec == GateInit /\ [][RunGate]_measured

-----------------------------------------------------------------------------
(* Properties. *)

\* The adjudicator confirms every verdict of a gate that cleaned up behind itself,
\* although it computes gains and drops from numbers the gate has rounded; it rejects
\* only what a gate reports that did not prove its cleanup.
VerdictsAgree == \A m \in measured :
  LET report == Report(m) IN
  Adjudication(report) = IF report.cleanup.status = "PASS" THEN report.status ELSE "REJECTED"

=============================================================================
