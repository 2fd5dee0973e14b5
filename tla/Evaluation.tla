------------------------------ MODULE Evaluation ------------------------------
(***************************************************************************)
(* The evaluation beside the service: the corpus its questions come from,  *)
(* the scores of a retrieval run against their labels, and the two gates   *)
(* that conclude from scores. They share no state; each takes what the     *)
(* others have written down.                                               *)
(***************************************************************************)
EXTENDS EvaluationCorpus, RetrievalMetrics, NliGate, PairedGate

evars == <<validated, scored, reported, evaluated, measured>>

EvaluationInit == CorpusInit /\ MetricsInit /\ NliInit /\ GateInit

EvaluationNext ==
  \/ Validate /\ UNCHANGED <<scored, reported, evaluated, measured>>
  \/ (ScoreRanking \/ BuildReport) /\ UNCHANGED <<validated, evaluated, measured>>
  \/ EvaluateCandidate /\ UNCHANGED <<validated, scored, reported, measured>>
  \/ RunGate /\ UNCHANGED <<validated, scored, reported, evaluated>>

EvaluationSpec == EvaluationInit /\ [][EvaluationNext]_evars

-----------------------------------------------------------------------------
\* A question of a lock-ready corpus has a label its reviewers stand by, no ranking
\* scores better against the labels than a perfect one and reports tell decisions, a
\* gate for a model passes only what it measured, and what the paired gate concludes
\* from the scores stands when its report is adjudicated.
EvaluationIsSound ==
  LockReadyMeansReviewed /\ MetricsAreSound /\ NliGateHonest /\ VerdictsAgree

=============================================================================
