-------------------------------- MODULE NliGate --------------------------------
(***************************************************************************)
(* The gate for a model of natural language inference as a judge of claims *)
(* (evaluation/claim_evidence_nli.py): it scores pairs of an evidence and  *)
(* a claim, and passes if it retains enough of the pairs that are labelled *)
(* supported and of the claims that humans accepted. Logits are small      *)
(* integers; the softmax keeps their order.                                *)
(***************************************************************************)
EXTENDS Integers, Sequences, FiniteSets

CONSTANT Workloads \* config, logits, the supported and the partial pairs, groups of pairs

ASSUME NliAssumption == \A w \in Workloads :
  /\ IsFiniteSet(DOMAIN w.logits) /\ w.logits \in [DOMAIN w.logits -> [1..3 -> Int]]
  /\ IsFiniteSet(w.groups)
  /\ w.config.minimumCandidate \in Int /\ w.config.minimumHuman \in Int

VARIABLE evaluated \* the workload of this behaviour, once it was evaluated

Label == <<"entailment", "neutral", "contradiction">>
Hundred == 100

\* load_nli_candidate_config: what of a configuration is not fixed.
ConfigValid(config) ==
  /\ config.batchSize >= 1 /\ config.pairCount >= 1
  /\ config.repetitions >= 30 /\ config.warmup >= 1
  /\ 0 < config.minimumCandidate /\ config.minimumCandidate <= Hundred
  /\ 0 < config.minimumHuman /\ config.minimumHuman <= Hundred
  /\ ~config.enforcesOnline

\* _label: of the largest logits the first one counts.
LabelOf(logits) ==
  LET best == {i \in 1..3 : \A j \in 1..3 : logits[i] >= logits[j]}
  IN Label[CHOOSE i \in best : \A j \in best : i <= j]

\* The groups of pairs of a claim, and the labelled pairs, are among the scored ones.
WorkloadValid(logits, supported, partial, groups) ==
  /\ DOMAIN logits # {} /\ supported # {} /\ groups # {}
  /\ supported \cup partial \subseteq DOMAIN logits
  /\ \A group \in groups : group # {} /\ group \subseteq DOMAIN logits

Entailed(logits) == {p \in DOMAIN logits : LabelOf(logits[p]) = "entailment"}

\* evaluate_nli_candidate; a retention is a part of a whole.
Evaluate(config, logits, supported, partial, groups) ==
  LET candidates == supported \cap Entailed(logits)
      humans == {group \in groups : group \cap Entailed(logits) # {}}
  IN [candidate |-> <<Cardinality(candidates), Cardinality(supported)>>,
      human |-> <<Cardinality(humans), Cardinality(groups)>>,
      partial |-> [l \in {Label[i] : i \in 1..3} |->
                     Cardinality({p \in partial : LabelOf(logits[p]) = l})],
      passes |->
        /\ Hundred * Cardinality(candidates) >= config.minimumCandidate * Cardinality(supported)
        /\ Hundred * Cardinality(humans) >= config.minimumHuman * Cardinality(groups)]

-----------------------------------------------------------------------------
NliInit == evaluated = {}

EvaluateCandidate == evaluated = {} /\ \E w \in Workloads : evaluated' = {w}

NliSpec == NliInit /\ [][EvaluateCandidate]_evaluated

-----------------------------------------------------------------------------
(* Properties. *)

\* A model that passes still passes when it entails one more pair; one that must
\* retain everything contradicts no supported pair and no accepted claim in all of
\* its pairs; and none passes that entails nothing.
RetentionHonest(config, logits, supported, partial, groups) ==
  ConfigValid(config) /\ WorkloadValid(logits, supported, partial, groups) =>
    LET report(l) == Evaluate(config, l, supported, partial, groups) IN
    /\ report(logits).passes =>
         /\ \A p \in DOMAIN logits : report([logits EXCEPT ![p] = <<2, 1, 0>>]).passes
         /\ Entailed(logits) # {}
    /\ report(logits).passes /\ config.minimumCandidate = Hundred /\ config.minimumHuman = Hundred =>
         /\ \A p \in supported : LabelOf(logits[p]) # "contradiction"
         /\ \A group \in groups : \E p \in group : LabelOf(logits[p]) = "entailment"
    /\ report(logits).human[1] = report(logits).human[2] /\ groups = {{p} : p \in supported} =>
         report(logits).candidate[1] = report(logits).candidate[2]

\* So the gate measures what it promises.
NliGateHonest == \A w \in evaluated :
  RetentionHonest(w.config, w.logits, w.supported, w.partial, w.groups)

=============================================================================
