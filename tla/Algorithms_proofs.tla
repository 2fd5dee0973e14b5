-------------------------- MODULE Algorithms_proofs --------------------------
(***************************************************************************)
(* Theorems about the algorithms without a state, for any input: the       *)
(* review of an evaluation corpus, the gate of the NLI candidate, the      *)
(* verdict of the paired gate and its adjudication, the scores of a        *)
(* ranking, the rates of a report, the queries of a comparison and the     *)
(* chunks of a paper.                                                      *)
(***************************************************************************)
EXTENDS Evaluation, Comparison, Chunking, Orders_proofs

-----------------------------------------------------------------------------
(* The evaluation corpus. *)

\* Of a question that can be read the records are its own.
LEMMA RecordsAreMine ==
  ASSUME NEW item, NEW records, ItemValid(item, records)
  PROVE  WithIds(item.records, records) = records
BY DEF ItemValid, WithIds

\* Whom a human who decided rests on.
LEMMA DeciderKnowsReviewers ==
  ASSUME NEW item, NEW records, ItemReadable(item, records), NEW r \in records,
         r.role \in {"ADJUDICATOR", "EXPERT_REVIEWER"}
  PROVE  \/ TwoReviewers(WithIds(r.parents, records))
         \/ \E p \in WithIds(r.parents, records) :
              p.role = "ADJUDICATOR" /\ TwoReviewers(WithIds(p.parents, records))
<1> DEFINE parents == WithIds(r.parents, records)
<1>1. \A s \in records : LineageValid(s, records)
  BY DEF ItemReadable
<1>2. CASE r.role = "ADJUDICATOR"
  BY <1>1, <1>2 DEF LineageValid
<1>3. CASE r.role = "EXPERT_REVIEWER" /\ ~TwoReviewers(parents)
  <2>1. Cardinality(parents) = 1 /\ \A p \in parents : p.role = "ADJUDICATOR"
    BY <1>1, <1>3 DEF LineageValid
  <2>2. parents # {}
    BY <2>1, FS_EmptySet
  <2>3. PICK p \in parents : p.role = "ADJUDICATOR"
    BY <2>1, <2>2
  <2>4. p \in records
    BY DEF WithIds
  <2>5. TwoReviewers(WithIds(p.parents, records))
    BY <1>1, <2>3, <2>4 DEF LineageValid
  <2> QED  BY <2>3, <2>5
<1> QED  BY <1>2, <1>3

\* The final record of a decided question.
LEMMA FinalDecides ==
  ASSUME NEW item, NEW records, LockReady(item, records), item.status \in LateStatus,
         "none" \notin item.records
  PROVE  \E r \in records :
           /\ r.actor = "HUMAN" /\ r.label = item.label
           /\ r.role = IF item.status = "EXPERT_REVIEWED" THEN "EXPERT_REVIEWER" ELSE "ADJUDICATOR"
<1> DEFINE final == CHOOSE r \in records : r.id = item.final
           expected == IF item.status = "EXPERT_REVIEWED" THEN "EXPERT_REVIEWER" ELSE "ADJUDICATOR"
<1>1. item.final \in item.records
  BY DEF LockReady, ItemReadable, ItemValid
<1>2. item.final # "none"
  BY <1>1
<1>3. FinalBlockers(item, records) = {}
  BY DEF LockReady, Blockers
<1>4. WithIds({item.final}, records) # {}
  BY <1>2, <1>3 DEF FinalBlockers
<1>5. final \in records
  BY <1>4 DEF WithIds
<1>6. final.role = expected /\ final.actor = "HUMAN" /\ final.label = item.label
  <2>1. FinalBlockers(item, records)
          = (IF final.role # expected THEN {"final role is invalid"} ELSE {})
            \cup (IF final.actor # "HUMAN" THEN {"final must be human"} ELSE {})
            \cup (IF final.label # item.label THEN {"final labels do not match"} ELSE {})
    BY <1>2, <1>4 DEF FinalBlockers
  <2> QED  BY <1>3, <2>1
<1> QED  BY <1>5, <1>6

LEMMA LockReadyIsReviewed ==
  ASSUME NEW item, NEW records, IsFiniteSet(records), item.status \in AnnotationStatuses,
         item.score \in {"none", "partial", "full"}, "none" \notin item.records
  PROVE  Reviewed(item, records)
<1> SUFFICES ASSUME LockReady(item, records)
             PROVE  Reviewed(item, records)
  BY DEF Reviewed
<1> DEFINE mine == WithIds(item.records, records)
           rests(r) == \/ TwoReviewers(WithIds(r.parents, mine))
                       \/ \E p \in WithIds(r.parents, mine) :
                            p.role = "ADJUDICATOR" /\ TwoReviewers(WithIds(p.parents, mine))
           decided == {r \in mine : r.actor = "HUMAN" /\ r.label = item.label /\ rests(r)
                         /\ r.role \in {"ADJUDICATOR", "EXPERT_REVIEWER"}}
<1>1. ItemReadable(item, records) /\ Blockers(item, records) = {} /\ mine = records
  BY RecordsAreMine DEF LockReady, ItemReadable
<1>2. Cardinality(Humans(Independent(mine))) >= 2
  <2>1. ~(Cardinality(Humans(Independent(mine))) < 2)
    BY <1>1 DEF Blockers
  <2> DEFINE humans == {r \in Independent(mine) : r.actor = "HUMAN"}
             name == [r \in humans |-> r.annotator]
  <2>2. IsFiniteSet(humans)
    BY <1>1, FS_Subset DEF Independent
  <2>3. IsFiniteSet(Humans(Independent(mine)))
    <3>1. IsFiniteSet({name[r] : r \in humans})
      BY <2>2, ImageCounts, ZenonT(30)
    <3>2. {name[r] : r \in humans} = Humans(Independent(mine))
      BY DEF Humans
    <3> QED  BY <3>1, <3>2
  <2>4. Cardinality(Humans(Independent(mine))) \in Nat
    BY <2>3, FS_CardinalityType
  <2> QED  BY <2>1, <2>4
<1>3. ASSUME item.status \in LateStatus
      PROVE  \E r \in decided : item.status = "EXPERT_REVIEWED" => r.role = "EXPERT_REVIEWER"
  <2>1. PICK r \in records :
          /\ r.actor = "HUMAN" /\ r.label = item.label
          /\ r.role = IF item.status = "EXPERT_REVIEWED" THEN "EXPERT_REVIEWER" ELSE "ADJUDICATOR"
    BY <1>3, FinalDecides
  <2>2. rests(r)
    BY <1>1, <2>1, DeciderKnowsReviewers
  <2> HIDE DEF rests
  <2>3. r \in decided
    BY <1>1, <2>1, <2>2
  <2> QED  BY <2>1, <2>3
<1>4. item.hard => item.status = "EXPERT_REVIEWED"
  BY <1>1 DEF Blockers
<1>5. ASSUME item.status \notin LateStatus
      PROVE  \A r \in Independent(mine) : r.label = item.label
  <2>1. item.status # "DRAFT" /\ item.status # "GPT_ASSISTED"
    BY <1>1 DEF Blockers
  <2>2. item.status = "DOUBLE_ANNOTATED"
    BY <1>5, <2>1 DEF AnnotationStatuses, LateStatus
  <2>3. AgreementBlockers(item, records) = {}
    BY <1>1 DEF Blockers
  <2>4. item.score = "full"
    BY <2>2, <2>3 DEF AgreementBlockers, LateStatus
  <2> QED  BY <2>2, <2>3, <2>4 DEF AgreementBlockers
<1>6. EngineeringReady(item, records)
  BY <1>1 DEF EngineeringReady
<1>7. item.status = "EXPERT_REVIEWED" => item.status \in LateStatus
  BY DEF LateStatus
<1>8. item.hard => \E r \in decided : r.role = "EXPERT_REVIEWER"
  BY <1>3, <1>4, <1>7
<1>9. decided # {} \/ \A r \in Independent(mine) : r.label = item.label
  BY <1>3, <1>5
<1> QED  BY <1>2, <1>6, <1>8, <1>9 DEF Reviewed

\* Whatever reviews a corpus holds, a question that validate_corpus calls lock-ready
\* (evaluation/formal_corpus.py) was reviewed by two humans and has a label that they agree
\* on or that a human decided who knew at least two reviewers.
THEOREM LockReadyIsReviewedAlways == CorpusSpec => []LockReadyMeansReviewed
<1> DEFINE Inv == validated \subseteq Questions
<1>1. CorpusInit => Inv
  BY DEF CorpusInit
<1>2. Inv /\ [Validate]_validated => Inv'
  BY DEF Validate
<1>3. Inv => LockReadyMeansReviewed
  BY LockReadyIsReviewed, CorpusAssumption DEF LockReadyMeansReviewed
<1> QED  BY <1>1, <1>2, <1>3, PTL DEF CorpusSpec

-----------------------------------------------------------------------------
(* The gate of the NLI candidate. *)

LEMMA ClearEntailment == LabelOf(<<2, 1, 0>>) = "entailment"
<1> DEFINE logits == <<2, 1, 0>>
           best == {i \in 1..3 : \A j \in 1..3 : logits[i] >= logits[j]}
<1>1. best = {1}
  OBVIOUS
<1>2. (CHOOSE i \in best : \A j \in best : i <= j) = 1
  <2> HIDE DEF best
  <2> QED  BY <1>1
<1>3. LabelOf(logits) = Label[CHOOSE i \in best : \A j \in best : i <= j]
  BY DEF LabelOf
<1> QED  BY <1>2, <1>3 DEF Label

LEMMA OneMoreIsEntailed ==
  ASSUME NEW logits, logits = [q \in DOMAIN logits |-> logits[q]], NEW p \in DOMAIN logits
  PROVE  Entailed(logits) \subseteq Entailed([logits EXCEPT ![p] = <<2, 1, 0>>])
<1> DEFINE more == [logits EXCEPT ![p] = <<2, 1, 0>>]
<1>1. DOMAIN more = DOMAIN logits /\ more[p] = <<2, 1, 0>>
      /\ \A q \in DOMAIN logits : q # p => more[q] = logits[q]
  OBVIOUS
<1> HIDE DEF more
<1>2. \A q \in Entailed(logits) : q \in DOMAIN more /\ LabelOf(more[q]) = "entailment"
  BY <1>1, ClearEntailment DEF Entailed
<1> QED  BY <1>2 DEF Entailed, more

\* What the gate counts, and that a share which is required is not zero.
LEMMA RetentionsAreCounted ==
  ASSUME NEW S, NEW T \in SUBSET S, IsFiniteSet(S)
  PROVE  /\ IsFiniteSet(T) /\ Cardinality(S) \in Nat /\ Cardinality(T) \in Nat
         /\ Cardinality(T) <= Cardinality(S)
         /\ Cardinality(T) = Cardinality(S) => T = S
         /\ S # {} => Cardinality(S) > 0
         /\ T = {} => Cardinality(T) = 0
BY FS_Subset, FS_CardinalityType, FS_EmptySet

LEMMA ShareIsPositive ==
  ASSUME NEW share \in Int, NEW whole \in Nat, share > 0, whole > 0
  PROVE  share * whole \in Int /\ share * whole > 0
OBVIOUS

LEMMA GateRetains ==
  ASSUME NEW config, NEW logits, NEW supported, NEW partial, NEW groups,
         logits = [q \in DOMAIN logits |-> logits[q]], IsFiniteSet(DOMAIN logits),
         IsFiniteSet(groups), config.minimumCandidate \in Int, config.minimumHuman \in Int
  PROVE  RetentionHonest(config, logits, supported, partial, groups)
<1> DEFINE report(l) == Evaluate(config, l, supported, partial, groups)
           candidates(l) == supported \cap Entailed(l)
           humans(l) == {group \in groups : group \cap Entailed(l) # {}}
           candidateShare == config.minimumCandidate * Cardinality(supported)
           humanShare == config.minimumHuman * Cardinality(groups)
<1> SUFFICES ASSUME ConfigValid(config), WorkloadValid(logits, supported, partial, groups)
             PROVE  /\ report(logits).passes =>
                         /\ \A p \in DOMAIN logits :
                              report([logits EXCEPT ![p] = <<2, 1, 0>>]).passes
                         /\ Entailed(logits) # {}
                    /\ report(logits).passes /\ config.minimumCandidate = Hundred
                         /\ config.minimumHuman = Hundred =>
                         /\ \A p \in supported : LabelOf(logits[p]) # "contradiction"
                         /\ \A group \in groups :
                              \E p \in group : LabelOf(logits[p]) = "entailment"
                    /\ report(logits).human[1] = report(logits).human[2]
                         /\ groups = {{p} : p \in supported} =>
                         report(logits).candidate[1] = report(logits).candidate[2]
  BY DEF RetentionHonest
<1>1. \A l : /\ report(l).passes <=> /\ Hundred * Cardinality(candidates(l)) >= candidateShare
                                      /\ Hundred * Cardinality(humans(l)) >= humanShare
             /\ report(l).candidate = <<Cardinality(candidates(l)), Cardinality(supported)>>
             /\ report(l).human = <<Cardinality(humans(l)), Cardinality(groups)>>
  BY DEF Evaluate
<1>2. /\ IsFiniteSet(supported) /\ supported # {} /\ groups # {}
  BY FS_Subset DEF WorkloadValid
<1>3. /\ Cardinality(supported) \in Nat /\ Cardinality(supported) > 0
      /\ Cardinality(groups) \in Nat /\ Cardinality(groups) > 0
  BY <1>2, RetentionsAreCounted
<1>4. \A l : /\ candidates(l) \in SUBSET supported /\ humans(l) \in SUBSET groups
             /\ Cardinality(candidates(l)) \in Nat /\ Cardinality(humans(l)) \in Nat
             /\ IsFiniteSet(candidates(l)) /\ IsFiniteSet(humans(l))
             /\ Cardinality(candidates(l)) = Cardinality(supported) => candidates(l) = supported
             /\ Cardinality(humans(l)) = Cardinality(groups) => humans(l) = groups
             /\ candidates(l) = {} => Cardinality(candidates(l)) = 0
             /\ Cardinality(candidates(l)) <= Cardinality(supported)
             /\ Cardinality(humans(l)) <= Cardinality(groups)
  <2> SUFFICES ASSUME NEW l
               PROVE  /\ candidates(l) \in SUBSET supported /\ humans(l) \in SUBSET groups
                      /\ Cardinality(candidates(l)) \in Nat /\ Cardinality(humans(l)) \in Nat
                      /\ IsFiniteSet(candidates(l)) /\ IsFiniteSet(humans(l))
                      /\ Cardinality(candidates(l)) = Cardinality(supported)
                           => candidates(l) = supported
                      /\ Cardinality(humans(l)) = Cardinality(groups) => humans(l) = groups
                      /\ candidates(l) = {} => Cardinality(candidates(l)) = 0
                      /\ Cardinality(candidates(l)) <= Cardinality(supported)
                      /\ Cardinality(humans(l)) <= Cardinality(groups)
    OBVIOUS
  <2>1. candidates(l) \in SUBSET supported /\ humans(l) \in SUBSET groups
    OBVIOUS
  <2> HIDE DEF candidates, humans
  <2> QED  BY <1>2, <2>1, RetentionsAreCounted
<1>5. /\ config.minimumCandidate > 0 /\ config.minimumHuman > 0
      /\ candidateShare \in Int /\ candidateShare > 0 /\ humanShare \in Int
  BY <1>3, ShareIsPositive DEF ConfigValid
<1>6. ASSUME NEW l, Entailed(logits) \subseteq Entailed(l), report(logits).passes
      PROVE  report(l).passes
  <2>1. candidates(logits) \in SUBSET candidates(l) /\ humans(logits) \in SUBSET humans(l)
    BY <1>6
  <2>2. /\ Cardinality(candidates(logits)) <= Cardinality(candidates(l))
        /\ Cardinality(humans(logits)) <= Cardinality(humans(l))
    <3> HIDE DEF candidates, humans
    <3> QED  BY <1>4, <2>1, FS_Subset
  <2> HIDE DEF candidates, humans, candidateShare, humanShare, report
  <2> QED  BY <1>1, <1>4, <1>5, <1>6, <2>2 DEF Hundred
<1>7. report(logits).passes => Entailed(logits) # {}
  <2>1. Entailed(logits) = {} => candidates(logits) = {}
    OBVIOUS
  <2> HIDE DEF candidates, humans, candidateShare, humanShare, report
  <2> QED  BY <1>1, <1>4, <1>5, <2>1 DEF Hundred
<1>8. ASSUME report(logits).passes, config.minimumCandidate = Hundred,
             config.minimumHuman = Hundred
      PROVE  candidates(logits) = supported /\ humans(logits) = groups
  <2>1. candidateShare = 100 * Cardinality(supported) /\ humanShare = 100 * Cardinality(groups)
    BY <1>8 DEF Hundred
  <2>2. Cardinality(candidates(logits)) = Cardinality(supported)
        /\ Cardinality(humans(logits)) = Cardinality(groups)
    <3> HIDE DEF candidates, humans, candidateShare, humanShare, report
    <3> QED  BY <1>1, <1>3, <1>4, <1>8, <2>1 DEF Hundred
  <2> HIDE DEF candidates, humans
  <2> QED  BY <1>4, <2>2
<1>9. \A p \in Entailed(logits) : LabelOf(logits[p]) = "entailment"
  BY DEF Entailed
<1>10. report(logits).human[1] = report(logits).human[2] => humans(logits) = groups
  <2> HIDE DEF candidates, humans, report
  <2> QED  BY <1>1, <1>4
<1>11. ASSUME report(logits).human[1] = report(logits).human[2], groups = {{p} : p \in supported}
       PROVE  report(logits).candidate[1] = report(logits).candidate[2]
  <2>1. humans(logits) = groups
    BY <1>10, <1>11
  <2>2. \A p \in supported : {p} \cap Entailed(logits) # {}
    BY <1>11, <2>1
  <2>3. candidates(logits) = supported
    BY <2>2
  <2> HIDE DEF candidates, report
  <2> QED  BY <1>1, <2>3
<1>12. \A p \in DOMAIN logits : report([logits EXCEPT ![p] = <<2, 1, 0>>]).passes
         \/ ~report(logits).passes
  <2> HIDE DEF report
  <2> QED  BY <1>6, OneMoreIsEntailed
<1> HIDE DEF report
<1> QED  BY <1>7, <1>8, <1>9, <1>11, <1>12

\* Whatever logits a model gives, the gate of evaluation/claim_evidence_nli.py passes it for
\* what it entails: never for nothing, still with one pair more, and with a minimum of all only
\* if it contradicts no supported pair and no accepted claim.
THEOREM NliGateIsHonest == NliSpec => []NliGateHonest
<1> DEFINE Inv == evaluated \subseteq Workloads
<1>1. NliInit => Inv
  BY DEF NliInit
<1>2. Inv /\ [EvaluateCandidate]_evaluated => Inv'
  BY DEF EvaluateCandidate
<1>3. Inv => NliGateHonest
  <2> SUFFICES ASSUME Inv, NEW w \in evaluated
               PROVE  RetentionHonest(w.config, w.logits, w.supported, w.partial, w.groups)
    BY DEF NliGateHonest
  <2>1. w \in Workloads
    OBVIOUS
  <2> QED  BY <2>1, GateRetains, NliAssumption
<1> QED  BY <1>1, <1>2, <1>3, PTL DEF NliSpec

-----------------------------------------------------------------------------
(* The verdict of the paired gate. *)

LEMMA RoundingIsNear ==
  ASSUME NEW x \in Int
  PROVE  /\ Rounded(x) \in Int /\ x - 5 <= Rounded(x) /\ Rounded(x) <= x + 5
         /\ x >= 0 => Rounded(x) >= 0
         /\ x <= One => Rounded(x) <= One
<1> DEFINE q == (x + 5) \div 10
<1>1. q \in Int /\ 10 * q <= x + 5 /\ x + 5 < 10 * q + 10
  OBVIOUS
<1>2. Rounded(x) = 10 * q
  BY DEF Rounded
<1> HIDE DEF q
<1> QED  BY <1>1, <1>2, SMT DEF One

\* A difference is rounded to nearly the difference of what is rounded.
LEMMA DifferencesAreClose ==
  ASSUME NEW x \in Int, NEW y \in Int
  PROVE  IsClose(Rounded(x - y), Rounded(x) - Rounded(y))
<1>1. x - y \in Int
  OBVIOUS
<1>2. /\ Rounded(x - y) \in Int /\ Rounded(x) \in Int /\ Rounded(y) \in Int
      /\ x - y - 5 <= Rounded(x - y) /\ Rounded(x - y) <= x - y + 5
      /\ x - 5 <= Rounded(x) /\ Rounded(x) <= x + 5
      /\ y - 5 <= Rounded(y) /\ Rounded(y) <= y + 5
  BY <1>1, RoundingIsNear
<1> QED  BY <1>2 DEF IsClose

LEMMA RoundedTwice ==
  ASSUME NEW x \in Int
  PROVE  Rounded(Rounded(x)) = Rounded(x)
<1> DEFINE q == (x + 5) \div 10
<1>1. q \in Int /\ Rounded(x) = 10 * q
  BY DEF Rounded
<1>2. (10 * q + 5) \div 10 = q
  BY <1>1
<1> QED  BY <1>1, <1>2 DEF Rounded

LEMMA MeansAreProportions ==
  ASSUME NEW x \in Mean
  PROVE  x \in Int /\ Rounded(x) \in Int /\ Proportion(Rounded(x))
<1>1. One \in Int
  BY SMT DEF One
<1>2. x \in Int /\ 0 <= x /\ x <= One
  BY <1>1 DEF Mean
<1> QED  BY <1>1, <1>2, RoundingIsNear DEF Proportion

\* The cases of a canary are as many as its categories want, so that all of them pass
\* if as many do.
LEMMA CanaryIsExact ==
  ASSUME NEW cases, IsCanary(cases), \A c \in cases : c.category \in Category,
         CanarySize \in [Category -> Nat], Canary(cases).passed = CanaryTotal
  PROVE  /\ Canary(cases).total = CanaryTotal /\ Canary(cases).category = CanarySize
         /\ Canary(cases).exact
<1> DEFINE passed == {c \in cases : CanaryPasses(c)}
           of(k) == {c \in cases : c.category = k}
           A == of("ANSWERABLE")
           N == of("NO_EVIDENCE")
           F == of("FORBIDDEN")
<1>1. /\ IsFiniteSet(A) /\ Cardinality(A) = CanarySize["ANSWERABLE"]
      /\ IsFiniteSet(N) /\ Cardinality(N) = CanarySize["NO_EVIDENCE"]
      /\ IsFiniteSet(F) /\ Cardinality(F) = CanarySize["FORBIDDEN"]
  BY DEF IsCanary, Category
<1>2. cases = (A \cup N) \cup F /\ A \cap N = {} /\ (A \cup N) \cap F = {}
  BY DEF Category
<1>3. IsFiniteSet(cases) /\ Cardinality(cases) = CanaryTotal
  <2> HIDE DEF A, N, F
  <2>1. /\ IsFiniteSet(A \cup N)
        /\ Cardinality(A \cup N) = Cardinality(A) + Cardinality(N) - Cardinality(A \cap N)
    BY <1>1, FS_Union
  <2>2. /\ IsFiniteSet((A \cup N) \cup F)
        /\ Cardinality((A \cup N) \cup F)
             = Cardinality(A \cup N) + Cardinality(F) - Cardinality((A \cup N) \cap F)
    BY <1>1, <2>1, FS_Union
  <2>3. Cardinality(A \cap N) = 0 /\ Cardinality((A \cup N) \cap F) = 0
    BY <1>2, FS_EmptySet
  <2>4. /\ CanarySize["ANSWERABLE"] \in Nat /\ CanarySize["NO_EVIDENCE"] \in Nat
        /\ CanarySize["FORBIDDEN"] \in Nat
    BY DEF Category
  <2> QED  BY <1>1, <1>2, <2>1, <2>2, <2>3, <2>4 DEF CanaryTotal
<1>4. passed = cases
  <2>1. passed \in SUBSET cases /\ Cardinality(passed) = CanaryTotal
    BY DEF Canary
  <2> HIDE DEF passed
  <2> QED  BY <1>3, <2>1, FS_Subset
<1>5. /\ Canary(cases).total = Cardinality(cases)
      /\ Canary(cases).category = [k \in Category |-> Cardinality({c \in passed : c.category = k})]
      /\ Canary(cases).exact = (passed = cases)
  BY DEF Canary
<1>6. \A k \in Category : Cardinality({c \in cases : c.category = k}) = CanarySize[k]
  BY DEF IsCanary
<1> HIDE DEF passed, A, N, F
<1>7. [k \in Category |-> Cardinality({c \in passed : c.category = k})] = CanarySize
  BY <1>4, <1>6
<1> QED  BY <1>3, <1>4, <1>5, <1>7

\* What the adjudicator reads in the sections of a gate that met its thresholds.
LEMMA GainsAreConfirmed ==
  ASSUME NEW m, IsMeasurement(m), Targets \in Nat \ {0},
         m.control.strict = 0, QualityPass(ReportSections(m))
  PROVE  GainsValid(ReportSections(m))
<1> DEFINE r == ReportSections(m)
           control == TargetMetrics(m.control)
           treatment == TargetMetrics(m.treatment)
<1>1. /\ m.control.recall \in Mean /\ m.control.ndcg \in Mean
      /\ m.treatment.recall \in Mean /\ m.treatment.ndcg \in Mean
      /\ m.treatment.strict \in 0..Targets
  BY DEF IsMeasurement, IsArm
<1>2. /\ r.control = control /\ r.treatment = treatment
      /\ r.gains = TargetGains(control, treatment)
  BY DEF ReportSections
<1>3. /\ control.strict = 0 /\ treatment.strict = m.treatment.strict
      /\ control.recall = Rounded(m.control.recall) /\ control.ndcg = Rounded(m.control.ndcg)
      /\ treatment.recall = Rounded(m.treatment.recall)
      /\ treatment.ndcg = Rounded(m.treatment.ndcg)
  BY DEF TargetMetrics
<1>4. /\ r.gains.strict = (treatment.strict - control.strict) * (One \div Targets)
      /\ r.gains.recall = Rounded(treatment.recall - control.recall)
      /\ r.gains.ndcg = Rounded(treatment.ndcg - control.ndcg)
  BY <1>2 DEF TargetGains
<1>5. /\ treatment.strict >= Targets - 1
      /\ r.gains.strict >= One \div 2 /\ r.gains.recall >= 20 * Percent
      /\ r.gains.ndcg >= 10 * Percent
  BY <1>2 DEF QualityPass
<1> HIDE DEF r, control, treatment
<1>6. /\ m.control.recall \in Int /\ Proportion(control.recall) /\ control.recall \in Int
      /\ m.control.ndcg \in Int /\ Proportion(control.ndcg) /\ control.ndcg \in Int
      /\ m.treatment.recall \in Int /\ Proportion(treatment.recall) /\ treatment.recall \in Int
      /\ m.treatment.ndcg \in Int /\ Proportion(treatment.ndcg) /\ treatment.ndcg \in Int
  BY <1>1, <1>3, MeansAreProportions
<1>7. treatment.strict \in {Targets - 1, Targets} /\ treatment.strict \in Int
  BY <1>1, <1>3, <1>5
<1>8. IsClose(r.gains.strict, (treatment.strict - control.strict) * (One \div Targets))
  <2>1. One \div Targets \in Int /\ treatment.strict - control.strict \in Int
    BY <1>3, <1>7, SMT DEF One
  <2>2. (treatment.strict - control.strict) * (One \div Targets) \in Int
    BY <2>1
  <2> DEFINE gain == (treatment.strict - control.strict) * (One \div Targets)
  <2> HIDE DEF gain
  <2>3. gain \in Int => IsClose(gain, gain)
    BY DEF IsClose
  <2> QED  BY <1>4, <2>2, <2>3 DEF gain
<1>9. IsClose(r.gains.recall, treatment.recall - control.recall)
  <2>1. /\ IsClose(Rounded(treatment.recall - control.recall),
                 Rounded(treatment.recall) - Rounded(control.recall))
    BY <1>6, DifferencesAreClose
  <2> QED  BY <1>3, <1>4, <1>6, <2>1, RoundedTwice
<1>10. IsClose(r.gains.ndcg, treatment.ndcg - control.ndcg)
  <2>1. IsClose(Rounded(treatment.ndcg - control.ndcg),
              Rounded(treatment.ndcg) - Rounded(control.ndcg))
    BY <1>6, DifferencesAreClose
  <2> QED  BY <1>3, <1>4, <1>6, <2>1, RoundedTwice
<1>11. GainsValid(r)
  BY <1>2, <1>3, <1>5, <1>6, <1>7, <1>8, <1>9, <1>10 DEF GainsValid
<1> QED  BY <1>11 DEF r

LEMMA DropsAreConfirmed ==
  ASSUME NEW m, IsMeasurement(m), QualityPass(ReportSections(m))
  PROVE  RegressionValid(ReportSections(m))
<1> DEFINE r == ReportSections(m)
           control == m.others.control
           treatment == m.others.treatment
<1>1. /\ control.recall \in Mean /\ control.ndcg \in Mean
      /\ treatment.recall \in Mean /\ treatment.ndcg \in Mean
  BY DEF IsMeasurement, IsArm
<1>2. /\ r.experiment = m.experiment
      /\ r.regression = NonRegression(m.experiment, control, treatment)
  BY DEF ReportSections
<1>3. /\ r.regression.control = [recall |-> Rounded(control.recall), ndcg |-> Rounded(control.ndcg)]
      /\ r.regression.treatment
           = [recall |-> Rounded(treatment.recall), ndcg |-> Rounded(treatment.ndcg)]
      /\ r.regression.recallDrop = Rounded(control.recall - treatment.recall)
      /\ r.regression.ndcgDrop = Rounded(control.ndcg - treatment.ndcg)
      /\ r.regression.maxRecallDrop = MaxRecallDrop(r.experiment)
  BY <1>2 DEF NonRegression
<1>4. /\ r.regression.recallDrop <= MaxRecallDrop(r.experiment)
      /\ r.regression.ndcgDrop <= Percent
  BY DEF QualityPass
<1> HIDE DEF r, control, treatment
<1>5. /\ control.recall \in Int /\ Proportion(Rounded(control.recall))
      /\ control.ndcg \in Int /\ Proportion(Rounded(control.ndcg))
      /\ treatment.recall \in Int /\ Proportion(Rounded(treatment.recall))
      /\ treatment.ndcg \in Int /\ Proportion(Rounded(treatment.ndcg))
  BY <1>1, MeansAreProportions
<1>6. /\ IsClose(Rounded(control.recall - treatment.recall),
               Rounded(control.recall) - Rounded(treatment.recall))
      /\ IsClose(Rounded(control.ndcg - treatment.ndcg),
               Rounded(control.ndcg) - Rounded(treatment.ndcg))
  BY <1>5, DifferencesAreClose
<1>7. /\ r.regression.control.recall = Rounded(control.recall)
      /\ r.regression.control.ndcg = Rounded(control.ndcg)
      /\ r.regression.treatment.recall = Rounded(treatment.recall)
      /\ r.regression.treatment.ndcg = Rounded(treatment.ndcg)
  BY <1>3
<1>8. RegressionValid(r)
  BY <1>3, <1>4, <1>5, <1>6, <1>7 DEF RegressionValid
<1> QED  BY <1>8 DEF r

LEMMA CostsAreConfirmed ==
  ASSUME NEW m, IsMeasurement(m), QualityPass(ReportSections(m))
  PROVE  CostValid(ReportSections(m))
<1> DEFINE r == ReportSections(m)
<1>1. m.cost.control \in Nat /\ m.cost.treatment \in Nat /\ m.cost.variable \in Nat
  BY DEF IsMeasurement
<1>2. /\ r.cost.control = Rounded(m.cost.control) /\ r.cost.treatment = Rounded(m.cost.treatment)
      /\ r.cost.incremental = Rounded(m.cost.treatment - m.cost.control)
      /\ r.cost.variable = Rounded(m.cost.variable)
  BY DEF ReportSections, Cost
<1>3. r.cost.incremental <= 50 * One /\ r.cost.variable <= 5 * One
  BY DEF QualityPass
<1> HIDE DEF r
<1>4. /\ Rounded(m.cost.control) >= 0 /\ Rounded(m.cost.treatment) >= 0
      /\ 0 <= Rounded(m.cost.variable)
      /\ Rounded(m.cost.variable) \in Int
  BY <1>1, RoundingIsNear
<1>5. IsClose(Rounded(m.cost.treatment - m.cost.control),
            Rounded(m.cost.treatment) - Rounded(m.cost.control))
  <2>1. m.cost.treatment \in Int /\ m.cost.control \in Int
    BY <1>1
  <2> QED  BY <2>1, DifferencesAreClose
<1>6. CostValid(r)
  BY <1>2, <1>3, <1>4, <1>5 DEF CostValid
<1> QED  BY <1>6 DEF r

LEMMA SectionsAreConfirmed ==
  ASSUME NEW m \in Measurements, m.control.strict = 0, QualityPass(ReportSections(m))
  PROVE  LET r == ReportSections(m) IN
         GainsValid(r) /\ RegressionValid(r) /\ NoEvidenceValid(r) /\ CanaryValid(r)
           /\ CostValid(r) /\ ObservationsValid(r)
<1> DEFINE r == ReportSections(m)
<1>1. /\ IsMeasurement(m) /\ IsCanary(m.canary) /\ \A c \in m.canary : c.category \in Category
      /\ Targets \in Nat \ {0} /\ CanarySize \in [Category -> Nat]
  BY GateAssumption
<1>2. NoEvidenceValid(r)
  <2>1. m.empty.control \in 0..EmptyCases /\ m.empty.treatment \in 0..EmptyCases
    BY <1>1 DEF IsMeasurement
  <2>2. r.noEvidence = NoEvidence(m.empty.control, m.empty.treatment) /\ r.noEvidence.noWorse
    BY DEF ReportSections, QualityPass
  <2> HIDE DEF r
  <2>3. r.noEvidence.control = m.empty.control /\ r.noEvidence.treatment = m.empty.treatment
    BY <2>2 DEF NoEvidence
  <2> DEFINE noWorse == m.empty.treatment >= m.empty.control
  <2>4. noWorse
    <3>1. r.noEvidence
            = [control |-> m.empty.control, treatment |-> m.empty.treatment, noWorse |-> noWorse]
      BY <2>2 DEF NoEvidence
    <3> HIDE DEF noWorse
    <3>2. r.noEvidence.noWorse = noWorse
      BY <3>1
    <3> QED  BY <2>2, <3>2
  <2> QED  BY <2>1, <2>2, <2>3, <2>4 DEF NoEvidenceValid
<1>3. CanaryValid(r)
  <2>1. r.canary = Canary(m.canary) /\ r.canary.passed = CanaryTotal
    BY DEF ReportSections, QualityPass
  <2> HIDE DEF r
  <2> QED  BY <1>1, <2>1, CanaryIsExact DEF CanaryValid
<1>4. ObservationsValid(r)
  <2>1. /\ r.observations = Observations(m.applied, m.changed)
        /\ r.experiment = "coverage" => r.observations.applied = Targets
    BY DEF ReportSections, QualityPass
  <2>2. m.changed \in 0..Targets
    BY <1>1 DEF IsMeasurement
  <2> HIDE DEF r
  <2> QED  BY <1>1, <2>1, <2>2 DEF Observations, ObservationsValid
<1> QED  BY <1>1, <1>2, <1>3, <1>4, GainsAreConfirmed, DropsAreConfirmed, CostsAreConfirmed

Confirmed(m) ==
  Adjudication(Report(m))
    = IF Report(m).cleanup.status = "PASS" THEN Report(m).status ELSE "REJECTED"

LEMMA VerdictIsConfirmed ==
  ASSUME NEW m \in Measurements
  PROVE  Confirmed(m)
<1> DEFINE report == Report(m)
           sections == ReportSections(m)
<1>1. /\ report.sections = sections
      /\ report.cleanup = IF m.ended = "refused" THEN NotStarted ELSE CleanupSummary(m.cleanup)
      /\ report.status \in {"PASS", "FAIL"}
  BY DEF Report
<1>2. CASE report.cleanup.status # "PASS"
  <2> HIDE DEF report
  <2>1. ~CleanupValid(report.cleanup)
    BY <1>2 DEF CleanupValid
  <2>2. Adjudication(report) = "REJECTED"
    BY <2>1 DEF Adjudication
  <2> QED  BY <1>2, <2>2 DEF Confirmed, report
<1>3. CASE report.cleanup.status = "PASS"
  <2>1. m.ended # "refused" /\ report.cleanup = CleanupSummary(m.cleanup)
    BY <1>1, <1>3 DEF NotStarted
  <2>2. CleanupValid(report.cleanup)
    <3> HIDE DEF report
    <3> QED  BY <1>3, <2>1 DEF CleanupSummary, CleanupValid
  <2>3. report.status = "PASS" => m.control.strict = 0 /\ QualityPass(sections)
    <3>1. sections.control.strict = m.control.strict
      BY DEF ReportSections, TargetMetrics
    <3> HIDE DEF sections
    <3> QED  BY <2>1, <3>1 DEF Report, sections
  <2>4. report.status = "PASS" => 
          /\ GainsValid(sections) /\ RegressionValid(sections) /\ NoEvidenceValid(sections)
          /\ CanaryValid(sections) /\ CostValid(sections) /\ ObservationsValid(sections)
    BY <2>3, SectionsAreConfirmed
  <2> HIDE DEF report, sections
  <2>5. report.status = "FAIL" => Adjudication(report) = "FAIL"
    BY <2>2 DEF Adjudication
  <2>6. report.status = "PASS" => Adjudication(report) = "PASS"
    BY <1>1, <2>2, <2>4 DEF Adjudication
  <2> QED  BY <1>1, <1>3, <2>5, <2>6 DEF Confirmed, report
<1> QED  BY <1>2, <1>3

\* Whatever the two arms measure, adjudicate_phase3_comparison_paired_dev_report.py comes to
\* the verdict of the gate whose cleanup is proven, and rejects every other report.
THEOREM VerdictsAlwaysAgree == GateSpec => []VerdictsAgree
<1> DEFINE Inv == measured \subseteq Measurements
<1>1. GateInit => Inv
  BY DEF GateInit
<1>2. Inv /\ [RunGate]_measured => Inv'
  BY DEF RunGate
<1>3. Inv => VerdictsAgree
  BY VerdictIsConfirmed DEF VerdictsAgree, Confirmed
<1> QED  BY <1>1, <1>2, <1>3, PTL DEF GateSpec

-----------------------------------------------------------------------------
(* The score of a ranking. A gain is a sum of layers, 1 for a grade of at least 1, 2   *)
(* more for 2 and 4 more for 3, so that a discounted gain is one of what the ranks of  *)
(* each layer weigh.                                                                   *)

Ranks == DOMAIN Discount
Weigh == CHOOSE g : Adds(g, Discount, Ranks)
AtLeast(grades, t) == {n \in DOMAIN grades : grades[n] >= t}
Graded(relevance, t) == {c \in DOMAIN relevance : relevance[c] >= t}
GradesOf(relevance, top) == [n \in DOMAIN top |-> Grade(relevance, top[n])]
Shown(relevance, top, t) == {n \in DOMAIN top : top[n] \in Graded(relevance, t)}
Lesser(a, b) == IF a < b THEN a ELSE b

LEMMA DiscountsWeigh ==
  /\ Len(Discount) \in Nat /\ Ranks = 1..Len(Discount) /\ IsFiniteSet(Ranks)
  /\ Discount \in [Ranks -> Nat \ {0}]
  /\ \A i, j \in Ranks : i <= j => Discount[j] <= Discount[i]
  /\ Adds(Weigh, Discount, Ranks)
<1>1. /\ Discount \in Seq(Nat \ {0})
      /\ \A i, j \in DOMAIN Discount : i < j => Discount[j] < Discount[i]
  BY MetricsAssumption
<1>2. /\ Len(Discount) \in Nat /\ Ranks = 1..Len(Discount)
      /\ Discount \in [Ranks -> Nat \ {0}] /\ Discount \in [Ranks -> Nat]
  BY <1>1 DEF Ranks
<1>3. IsFiniteSet(Ranks)
  BY <1>2, FS_Interval
<1>4. PICK g \in [SUBSET Ranks -> Nat] : g[{}] = 0 /\ AnySummand(g, Discount, Ranks)
  BY <1>2, <1>3, SumsUp
<1>5. Adds(g, Discount, Ranks)
  BY <1>4 DEF Adds
<1>6. Adds(Weigh, Discount, Ranks)
  BY <1>5 DEF Weigh
<1>7. ASSUME NEW i \in Ranks, NEW j \in Ranks, i <= j
      PROVE  Discount[j] <= Discount[i]
  <2>1. i \in Int /\ j \in Int /\ Discount[i] \in Nat /\ Discount[j] \in Nat
    BY <1>2
  <2>2. i = j \/ i < j
    BY <1>7, <2>1
  <2> QED  BY <1>1, <2>1, <2>2 DEF Ranks
<1> QED  BY <1>2, <1>3, <1>6, <1>7

LEMMA GainsAreLayers ==
  /\ Gain(0) = 0 /\ Gain(1) = 1 /\ Gain(2) = 3 /\ Gain(3) = 7
BY DEF Gain

\* What one more rank adds to its layer.
LEMMA LayerGrows ==
  ASSUME NEW layer \in SUBSET Ranks, NEW s \in SUBSET Ranks, NEW x \in s
  PROVE  /\ Weigh[s \cap layer] \in Nat /\ Weigh[(s \ {x}) \cap layer] \in Nat
         /\ Discount[x] \in Nat
         /\ Weigh[s \cap layer] = IF x \in layer
                                  THEN Discount[x] + Weigh[(s \ {x}) \cap layer]
                                  ELSE Weigh[(s \ {x}) \cap layer]
<1>1. Adds(Weigh, Discount, Ranks) /\ Discount \in [Ranks -> Nat \ {0}]
  BY DiscountsWeigh
<1>2. s \cap layer \in SUBSET Ranks /\ (s \ {x}) \cap layer \in SUBSET Ranks /\ x \in Ranks
  OBVIOUS
<1>3. Weigh[s \cap layer] \in Nat /\ Weigh[(s \ {x}) \cap layer] \in Nat
  BY <1>1, <1>2 DEF Adds
<1>4. CASE x \in layer
  <2>1. x \in s \cap layer /\ (s \cap layer) \ {x} = (s \ {x}) \cap layer
    BY <1>4
  <2>2. Weigh[s \cap layer] = Discount[x] + Weigh[(s \cap layer) \ {x}]
    BY <1>1, <1>2, <2>1, OneMoreAdds, SMTT(30)
  <2> QED  BY <1>1, <1>2, <1>3, <1>4, <2>1, <2>2
<1>5. CASE x \notin layer
  <2>1. s \cap layer = (s \ {x}) \cap layer
    BY <1>5
  <2> QED  BY <1>1, <1>2, <1>3, <1>5, <2>1
<1> QED  BY <1>4, <1>5

LEMMA DcgIsLayered ==
  ASSUME NEW m \in 0..Len(Discount), NEW grades \in [1..m -> 0..3]
  PROVE  /\ \A t \in 1..3 : AtLeast(grades, t) \in SUBSET Ranks /\ Weigh[AtLeast(grades, t)] \in Nat
         /\ Dcg(grades) = Weigh[AtLeast(grades, 1)] + 2 * Weigh[AtLeast(grades, 2)]
                            + 4 * Weigh[AtLeast(grades, 3)]
<1> DEFINE D == 1..m
           w == [n \in D |-> Gain(grades[n]) * Discount[n]]
           A(t) == AtLeast(grades, t)
           h == [s \in SUBSET D |-> Weigh[s \cap A(1)] + 2 * Weigh[s \cap A(2)]
                                      + 4 * Weigh[s \cap A(3)]]
<1>1. /\ D \in SUBSET Ranks /\ IsFiniteSet(D) /\ DOMAIN grades = D
      /\ Discount \in [Ranks -> Nat \ {0}] /\ Adds(Weigh, Discount, Ranks)
  <2>1. m \in Nat /\ m <= Len(Discount) /\ Len(Discount) \in Nat /\ Ranks = 1..Len(Discount)
    BY DiscountsWeigh
  <2>2. IsFiniteSet(1..m)
    BY <2>1, FS_Interval
  <2> QED  BY <2>1, <2>2, DiscountsWeigh
<1> HIDE DEF D
<1>2. \A t \in 1..3 : A(t) \in SUBSET D /\ A(t) \in SUBSET Ranks
  BY <1>1 DEF AtLeast
<1>3. \A t \in 1..3 : \A n \in D : n \in A(t) <=> grades[n] >= t
  BY <1>1 DEF AtLeast
<1>4. \A n \in D : grades[n] \in 0..3
  BY DEF D
<1>5. ASSUME NEW n \in D
      PROVE  w[n] \in Nat /\ w[n] = (IF n \in A(1) THEN Discount[n] ELSE 0)
                                      + (IF n \in A(2) THEN 2 * Discount[n] ELSE 0)
                                      + (IF n \in A(3) THEN 4 * Discount[n] ELSE 0)
  <2>1. /\ n \in A(1) <=> grades[n] >= 1
        /\ n \in A(2) <=> grades[n] >= 2
        /\ n \in A(3) <=> grades[n] >= 3
    BY <1>3
  <2>2. Discount[n] \in Nat /\ w[n] = Gain(grades[n]) * Discount[n]
    BY <1>1
  <2> HIDE DEF w, A
  <2>3. CASE grades[n] = 0
    BY <2>1, <2>2, <2>3, GainsAreLayers
  <2>4. CASE grades[n] = 1
    BY <2>1, <2>2, <2>4, GainsAreLayers
  <2>5. CASE grades[n] = 2
    BY <2>1, <2>2, <2>5, GainsAreLayers
  <2>6. CASE grades[n] = 3
    BY <2>1, <2>2, <2>6, GainsAreLayers
  <2>7. grades[n] \in {0, 1, 2, 3}
    BY <1>4
  <2> QED  BY <2>3, <2>4, <2>5, <2>6, <2>7
<1>6. w \in [D -> Nat]
  BY <1>5
<1>7. Dcg(grades) = SumFunction(w)
  BY <1>1 DEF Dcg
<1> HIDE DEF w, A
<1>8. PICK g \in [SUBSET D -> Nat] : SumFunction(w) = g[D] /\ g[{}] = 0 /\ AnySummand(g, w, D)
  BY <1>1, <1>6, SumsUp
<1>9. g[{}] = h[{}]
  <2>1. Weigh[{}] = 0
    BY <1>1 DEF Adds
  <2>2. {} \cap A(1) = {} /\ {} \cap A(2) = {} /\ {} \cap A(3) = {}
    OBVIOUS
  <2>3. h[{}] = Weigh[{} \cap A(1)] + 2 * Weigh[{} \cap A(2)] + 4 * Weigh[{} \cap A(3)]
    OBVIOUS
  <2>4. h[{}] = 0
    BY <2>1, <2>2, <2>3
  <2> QED  BY <1>8, <2>4
<1>10. ASSUME NEW s \in SUBSET D, s # {}, g[s \ {Pick(s)}] = h[s \ {Pick(s)}]
       PROVE  g[s] = h[s]
  <2> DEFINE x == Pick(s)
             r == s \ {x}
             W(t) == Weigh[r \cap A(t)]
  <2>1. x \in s /\ x \in D
    BY <1>10 DEF Pick
  <2> HIDE DEF x
  <2>2. g[s] = w[x] + g[r] /\ r \in SUBSET D
    BY <1>8, <2>1 DEF AnySummand
  <2>3. s \in SUBSET Ranks
    BY <1>1
  <2>4. A(1) \in SUBSET Ranks /\ A(2) \in SUBSET Ranks /\ A(3) \in SUBSET Ranks
    BY <1>2
  <2>5. /\ h[s] = Weigh[s \cap A(1)] + 2 * Weigh[s \cap A(2)] + 4 * Weigh[s \cap A(3)]
        /\ h[r] = W(1) + 2 * W(2) + 4 * W(3)
    BY <2>2
  <2>6. g[r] = h[r]
    BY <1>10 DEF x
  <2> HIDE DEF h, W, r
  <2> DEFINE L(t) == IF x \in A(t) THEN Discount[x] ELSE 0
  <2>7. ASSUME NEW t, A(t) \in SUBSET Ranks
        PROVE  L(t) \in Nat /\ W(t) \in Nat /\ Weigh[s \cap A(t)] = L(t) + W(t)
    <3>1. /\ Weigh[s \cap A(t)] \in Nat /\ W(t) \in Nat /\ Discount[x] \in Nat
          /\ Weigh[s \cap A(t)] = IF x \in A(t) THEN Discount[x] + W(t) ELSE W(t)
      BY <2>1, <2>3, <2>7, LayerGrows DEF W, r
    <3> QED  BY <3>1
  <2>8. w[x] = L(1) + 2 * L(2) + 4 * L(3)
    <3>1. Discount[x] \in Nat
      BY <1>1, <2>1
    <3>2. w[x] = (IF x \in A(1) THEN Discount[x] ELSE 0)
                   + (IF x \in A(2) THEN 2 * Discount[x] ELSE 0)
                   + (IF x \in A(3) THEN 4 * Discount[x] ELSE 0)
      BY <1>5, <2>1
    <3>3. /\ (IF x \in A(2) THEN 2 * Discount[x] ELSE 0) = 2 * L(2)
          /\ (IF x \in A(3) THEN 4 * Discount[x] ELSE 0) = 4 * L(3)
      BY <3>1
    <3> QED  BY <3>2, <3>3
  <2> HIDE DEF L
  <2>9. /\ L(1) \in Nat /\ W(1) \in Nat /\ Weigh[s \cap A(1)] = L(1) + W(1)
        /\ L(2) \in Nat /\ W(2) \in Nat /\ Weigh[s \cap A(2)] = L(2) + W(2)
        /\ L(3) \in Nat /\ W(3) \in Nat /\ Weigh[s \cap A(3)] = L(3) + W(3)
    BY <2>4, <2>7
  <2>10. h[s] = w[x] + h[r]
    <3>1. h[s] = (L(1) + W(1)) + 2 * (L(2) + W(2)) + 4 * (L(3) + W(3))
      BY <2>5, <2>9
    <3>2. (L(1) + W(1)) + 2 * (L(2) + W(2)) + 4 * (L(3) + W(3))
            = (L(1) + 2 * L(2) + 4 * L(3)) + (W(1) + 2 * W(2) + 4 * W(3))
      <4> DEFINE a == L(1)  b == L(2)  c == L(3)  i == W(1)  j == W(2)  k == W(3)
      <4>1. a \in Nat /\ b \in Nat /\ c \in Nat /\ i \in Nat /\ j \in Nat /\ k \in Nat
        BY <2>9
      <4> HIDE DEF a, b, c, i, j, k
      <4>2. (a + i) + 2 * (b + j) + 4 * (c + k) = (a + 2 * b + 4 * c) + (i + 2 * j + 4 * k)
        BY <4>1
      <4> QED  BY <4>2 DEF a, b, c, i, j, k
    <3> QED  BY <2>5, <2>8, <3>1, <3>2
  <2> QED  BY <2>2, <2>6, <2>10
<1>11. Determined(g, h, D)
  <2> HIDE DEF h
  <2> QED  BY <1>10 DEF Determined
<1>12. g[D] = h[D]
  <2>1. D \in SUBSET D
    OBVIOUS
  <2> HIDE DEF h
  <2> QED  BY <1>1, <1>9, <1>11, <2>1, FoldUnique
<1>13. D \cap A(1) = A(1) /\ D \cap A(2) = A(2) /\ D \cap A(3) = A(3)
  BY <1>2
<1>14. h[D] = Weigh[A(1)] + 2 * Weigh[A(2)] + 4 * Weigh[A(3)]
  BY <1>13
<1>15. \A t \in 1..3 : Weigh[A(t)] \in Nat
  BY <1>1, <1>2 DEF Adds
<1> HIDE DEF h
<1> QED  BY <1>2, <1>7, <1>8, <1>12, <1>14, <1>15 DEF A

LEMMA GradesAreCounted ==
  ASSUME NEW relevance, IsRelevance(relevance), NEW t
  PROVE  /\ IsFiniteSet(Graded(relevance, t)) /\ Cardinality(Graded(relevance, t)) \in Nat
         /\ Cardinality(Graded(relevance, t)) <= Cardinality(DOMAIN relevance)
         /\ Cardinality(DOMAIN relevance) \in Nat
<1>1. IsFiniteSet(DOMAIN relevance) /\ Graded(relevance, t) \in SUBSET DOMAIN relevance
  BY DEF IsRelevance, Graded
<1> QED  BY <1>1, FS_Subset, FS_CardinalityType

\* The best ranking has the grades of each layer in front.
LEMMA IdealIsInFront ==
  ASSUME NEW relevance, IsRelevance(relevance), NEW k \in Nat,
         NEW t \in Int
  PROVE  LET J == Cardinality(DOMAIN relevance)
             ideal == [n \in 1..Lesser(k, J) |-> Nth(relevance, J + 1 - n)]
         IN /\ Lesser(k, J) \in Nat /\ ideal \in [1..Lesser(k, J) -> 0..3]
            /\ AtLeast(ideal, t) = 1..Lesser(k, Cardinality(Graded(relevance, t)))
<1> DEFINE D == DOMAIN relevance
           J == Cardinality(D)
           m == Lesser(k, J)
           ideal == [n \in 1..m |-> Nth(relevance, J + 1 - n)]
           c == Cardinality(Graded(relevance, t))
<1>1. /\ IsFiniteSet(D) /\ J \in Nat /\ c \in Nat /\ c <= J
      /\ \A x \in D : relevance[x] \in 0..3 /\ relevance[x] \in Int
  BY GradesAreCounted DEF IsRelevance
<1>2. m \in Nat /\ m <= J /\ m <= k /\ (m = k \/ m = J)
  BY <1>1 DEF Lesser
<1>3. Cardinality(Below(relevance, t)) = J - c
  <2>1. Below(relevance, t) = D \ Graded(relevance, t) /\ D \cap Graded(relevance, t) = Graded(relevance, t)
    BY <1>1 DEF Below, Graded
  <2> QED  BY <1>1, <2>1, FS_Difference
<1>4. ASSUME NEW n \in 1..m
      PROVE  /\ ideal[n] \in 0..3 /\ ideal[n] = Nth(relevance, J + 1 - n)
             /\ ideal[n] >= t <=> n <= c
  <2> DEFINE i == J + 1 - n
  <2>1. i \in 1..J /\ n \in Int
    BY <1>1, <1>2
  <2>2. ideal[n] = Nth(relevance, i)
    OBVIOUS
  <2> HIDE DEF i, J, m, c
  <2>3. /\ \E x \in D : relevance[x] = Nth(relevance, i)
        /\ Nth(relevance, i) >= t <=> Cardinality(Below(relevance, t)) < i
    BY <1>1, <2>1, NthIsAPlace DEF J
  <2>4. Nth(relevance, i) \in 0..3
    BY <1>1, <2>3
  <2>5. J - c < i <=> n <= c
    BY <1>1, <2>1 DEF i
  <2> QED  BY <1>3, <2>2, <2>3, <2>4, <2>5 DEF i
<1>5. ideal \in [1..m -> 0..3] /\ DOMAIN ideal = 1..m
  BY <1>4
<1>6. AtLeast(ideal, t) = {n \in 1..m : n <= c}
  BY <1>4, <1>5 DEF AtLeast
<1> HIDE DEF J, m, c, ideal
<1>7. {n \in 1..m : n <= c} = 1..Lesser(k, c)
  BY <1>1, <1>2 DEF Lesser
<1> QED  BY <1>2, <1>5, <1>6, <1>7 DEF J, m, c, ideal

\* A ranking has no more of a layer than there is, and than it has places.
LEMMA RankingShowsSome ==
  ASSUME NEW relevance, IsRelevance(relevance), NEW top, NEW m \in Nat, DOMAIN top = 1..m,
         IsInjective(top), NEW t \in 1..3
  PROVE  /\ GradesOf(relevance, top) \in [1..m -> 0..3]
         /\ AtLeast(GradesOf(relevance, top), t) = Shown(relevance, top, t)
         /\ IsFiniteSet(Shown(relevance, top, t)) /\ Cardinality(Shown(relevance, top, t)) \in Nat
         /\ Cardinality(Shown(relevance, top, t)) <= m
         /\ Cardinality(Shown(relevance, top, t)) <= Cardinality(Graded(relevance, t))
<1> DEFINE grades == [n \in DOMAIN top |-> Grade(relevance, top[n])]
           shown == {n \in DOMAIN top : top[n] \in Graded(relevance, t)}
           found == {top[n] : n \in shown}
<1>1. \A x : Grade(relevance, x) \in 0..3 /\ (Grade(relevance, x) >= t <=> x \in Graded(relevance, t))
  <2> SUFFICES ASSUME NEW x
               PROVE  Grade(relevance, x) \in 0..3 /\ (Grade(relevance, x) >= t <=> x \in Graded(relevance, t))
    OBVIOUS
  <2>1. x \in DOMAIN relevance => relevance[x] \in 0..3
    BY DEF IsRelevance
  <2> QED  BY <2>1 DEF Grade, Graded
<1>2. grades \in [1..m -> 0..3] /\ AtLeast(grades, t) = shown
  BY <1>1 DEF AtLeast
<1>3. shown \in SUBSET (1..m)
  OBVIOUS
<1>4. IsFiniteSet(1..m) /\ Cardinality(1..m) = m
  BY FS_Interval
<1>5. IsFiniteSet(shown) /\ Cardinality(shown) \in Nat /\ Cardinality(shown) <= m
  <2> DEFINE P == 1..m
  <2>1. shown \in SUBSET P /\ IsFiniteSet(P) /\ Cardinality(P) = m
    BY <1>3, <1>4
  <2> HIDE DEF shown, P
  <2> QED  BY <2>1, FS_Subset, FS_CardinalityType
<1>6. \A a, b \in shown : top[a] = top[b] => a = b
  BY DEF IsInjective
<1>7. found \in SUBSET Graded(relevance, t)
  OBVIOUS
<1> HIDE DEF shown
<1>8. Cardinality(found) = Cardinality(shown)
  BY <1>5, <1>6, ImageCounts
<1> HIDE DEF found
<1>9. Cardinality(found) <= Cardinality(Graded(relevance, t))
  BY <1>7, GradesAreCounted, FS_Subset
<1> QED  BY <1>2, <1>5, <1>8, <1>9 DEF shown, Shown, GradesOf

\* A layer weighs no more than if its ranks were in front, and less than more of them.
LEMMA LayersWeighLess ==
  ASSUME NEW layer \in SUBSET Ranks, NEW c \in 0..Len(Discount), Cardinality(layer) <= c
  PROVE  /\ Weigh[layer] \in Nat /\ Weigh[1..c] \in Nat /\ Weigh[layer] <= Weigh[1..c]
         /\ Cardinality(layer) < c => Weigh[layer] < Weigh[1..c]
<1> DEFINE N == Len(Discount)
           s == Cardinality(layer)
<1>1. /\ N \in Nat /\ Ranks = 1..N /\ Discount \in [1..N -> Nat \ {0}]
      /\ Discount \in [1..N -> Nat]
      /\ \A i, j \in 1..N : i <= j => Discount[j] <= Discount[i]
      /\ Adds(Weigh, Discount, 1..N)
  BY DiscountsWeigh
<1>2. layer \in SUBSET (1..N)
  BY <1>1
<1> HIDE DEF N
<1>3. s \in 0..N /\ Weigh[layer] <= Weigh[1..s]
  BY <1>1, <1>2, FirstWeighMost
<1>4. s \in Nat /\ s <= c /\ c <= N /\ c \in Nat
  BY <1>1, <1>3 DEF N
<1> HIDE DEF s
<1>5. c \in s..N /\ s \in 0..N
  BY <1>1, <1>3, <1>4
<1>6. /\ Weigh[1..s] \in Nat /\ Weigh[1..c] \in Nat /\ Weigh[1..s] <= Weigh[1..c]
      /\ s < c => Weigh[1..s] < Weigh[1..c]
  BY <1>1, <1>5, MoreWeighMore
<1>7. Weigh[layer] \in Nat
  BY <1>1, <1>2 DEF Adds
<1> QED  BY <1>3, <1>6, <1>7 DEF s

\* What is scored: the ranks whose chunks are relevant, and their gains.
LEMMA ScoresAreBounded ==
  ASSUME NEW relevance, IsRelevance(relevance), NEW k \in DOMAIN Discount,
         NEW T, NEW ranking \in Seq(T), IsInjective(ranking)
  PROVE  ScoreBounded(relevance, ranking, k)
<1> DEFINE top == Top(ranking, k)
           m == Len(top)
           hits == {n \in DOMAIN top : top[n] \in Relevant(relevance)}
           grades == [n \in DOMAIN top |-> Grade(relevance, top[n])]
           J == Cardinality(DOMAIN relevance)
           ideal == [n \in 1..Lesser(k, J) |-> Nth(relevance, J + 1 - n)]
           c(t) == Cardinality(Graded(relevance, t))
           scores == Scores(relevance, ranking, k)
<1>1. /\ Len(Discount) \in Nat /\ k \in Nat /\ k <= Len(Discount) /\ k >= 1
      /\ DOMAIN Discount = Ranks /\ Ranks = 1..Len(Discount)
  BY DiscountsWeigh DEF Ranks
<1>2. /\ m \in Nat /\ m <= k /\ DOMAIN top = 1..m /\ IsInjective(top)
  <2>1. /\ top \in Seq(T) /\ m = (IF k < Len(ranking) THEN k ELSE Len(ranking))
        /\ IsInjective(top) /\ Len(ranking) \in Nat
    BY <1>1, TopCuts
  <2> QED  BY <1>1, <2>1
<1>3. J \in Nat
  BY GradesAreCounted
<1>4. Relevant(relevance) = Graded(relevance, 2)
  BY DEF Relevant, Graded
<1>5. /\ scores.hits = Cardinality(hits) /\ scores.relevant = c(2)
      /\ scores.first = IF hits = {} THEN 0 ELSE Least(hits)
      /\ scores.dcg = Dcg(grades) /\ scores.ideal = Dcg(ideal)
  BY <1>4 DEF Scores, Ideal, Lesser
<1> HIDE DEF top, scores, J
<1>6. ASSUME NEW t \in 1..3
      PROVE  /\ grades \in [1..m -> 0..3]
             /\ AtLeast(grades, t) = {n \in DOMAIN top : top[n] \in Graded(relevance, t)}
             /\ Cardinality(AtLeast(grades, t)) \in Nat /\ IsFiniteSet(AtLeast(grades, t))
             /\ Cardinality(AtLeast(grades, t)) <= m /\ Cardinality(AtLeast(grades, t)) <= c(t)
  <2> DEFINE shown == {n \in DOMAIN top : top[n] \in Graded(relevance, t)}
  <2> HIDE DEF m
  <2>1. /\ grades \in [1..m -> 0..3] /\ AtLeast(grades, t) = shown
        /\ IsFiniteSet(shown) /\ Cardinality(shown) \in Nat
        /\ Cardinality(shown) <= m /\ Cardinality(shown) <= c(t)
    <3>1. m \in Nat /\ DOMAIN top = 1..m /\ IsInjective(top)
      BY <1>2
    <3>2. /\ GradesOf(relevance, top) \in [1..m -> 0..3]
          /\ AtLeast(GradesOf(relevance, top), t) = Shown(relevance, top, t)
          /\ IsFiniteSet(Shown(relevance, top, t)) /\ Cardinality(Shown(relevance, top, t)) \in Nat
          /\ Cardinality(Shown(relevance, top, t)) <= m
          /\ Cardinality(Shown(relevance, top, t)) <= Cardinality(Graded(relevance, t))
      BY <3>1, RankingShowsSome
    <3>3. grades = GradesOf(relevance, top) /\ shown = Shown(relevance, top, t)
      BY DEF GradesOf, Shown
    <3> HIDE DEF grades, shown
    <3> QED  BY <3>2, <3>3
  <2> HIDE DEF grades, c
  <2> QED  BY <2>1
<1>7. ASSUME NEW t \in 1..3
      PROVE  /\ Lesser(k, J) \in Nat /\ ideal \in [1..Lesser(k, J) -> 0..3]
             /\ AtLeast(ideal, t) = 1..Lesser(k, c(t))
  <2>1. t \in Int
    OBVIOUS
  <2> QED  BY <1>1, <2>1, IdealIsInFront DEF J
<1>8. m \in 0..Len(Discount) /\ Lesser(k, J) \in 0..Len(Discount)
  BY <1>1, <1>2, <1>3 DEF Lesser
<1>9. ASSUME NEW t \in 1..3
      PROVE  /\ Lesser(k, c(t)) \in 0..Len(Discount)
             /\ Cardinality(AtLeast(grades, t)) <= Lesser(k, c(t))
  <2>1. c(t) \in Nat
    BY GradesAreCounted
  <2> QED  BY <1>1, <1>2, <1>6, <2>1 DEF Lesser
<1> HIDE DEF grades, ideal, c
<1>10. /\ \A t \in 1..3 : AtLeast(grades, t) \in SUBSET Ranks /\ Weigh[AtLeast(grades, t)] \in Nat
       /\ Dcg(grades) = Weigh[AtLeast(grades, 1)] + 2 * Weigh[AtLeast(grades, 2)]
                          + 4 * Weigh[AtLeast(grades, 3)]
  BY <1>6, <1>8, DcgIsLayered, SMTT(30)
<1>11. Dcg(ideal) = Weigh[AtLeast(ideal, 1)] + 2 * Weigh[AtLeast(ideal, 2)]
                      + 4 * Weigh[AtLeast(ideal, 3)]
  BY <1>7, <1>8, DcgIsLayered
<1>12. ASSUME NEW t \in 1..3
       PROVE  /\ Weigh[AtLeast(grades, t)] \in Nat /\ Weigh[AtLeast(ideal, t)] \in Nat
              /\ Weigh[AtLeast(grades, t)] <= Weigh[AtLeast(ideal, t)]
              /\ Cardinality(AtLeast(grades, t)) < Lesser(k, c(t)) =>
                   Weigh[AtLeast(grades, t)] < Weigh[AtLeast(ideal, t)]
  BY <1>7, <1>9, <1>10, LayersWeighLess
<1>13. hits = AtLeast(grades, 2)
  BY <1>4, <1>6
<1> HIDE DEF hits
<1>14. /\ scores.hits \in Nat /\ scores.relevant \in Nat
       /\ scores.hits <= scores.relevant /\ scores.hits <= k
  <2>1. c(2) \in Nat
    BY GradesAreCounted DEF c
  <2>2. 2 \in 1..3
    OBVIOUS
  <2> QED  BY <1>1, <1>2, <1>5, <1>6, <1>13, <2>1, <2>2
<1>15. scores.first = 0 <=> scores.hits = 0
  <2>1. IsFiniteSet(hits)
    BY <1>6, <1>13
  <2>2. Cardinality(hits) = 0 <=> hits = {}
    BY <2>1, FS_EmptySet
  <2>3. hits # {} => Least(hits) # 0
    <3>1. hits \subseteq 1..m
      BY <1>2 DEF hits
    <3>2. hits \subseteq Int
      BY <3>1
    <3>3. hits # {} => Least(hits) \in hits
      BY <2>1, <3>2, ExtremesAreChosen
    <3> QED  BY <3>1, <3>3
  <2> QED  BY <1>5, <2>2, <2>3
<1>16. scores.dcg <= scores.ideal
       /\ (scores.hits < scores.relevant /\ scores.hits < k => scores.dcg < scores.ideal)
  <2> DEFINE a == Weigh[AtLeast(grades, 1)]  x == Weigh[AtLeast(ideal, 1)]
             b == Weigh[AtLeast(grades, 2)]  y == Weigh[AtLeast(ideal, 2)]
             d == Weigh[AtLeast(grades, 3)]  z == Weigh[AtLeast(ideal, 3)]
             more == scores.hits < scores.relevant /\ scores.hits < k
  <2>1. /\ a \in Nat /\ b \in Nat /\ d \in Nat /\ x \in Nat /\ y \in Nat /\ z \in Nat
        /\ a <= x /\ b <= y /\ d <= z
    BY <1>12
  <2>2. more => b < y
    <3>1. more => Cardinality(AtLeast(grades, 2)) < Lesser(k, c(2))
      BY <1>1, <1>5, <1>13, <1>14 DEF Lesser
    <3> QED  BY <1>12, <3>1
  <2>3. scores.dcg = a + 2 * b + 4 * d /\ scores.ideal = x + 2 * y + 4 * z
    BY <1>5, <1>10, <1>11
  <2> HIDE DEF a, b, d, x, y, z, more
  <2>4. scores.dcg <= scores.ideal /\ (more => scores.dcg < scores.ideal)
    BY <2>1, <2>2, <2>3
  <2> QED  BY <2>4 DEF more
<1> QED  BY <1>14, <1>15, <1>16 DEF ScoreBounded, scores

\* Each runtime chunk stands for one labelled chunk.
LEMMA TwinsAreOne ==
  ASSUME NEW frozen, NEW runtime, IsFiniteSet(DOMAIN frozen), IsFiniteSet(DOMAIN runtime),
         ChunksRemap(frozen, runtime)
  PROVE  LET source == RuntimeToSource(frozen, runtime) IN
         /\ DOMAIN source = DOMAIN runtime
         /\ \A c \in DOMAIN runtime :
              /\ source[c] \in DOMAIN frozen /\ frozen[source[c]] = runtime[c]
              /\ source[c] = CHOOSE s \in DOMAIN frozen : frozen[s] = runtime[c]
         /\ \A c, d \in DOMAIN runtime : source[c] = source[d] => c = d
<1> DEFINE source == RuntimeToSource(frozen, runtime)
           F == DOMAIN frozen
           R == DOMAIN runtime
           T(s) == Twins(frozen[s], runtime)
           twin == [s \in F |-> CHOOSE c : T(s) = {c}]
<1>1. /\ \A s \in F : Cardinality(T(s)) = 1
      /\ \A s, t \in F : T(s) = T(t) => s = t
      /\ Cardinality(R) = Cardinality(F)
  BY DEF ChunksRemap
<1>2. \A s \in F : \A c \in R : c \in T(s) <=> runtime[c] = frozen[s]
  BY DEF Twins
<1>3. \A s \in F : T(s) \in SUBSET R
  BY DEF Twins
<1> HIDE DEF T
<1>4. \A s \in F : \E c : T(s) = {c}
  <2> SUFFICES ASSUME NEW s \in F PROVE \E c : T(s) = {c}
    OBVIOUS
  <2>1. IsFiniteSet(T(s))
    BY <1>3, FS_Subset
  <2> QED  BY <1>1, <2>1, FS_Singleton
<1>5. \A s \in F : T(s) = {twin[s]} /\ twin[s] \in R
  BY <1>3, <1>4
<1>6. twin \in Injection(F, R)
  <2>1. twin \in [F -> R]
    BY <1>5
  <2>2. \A s, t \in F : twin[s] = twin[t] => s = t
    BY <1>1, <1>5
  <2> QED  BY <2>1, <2>2 DEF Injection, IsInjective
<1>7. twin \in Surjection(F, R)
  BY <1>1, <1>6, FS_Injection
<1>8. \A c \in R : \E s \in F : c \in T(s)
  BY <1>5, <1>7 DEF Surjection
<1>9. source = [c \in UNION {T(s) : s \in F} |-> CHOOSE s \in F : c \in T(s)]
  BY DEF RuntimeToSource, T
<1>10. UNION {T(s) : s \in F} = R
  BY <1>3, <1>8
<1> HIDE DEF source, twin
<1>11. ASSUME NEW c \in R
       PROVE  source[c] \in F /\ c \in T(source[c]) /\ frozen[source[c]] = runtime[c]
  <2>1. source[c] = CHOOSE s \in F : c \in T(s)
    BY <1>9, <1>10
  <2>2. source[c] \in F /\ c \in T(source[c])
    BY <1>8, <2>1
  <2> QED  BY <1>2, <2>2
<1>12. ASSUME NEW c \in R
       PROVE  source[c] = CHOOSE s \in F : frozen[s] = runtime[c]
  <2>1. ASSUME NEW s \in F, frozen[s] = runtime[c] PROVE s = source[c]
    <3>1. frozen[s] = frozen[source[c]]
      BY <1>11, <2>1
    <3>2. T(s) = T(source[c])
      BY <3>1 DEF T
    <3> QED  BY <1>1, <1>11, <3>2
  <2> QED  BY <1>11, <2>1
<1>13. ASSUME NEW c \in R, NEW d \in R, source[c] = source[d] PROVE c = d
  BY <1>5, <1>11, <1>13
<1>14. DOMAIN source = R
  BY <1>9, <1>10
<1> QED  BY <1>11, <1>12, <1>13, <1>14 DEF source

\* The gate sees what the metrics would see.
LEMMA GateScoresAgree ==
  ASSUME NEW r, IsRanking(r)
  PROVE  GateScoreAgrees(r.relevance, r.documents, r.frozen, r.runtime, r.ranking, r.k)
<1> DEFINE relevance == r.relevance
           documentOf == r.documents
           frozen == r.frozen
           runtime == r.runtime
           ranking == r.ranking
           k == r.k
           source == RuntimeToSource(frozen, runtime)
           labelled == [n \in DOMAIN ranking |->
                          CHOOSE s \in DOMAIN frozen : frozen[s] = runtime[ranking[n]]]
           gate == GateScore(relevance, source, ranking, k)
           scores == Scores(relevance, labelled, k)
           strict == StrictTwoSided(relevance, documentOf, source, ranking)
           top == Top(ranking, k)
           ids == [n \in DOMAIN top |-> SourceOf(source, top[n])]
           rel == Relevant(relevance)
           sides == {documentOf[c] : c \in rel}
           front == Top(ranking, 3)
           shown == {SourceOf(source, c) : c \in ToSet(front)} \cap rel
           hits == {n \in DOMAIN ids : ids[n] \in rel}
           found == {ids[n] : n \in hits}
<1>1. /\ IsFiniteSet(rel) /\ k \in Nat /\ 3 \in Nat
      /\ IsFiniteSet(DOMAIN frozen) /\ IsFiniteSet(DOMAIN runtime)
      /\ ranking \in Seq(DOMAIN runtime) /\ IsInjective(ranking)
  <2>1. rel \in SUBSET DOMAIN relevance /\ IsFiniteSet(DOMAIN relevance)
    BY DEF IsRanking, IsRelevance, Relevant
  <2>2. k \in DOMAIN Discount
    BY DEF IsRanking
  <2>3. k \in Nat
    BY <2>2, DiscountsWeigh DEF Ranks
  <2> QED  BY <2>1, <2>3, FS_Subset DEF IsRanking
<1> SUFFICES ASSUME ChunksRemap(frozen, runtime)
             PROVE  /\ \A field \in DOMAIN gate : gate[field] = scores[field]
                    /\ strict /\ k >= 3 => gate.hits >= 2
                    /\ gate.hits = gate.relevant /\ k <= 3 =>
                         (strict <=> Cardinality(sides) = 2)
  BY DEF GateScoreAgrees
<1>2. /\ DOMAIN source = DOMAIN runtime
      /\ \A c \in DOMAIN runtime :
              /\ source[c] \in DOMAIN frozen
              /\ source[c] = CHOOSE s \in DOMAIN frozen : frozen[s] = runtime[c]
      /\ \A c, d \in DOMAIN runtime : source[c] = source[d] => c = d
  BY <1>1, TwinsAreOne
<1>3. /\ gate.hits = Cardinality(hits) /\ gate.relevant = Cardinality(rel)
      /\ gate.dcg = Dcg([n \in DOMAIN ids |-> Grade(relevance, ids[n])])
      /\ gate.ideal = Ideal(relevance, k)
      /\ DOMAIN gate = {"hits", "relevant", "dcg", "ideal"}
  BY DEF GateScore
<1>4. strict <=> Cardinality(sides) = 2 /\ {documentOf[c] : c \in shown} = sides
  BY DEF StrictTwoSided
<1>5. /\ scores.hits = Cardinality({n \in DOMAIN Top(labelled, k) : Top(labelled, k)[n] \in rel})
      /\ scores.relevant = Cardinality(rel)
      /\ scores.dcg = Dcg([n \in DOMAIN Top(labelled, k) |-> Grade(relevance, Top(labelled, k)[n])])
      /\ scores.ideal = Ideal(relevance, k)
  BY DEF Scores
<1> HIDE DEF gate, scores, strict, source
<1> DEFINE L == Len(ranking)
           m == IF k < L THEN k ELSE L
           f == IF 3 < L THEN 3 ELSE L
<1>6. /\ L \in Nat /\ DOMAIN ranking = 1..L
      /\ top \in Seq(DOMAIN runtime) /\ DOMAIN top = 1..m /\ m \in Nat
      /\ \A n \in 1..m : n \in 1..L /\ top[n] = ranking[n]
  BY <1>1, TopCuts
<1>7. /\ front \in Seq(DOMAIN runtime) /\ DOMAIN front = 1..f /\ f \in Nat
      /\ \A n \in 1..f : n \in 1..L /\ front[n] = ranking[n]
  BY <1>1, TopCuts
<1>8. /\ labelled \in Seq(DOMAIN frozen) /\ Len(labelled) = L
      /\ \A n \in 1..L : labelled[n] = source[ranking[n]] /\ ranking[n] \in DOMAIN runtime
  <2>1. \A n \in 1..L : ranking[n] \in DOMAIN runtime
    BY <1>1, <1>6
  <2>2. \A n \in 1..L : labelled[n] = source[ranking[n]] /\ labelled[n] \in DOMAIN frozen
    BY <1>2, <1>6, <2>1
  <2>3. labelled = [n \in 1..L |-> labelled[n]]
    BY <1>6
  <2> HIDE DEF labelled, L
  <2>4. labelled \in [1..L -> DOMAIN frozen]
    BY <2>2, <2>3
  <2> QED  BY <1>6, <2>1, <2>2, <2>4
<1> HIDE DEF labelled, top, front
<1>9. /\ Top(labelled, k) \in Seq(DOMAIN frozen) /\ DOMAIN Top(labelled, k) = 1..m
      /\ \A n \in 1..m : Top(labelled, k)[n] = labelled[n]
  BY <1>1, <1>6, <1>8, TopCuts
<1> HIDE DEF m, f, L
<1>10. /\ DOMAIN ids = 1..m
       /\ \A n \in 1..m : ids[n] = source[ranking[n]] /\ ids[n] = labelled[n]
  BY <1>2, <1>6, <1>8 DEF SourceOf
<1>11. ids = Top(labelled, k)
  <2> DEFINE other == Top(labelled, k)
  <2>1. other = [n \in 1..m |-> other[n]]
    <3>1. other \in Seq(DOMAIN frozen) /\ DOMAIN other = 1..m
      BY <1>9
    <3> HIDE DEF other, frozen
    <3>2. other = [n \in DOMAIN other |-> other[n]]
      BY <3>1
    <3> QED  BY <3>1, <3>2
  <2>2. ids = [n \in 1..m |-> ids[n]]
    BY <1>10
  <2>3. \A n \in 1..m : ids[n] = other[n]
    BY <1>9, <1>10
  <2> HIDE DEF ids, other
  <2> QED  BY <2>1, <2>2, <2>3 DEF other
<1>12. \A field \in DOMAIN gate : gate[field] = scores[field]
  <2> HIDE DEF ids
  <2>1. gate.hits = scores.hits /\ gate.relevant = scores.relevant
        /\ gate.dcg = scores.dcg /\ gate.ideal = scores.ideal
    BY <1>3, <1>5, <1>11
  <2> QED  BY <1>3, <2>1
<1>13. \A x : x \in {SourceOf(source, c) : c \in ToSet(front)} <=>
                \E n \in 1..f : x = source[ranking[n]]
  BY <1>2, <1>7, <1>8 DEF SourceOf, ToSet
<1>14. /\ IsFiniteSet(hits) /\ IsFiniteSet(found) /\ Cardinality(hits) \in Nat
       /\ Cardinality(found) = Cardinality(hits)
  <2>1. hits \in SUBSET (1..m) /\ IsFiniteSet(1..m)
    BY <1>6, <1>10, FS_Interval
  <2>2. IsFiniteSet(hits)
    <3> DEFINE P == 1..m
    <3>1. hits \in SUBSET P /\ IsFiniteSet(P)
      BY <2>1
    <3> HIDE DEF hits, P
    <3> QED  BY <3>1, FS_Subset
  <2>3. \A i, j \in hits : ids[i] = ids[j] => i = j
    <3> SUFFICES ASSUME NEW i \in hits, NEW j \in hits, ids[i] = ids[j] PROVE i = j
      OBVIOUS
    <3>1. i \in 1..L /\ j \in 1..L /\ i \in 1..m /\ j \in 1..m
      BY <1>6, <2>1
    <3>2. source[ranking[i]] = source[ranking[j]]
      BY <1>10, <3>1
    <3>3. ranking[i] = ranking[j]
      BY <1>2, <1>8, <3>1, <3>2
    <3> QED  BY <1>1, <1>6, <3>1, <3>3 DEF IsInjective
  <2> HIDE DEF hits, ids
  <2> QED  BY <2>2, <2>3, ImageCounts, FS_CardinalityType
<1>15. found \in SUBSET rel /\ \A x \in found : \E n \in 1..m : x = source[ranking[n]]
  <2> SUFFICES ASSUME NEW x \in found
               PROVE  x \in rel /\ \E n \in 1..m : x = source[ranking[n]]
    BY Zenon
  <2>1. PICK n \in hits : x = ids[n]
    OBVIOUS
  <2>2. ids[n] \in rel /\ n \in 1..m
    BY <1>10
  <2> QED  BY <1>10, <2>1, <2>2
<1>16. ASSUME NEW n \in 1..m, source[ranking[n]] \in rel
       PROVE  source[ranking[n]] \in found
  <2>1. ids[n] = source[ranking[n]] /\ n \in hits
    BY <1>10, <1>16
  <2> QED  BY <2>1
<1> HIDE DEF hits, ids, found
<1>17. ASSUME strict, k >= 3 PROVE gate.hits >= 2
  <2>1. \A n \in 1..f : n \in 1..m
    BY <1>1, <1>6, <1>17 DEF f, m
  <2>2. shown \in SUBSET found
    BY <1>13, <1>16, <2>1
  <2>3. IsFiniteSet(shown) /\ Cardinality(shown) <= Cardinality(found)
    BY <1>14, <2>2, FS_Subset
  <2>4. Cardinality({documentOf[c] : c \in shown}) <= Cardinality(shown)
    <3> HIDE DEF shown, documentOf
    <3> QED  BY <2>3, ImageCounts
  <2>5. Cardinality({documentOf[c] : c \in shown}) = 2
    BY <1>4, <1>17
  <2>6. Cardinality(shown) \in Nat
    BY <2>3, FS_CardinalityType
  <2> HIDE DEF shown
  <2>7. 2 <= Cardinality(hits)
    BY <1>14, <2>3, <2>4, <2>5, <2>6
  <2> QED  BY <1>3, <1>14, <2>7
<1>18. ASSUME gate.hits = gate.relevant, k <= 3
       PROVE  strict <=> Cardinality(sides) = 2
  <2>1. Cardinality(found) = Cardinality(rel)
    BY <1>3, <1>14, <1>18
  <2>2. found = rel
    <3> HIDE DEF rel
    <3> QED  BY <1>1, <1>15, <2>1, FS_Subset
  <2>3. \A n \in 1..m : n \in 1..f
    BY <1>1, <1>6, <1>18 DEF f, m
  <2>4. shown = rel
    <3>1. ASSUME NEW x \in rel PROVE x \in shown
      <4>1. PICK n \in 1..m : x = source[ranking[n]]
        BY <1>15, <2>2
      <4>2. n \in 1..f
        BY <2>3
      <4> QED  BY <1>13, <4>1, <4>2
    <3> QED  BY <3>1
  <2> HIDE DEF shown
  <2> QED  BY <1>4, <2>4
<1> QED  BY <1>12, <1>17, <1>18

-----------------------------------------------------------------------------
(* The report of a run. *)

LEMMA QuotientIsBetween ==
  ASSUME NEW x \in Nat, NEW y \in Nat \ {0}
  PROVE  /\ x \div y \in Nat /\ (x \div y) * y <= x /\ x < (x \div y) * y + y
         /\ \A q \in Nat : q * y <= x /\ x < q * y + y => x \div y = q
<1>1. x \div y \in Nat /\ (x \div y) * y <= x /\ x < (x \div y) * y + y
  BY Z3
<1>2. ASSUME NEW q \in Nat, q * y <= x, x < q * y + y PROVE x \div y = q
  <2> DEFINE r == x \div y
  <2>1. r \in Nat /\ r * y <= x /\ x < r * y + y
    BY <1>1
  <2> HIDE DEF r
  <2>2. ~ (r < q)
    <3>1. r < q => (r + 1) * y <= q * y /\ (r + 1) * y = r * y + y
      BY <2>1, Z3
    <3>2. r * y \in Nat /\ q * y \in Nat
      BY <2>1
    <3> QED  BY <1>2, <2>1, <3>1, <3>2
  <2>3. ~ (q < r)
    <3>1. q < r => (q + 1) * y <= r * y /\ (q + 1) * y = q * y + y
      BY <2>1, Z3
    <3>2. r * y \in Nat /\ q * y \in Nat
      BY <2>1
    <3> QED  BY <1>2, <2>1, <3>1, <3>2
  <2> QED  BY <2>1, <2>2, <2>3 DEF r
<1> QED  BY <1>1, <1>2

LEMMA MillionIsANumber == Million \in Nat
BY SMT DEF Million

\* A rate tells nothing and everything from the rest.
LEMMA RatesAreShares ==
  ASSUME NEW whole, IsFiniteSet(whole), Cardinality(whole) < Million, NEW part \in SUBSET whole
  PROVE  /\ Rate(part, whole) \in {Undefined, 0} <=> part = {}
         /\ Rate(part, whole) \in {Undefined, Million} <=> part = whole
         /\ Rate(part, whole) = Million <=> whole # {} /\ part = whole
         /\ whole # {} /\ part = {} => Rate(part, whole) = 0
<1> DEFINE a == Cardinality(part)
           b == Cardinality(whole)
           x == 2 * Million * a + b
           q == x \div (2 * b)
<1>1. IsFiniteSet(part) /\ a \in Nat /\ b \in Nat /\ a <= b /\ b < Million /\ (a = b => part = whole)
  BY FS_Subset, FS_CardinalityType
<1>2. (a = 0 <=> part = {}) /\ (b = 0 <=> whole = {})
  BY <1>1, FS_EmptySet
<1>3. CASE whole = {}
  <2>1. part = {} /\ Rate(part, whole) = Undefined
    BY <1>3 DEF Rate
  <2>2. Undefined # Million
    BY SMT DEF Undefined, Million
  <2> QED  BY <1>3, <2>1, <2>2
<1>4. CASE whole # {}
  <2>1. Rate(part, whole) = q
    BY <1>4 DEF Rate
  <2> HIDE DEF a, b
  <2>2. b >= 1 /\ 2 * b \in Nat \ {0} /\ x \in Nat
    BY <1>1, <1>2, <1>4, SMT DEF Million
  <2> DEFINE y == 2 * b
  <2> HIDE DEF x
  <2>3. /\ q \in Nat /\ \A p \in Nat : p * y <= x /\ x < p * y + y => q = p
    BY <2>2, QuotientIsBetween
  <2>4. q * y <= x /\ x < q * y + y
    BY <2>2, QuotientIsBetween
  <2> HIDE DEF q
  <2>5. a = 0 => q = 0
    <3>1. a = 0 => 0 * y <= x /\ x < 0 * y + y
      BY <1>1, <2>2, SMT DEF x, Million
    <3> QED  BY <2>3, <3>1
  <2>6. a # 0 => q # 0
    <3>1. a # 0 => x >= 2 * Million + b
      BY <1>1, <2>2, SMT DEF x, Million
    <3>2. a # 0 => x >= y
      BY <1>1, <2>2, <3>1, SMT DEF Million
    <3>3. q = 0 => x < y
      BY <2>2, <2>4
    <3> QED  BY <2>2, <3>2, <3>3
  <2>7. a = b => q = Million
    <3>1. a = b => Million * y <= x /\ x < Million * y + y
      BY <1>1, <2>2, SMT DEF x, Million
    <3>2. Million \in Nat
      BY SMT DEF Million
    <3> QED  BY <2>3, <3>1, <3>2
  <2>8. a # b => q # Million
    <3>1. a # b => x < Million * y
      BY <1>1, <2>2, SMT DEF x, Million
    <3>2. Million * y \in Nat
      BY <2>2, SMT DEF Million
    <3>3. q = Million => Million * y <= x
      BY <2>4
    <3> QED  BY <2>2, <3>1, <3>2, <3>3
  <2>9. q # Undefined
    BY <2>3, SMT DEF Undefined
  <2> HIDE DEF y
  <2>10. (a = 0 <=> q = 0) /\ (a = b <=> q = Million)
    BY <2>5, <2>6, <2>7, <2>8
  <2>11. (part = {} <=> q = 0) /\ (part = whole <=> q = Million)
    BY <1>1, <1>2, <2>10 DEF a, b
  <2> QED  BY <1>4, <2>1, <2>9, <2>11
<1> QED  BY <1>3, <1>4

\* Where a percentile lies.
Position(values, percent) == (Cardinality(DOMAIN values) - 1) * percent
LowerPlace(values, percent) == Position(values, percent) \div 100 + 1
UpperPlace(values, percent) ==
  IF Position(values, percent) % 100 = 0 THEN LowerPlace(values, percent)
  ELSE LowerPlace(values, percent) + 1

LEMMA PercentileIsBetween ==
  ASSUME NEW values, IsFiniteSet(DOMAIN values), DOMAIN values # {},
         \A x \in DOMAIN values : values[x] \in Int, NEW percent \in 0..100
  PROVE  LET lower == LowerPlace(values, percent)
             upper == UpperPlace(values, percent)
             rest == Position(values, percent) % 100
             places == 1..Cardinality(DOMAIN values)
         IN /\ Position(values, percent) \in Nat /\ rest \in 0..99
            /\ Position(values, percent) = 100 * (lower - 1) + rest
            /\ lower \in places /\ upper \in places
            /\ Nth(values, lower) \in Int /\ Nth(values, upper) \in Int
            /\ Nth(values, lower) <= Nth(values, upper)
            /\ Percentile(values, percent) =
                 100 * Nth(values, lower) + (Nth(values, upper) - Nth(values, lower)) * rest
            /\ Percentile(values, percent) \in Int
            /\ 100 * Nth(values, lower) <= Percentile(values, percent)
            /\ Percentile(values, percent) <= 100 * Nth(values, upper)
<1> DEFINE lower == LowerPlace(values, percent)
           upper == UpperPlace(values, percent)
           J == Cardinality(DOMAIN values)
           position == Position(values, percent)
           rest == position % 100
           low == Nth(values, lower)
           high == Nth(values, upper)
<1>1. J \in Nat /\ J >= 1
  <2>1. J \in Nat /\ J # 0
    BY FS_CardinalityType, FS_EmptySet
  <2> QED  BY <2>1
<1>2. position \in Nat /\ position <= 100 * (J - 1)
  <2> DEFINE j == J - 1
  <2>1. j \in Nat /\ percent \in Nat /\ percent <= 100
    BY <1>1
  <2>2. position = j * percent
    BY DEF Position
  <2> HIDE DEF j
  <2>3. j * percent \in Nat /\ j * percent <= 100 * j
    BY <2>1, Z3
  <2> QED  BY <2>2, <2>3 DEF j
<1>3. lower = position \div 100 + 1 /\ upper = IF rest = 0 THEN lower ELSE lower + 1
  BY DEF LowerPlace, UpperPlace
<1> HIDE DEF position, lower, upper, J
<1>4. /\ rest \in 0..99 /\ position = 100 * (lower - 1) + rest /\ lower \in Nat /\ lower >= 1
  BY <1>2, <1>3
<1> HIDE DEF rest
<1>5. lower \in 1..J /\ upper \in 1..J /\ lower <= upper
  BY <1>1, <1>2, <1>3, <1>4
<1>6. low \in Int /\ high \in Int /\ low <= high
  BY <1>5, NthIsAPlace, NthIsMonotone DEF J
<1>7. Percentile(values, percent) = 100 * low + (high - low) * rest
  BY <1>3 DEF Percentile, position, rest, Position
<1>8. (high - low) * rest \in Nat /\ (high - low) * rest <= 100 * (high - low)
  <2> DEFINE d == high - low
  <2>1. d \in Nat /\ rest \in Nat /\ rest <= 100
    BY <1>4, <1>6
  <2> HIDE DEF d
  <2>2. d * rest \in Nat /\ d * rest <= 100 * d
    BY <2>1, Z3
  <2> QED  BY <2>2 DEF d
<1> HIDE DEF low, high
<1>9. /\ Percentile(values, percent) \in Int
      /\ 100 * low <= Percentile(values, percent) /\ Percentile(values, percent) <= 100 * high
  <2> DEFINE e == (high - low) * rest
  <2>1. e \in Nat /\ e <= 100 * (high - low)
    BY <1>8
  <2>2. Percentile(values, percent) = 100 * low + e
    BY <1>7
  <2> HIDE DEF e
  <2> QED  BY <1>6, <2>1, <2>2
<1> QED  BY <1>2, <1>4, <1>5, <1>6, <1>7, <1>9 DEF low, high, lower, upper, position, rest, J

LEMMA PercentilesAreOrdered ==
  ASSUME NEW values, IsFiniteSet(DOMAIN values), DOMAIN values # {},
         \A x \in DOMAIN values : values[x] \in Int,
         NEW p \in 0..100, NEW q \in 0..100, p <= q
  PROVE  Percentile(values, p) <= Percentile(values, q)
<1> DEFINE J == Cardinality(DOMAIN values)
           a == LowerPlace(values, p)   b == LowerPlace(values, q)
           c == UpperPlace(values, p)   d == UpperPlace(values, q)
           i == Position(values, p) % 100
           j == Position(values, q) % 100
<1>1. /\ Position(values, p) \in Nat /\ i \in 0..99 /\ Position(values, p) = 100 * (a - 1) + i
      /\ a \in 1..J /\ c \in 1..J
      /\ Nth(values, a) \in Int /\ Nth(values, c) \in Int /\ Nth(values, a) <= Nth(values, c)
      /\ Percentile(values, p) = 100 * Nth(values, a) + (Nth(values, c) - Nth(values, a)) * i
      /\ Percentile(values, p) \in Int
      /\ 100 * Nth(values, a) <= Percentile(values, p)
      /\ Percentile(values, p) <= 100 * Nth(values, c)
  BY PercentileIsBetween, ZenonT(60)
<1>2. /\ Position(values, q) \in Nat /\ j \in 0..99 /\ Position(values, q) = 100 * (b - 1) + j
      /\ b \in 1..J /\ d \in 1..J
      /\ Nth(values, b) \in Int /\ Nth(values, d) \in Int /\ Nth(values, b) <= Nth(values, d)
      /\ Percentile(values, q) = 100 * Nth(values, b) + (Nth(values, d) - Nth(values, b)) * j
      /\ Percentile(values, q) \in Int
      /\ 100 * Nth(values, b) <= Percentile(values, q)
      /\ Percentile(values, q) <= 100 * Nth(values, d)
  BY PercentileIsBetween, ZenonT(60)
<1>3. J \in Nat /\ J # 0
  BY FS_CardinalityType, FS_EmptySet
<1>4. Position(values, p) <= Position(values, q)
  <2> DEFINE m == J - 1
  <2>1. m \in Nat /\ p \in Nat /\ q \in Nat
    <3> HIDE DEF J
    <3> QED  BY <1>3
  <2>2. Position(values, p) = m * p /\ Position(values, q) = m * q
    BY DEF Position
  <2> HIDE DEF m
  <2>3. m * p <= m * q
    BY <2>1, Z3
  <2> QED  BY <2>2, <2>3
<1>5. (c = IF i = 0 THEN a ELSE a + 1) /\ (d = IF j = 0 THEN b ELSE b + 1)
  BY DEF UpperPlace
<1> HIDE DEF a, b, c, d, i, j
<1>6. a \in Int /\ b \in Int /\ c \in Int /\ d \in Int /\ i \in Int /\ j \in Int
  BY <1>1, <1>2, <1>3
<1>7. a <= b /\ (a = b => i <= j)
  BY <1>1, <1>2, <1>4, <1>6
<1>8. CASE a = b
  <2>1. CASE i = 0
    <3>1. Percentile(values, p) = 100 * Nth(values, a)
      BY <1>1, <2>1
    <3> QED  BY <1>2, <1>8, <3>1
  <2>2. CASE i # 0
    <3> DEFINE e == Nth(values, c) - Nth(values, a)
    <3>1. j # 0 /\ c = d
      BY <1>1, <1>5, <1>6, <1>7, <1>8, <2>2
    <3>2. e \in Nat /\ i \in Nat /\ j \in Nat /\ i <= j
      <4>1. e \in Nat
        BY <1>1
      <4>2. i \in Nat /\ j \in Nat
        BY <1>1, <1>2
      <4> QED  BY <1>7, <1>8, <4>1, <4>2
    <3>3. /\ Percentile(values, p) = 100 * Nth(values, a) + e * i
          /\ Percentile(values, q) = 100 * Nth(values, a) + e * j
      BY <1>1, <1>2, <1>8, <3>1
    <3> HIDE DEF e
    <3>4. e * i <= e * j /\ e * i \in Nat /\ e * j \in Nat
      BY <3>2, Z3
    <3> QED  BY <1>1, <3>3, <3>4
  <2> QED  BY <2>1, <2>2
<1>9. CASE a # b
  <2>1. c <= b
    BY <1>5, <1>6, <1>7, <1>9
  <2>2. Nth(values, c) <= Nth(values, b)
    BY <1>1, <1>2, <2>1, NthIsMonotone
  <2> QED  BY <1>1, <1>2, <2>2
<1> QED  BY <1>8, <1>9

\* What a question can be found of.
LEMMA RecallIsAShare ==
  ASSUME NEW item, NEW result, IsRelevance(item.relevance), Relevant(item.relevance) # {},
         NEW T, result.candidates \in Seq(T), IsInjective(result.candidates),
         NEW k \in Nat
  PROVE  /\ Recall(item, result, k) \in 0..Million
         /\ Recall(item, result, k) = Million => result.candidates # <<>>
<1> DEFINE relevance == item.relevance
           top == Top(result.candidates, k)
           m == Len(top)
           hits == {n \in DOMAIN top : top[n] \in Relevant(relevance)}
           h == Cardinality(hits)
           c == Cardinality(Relevant(relevance))
           x == Million * h
<1>1. /\ top \in Seq(T) /\ m \in Nat /\ DOMAIN top = 1..m /\ IsInjective(top)
      /\ m <= Len(result.candidates) /\ Len(result.candidates) \in Nat
  <2>1. /\ top \in Seq(T) /\ IsInjective(top) /\ Len(result.candidates) \in Nat
        /\ m = IF k < Len(result.candidates) THEN k ELSE Len(result.candidates)
    BY TopCuts
  <2> QED  BY <2>1
<1>2. Relevant(relevance) = Graded(relevance, 2) /\ hits = Shown(relevance, top, 2)
  BY DEF Relevant, Graded, Shown
<1> HIDE DEF top, m
<1>3. IsFiniteSet(hits) /\ h \in Nat /\ h <= c
  <2>1. 2 \in 1..3
    OBVIOUS
  <2> HIDE DEF hits
  <2>2. /\ IsFiniteSet(Shown(relevance, top, 2)) /\ Cardinality(Shown(relevance, top, 2)) \in Nat
        /\ Cardinality(Shown(relevance, top, 2)) <= Cardinality(Graded(relevance, 2))
    BY <1>1, <2>1, RankingShowsSome
  <2> QED  BY <1>2, <2>2
<1>4. c \in Nat /\ c # 0
  <2>1. IsFiniteSet(Relevant(relevance)) /\ c \in Nat
    BY <1>2, GradesAreCounted
  <2> QED  BY <2>1, FS_EmptySet
<1>5. Recall(item, result, k) = x \div c
  BY DEF Recall, Scores, top
<1>6. result.candidates = <<>> => h = 0
  <2>1. result.candidates = <<>> => m = 0
    BY <1>1
  <2>2. m = 0 => hits = {}
    BY <1>1
  <2> HIDE DEF hits
  <2> QED  BY <2>1, <2>2, FS_EmptySet
<1> HIDE DEF hits, h, c
<1>7. Million \in Nat /\ Million # 0 /\ x \in Nat /\ c \in Nat \ {0}
  BY <1>3, <1>4, SMT DEF Million
<1> DEFINE q == x \div c
<1>8. q \in Nat /\ q * c <= x
  <2> HIDE DEF x
  <2> QED  BY <1>7, QuotientIsBetween
<1>9. q <= Million
  <2>1. x <= Million * c
    BY <1>3, <1>7, SMT DEF Million
  <2>2. q * c \in Nat /\ Million * c \in Nat
    BY <1>7, <1>8
  <2>3. q * c <= Million * c
    BY <1>7, <1>8, <2>1, <2>2
  <2> HIDE DEF q
  <2>4. q > Million => (Million + 1) * c <= q * c /\ (Million + 1) * c = Million * c + c
    BY <1>7, <1>8, Z3
  <2> QED  BY <1>7, <1>8, <2>2, <2>3, <2>4
<1>10. h = 0 => q = 0
  <2>1. h = 0 => x = 0
    BY <1>7
  <2>2. \A p \in Nat : p * c <= 0 /\ 0 < p * c + c => 0 \div c = p
    BY <1>7, QuotientIsBetween
  <2>3. 0 * c <= 0 /\ 0 < 0 * c + c
    BY <1>7
  <2>4. 0 \div c = 0
    BY <2>2, <2>3
  <2> QED  BY <2>1, <2>4
<1> HIDE DEF q
<1> QED  BY <1>5, <1>6, <1>7, <1>8, <1>9, <1>10 DEF q

\* A percentile lies between two of the values.
LEMMA PercentileIsSpanned ==
  ASSUME NEW values, IsFiniteSet(DOMAIN values), DOMAIN values # {},
         \A x \in DOMAIN values : values[x] \in Int, NEW percent \in 0..100
  PROVE  \E x, y \in DOMAIN values : /\ 100 * values[x] <= Percentile(values, percent)
                                     /\ Percentile(values, percent) <= 100 * values[y]
<1> DEFINE lower == LowerPlace(values, percent)
           upper == UpperPlace(values, percent)
<1>1. /\ lower \in 1..Cardinality(DOMAIN values) /\ upper \in 1..Cardinality(DOMAIN values)
      /\ 100 * Nth(values, lower) <= Percentile(values, percent)
      /\ Percentile(values, percent) <= 100 * Nth(values, upper)
  BY PercentileIsBetween
<1> HIDE DEF lower, upper
<1>2. PICK x \in DOMAIN values : values[x] = Nth(values, lower)
  BY <1>1, NthIsAPlace
<1>3. PICK y \in DOMAIN values : values[y] = Nth(values, upper)
  BY <1>1, NthIsAPlace
<1> QED  BY <1>1, <1>2, <1>3

\* The mean recall is complete only if every recall is.
LEMMA MeansAreFull ==
  ASSUME NEW D, IsFiniteSet(D), D # {}, NEW w \in [D -> 0..Million],
         SumFunction(w) \div Cardinality(D) = Million
  PROVE  \A x \in D : w[x] = Million
<1> DEFINE n == Cardinality(D)
           sum == SumFunction(w)
<1>1. n \in Nat \ {0} /\ Million \in Nat
  <2>1. n \in Nat /\ n # 0
    BY FS_CardinalityType, FS_EmptySet
  <2> QED  BY <2>1, MillionIsANumber
<1>2. sum \in Nat /\ \A x \in D : w[x] # Million => sum < Million * n
  BY <1>1, SumIsBounded
<1> HIDE DEF n, sum
<1>3. (sum \div n) * n <= sum
  BY <1>1, <1>2, QuotientIsBetween
<1>4. Million * n <= sum /\ Million * n \in Nat
  BY <1>1, <1>3 DEF n, sum
<1>5. ~ (sum < Million * n)
  BY <1>2, <1>4
<1> QED  BY <1>2, <1>5

LEMMA RatesAlwaysTell ==
  ASSUME NEW e, IsEvaluation(e)
  PROVE  RatesTell(e.items, e.results, e.k)
<1> DEFINE items == e.items
           results == e.results
           k == e.k
           I == DOMAIN items
           eligible == Labelled(items, AnswerableStates)
           empty == Labelled(items, {"NO_EVIDENCE"})
           forbidden == Labelled(items, {"FORBIDDEN"})
           Decided(d) == DecidedAs(items, results, d)
           refused == Decided("NO_EVIDENCE")
           recalls == [q \in eligible |-> Recall(items[q], results[q], k)]
           latencies == [q \in I |-> results[q].latency]
           rates == Rates(items, results, k)
           due(q) == IF items[q].answerability \in AnswerableStates THEN "EVIDENCE_FOUND"
                     ELSE items[q].answerability
           right == \A q \in I : results[q].decision = due(q)
<1>1. /\ IsFiniteSet(I) /\ I # {} /\ Cardinality(I) < Million /\ k \in Nat
      /\ \A q \in I :
           /\ IsRelevance(items[q].relevance)
           /\ items[q].answerability \in AnswerableStates \cup {"NO_EVIDENCE", "FORBIDDEN"}
           /\ items[q].answerability \in AnswerableStates => Relevant(items[q].relevance) # {}
      /\ \A q \in DOMAIN results :
           /\ results[q].decision \in {"EVIDENCE_FOUND", "NO_EVIDENCE", "FORBIDDEN"}
           /\ results[q].candidates \in Seq(ToSet(results[q].candidates))
           /\ results[q].latency \in Nat
  BY DEF IsEvaluation
<1> HIDE DEF items, results, k
<1> SUFFICES ASSUME Covered(items, results, k)
             PROVE  /\ right <=> /\ rates.wrongRefusal \in {Undefined, 0}
                                 /\ rates.noAnswerDetection \in {Undefined, Million}
                                 /\ rates.forbiddenBlock \in {Undefined, Million}
                    /\ rates.refusalPrecision = Million <=>
                         refused # {} /\ \A q \in refused : items[q].answerability = "NO_EVIDENCE"
                    /\ rates.recall = Million => rates.wrongRefusal = 0
                    /\ rates.p50 <= rates.p95
                    /\ \A p \in {rates.p50, rates.p95} : \E q, r \in DOMAIN results :
                         100 * results[q].latency <= p /\ p <= 100 * results[r].latency
  BY DEF RatesTell, items, results, k
<1>2. DOMAIN results = I /\ \A q \in I : ResultValid(results[q])
  BY DEF Covered
<1>3. \A q \in I : /\ q \in eligible <=> items[q].answerability \in AnswerableStates
                   /\ q \in empty <=> items[q].answerability = "NO_EVIDENCE"
                   /\ q \in forbidden <=> items[q].answerability = "FORBIDDEN"
                   /\ \A d : q \in Decided(d) <=> results[q].decision = d
  BY DEF Labelled, DecidedAs
<1>4. /\ eligible \in SUBSET I /\ empty \in SUBSET I /\ forbidden \in SUBSET I
      /\ \A d : Decided(d) \in SUBSET I
  BY DEF Labelled, DecidedAs
<1>5. "NO_EVIDENCE" \notin AnswerableStates /\ "FORBIDDEN" \notin AnswerableStates
  BY DEF AnswerableStates
<1>6. /\ rates.recall = (IF eligible = {} THEN Undefined
                         ELSE SumFunction(recalls) \div Cardinality(eligible))
      /\ rates.noAnswerDetection = Rate(empty \cap refused, empty)
      /\ rates.refusalPrecision = Rate(empty \cap refused, refused)
      /\ rates.wrongRefusal = Rate(eligible \ Decided("EVIDENCE_FOUND"), eligible)
      /\ rates.forbiddenBlock = Rate(forbidden \cap Decided("FORBIDDEN"), forbidden)
      /\ rates.p50 = Percentile(latencies, 50) /\ rates.p95 = Percentile(latencies, 95)
  BY DEF Rates
<1> HIDE DEF eligible, empty, forbidden, Decided, rates
<1>7. ASSUME NEW whole \in SUBSET I, NEW part \in SUBSET whole
      PROVE  /\ Rate(part, whole) \in {Undefined, 0} <=> part = {}
             /\ Rate(part, whole) \in {Undefined, Million} <=> part = whole
             /\ Rate(part, whole) = Million <=> whole # {} /\ part = whole
             /\ whole # {} /\ part = {} => Rate(part, whole) = 0
  <2>1. IsFiniteSet(whole) /\ Cardinality(whole) <= Cardinality(I) /\ Cardinality(whole) \in Nat
        /\ Cardinality(I) \in Nat /\ Million \in Nat
    BY <1>1, FS_Subset, FS_CardinalityType, SMT DEF Million
  <2>2. Cardinality(whole) < Million
    BY <1>1, <2>1
  <2> QED  BY <2>1, <2>2, RatesAreShares
<1>8. /\ rates.wrongRefusal \in {Undefined, 0} <=> eligible \ Decided("EVIDENCE_FOUND") = {}
      /\ eligible # {} /\ eligible \ Decided("EVIDENCE_FOUND") = {} => rates.wrongRefusal = 0
      /\ rates.noAnswerDetection \in {Undefined, Million} <=> empty \cap refused = empty
      /\ rates.forbiddenBlock \in {Undefined, Million} <=>
           forbidden \cap Decided("FORBIDDEN") = forbidden
      /\ rates.refusalPrecision = Million <=> refused # {} /\ empty \cap refused = refused
  <2>1. /\ eligible \ Decided("EVIDENCE_FOUND") \in SUBSET eligible
        /\ empty \cap refused \in SUBSET empty /\ empty \cap refused \in SUBSET refused
        /\ forbidden \cap Decided("FORBIDDEN") \in SUBSET forbidden
    OBVIOUS
  <2>2. refused \in SUBSET I
    BY <1>4
  <2>3. /\ Rate(eligible \ Decided("EVIDENCE_FOUND"), eligible) \in {Undefined, 0}
             <=> eligible \ Decided("EVIDENCE_FOUND") = {}
        /\ eligible # {} /\ eligible \ Decided("EVIDENCE_FOUND") = {}
             => Rate(eligible \ Decided("EVIDENCE_FOUND"), eligible) = 0
    BY <1>4, <1>7, <2>1
  <2>4. Rate(empty \cap refused, empty) \in {Undefined, Million} <=> empty \cap refused = empty
    BY <1>4, <1>7, <2>1
  <2>5. Rate(forbidden \cap Decided("FORBIDDEN"), forbidden) \in {Undefined, Million}
             <=> forbidden \cap Decided("FORBIDDEN") = forbidden
    BY <1>4, <1>7, <2>1
  <2>6. Rate(empty \cap refused, refused) = Million <=> refused # {} /\ empty \cap refused = refused
    BY <1>7, <2>1, <2>2
  <2> QED  BY <1>6, <2>3, <2>4, <2>5, <2>6
<1>9. right <=> /\ eligible \ Decided("EVIDENCE_FOUND") = {}
                /\ empty \cap refused = empty
                /\ forbidden \cap Decided("FORBIDDEN") = forbidden
  <2>1. ASSUME right
        PROVE  /\ eligible \ Decided("EVIDENCE_FOUND") = {}
               /\ empty \cap refused = empty
               /\ forbidden \cap Decided("FORBIDDEN") = forbidden
    BY <1>3, <1>4, <1>5, <2>1
  <2>2. ASSUME eligible \ Decided("EVIDENCE_FOUND") = {}, empty \cap refused = empty,
               forbidden \cap Decided("FORBIDDEN") = forbidden, NEW q \in I
        PROVE  results[q].decision = due(q)
    <3>1. CASE q \in eligible
      BY <1>3, <2>2, <3>1
    <3>2. CASE q \in empty
      BY <1>3, <1>5, <2>2, <3>2
    <3>3. CASE q \in forbidden
      BY <1>3, <1>5, <2>2, <3>3
    <3> QED  BY <1>1, <1>3, <3>1, <3>2, <3>3
  <2> QED  BY <2>1, <2>2
<1>10. rates.refusalPrecision = Million <=>
         refused # {} /\ \A q \in refused : items[q].answerability = "NO_EVIDENCE"
  <2>1. refused \in SUBSET I
    BY <1>4
  <2>2. empty \cap refused = refused <=> \A q \in refused : items[q].answerability = "NO_EVIDENCE"
    BY <1>3, <2>1
  <2> QED  BY <1>8, <2>2
<1>11. ASSUME rates.recall = Million PROVE rates.wrongRefusal = 0
  <2>1. Undefined # Million
    BY SMT DEF Undefined, Million
  <2>2. eligible # {} /\ SumFunction(recalls) \div Cardinality(eligible) = Million
    BY <1>6, <1>11, <2>1
  <2>3. IsFiniteSet(eligible)
    BY <1>1, <1>4, FS_Subset
  <2>4. \A q \in eligible : /\ Recall(items[q], results[q], k) \in 0..Million
                            /\ Recall(items[q], results[q], k) = Million
                                 => results[q].candidates # <<>>
    <3> SUFFICES ASSUME NEW q \in eligible
                 PROVE  /\ Recall(items[q], results[q], k) \in 0..Million
                        /\ Recall(items[q], results[q], k) = Million
                             => results[q].candidates # <<>>
      OBVIOUS
    <3>1. q \in I
      BY <1>4
    <3>2. /\ IsRelevance(items[q].relevance) /\ Relevant(items[q].relevance) # {}
          /\ results[q].candidates \in Seq(ToSet(results[q].candidates))
          /\ IsInjective(results[q].candidates) /\ k \in Nat
      BY <1>1, <1>2, <1>3, <3>1 DEF ResultValid
    <3> QED  BY <3>2, RecallIsAShare
  <2>5. recalls \in [eligible -> 0..Million]
    BY <2>4
  <2>6. \A q \in eligible : recalls[q] = Million
    <3> HIDE DEF recalls
    <3> QED  BY <2>2, <2>3, <2>5, MeansAreFull
  <2>7. \A q \in eligible : results[q].candidates # <<>>
    BY <2>4, <2>6
  <2>8. \A q \in eligible : q \in Decided("EVIDENCE_FOUND")
    BY <1>2, <1>3, <1>4, <2>7 DEF ResultValid
  <2>9. eligible \ Decided("EVIDENCE_FOUND") = {}
    BY <2>8
  <2> QED  BY <1>8, <2>2, <2>9
<1>12. /\ DOMAIN latencies = I /\ \A q \in I : latencies[q] = results[q].latency /\ latencies[q] \in Int
  BY <1>1, <1>2
<1> HIDE DEF latencies
<1>13. 50 \in 0..100 /\ 95 \in 0..100 /\ 50 <= 95
  OBVIOUS
<1>14. rates.p50 <= rates.p95
  BY <1>1, <1>6, <1>12, <1>13, PercentilesAreOrdered, SMTT(30)
<1>15. ASSUME NEW percent \in 0..100
       PROVE  \E q, r \in DOMAIN results :
                /\ 100 * results[q].latency <= Percentile(latencies, percent)
                /\ Percentile(latencies, percent) <= 100 * results[r].latency
  <2>1. PICK q \in I, r \in I : /\ 100 * latencies[q] <= Percentile(latencies, percent)
                                /\ Percentile(latencies, percent) <= 100 * latencies[r]
    BY <1>1, <1>12, PercentileIsSpanned
  <2> QED  BY <1>2, <1>12, <2>1
<1>16. \A p \in {rates.p50, rates.p95} : \E q, r \in DOMAIN results :
         100 * results[q].latency <= p /\ p <= 100 * results[r].latency
  BY <1>6, <1>13, <1>15
<1> HIDE DEF right
<1> QED  BY <1>8, <1>9, <1>10, <1>11, <1>14, <1>16

\* Every ranking is scored within its bounds, the gate scores it alike, and every report
\* tells decisions: the definitions of evaluation/retrieval_metrics.py and of the scores of
\* run_phase3_comparison_paired_dev_gate.py mean what they say.
THEOREM MetricsAreAlwaysSound == MetricsSpec => []MetricsAreSound
<1> DEFINE Inv == scored \subseteq Rankings /\ reported \subseteq Evaluations
<1>1. MetricsInit => Inv
  BY DEF MetricsInit
<1>2. Inv /\ [ScoreRanking \/ BuildReport]_<<scored, reported>> => Inv'
  BY DEF ScoreRanking, BuildReport
<1>3. Inv => MetricsAreSound
  <2> SUFFICES ASSUME Inv PROVE MetricsAreSound
    OBVIOUS
  <2>1. ASSUME NEW r \in scored
        PROVE  /\ ScoreBounded(r.relevance, r.ranking, r.k)
               /\ GateScoreAgrees(r.relevance, r.documents, r.frozen, r.runtime, r.ranking, r.k)
    <3>1. IsRanking(r)
      BY MetricsAssumption
    <3>2. /\ IsRelevance(r.relevance) /\ r.k \in DOMAIN Discount
          /\ r.ranking \in Seq(DOMAIN r.runtime) /\ IsInjective(r.ranking)
      BY <3>1 DEF IsRanking
    <3> QED  BY <3>1, <3>2, ScoresAreBounded, GateScoresAgree
  <2>2. ASSUME NEW e \in reported PROVE RatesTell(e.items, e.results, e.k)
    BY MetricsAssumption, RatesAlwaysTell
  <2> QED  BY <2>1, <2>2 DEF MetricsAreSound
<1> QED  BY <1>1, <1>2, <1>3, PTL DEF MetricsSpec

-----------------------------------------------------------------------------
(* All of the evaluation. *)

\* Whatever is evaluated: a lock-ready question was reviewed, the metrics are sound, a
\* gate for a model passes what it measured, and the verdicts of the paired gate agree.
THEOREM EvaluationIsAlwaysSound == EvaluationSpec => []EvaluationIsSound
<1>1. EvaluationInit => CorpusInit /\ MetricsInit /\ NliInit /\ GateInit
  BY DEF EvaluationInit
<1>2. [EvaluationNext]_evars => /\ [Validate]_validated
                               /\ [ScoreRanking \/ BuildReport]_<<scored, reported>>
                               /\ [EvaluateCandidate]_evaluated
                               /\ [RunGate]_measured
  BY DEF EvaluationNext, evars
<1>3. EvaluationSpec => CorpusSpec /\ MetricsSpec /\ NliSpec /\ GateSpec
  BY <1>1, <1>2, PTL DEF EvaluationSpec, CorpusSpec, MetricsSpec, NliSpec, GateSpec
<1>4. []LockReadyMeansReviewed /\ []MetricsAreSound /\ []NliGateHonest /\ []VerdictsAgree
        => []EvaluationIsSound
  <2>1. LockReadyMeansReviewed /\ MetricsAreSound /\ NliGateHonest /\ VerdictsAgree
          => EvaluationIsSound
    BY DEF EvaluationIsSound
  <2> QED  BY <2>1, PTL
<1> QED  BY <1>3, <1>4, LockReadyIsReviewedAlways, MetricsAreAlwaysSound, NliGateIsHonest,
            VerdictsAlwaysAgree

-----------------------------------------------------------------------------
(* The queries of a comparison. *)

Place == Int \X Int
PlacesOf(question, c) == {<<c, t>> : t \in DOMAIN question[c]}
Stretch(c, from, to) == {<<c, t>> : t \in from..to}

LEMMA PartHasItsPlaces ==
  ASSUME NEW c \in Int, NEW from \in Int, NEW to \in Int
  PROVE  Part(c, from, to) \in Seq(Place) /\ ToSet(Part(c, from, to)) = Stretch(c, from, to)
<1> DEFINE m == to - from + 1
           n == IF m < 0 THEN 0 ELSE m
           p == [i \in 1..n |-> <<c, from + i - 1>>]
<1>1. n \in Nat /\ 1..m = 1..n
  OBVIOUS
<1>2. Part(c, from, to) = p
  BY <1>1 DEF Part
<1>3. p \in Seq(Place)
  <2>1. p \in [1..n -> Place]
    BY <1>1 DEF Place
  <2> HIDE DEF p, n
  <2> QED  BY <1>1, <2>1
<1>4. ToSet(p) = {<<c, from + i - 1>> : i \in 1..n}
  BY DEF ToSet
<1>5. ASSUME NEW t \in from..to PROVE \E i \in 1..n : from + i - 1 = t
  <2>1. t - from + 1 \in 1..n /\ from + (t - from + 1) - 1 = t
    BY <1>1
  <2> QED  BY <2>1
<1>6. ASSUME NEW i \in 1..n PROVE from + i - 1 \in from..to
  BY <1>1
<1> HIDE DEF n
<1>7. {<<c, from + i - 1>> : i \in 1..n} = {<<c, t>> : t \in from..to}
  BY <1>5, <1>6
<1> QED  BY <1>2, <1>3, <1>4, <1>7 DEF Stretch

IsQuestion(question) == question \in Seq(Seq(Token))

LEMMA ClausesAreNumbered ==
  ASSUME NEW question, IsQuestion(question)
  PROVE  /\ Len(question) \in Nat /\ DOMAIN question = 1..Len(question)
         /\ \A c \in DOMAIN question :
              /\ c \in Int /\ question[c] \in Seq(Token) /\ Len(question[c]) \in Nat
              /\ DOMAIN question[c] = 1..Len(question[c])
BY DEF IsQuestion

LEMMA WholeHasItsPlaces ==
  ASSUME NEW question, IsQuestion(question), NEW c \in DOMAIN question
  PROVE  /\ WholeClause(question, c) \in Seq(Place)
         /\ ToSet(WholeClause(question, c)) = PlacesOf(question, c)
<1>1. c \in Int /\ Len(question[c]) \in Int /\ 1 \in Int /\ DOMAIN question[c] = 1..Len(question[c])
  BY ClausesAreNumbered
<1> DEFINE n == Len(question[c])
           P == Part(c, 1, n)
<1>2. WholeClause(question, c) = P
  BY DEF WholeClause
<1>3. PlacesOf(question, c) = Stretch(c, 1, n)
  BY <1>1 DEF PlacesOf, Stretch
<1> HIDE DEF n
<1>4. P \in Seq(Place) /\ ToSet(P) = Stretch(c, 1, n)
  BY <1>1, PartHasItsPlaces DEF n
<1> QED  BY <1>2, <1>3, <1>4

\* Some clauses, one after the other.
ClausesOf(question, clauses) ==
  FlattenSeq([i \in DOMAIN Ascending(clauses) |-> WholeClause(question, Ascending(clauses)[i])])

LEMMA ClausesHaveTheirPlaces ==
  ASSUME NEW question, IsQuestion(question), NEW clauses \in SUBSET DOMAIN question
  PROVE  /\ ClausesOf(question, clauses) \in Seq(Place)
         /\ ToSet(ClausesOf(question, clauses)) = UNION {PlacesOf(question, c) : c \in clauses}
<1> DEFINE a == Ascending(clauses)
           n == Cardinality(clauses)
           ss == [i \in DOMAIN a |-> WholeClause(question, a[i])]
           P(c) == PlacesOf(question, c)
<1>1. IsFiniteSet(clauses) /\ clauses \subseteq Int
  <2>1. IsFiniteSet(DOMAIN question)
    BY ClausesAreNumbered, FS_Interval
  <2> QED  BY <2>1, ClausesAreNumbered, FS_Subset
<1>2. n \in Nat /\ a \in [1..n -> clauses] /\ ToSet(a) = clauses
  BY <1>1, AscendingSorts
<1> HIDE DEF a, n
<1>3. \A i \in 1..n : a[i] \in clauses /\ a[i] \in DOMAIN question
  BY <1>2
<1>4. /\ DOMAIN ss = 1..n /\ ss \in [1..n -> Seq(Place)]
      /\ \A i \in 1..n : ToSet(ss[i]) = P(a[i])
  BY <1>2, <1>3, WholeHasItsPlaces
<1> HIDE DEF ss, P
<1>5. /\ FlattenSeq(ss) \in Seq(Place)
      /\ ToSet(FlattenSeq(ss)) = UNION {ToSet(ss[i]) : i \in 1..n}
  BY <1>2, <1>4, FlattenedHasAll
<1>6. {ToSet(ss[i]) : i \in 1..n} = {P(c) : c \in clauses}
  <2>1. \A c \in clauses : \E i \in 1..n : a[i] = c
    BY <1>2 DEF ToSet
  <2> QED  BY <1>3, <1>4, <2>1
<1> QED  BY <1>5, <1>6 DEF ClausesOf, ss, a, P

\* Names that no two documents share and that are no word of another kind.
IsBound(aliases) ==
  Unambiguous(aliases) /\ \A d \in DOMAIN aliases : aliases[d] \cap {"connector", "shared"} = {}

LEMMA RemappedIsBound ==
  ASSUME NEW q, IsComparison(q), Remappable(q.aliases, q.ids)
  PROVE  IsBound(Remapped(q.aliases, q.ids))
<1> DEFINE aliases == q.aliases
           ids == q.ids
           bound == Remapped(aliases, ids)
           of(r) == CHOOSE d \in DOMAIN ids : ids[d] = r
<1>1. /\ \A d \in DOMAIN aliases : aliases[d] \cap {"connector", "shared"} = {}
      /\ \A d \in DOMAIN ids : ids[d] \notin {"connector", "shared"}
  BY DEF IsComparison
<1>2. /\ Unambiguous(aliases) /\ DOMAIN ids = DOMAIN aliases
      /\ \A d, e \in DOMAIN ids : ids[d] = ids[e] => d = e
      /\ \A d, e \in DOMAIN ids : ids[d] \in aliases[e] => d = e
  BY DEF Remappable
<1> HIDE DEF aliases, ids
<1>3. DOMAIN bound = {ids[d] : d \in DOMAIN ids}
  BY DEF Remapped
<1>4. \A r \in DOMAIN bound : of(r) \in DOMAIN ids /\ ids[of(r)] = r
  BY <1>3
<1>5. \A r \in DOMAIN bound : bound[r] = {r} \cup aliases[of(r)]
  BY <1>3 DEF Remapped
<1> HIDE DEF bound, of
<1>6. ASSUME NEW r \in DOMAIN bound, NEW s \in DOMAIN bound, bound[r] \cap bound[s] # {}
      PROVE  r = s
  <2>1. PICK t : t \in bound[r] /\ t \in bound[s]
    BY <1>6
  <2>2. t = ids[of(r)] \/ t \in aliases[of(r)]
    BY <1>4, <1>5, <2>1
  <2>3. t = ids[of(s)] \/ t \in aliases[of(s)]
    BY <1>4, <1>5, <2>1
  <2>4. of(r) = of(s)
    BY <1>2, <1>4, <2>2, <2>3 DEF Unambiguous
  <2> QED  BY <1>4, <2>4
<1>7. \A r \in DOMAIN bound : bound[r] \cap {"connector", "shared"} = {}
  <2> SUFFICES ASSUME NEW r \in DOMAIN bound, NEW t \in bound[r]
               PROVE  t \notin {"connector", "shared"}
    OBVIOUS
  <2>1. t = ids[of(r)] \/ t \in aliases[of(r)]
    BY <1>4, <1>5
  <2> QED  BY <1>1, <1>2, <1>4, <2>1
<1> QED  BY <1>6, <1>7 DEF IsBound, Unambiguous, bound, aliases, ids

LEMMA TwoAreTwo ==
  ASSUME NEW S, IsFiniteSet(S), Cardinality(S) = 2, NEW x \in S
  PROVE  \E y \in S : y # x /\ S = {x, y}
<1>1. IsFiniteSet(S \ {x}) /\ Cardinality(S \ {x}) = 1
  BY FS_RemoveElement
<1>2. PICK y : S \ {x} = {y}
  BY <1>1, FS_Singleton
<1> QED  BY <1>2

\* Where a document is named for the first time.
LEMMA NamesComeFirst ==
  ASSUME NEW question, IsQuestion(question), NEW c \in DOMAIN question, NEW names,
         Named(question[c], names) # {}
  PROVE  /\ FirstName(question[c], names) \in Named(question[c], names)
         /\ FirstName(question[c], names) \in Int
         /\ \A t \in Named(question[c], names) : FirstName(question[c], names) <= t
<1> DEFINE N == Named(question[c], names)
<1>1. DOMAIN question[c] = 1..Len(question[c]) /\ Len(question[c]) \in Nat
  BY ClausesAreNumbered
<1>2. N \in SUBSET DOMAIN question[c] /\ DOMAIN question[c] \subseteq Int
  BY <1>1 DEF Named
<1>3. IsFiniteSet(DOMAIN question[c])
  BY <1>1, FS_Interval
<1> HIDE DEF N
<1>4. IsFiniteSet(N) /\ N \subseteq Int /\ N # {}
  BY <1>2, <1>3, FS_Subset DEF N
<1>5. Least(N) \in N /\ \A t \in N : Least(N) <= t
  BY <1>4, ExtremesAreChosen
<1> QED  BY <1>4, <1>5 DEF FirstName, N

\* The places of three parts of a clause.
LEMMA PartsHaveTheirPlaces ==
  ASSUME NEW c, NEW a, NEW b, NEW i, NEW j, NEW k, NEW l,
         {c, a, b, i, j, k, l} \subseteq Int
  PROVE  /\ Part(c, a, b) \o Part(c, i, j) \o Part(c, k, l) \in Seq(Place)
         /\ ToSet(Part(c, a, b) \o Part(c, i, j) \o Part(c, k, l))
              = Stretch(c, a, b) \cup Stretch(c, i, j) \cup Stretch(c, k, l)
<1> DEFINE p == Part(c, a, b)  q == Part(c, i, j)  r == Part(c, k, l)
           s == p \o q
<1>1. p \in Seq(Place) /\ ToSet(p) = Stretch(c, a, b)
  BY PartHasItsPlaces
<1>2. q \in Seq(Place) /\ ToSet(q) = Stretch(c, i, j)
  BY PartHasItsPlaces
<1>3. r \in Seq(Place) /\ ToSet(r) = Stretch(c, k, l)
  BY PartHasItsPlaces
<1> HIDE DEF p, q, r
<1>4. s \in Seq(Place) /\ ToSet(s) = ToSet(p) \cup ToSet(q)
  BY <1>1, <1>2, JoinedHasBoth
<1> HIDE DEF s
<1>5. s \o r \in Seq(Place) /\ ToSet(s \o r) = ToSet(s) \cup ToSet(r)
  BY <1>3, <1>4, JoinedHasBoth
<1> QED  BY <1>1, <1>2, <1>3, <1>4, <1>5 DEF p, q, r, s

\* A clause that is split gives each side the name of its document and not the other one.
LEMMA SplitKeepsSides ==
  ASSUME NEW question, IsQuestion(question), NEW bound, IsBound(bound),
         NEW routes, routes \subseteq DOMAIN bound, IsFiniteSet(routes), Cardinality(routes) = 2,
         NEW c \in DOMAIN question, Mentioned(question[c], bound, routes) = routes,
         SplitClause(question, c, bound, routes) # <<>>
  PROVE  LET parted == SplitClause(question, c, bound, routes) IN
         /\ \A d \in routes : parted[d] \in Seq(Place) /\ \A p \in ToSet(parted[d]) : p[1] = c
         /\ \A d, e \in routes :
              LET own == {<<c, t>> : t \in Named(question[c], bound[d])}
                  others == {<<c, t>> : t \in Named(question[c], bound[e])}
              IN d # e /\ Cardinality(own) = 1 /\ Cardinality(others) = 1 =>
                   own \subseteq ToSet(parted[d]) /\ others \cap ToSet(parted[d]) = {}
<1> DEFINE clause == question[c]
           n == Len(clause)
           N(d) == Named(clause, bound[d])
           first(d) == FirstName(clause, bound[d])
           left == CHOOSE d \in routes : \A e \in routes : first(d) <= first(e)
           right == CHOOSE d \in routes : d # left
           connectors == {t \in first(left)..first(right) : clause[t] = "connector"}
           tails == {t \in DOMAIN clause : t > first(right) /\ clause[t] = "shared"}
           K == Greatest(connectors)
           T == Least(tails)
           parted == SplitClause(question, c, bound, routes)
           L == first(left)
           R == first(right)
<1>1. c \in Int /\ n \in Nat /\ DOMAIN clause = 1..n
  BY ClausesAreNumbered
<1>2. ASSUME NEW d \in routes
      PROVE  /\ first(d) \in N(d) /\ first(d) \in 1..n /\ first(d) \in Int
             /\ clause[first(d)] \in bound[d] /\ clause[first(d)] \notin {"connector", "shared"}
  <2>1. N(d) # {}
    BY DEF Mentioned
  <2>2. first(d) \in N(d) /\ first(d) \in Int
    BY <2>1, NamesComeFirst
  <2>3. first(d) \in DOMAIN clause /\ clause[first(d)] \in bound[d]
    BY <2>2 DEF Named
  <2>4. bound[d] \cap {"connector", "shared"} = {}
    BY DEF IsBound
  <2> HIDE DEF first, clause, n
  <2> QED  BY <1>1, <2>2, <2>3, <2>4
<1>3. ASSUME NEW d \in routes, NEW e \in routes, d # e
      PROVE  first(d) # first(e)
  <2> HIDE DEF first
  <2>1. bound[d] \cap bound[e] = {}
    BY <1>3 DEF IsBound, Unambiguous
  <2> QED  BY <1>2, <2>1
<1>4. connectors # {} /\ tails # {}
  BY DEF SplitClause
<1>5. parted = [d \in routes |->
                 (IF d = left THEN Part(c, L, K - 1) ELSE Part(c, R, T - 1))
                   \o Part(c, 1, L - 1) \o Part(c, T, n)]
  BY <1>4 DEF SplitClause
<1> HIDE DEF parted, first
<1>6. /\ left \in routes /\ right \in routes /\ left # right /\ routes = {left, right}
      /\ L < R
  <2>1. PICK x \in routes : TRUE
    BY FS_EmptySet
  <2>2. PICK y \in routes : y # x /\ routes = {x, y}
    BY TwoAreTwo
  <2>3. first(x) \in Int /\ first(y) \in Int
    BY <1>2
  <2>4. \E d \in routes : \A e \in routes : first(d) <= first(e)
    <3>1. CASE first(x) <= first(y)
      BY <2>2, <2>3, <3>1
    <3>2. CASE first(y) <= first(x)
      BY <2>2, <2>3, <3>2
    <3> QED  BY <2>3, <3>1, <3>2
  <2>5. left \in routes /\ \A e \in routes : first(left) <= first(e)
    BY <2>4
  <2> HIDE DEF left
  <2>6. \E d \in routes : d # left
    BY <2>2
  <2>7. right \in routes /\ right # left
    BY <2>6
  <2> HIDE DEF right
  <2>8. L # R /\ L <= R /\ L \in Int /\ R \in Int
    BY <1>2, <1>3, <2>5, <2>7
  <2> QED  BY <2>2, <2>5, <2>7, <2>8
<1> HIDE DEF left, right
<1>7. L \in 1..n /\ R \in 1..n /\ L \in N(left) /\ R \in N(right)
  BY <1>2, <1>6
<1>8. K \in Int /\ L < K /\ K < R
  <2>1. connectors \in SUBSET (L..R) /\ L \in Int /\ R \in Int
    BY <1>7
  <2>2. IsFiniteSet(connectors) /\ connectors \subseteq Int
    <3> DEFINE S == L..R
    <3>1. IsFiniteSet(S) /\ connectors \in SUBSET S /\ S \subseteq Int
      BY <2>1, FS_Interval
    <3> HIDE DEF connectors, S
    <3> QED  BY <3>1, FS_Subset
  <2>3. K \in connectors
    <3> HIDE DEF connectors
    <3> QED  BY <1>4, <2>2, ExtremesAreChosen
  <2>4. K \in L..R /\ clause[K] = "connector"
    BY <2>3
  <2>5. K # L /\ K # R
    BY <1>2, <1>6, <2>4
  <2> HIDE DEF K
  <2> QED  BY <2>1, <2>4, <2>5
<1>9. T \in Int /\ R < T
  <2>1. tails \in SUBSET (1..n)
    BY <1>1
  <2>2. IsFiniteSet(tails) /\ tails \subseteq Int
    <3> DEFINE S == 1..n
    <3>1. IsFiniteSet(S) /\ tails \in SUBSET S /\ S \subseteq Int
      BY <1>1, <2>1, FS_Interval
    <3> HIDE DEF tails, S
    <3> QED  BY <3>1, FS_Subset
  <2>3. T \in tails
    <3> HIDE DEF tails
    <3> QED  BY <1>4, <2>2, ExtremesAreChosen
  <2> QED  BY <2>2, <2>3
<1> HIDE DEF K, T, connectors, tails, L, R, n
<1>10. /\ L \in Int /\ R \in Int /\ n \in Int /\ 1 \in Int
       /\ K - 1 \in Int /\ T - 1 \in Int /\ L - 1 \in Int
  BY <1>1, <1>7, <1>8, <1>9
<1>11. /\ parted[left] \in Seq(Place)
       /\ ToSet(parted[left]) = Stretch(c, L, K - 1) \cup Stretch(c, 1, L - 1) \cup Stretch(c, T, n)
  <2> DEFINE h == K - 1  l1 == L - 1  one == 1
  <2>1. parted[left] = Part(c, L, h) \o Part(c, one, l1) \o Part(c, T, n)
    BY <1>5, <1>6
  <2>2. {c, L, h, R, one, l1, T, n} \subseteq Int
    BY <1>1, <1>9, <1>10
  <2> HIDE DEF h, l1, one
  <2>3. /\ Part(c, L, h) \o Part(c, one, l1) \o Part(c, T, n) \in Seq(Place)
        /\ ToSet(Part(c, L, h) \o Part(c, one, l1) \o Part(c, T, n))
             = Stretch(c, L, h) \cup Stretch(c, one, l1) \cup Stretch(c, T, n)
    BY <2>2, PartsHaveTheirPlaces
  <2> QED  BY <2>1, <2>3 DEF h, l1, one
<1>12. /\ parted[right] \in Seq(Place)
       /\ ToSet(parted[right]) = Stretch(c, R, T - 1) \cup Stretch(c, 1, L - 1) \cup Stretch(c, T, n)
  <2> DEFINE h == T - 1  l1 == L - 1  one == 1
  <2>1. parted[right] = Part(c, R, h) \o Part(c, one, l1) \o Part(c, T, n)
    BY <1>5, <1>6
  <2>2. {c, L, h, R, one, l1, T, n} \subseteq Int
    BY <1>1, <1>9, <1>10
  <2> HIDE DEF h, l1, one
  <2>3. /\ Part(c, R, h) \o Part(c, one, l1) \o Part(c, T, n) \in Seq(Place)
        /\ ToSet(Part(c, R, h) \o Part(c, one, l1) \o Part(c, T, n))
             = Stretch(c, R, h) \cup Stretch(c, one, l1) \cup Stretch(c, T, n)
    BY <2>2, PartsHaveTheirPlaces
  <2> QED  BY <2>1, <2>3 DEF h, l1, one
<1>13. \A d \in routes : parted[d] \in Seq(Place) /\ \A p \in ToSet(parted[d]) : p[1] = c
  <2>1. \A p \in ToSet(parted[left]) : p[1] = c
    BY <1>11 DEF Stretch
  <2>2. \A p \in ToSet(parted[right]) : p[1] = c
    BY <1>12 DEF Stretch
  <2> QED  BY <1>6, <1>11, <1>12, <2>1, <2>2
<1>14. /\ <<c, L>> \in ToSet(parted[left]) /\ <<c, R>> \notin ToSet(parted[left])
       /\ <<c, R>> \in ToSet(parted[right]) /\ <<c, L>> \notin ToSet(parted[right])
  <2>1. L \in L..(K - 1) /\ R \notin (L..(K - 1)) \cup (1..(L - 1)) \cup (T..n)
    BY <1>6, <1>8, <1>9, <1>10
  <2>2. R \in R..(T - 1) /\ L \notin (R..(T - 1)) \cup (1..(L - 1)) \cup (T..n)
    BY <1>6, <1>8, <1>9, <1>10
  <2> QED  BY <1>11, <1>12, <2>1, <2>2 DEF Stretch
<1>15. ASSUME NEW d \in routes, Cardinality({<<c, t>> : t \in N(d)}) = 1
       PROVE  {<<c, t>> : t \in N(d)} = {<<c, first(d)>>}
  <2> DEFINE own == {<<c, t>> : t \in N(d)}
  <2>1. first(d) \in N(d)
    BY <1>2
  <2>2. IsFiniteSet(own)
    <3>1. IsFiniteSet(1..n) /\ N(d) \in SUBSET (1..n)
      BY <1>1, FS_Interval DEF Named
    <3>2. IsFiniteSet(N(d))
      <4> DEFINE S == 1..n
                 M == N(d)
      <4>1. IsFiniteSet(S) /\ M \in SUBSET S
        BY <3>1
      <4> HIDE DEF S, M
      <4>2. IsFiniteSet(M)
        BY <4>1, FS_Subset
      <4> QED  BY <4>2 DEF M
    <3> DEFINE f == [t \in N(d) |-> <<c, t>>]
    <3>3. IsFiniteSet({f[t] : t \in N(d)})
      <4> HIDE DEF f
      <4> QED  BY <3>2, ImageCounts
    <3> QED  BY <3>3
  <2>3. PICK p : own = {p}
    <3> HIDE DEF own
    <3> QED  BY <1>15, <2>2, FS_Singleton DEF own
  <2>4. <<c, first(d)>> \in own
    BY <2>1
  <2> HIDE DEF own
  <2>5. own = {<<c, first(d)>>}
    BY <2>3, <2>4
  <2> QED  BY <2>5 DEF own
<1>16. ASSUME NEW d \in routes, NEW e \in routes, d # e,
              Cardinality({<<c, t>> : t \in N(d)}) = 1, Cardinality({<<c, t>> : t \in N(e)}) = 1
       PROVE  /\ {<<c, t>> : t \in N(d)} \subseteq ToSet(parted[d])
              /\ {<<c, t>> : t \in N(e)} \cap ToSet(parted[d]) = {}
  <2>1. /\ {<<c, t>> : t \in N(d)} = {<<c, first(d)>>}
        /\ {<<c, t>> : t \in N(e)} = {<<c, first(e)>>}
    BY <1>15, <1>16
  <2> DEFINE A == {<<c, t>> : t \in N(d)}  B == {<<c, t>> : t \in N(e)}
  <2> HIDE DEF A, B
  <2>2. A = {<<c, first(d)>>} /\ B = {<<c, first(e)>>}
    BY <2>1 DEF A, B
  <2>3. <<c, first(d)>> \in ToSet(parted[d]) /\ <<c, first(e)>> \notin ToSet(parted[d])
    BY <1>6, <1>14, <1>16 DEF L, R
  <2> QED  BY <2>2, <2>3 DEF A, B
<1> QED  BY <1>13, <1>16 DEF parted

LEMMA NothingHasNoPlace == <<>> \in Seq(Place) /\ ToSet(<<>>) = {}
BY DEF ToSet

\* A question of two routes that can be cut.
IsCut(question, bound, routes) ==
  /\ IsQuestion(question) /\ IsBound(bound)
  /\ routes \subseteq DOMAIN bound /\ IsFiniteSet(routes) /\ Cardinality(routes) = 2
  /\ \A c \in DOMAIN question : Contribution(question, c, bound, routes) # <<>>

\* What a clause contributes lies in it, and is all of it or nothing unless it is split.
LEMMA ContributionIsOwn ==
  ASSUME NEW question, NEW bound, NEW routes, IsCut(question, bound, routes),
         NEW c \in DOMAIN question, NEW d \in routes
  PROVE  LET own == Contribution(question, c, bound, routes)[d]
             named == Mentioned(question[c], bound, routes)
         IN /\ own \in Seq(Place) /\ \A p \in ToSet(own) : p[1] = c
            /\ named # routes => ToSet(own) = IF d \in named THEN PlacesOf(question, c) ELSE {}
<1> DEFINE named == Mentioned(question[c], bound, routes)
           contribution == Contribution(question, c, bound, routes)
<1>1. contribution # <<>> /\ IsQuestion(question) /\ IsBound(bound)
  BY DEF IsCut
<1>2. CASE named = routes
  <2>1. contribution = SplitClause(question, c, bound, routes)
    BY <1>2 DEF Contribution
  <2>2. SplitClause(question, c, bound, routes) # <<>>
    BY <1>1, <2>1
  <2>3. /\ SplitClause(question, c, bound, routes)[d] \in Seq(Place)
        /\ \A p \in ToSet(SplitClause(question, c, bound, routes)[d]) : p[1] = c
    BY <1>2, <2>2, SplitKeepsSides DEF IsCut
  <2> QED  BY <1>2, <2>1, <2>3
<1>3. CASE named # routes
  <2>1. contribution[d] = IF d \in named THEN WholeClause(question, c) ELSE <<>>
    BY <1>3 DEF Contribution
  <2>2. /\ WholeClause(question, c) \in Seq(Place)
        /\ ToSet(WholeClause(question, c)) = PlacesOf(question, c)
    BY <1>1, WholeHasItsPlaces
  <2>3. \A p \in PlacesOf(question, c) : p[1] = c
    BY DEF PlacesOf
  <2> HIDE DEF named, contribution
  <2>4. CASE d \in named
    BY <2>1, <2>2, <2>3, <2>4 DEF named, contribution
  <2>5. CASE d \notin named
    <3>1. contribution[d] = <<>>
      BY <2>1, <2>5
    <3> QED  BY <2>5, <3>1, NothingHasNoPlace DEF named, contribution
  <2> QED  BY <2>4, <2>5
<1> QED  BY <1>2, <1>3

AnchoredOf(question, aliases, routes) == {d \in routes : Anchors(question, aliases, d) # {}}
LeadingOf(question, aliases, routes) ==
  IF Cardinality(AnchoredOf(question, aliases, routes)) # 1 THEN {}
  ELSE {c \in Unanchored(question, aliases, routes) :
          c < Least(Anchors(question, aliases, CHOOSE d \in AnchoredOf(question, aliases, routes) : TRUE))}

PlacesOfAll(question, clauses) == UNION {PlacesOf(question, c) : c \in clauses}

\* A query has the places of what the clauses contribute to its route, of the leading
\* clauses if its document is not named, and of every other clause that names none.
LEMMA QueriesAreJoined ==
  ASSUME NEW question, NEW bound, NEW routes, IsCut(question, bound, routes), NEW d \in routes
  PROVE  LET leading == LeadingOf(question, bound, routes) IN
         /\ Queries(question, bound, routes)[d] \in Seq(Place)
         /\ ToSet(Queries(question, bound, routes)[d]) =
           (UNION {ToSet(Contribution(question, c, bound, routes)[d]) : c \in DOMAIN question})
             \cup (IF d \in AnchoredOf(question, bound, routes) THEN {}
                   ELSE PlacesOfAll(question, leading))
             \cup PlacesOfAll(question, Unanchored(question, bound, routes) \ leading)
<1> DEFINE anchored == AnchoredOf(question, bound, routes)
           unanchored == Unanchored(question, bound, routes)
           leading == LeadingOf(question, bound, routes)
           contributions == [c \in DOMAIN question |-> Contribution(question, c, bound, routes)[d]]
           own == FlattenSeq(contributions)
           lead == IF d \in anchored THEN <<>> ELSE ClausesOf(question, leading)
           tail == ClausesOf(question, unanchored \ leading)
           n == Len(question)
<1>1. /\ IsQuestion(question) /\ n \in Nat /\ DOMAIN question = 1..n
  BY ClausesAreNumbered DEF IsCut
<1>2. leading \in SUBSET DOMAIN question /\ unanchored \ leading \in SUBSET DOMAIN question
  BY DEF LeadingOf, Unanchored
<1>3. Queries(question, bound, routes)[d] = own \o lead \o tail
  BY DEF Queries, AnchoredOf, LeadingOf, ClausesOf
<1>4. /\ contributions \in [1..n -> Seq(Place)]
      /\ \A c \in 1..n : contributions[c] = Contribution(question, c, bound, routes)[d]
  BY <1>1, ContributionIsOwn
<1> HIDE DEF contributions, n
<1>5. own \in Seq(Place) /\ ToSet(own) = UNION {ToSet(contributions[c]) : c \in 1..n}
  BY <1>1, <1>4, FlattenedHasAll
<1>6. {ToSet(contributions[c]) : c \in 1..n}
        = {ToSet(Contribution(question, c, bound, routes)[d]) : c \in DOMAIN question}
  BY <1>1, <1>4
<1> HIDE DEF anchored, leading, unanchored, own
<1>7. lead \in Seq(Place) /\ ToSet(lead) = IF d \in anchored THEN {} ELSE PlacesOfAll(question, leading)
  <2>1. CASE d \in anchored
    BY <2>1, NothingHasNoPlace
  <2>2. CASE d \notin anchored
    BY <1>1, <1>2, <2>2, ClausesHaveTheirPlaces DEF PlacesOfAll
  <2> QED  BY <2>1, <2>2
<1>8. tail \in Seq(Place) /\ ToSet(tail) = PlacesOfAll(question, unanchored \ leading)
  BY <1>1, <1>2, ClausesHaveTheirPlaces DEF PlacesOfAll
<1> HIDE DEF lead, tail
<1> DEFINE both == own \o lead
<1>9. both \in Seq(Place) /\ ToSet(both) = ToSet(own) \cup ToSet(lead)
  BY <1>5, <1>7, JoinedHasBoth
<1> HIDE DEF both
<1>10. both \o tail \in Seq(Place) /\ ToSet(both \o tail) = ToSet(both) \cup ToSet(tail)
  BY <1>8, <1>9, JoinedHasBoth
<1>11. Queries(question, bound, routes)[d] = both \o tail
  BY <1>3 DEF both
<1>12. /\ Queries(question, bound, routes)[d] \in Seq(Place)
       /\ ToSet(Queries(question, bound, routes)[d]) = ToSet(own) \cup ToSet(lead) \cup ToSet(tail)
  BY <1>9, <1>10, <1>11
<1> QED  BY <1>5, <1>6, <1>7, <1>8, <1>12 DEF anchored, leading, unanchored

\* Where a place of a query comes from.
LEMMA PlacesAreOwn ==
  ASSUME NEW question, NEW bound, NEW routes, IsCut(question, bound, routes),
         NEW c \in DOMAIN question, NEW d \in routes
  PROVE  LET places == ToSet(Queries(question, bound, routes)[d])
             own == ToSet(Contribution(question, c, bound, routes)[d])
         IN /\ own \subseteq places
            /\ c \notin Unanchored(question, bound, routes) =>
                 \A t : <<c, t>> \in places => <<c, t>> \in own
<1> DEFINE unanchored == Unanchored(question, bound, routes)
           leading == LeadingOf(question, bound, routes)
           anchored == AnchoredOf(question, bound, routes)
           from(b) == ToSet(Contribution(question, b, bound, routes)[d])
           places == ToSet(Queries(question, bound, routes)[d])
<1>1. places = (UNION {from(b) : b \in DOMAIN question})
                 \cup (IF d \in anchored THEN {} ELSE PlacesOfAll(question, leading))
                 \cup PlacesOfAll(question, unanchored \ leading)
  BY QueriesAreJoined
<1>2. \A b \in DOMAIN question : \A p \in from(b) : p[1] = b
  BY ContributionIsOwn
<1>3. leading \subseteq unanchored
  BY DEF LeadingOf
<1> HIDE DEF unanchored, leading, anchored, from, places
<1>4. \A p \in PlacesOfAll(question, leading) \cup PlacesOfAll(question, unanchored \ leading) :
        p[1] \in unanchored
  BY <1>3 DEF PlacesOfAll, PlacesOf
<1>5. from(c) \subseteq places
  BY <1>1
<1>6. ASSUME c \notin unanchored, NEW t, <<c, t>> \in places PROVE <<c, t>> \in from(c)
  <2> DEFINE p == <<c, t>>
  <2>1. p[1] = c
    OBVIOUS
  <2> HIDE DEF p
  <2>2. p \in places
    BY <1>6 DEF p
  <2>3. p \notin PlacesOfAll(question, leading) \cup PlacesOfAll(question, unanchored \ leading)
    BY <1>4, <1>6, <2>1
  <2>4. PICK b \in DOMAIN question : p \in from(b)
    BY <1>1, <2>2, <2>3
  <2>5. b = c
    BY <1>2, <2>1, <2>4
  <2> QED  BY <2>4, <2>5 DEF p
<1> QED  BY <1>5, <1>6 DEF unanchored, from, places

\* A clause without a name goes to a route, and to every one unless it leads.
LEMMA UnnamedAreKept ==
  ASSUME NEW question, NEW bound, NEW routes, IsCut(question, bound, routes),
         NEW c \in Unanchored(question, bound, routes)
  PROVE  LET places(d) == ToSet(Queries(question, bound, routes)[d]) IN
         /\ \E d \in routes : PlacesOf(question, c) \subseteq places(d)
         /\ c > Least({b \in DOMAIN question : Mentioned(question[b], bound, routes) # {}}) =>
              \A d \in routes : PlacesOf(question, c) \subseteq places(d)
<1> DEFINE unanchored == Unanchored(question, bound, routes)
           leading == LeadingOf(question, bound, routes)
           anchored == AnchoredOf(question, bound, routes)
           named == {b \in DOMAIN question : Mentioned(question[b], bound, routes) # {}}
           from(d, b) == ToSet(Contribution(question, b, bound, routes)[d])
           places(d) == ToSet(Queries(question, bound, routes)[d])
<1>1. \A d \in routes :
        places(d) = (UNION {from(d, b) : b \in DOMAIN question})
                      \cup (IF d \in anchored THEN {} ELSE PlacesOfAll(question, leading))
                      \cup PlacesOfAll(question, unanchored \ leading)
  BY QueriesAreJoined
<1>2. IsFiniteSet(routes) /\ Cardinality(routes) = 2 /\ IsQuestion(question)
  BY DEF IsCut
<1>3. \E d \in routes : TRUE
  BY <1>2, FS_EmptySet
<1>4. CASE c \notin leading
  <2>1. PlacesOf(question, c) \subseteq PlacesOfAll(question, unanchored \ leading)
    BY <1>4 DEF PlacesOfAll
  <2> HIDE DEF leading, unanchored, anchored, places, from
  <2>2. \A d \in routes : PlacesOf(question, c) \subseteq places(d)
    BY <1>1, <2>1
  <2> QED  BY <1>3, <2>2 DEF places
<1>5. CASE c \in leading
  <2> DEFINE only == CHOOSE d \in anchored : TRUE
             least == Least(Anchors(question, bound, only))
  <2>1. Cardinality(anchored) = 1 /\ c < least
    BY <1>5 DEF LeadingOf
  <2>2. IsFiniteSet(anchored) /\ anchored \subseteq routes
    <3>1. anchored \in SUBSET routes
      BY DEF AnchoredOf
    <3> HIDE DEF anchored
    <3> QED  BY <1>2, <3>1, FS_Subset
  <2>3. anchored = {only}
    <3> HIDE DEF anchored
    <3>1. PICK x : anchored = {x}
      BY <2>1, <2>2, FS_Singleton
    <3> QED  BY <3>1
  <2> HIDE DEF only
  <2>4. Anchors(question, bound, only) = named
    <3>1. \A b \in DOMAIN question, d \in routes : Named(question[b], bound[d]) # {} => d = only
      <4> SUFFICES ASSUME NEW b \in DOMAIN question, NEW d \in routes,
                          Named(question[b], bound[d]) # {}
                   PROVE  d \in anchored
        BY <2>3
      <4> QED  BY DEF AnchoredOf, Anchors
    <3>2. only \in routes
      BY <2>2, <2>3
    <3>3. \A b \in DOMAIN question : Mentioned(question[b], bound, routes) # {}
            <=> Named(question[b], bound[only]) # {}
      BY <3>1, <3>2 DEF Mentioned
    <3> QED  BY <3>3 DEF Anchors
  <2>5. c \in Int /\ least \in Int
    <3> DEFINE A == Anchors(question, bound, only)
    <3>1. IsFiniteSet(DOMAIN question) /\ DOMAIN question \subseteq Int /\ c \in DOMAIN question
      BY <1>2, ClausesAreNumbered, FS_Interval DEF Unanchored
    <3>2. A \in SUBSET DOMAIN question
      BY DEF Anchors
    <3>3. A # {}
      <4>1. only \in anchored
        BY <2>3
      <4> QED  BY <4>1 DEF AnchoredOf
    <3> HIDE DEF A
    <3>4. IsFiniteSet(A) /\ A \subseteq Int
      BY <3>1, <3>2, FS_Subset
    <3>5. Least(A) \in A
      BY <3>3, <3>4, ExtremesAreChosen
    <3> QED  BY <3>1, <3>4, <3>5 DEF A
  <2>6. ~(c > Least(named))
    <3>1. least = Least(named)
      BY <2>4
    <3> HIDE DEF least, named
    <3> QED  BY <2>1, <2>5, <3>1
  <2>7. PICK d \in routes : d \notin anchored
    <3>1. only \in routes
      BY <2>2, <2>3
    <3>2. PICK y \in routes : y # only
      BY <1>2, <3>1, TwoAreTwo
    <3> QED  BY <2>3, <3>2
  <2>8. PlacesOf(question, c) \subseteq PlacesOfAll(question, leading)
    BY <1>5 DEF PlacesOfAll
  <2> HIDE DEF leading, unanchored, anchored, places, from, named
  <2>9. PlacesOf(question, c) \subseteq places(d)
    BY <1>1, <2>7, <2>8
  <2> QED  BY <2>6, <2>9 DEF places, named
<1> QED  BY <1>4, <1>5

\* A planned comparison keeps its sides.
LEMMA PlansKeepSides ==
  ASSUME NEW q, IsComparison(q)
  PROVE  KeepsSides(q.question, q.aliases, q.ids, q.routes, q.enabled)
<1> DEFINE question == q.question
           routes == q.routes
           bound == Remapped(q.aliases, q.ids)
           plan == Plan(question, bound, routes, q.enabled)
           places(d) == ToSet(plan.queries[d])
           Named0 == {b \in DOMAIN question : Mentioned(question[b], bound, routes) # {}}
           first == Least(Named0)
           names == {t \in {Mentioned(question[c], bound, routes) : c \in DOMAIN question} : t # {}}
           whole(c) == ToSet(WholeClause(question, c))
           named(c) == Mentioned(question[c], bound, routes)
           own(c, d) == {<<c, t>> : t \in Named(question[c], bound[d])}
<1> SUFFICES ASSUME Remappable(q.aliases, q.ids)
             PROVE  IF plan.code # "none"
                    THEN \A d \in routes : plan.queries[d] = Everything(question)
                    ELSE /\ Unambiguous(bound) /\ names # {}
                         /\ \A d \in routes : places(d) # {}
                         /\ \A c \in DOMAIN question :
                              CASE named(c) = {} ->
                                     /\ \E d \in routes : whole(c) \subseteq places(d)
                                     /\ c > first => \A d \in routes : whole(c) \subseteq places(d)
                                [] Cardinality(named(c)) = 1 ->
                                     \A d \in routes :
                                       IF d \in named(c) THEN whole(c) \subseteq places(d)
                                       ELSE whole(c) \cap places(d) = {}
                                [] OTHER ->
                                     \A d, e \in routes :
                                       d # e /\ Cardinality(own(c, d)) = 1
                                             /\ Cardinality(own(c, e)) = 1 =>
                                         own(c, d) \subseteq places(d) /\ own(c, e) \cap places(d) = {}
  BY DEF KeepsSides
<1>1. CASE plan.code # "none"
  <2>1. plan.queries = [d \in routes |-> Everything(question)]
    BY <1>1 DEF Plan
  <2> QED  BY <1>1, <2>1
<1>2. CASE plan.code = "none"
  <2>1. /\ plan.queries = Queries(question, bound, routes)
        /\ Refusal(question, bound, routes, q.enabled) = "none"
    BY <1>2 DEF Plan
  <2>2. /\ Cardinality(routes) = 2 /\ routes \subseteq DOMAIN bound
        /\ Decomposable(question, bound, routes)
    BY <2>1 DEF Refusal
  <2>3. IsCut(question, bound, routes)
    <3>1. IsBound(bound)
      BY RemappedIsBound
    <3>2. IsQuestion(question) /\ IsFiniteSet(routes)
      BY DEF IsComparison, IsQuestion
    <3> QED  BY <2>2, <3>1, <3>2 DEF IsCut, Decomposable
  <2>4. Unambiguous(bound)
    BY <2>3 DEF IsCut, IsBound
  <2>5. \A d \in routes : places(d) = ToSet(Queries(question, bound, routes)[d])
    BY <2>1
  <2>6. names # {}
    <3>1. PICK d \in routes : Anchors(question, bound, d) # {}
      BY <2>2 DEF Decomposable
    <3>2. PICK c \in DOMAIN question : Named(question[c], bound[d]) # {}
      BY <3>1 DEF Anchors
    <3>3. d \in named(c)
      BY <3>2 DEF Mentioned
    <3> QED  BY <3>3
  <2> HIDE DEF question, bound, routes, plan, places
  <2>7. \A d \in routes : places(d) # {}
    <3> SUFFICES ASSUME NEW d \in routes PROVE ToSet(Queries(question, bound, routes)[d]) # {}
      BY <2>5
    <3>1. Queries(question, bound, routes)[d] # <<>>
      BY <2>2 DEF Decomposable
    <3>2. Queries(question, bound, routes)[d] \in Seq(Place)
      BY <2>3, QueriesAreJoined
    <3> DEFINE mine == Queries(question, bound, routes)[d]
    <3> HIDE DEF mine
    <3>3. mine # <<>> /\ mine \in Seq(Place)
      BY <3>1, <3>2 DEF mine
    <3>4. 1 \in DOMAIN mine
      BY <3>3
    <3>5. mine[1] \in ToSet(mine)
      BY <3>4 DEF ToSet
    <3> QED  BY <3>5 DEF mine
  <2>8. ASSUME NEW c \in DOMAIN question PROVE whole(c) = PlacesOf(question, c)
    BY <2>3, WholeHasItsPlaces DEF IsCut
  <2>9. ASSUME NEW c \in DOMAIN question, named(c) = {}
        PROVE  /\ \E d \in routes : whole(c) \subseteq places(d)
               /\ c > first => \A d \in routes : whole(c) \subseteq places(d)
    <3>1. c \in Unanchored(question, bound, routes)
      BY <2>9 DEF Unanchored
    <3> DEFINE query(d) == ToSet(Queries(question, bound, routes)[d])
    <3>2. /\ \E d \in routes : PlacesOf(question, c) \subseteq query(d)
          /\ c > first => \A d \in routes : PlacesOf(question, c) \subseteq query(d)
      BY <2>3, <3>1, UnnamedAreKept
    <3> HIDE DEF query, first, whole
    <3> QED  BY <2>5, <2>8, <3>2 DEF query
  <2>10. ASSUME NEW c \in DOMAIN question, named(c) # {}, NEW d \in routes
         PROVE  /\ ToSet(Contribution(question, c, bound, routes)[d]) \subseteq places(d)
                /\ \A t : <<c, t>> \in places(d) =>
                     <<c, t>> \in ToSet(Contribution(question, c, bound, routes)[d])
    <3>1. c \notin Unanchored(question, bound, routes)
      BY <2>10 DEF Unanchored
    <3> QED  BY <2>3, <2>5, <3>1, PlacesAreOwn
  <2>11. ASSUME NEW c \in DOMAIN question, Cardinality(named(c)) = 1, named(c) # {}, NEW d \in routes
         PROVE  IF d \in named(c) THEN whole(c) \subseteq places(d)
                ELSE whole(c) \cap places(d) = {}
    <3> DEFINE mine == ToSet(Contribution(question, c, bound, routes)[d])
    <3>1. named(c) # routes
      BY <2>2, <2>11
    <3>2. mine = IF d \in named(c) THEN PlacesOf(question, c) ELSE {}
      BY <2>3, <3>1, ContributionIsOwn
    <3>3. mine \subseteq places(d) /\ \A t : <<c, t>> \in places(d) => <<c, t>> \in mine
      BY <2>10, <2>11
    <3>4. \A p \in PlacesOf(question, c) : \E t : p = <<c, t>>
      BY DEF PlacesOf
    <3> HIDE DEF mine, named, whole
    <3> QED  BY <2>8, <3>2, <3>3, <3>4
  <2>12. ASSUME NEW c \in DOMAIN question, named(c) # {}, Cardinality(named(c)) # 1,
                NEW d \in routes, NEW e \in routes, d # e,
                Cardinality(own(c, d)) = 1, Cardinality(own(c, e)) = 1
         PROVE  own(c, d) \subseteq places(d) /\ own(c, e) \cap places(d) = {}
    <3> DEFINE mine == ToSet(Contribution(question, c, bound, routes)[d])
    <3>1. named(c) = routes
      <4> DEFINE N == named(c)
      <4>1. N \in SUBSET routes /\ N # {}
        BY <2>12 DEF Mentioned
      <4> HIDE DEF N
      <4>2. PICK x \in N : TRUE
        BY <4>1
      <4>3. IsFiniteSet(routes)
        BY <2>3 DEF IsCut
      <4>4. PICK y \in routes : y # x /\ routes = {x, y}
        BY <2>2, <4>1, <4>2, <4>3, TwoAreTwo
      <4>5. N = {x} \/ N = routes
        BY <4>1, <4>2, <4>4
      <4>6. Cardinality({x}) = 1
        BY FS_Singleton
      <4>7. Cardinality(N) # 1
        BY <2>12 DEF N
      <4> QED  BY <4>5, <4>6, <4>7 DEF N
    <3>2. /\ Contribution(question, c, bound, routes) = SplitClause(question, c, bound, routes)
          /\ SplitClause(question, c, bound, routes) # <<>>
      BY <2>3, <3>1 DEF Contribution, IsCut
    <3>3. own(c, d) \subseteq mine /\ own(c, e) \cap mine = {}
      BY <2>3, <2>12, <3>1, <3>2, SplitKeepsSides DEF IsCut
    <3>4. mine \subseteq places(d) /\ \A t : <<c, t>> \in places(d) => <<c, t>> \in mine
      BY <2>10, <2>12
    <3>5. \A p \in own(c, e) : \E t : p = <<c, t>>
      OBVIOUS
    <3> HIDE DEF mine, own
    <3> QED  BY <3>3, <3>4, <3>5
  <2>13. ASSUME NEW c \in DOMAIN question
         PROVE  CASE named(c) = {} ->
                       /\ \E d \in routes : whole(c) \subseteq places(d)
                       /\ c > first => \A d \in routes : whole(c) \subseteq places(d)
                  [] Cardinality(named(c)) = 1 ->
                       \A d \in routes :
                         IF d \in named(c) THEN whole(c) \subseteq places(d)
                         ELSE whole(c) \cap places(d) = {}
                  [] OTHER ->
                       \A d, e \in routes :
                         d # e /\ Cardinality(own(c, d)) = 1 /\ Cardinality(own(c, e)) = 1 =>
                           own(c, d) \subseteq places(d) /\ own(c, e) \cap places(d) = {}
    <3>1. named(c) = {} => Cardinality(named(c)) # 1
      BY FS_EmptySet
    <3> HIDE DEF named, whole, own, first
    <3>2. CASE named(c) = {}
      BY <2>9, <3>1, <3>2
    <3>3. CASE named(c) # {} /\ Cardinality(named(c)) = 1
      BY <2>11, <3>3
    <3>4. CASE named(c) # {} /\ Cardinality(named(c)) # 1
      BY <2>12, <3>4
    <3> QED  BY <3>2, <3>3, <3>4
  <2> HIDE DEF names, named, whole, own, first
  <2> QED  BY <1>2, <2>4, <2>6, <2>7, <2>13
<1> HIDE DEF plan
<1> QED  BY <1>1, <1>2

\* A decomposed question leaves every route a query that is about its own document, and
\* one that is not decomposed goes to every route: the plans of ComparisonDecomposer.plan
\* keep the two sides apart, for every question, aliases, ids and routes.
THEOREM ComparisonsAlwaysKeepSides == PlanSpec => []ComparisonKeepsSides
<1> DEFINE Inv == planned \subseteq Comparisons
<1>1. PlanInit => Inv
  BY DEF PlanInit
<1>2. Inv /\ [PlanQuestion]_planned => Inv'
  BY DEF PlanQuestion
<1>3. Inv => ComparisonKeepsSides
  <2> SUFFICES ASSUME Inv, NEW q \in planned
               PROVE  KeepsSides(q.question, q.aliases, q.ids, q.routes, q.enabled)
    BY DEF ComparisonKeepsSides
  <2>1. IsComparison(q)
    BY ComparisonAssumption
  <2> QED  BY <2>1, PlansKeepSides
<1> QED  BY <1>1, <1>2, <1>3, PTL DEF PlanSpec

-----------------------------------------------------------------------------
(* Cutting. *)

Span == Int \X Int

\* The spans B start where S says, each ends where the next one starts, the last at end.
Tiles(B, S, end) ==
  /\ B \in Seq(Span) /\ Len(B) \in Nat /\ DOMAIN B = 1..Len(B)
  /\ \A i \in 1..Len(B) : /\ B[i][1] \in S /\ B[i][1] \in Int /\ B[i][2] \in Int
                          /\ B[i][1] < B[i][2] /\ B[i][2] <= end
                          /\ B[i][2] = Until(S, B[i][1], end)
                          /\ i < Len(B) => B[i][2] = B[i + 1][1]
                          /\ i = Len(B) => B[i][2] = end
  /\ \A i, j \in 1..Len(B) : i < j => B[i][1] < B[j][1] /\ B[i][2] <= B[j][1]
  /\ \A a \in S : \E i \in 1..Len(B) : B[i][1] = a
  /\ \A a \in Int, b \in S : b <= a /\ a < end =>
       \E i \in 1..Len(B) : B[i][1] <= a /\ a < B[i][2]

\* A span that starts with a start ends at the next one, or at the end.
LEMMA UntilIsNext ==
  ASSUME NEW S, IsFiniteSet(S), S \subseteq Int, NEW end \in Int, NEW a \in Int, a < end
  PROVE  /\ Until(S, a, end) \in {b \in S : b > a} \cup {end}
         /\ Until(S, a, end) \in Int /\ a < Until(S, a, end)
         /\ \A b \in S : b > a => Until(S, a, end) <= b
         /\ Until(S, a, end) <= end
<1> DEFINE later == {b \in S : b > a} \cup {end}
<1>1. IsFiniteSet(later)
  <2> DEFINE T == {b \in S : b > a}
  <2>1. T \subseteq S
    OBVIOUS
  <2> HIDE DEF T
  <2>2. IsFiniteSet(T)
    BY <2>1, FS_Subset
  <2>3. IsFiniteSet(T \cup {end})
    BY <2>2, FS_AddElement
  <2> QED  BY <2>3 DEF T
<1>2. later \subseteq Int /\ later # {} /\ \A b \in later : b > a
  OBVIOUS
<1>3. Until(S, a, end) = Least(later)
  BY DEF Until
<1>4. end \in later /\ \A b \in S : b > a => b \in later
  OBVIOUS
<1>5. later = {b \in S : b > a} \cup {end}
  OBVIOUS
<1> HIDE DEF later
<1>6. Least(later) \in later /\ \A y \in later : Least(later) <= y
  BY <1>1, <1>2, ExtremesAreChosen
<1> QED  BY <1>2, <1>3, <1>4, <1>5, <1>6

\* What is cut at sorted starts leaves no gap and does not overlap.
LEMMA BetweenTiles ==
  ASSUME NEW S, IsFiniteSet(S), S \subseteq Int, NEW end \in Int, \A a \in S : a < end
  PROVE  Tiles(Between(Ascending(S), end), S, end)
<1> DEFINE s == Ascending(S)
           n == Cardinality(S)
           B == Between(s, end)
<1>1. /\ n \in Nat /\ s \in [1..n -> S] /\ ToSet(s) = S
      /\ \A i, j \in 1..n : i < j <=> s[i] < s[j]
  BY AscendingSorts
<1>2. DOMAIN s = 1..n /\ Len(s) = n
  BY <1>1
<1>3. \A i \in 1..n : s[i] \in S /\ s[i] \in Int /\ s[i] < end
  BY <1>1
<1>4. \A a \in S : \E i \in 1..n : s[i] = a
  BY <1>1, <1>2 DEF ToSet
<1> HIDE DEF s, n
<1>5. B = [i \in 1..n |-> <<s[i], IF i < n THEN s[i + 1] ELSE end>>]
  BY <1>2 DEF Between
<1>6. \A i \in 1..n : i < n => i + 1 \in 1..n
  BY <1>1
<1>7. /\ B \in Seq(Span) /\ Len(B) = n /\ DOMAIN B = 1..n
  <2>1. B \in [1..n -> Span]
    BY <1>3, <1>5, <1>6 DEF Span
  <2> HIDE DEF B
  <2> QED  BY <1>1, <2>1
<1>8. \A i \in 1..n : B[i][1] = s[i] /\ B[i][2] = (IF i < n THEN s[i + 1] ELSE end)
  BY <1>5
<1> HIDE DEF B
<1>9. ASSUME NEW i \in 1..n
      PROVE  /\ B[i][1] \in S /\ B[i][1] \in Int /\ B[i][2] \in Int
             /\ B[i][1] < B[i][2] /\ B[i][2] <= end
             /\ B[i][2] = Until(S, B[i][1], end)
             /\ i < n => B[i][2] = B[i + 1][1]
             /\ i = n => B[i][2] = end
  <2>1. B[i][1] \in S /\ B[i][1] \in Int /\ B[i][1] < end
    BY <1>3, <1>8
  <2>2. i < n => B[i][2] = s[i + 1] /\ i + 1 \in 1..n /\ i < i + 1
    BY <1>1, <1>6, <1>8
  <2>3. i < n => s[i] < s[i + 1] /\ s[i + 1] < end /\ s[i + 1] \in Int
    BY <1>1, <1>3, <2>2
  <2>4. i < n => B[i][2] = B[i + 1][1]
    BY <1>8, <2>2
  <2>5. ~ (i < n) => B[i][2] = end /\ i = n
    BY <1>1, <1>8
  <2>6. B[i][1] < B[i][2] /\ B[i][2] <= end /\ B[i][2] \in Int
    BY <1>8, <2>1, <2>2, <2>3, <2>5
  <2> DEFINE u == Until(S, s[i], end)
  <2>7. /\ u \in {b \in S : b > s[i]} \cup {end} /\ u \in Int /\ s[i] < u
        /\ \A b \in S : b > s[i] => u <= b
        /\ u <= end
    BY <1>3, UntilIsNext
  <2> HIDE DEF u
  <2>8. CASE i < n
    <3>1. u <= s[i + 1]
      BY <1>3, <2>2, <2>3, <2>7, <2>8
    <3>2. u # end
      BY <2>3, <2>8, <3>1
    <3>3. PICK j \in 1..n : s[j] = u
      BY <1>4, <2>7, <3>2
    <3>4. u = s[i + 1]
      <4>1. i < j
        BY <1>1, <2>7, <3>3
      <4>2. j = i + 1 \/ i + 1 < j
        BY <4>1
      <4>3. s[i + 1] <= s[j]
        BY <1>1, <1>3, <2>2, <2>8, <4>2
      <4> QED  BY <2>3, <2>7, <2>8, <3>1, <3>3, <4>3
    <3> QED  BY <1>8, <2>1, <2>2, <2>4, <2>5, <2>6, <2>8, <3>4 DEF u
  <2>9. CASE ~ (i < n)
    <3>1. u \notin S
      <4>1. ASSUME NEW j \in 1..n, s[j] = u PROVE FALSE
        <5>1. i < j
          BY <1>1, <2>7, <4>1
        <5> QED  BY <1>1, <2>9, <5>1
      <4> QED  BY <1>4, <4>1
    <3>2. u = end
      BY <2>7, <3>1
    <3> QED  BY <1>8, <2>1, <2>5, <2>6, <2>9, <3>2 DEF u
  <2> QED  BY <2>8, <2>9
<1>10. ASSUME NEW i \in 1..n, NEW j \in 1..n, i < j
       PROVE  B[i][1] < B[j][1] /\ B[i][2] <= B[j][1]
  <2>1. s[i] < s[j] /\ i < n /\ i + 1 \in 1..n
    BY <1>1, <1>10
  <2>2. i + 1 = j \/ i + 1 < j
    BY <1>10
  <2>3. s[i + 1] <= s[j]
    BY <1>1, <1>3, <2>1, <2>2
  <2> QED  BY <1>8, <2>1, <2>3
<1>11. ASSUME NEW a \in S PROVE \E i \in 1..n : B[i][1] = a
  BY <1>4, <1>8
<1>12. ASSUME NEW a \in Int, NEW b \in S, b <= a, a < end
       PROVE  \E i \in 1..n : B[i][1] <= a /\ a < B[i][2]
  <2> DEFINE I == {i \in 1..n : s[i] <= a}
  <2>1. IsFiniteSet(I) /\ I \subseteq Int
    <3>1. I \subseteq 1..n /\ IsFiniteSet(1..n)
      BY FS_Interval, <1>1
    <3> HIDE DEF I
    <3>2. IsFiniteSet(I)
      BY <3>1, FS_Subset
    <3>3. I \subseteq Int
      BY <3>1
    <3> QED  BY <3>2, <3>3
  <2>2. I # {}
    <3>1. PICK j \in 1..n : s[j] = b
      BY <1>4
    <3> QED  BY <1>12, <3>1
  <2>3. \A i \in 1..n : s[i] <= a => i \in I
    OBVIOUS
  <2>4. \A i \in I : i \in 1..n /\ s[i] <= a
    OBVIOUS
  <2> HIDE DEF I
  <2>5. PICK i \in I : \A j \in I : j <= i
    BY <2>1, <2>2, ExtremesExist
  <2>6. i \in 1..n /\ s[i] <= a /\ i \in Int
    BY <2>4
  <2>7. CASE i < n
    <3>1. i + 1 \in 1..n /\ ~ (i + 1 <= i)
      BY <1>6, <2>6, <2>7
    <3>2. ~ (s[i + 1] <= a)
      BY <2>3, <2>5, <3>1
    <3>3. a < B[i][2] /\ B[i][1] <= a
      BY <1>3, <1>8, <2>6, <2>7, <3>1, <3>2
    <3> QED  BY <2>6, <3>3
  <2>8. CASE ~ (i < n)
    <3>1. a < B[i][2] /\ B[i][1] <= a
      BY <1>8, <1>12, <2>6, <2>8
    <3> QED  BY <2>6, <3>1
  <2> QED  BY <2>7, <2>8
<1>13. \A a \in Int, b \in S : b <= a /\ a < end => \E i \in 1..n : B[i][1] <= a /\ a < B[i][2]
  BY <1>12
<1>14. Tiles(B, S, end)
  BY <1>1, <1>7, <1>9, <1>10, <1>11, <1>13 DEF Tiles
<1> QED  BY <1>14 DEF B, s

-----------------------------------------------------------------------------
(* The places of the lines. *)

LineRecord == [length : Nat \ {0}, level : Nat, major : {"no", "minor", "major"}, ends : BOOLEAN]

\* Pages of which none is empty, as ParseStatus passes them.
Whole(pages) ==
  /\ pages \in Seq(Seq(LineRecord)) /\ pages # <<>>
  /\ \A p \in DOMAIN pages : pages[p] # <<>>

Offset(page, l) == SumFunction([m \in 1..(l - 1) |-> page[m].length + 1])

\* The lines of a page, as if it were alone.
LEMMA PageHasItsLines ==
  ASSUME NEW page \in Seq(LineRecord), page # <<>>
  PROVE  /\ Len(page) \in Nat \ {0} /\ DOMAIN page = 1..Len(page)
         /\ PageLength(page) \in Nat \ {0}
         /\ \A l \in 1..Len(page) :
              /\ page[l] \in LineRecord /\ page[l].length \in Nat \ {0}
              /\ Offset(page, l) \in Nat
              /\ Offset(page, l) + page[l].length <= PageLength(page)
         /\ \A l, m \in 1..Len(page) : l < m => Offset(page, l) + page[l].length + 1 <= Offset(page, m)
         /\ Offset(page, 1) = 0
         /\ Offset(page, Len(page)) + page[Len(page)].length = PageLength(page)
<1> DEFINE n == Len(page)
           w == [m \in 1..n |-> page[m].length + 1]
<1>1. n \in Nat \ {0} /\ DOMAIN page = 1..n /\ \A l \in 1..n : page[l] \in LineRecord
  OBVIOUS
<1>2. \A l \in 1..n : page[l].length \in Nat \ {0}
  BY <1>1 DEF LineRecord
<1>3. w \in [1..n -> Nat] /\ \A l \in 1..n : w[l] = page[l].length + 1
  BY <1>2
<1>4. \A l \in 1..n : Offset(page, l) = SumTo(w, l - 1)
  <2> SUFFICES ASSUME NEW l \in 1..n PROVE Offset(page, l) = SumTo(w, l - 1)
    OBVIOUS
  <2>1. [m \in 1..(l - 1) |-> page[m].length + 1] = [m \in 1..(l - 1) |-> w[m]]
    BY <1>1
  <2> QED  BY <2>1 DEF Offset, SumTo
<1>5. PageLength(page) = SumTo(w, n) - 1
  <2>1. [l \in DOMAIN page |-> page[l].length + 1] = [m \in 1..n |-> w[m]]
    BY <1>1
  <2> QED  BY <2>1 DEF PageLength, SumTo
<1> HIDE DEF w, n
<1>6. /\ SumTo(w, 0) = 0
      /\ \A k \in 0..n : SumTo(w, k) \in Nat
      /\ \A k \in 1..n : SumTo(w, k) = SumTo(w, k - 1) + w[k]
  BY <1>1, <1>3, SumsGrow
<1>7. \A i, j \in 0..n : i < j => SumTo(w, i) + w[i + 1] <= SumTo(w, j)
  BY <1>1, <1>3, SumsAreOrdered
<1>8. ASSUME NEW l \in 1..n
      PROVE  /\ Offset(page, l) \in Nat
             /\ Offset(page, l) + page[l].length <= PageLength(page)
             /\ \A m \in 1..n : l < m => Offset(page, l) + page[l].length + 1 <= Offset(page, m)
  <2>1. l - 1 \in 0..n /\ n \in 0..n /\ l - 1 < n /\ (l - 1) + 1 = l
    BY <1>1
  <2>2. SumTo(w, l - 1) + w[l] <= SumTo(w, n) /\ SumTo(w, l - 1) \in Nat /\ SumTo(w, n) \in Nat
    BY <1>6, <1>7, <2>1
  <2>3. ASSUME NEW m \in 1..n, l < m
        PROVE  Offset(page, l) + page[l].length + 1 <= Offset(page, m)
    <3>1. m - 1 \in 0..n /\ l - 1 < m - 1
      BY <1>1, <2>3
    <3>2. SumTo(w, l - 1) + w[l] <= SumTo(w, m - 1) /\ SumTo(w, m - 1) \in Nat
      BY <1>6, <1>7, <2>1, <3>1
    <3> QED  BY <1>2, <1>3, <1>4, <2>2, <3>2
  <2> QED  BY <1>2, <1>3, <1>4, <1>5, <2>2, <2>3
<1>9. Offset(page, 1) = 0 /\ Offset(page, n) + page[n].length = PageLength(page)
  <2>1. 1 \in 1..n /\ n \in 1..n /\ 1 - 1 = 0
    BY <1>1
  <2>2. SumTo(w, n) = SumTo(w, n - 1) + w[n]
    BY <1>6, <2>1
  <2>3. n - 1 \in 0..n
    BY <2>1
  <2>4. SumTo(w, n - 1) \in Nat
    BY <1>6, <2>3
  <2> QED  BY <1>2, <1>3, <1>4, <1>5, <1>6, <2>1, <2>2, <2>4
<1>10. PageLength(page) \in Nat \ {0}
  <2>1. 1 \in 1..n /\ n \in 0..n
    BY <1>1
  <2>2. PageLength(page) \in Int /\ Offset(page, 1) + page[1].length <= PageLength(page)
    BY <1>5, <1>6, <1>8, <2>1
  <2> QED  BY <1>2, <1>9, <2>1, <2>2
<1> QED  BY <1>1, <1>2, <1>8, <1>9, <1>10 DEF n

\* The pages follow each other.
LEMMA PagesFollow ==
  ASSUME NEW pages, Whole(pages)
  PROVE  /\ Len(pages) \in Nat \ {0} /\ DOMAIN pages = 1..Len(pages)
         /\ \A p \in 1..Len(pages) : /\ pages[p] \in Seq(LineRecord) /\ pages[p] # <<>>
                                     /\ PageStart(pages, p) \in Nat
                                     /\ PageLength(pages[p]) \in Nat \ {0}
         /\ \A p, q \in 1..Len(pages) :
              p < q => PageStart(pages, p) + PageLength(pages[p]) + 2 <= PageStart(pages, q)
         /\ PageStart(pages, 1) = 0
         /\ TextLength(pages) \in Nat
         /\ \A p \in 1..Len(pages) : PageStart(pages, p) + PageLength(pages[p]) <= TextLength(pages)
<1> DEFINE n == Len(pages)
           v == [q \in 1..n |-> PageLength(pages[q]) + 2]
<1>1. n \in Nat \ {0} /\ DOMAIN pages = 1..n
  BY DEF Whole
<1>2. \A p \in 1..n : pages[p] \in Seq(LineRecord) /\ pages[p] # <<>>
  <2>1. pages \in Seq(Seq(LineRecord)) /\ \A p \in DOMAIN pages : pages[p] # <<>>
    BY DEF Whole
  <2>2. \A p \in DOMAIN pages : pages[p] \in Seq(LineRecord)
    BY <2>1
  <2> QED  BY <1>1, <2>1, <2>2
<1>3. \A p \in 1..n : PageLength(pages[p]) \in Nat \ {0}
  BY <1>2, PageHasItsLines
<1>4. v \in [1..n -> Nat] /\ \A p \in 1..n : v[p] = PageLength(pages[p]) + 2
  BY <1>3
<1>5. \A p \in 1..n : PageStart(pages, p) = SumTo(v, p - 1)
  <2> SUFFICES ASSUME NEW p \in 1..n PROVE PageStart(pages, p) = SumTo(v, p - 1)
    OBVIOUS
  <2>1. [q \in 1..(p - 1) |-> PageLength(pages[q]) + 2] = [q \in 1..(p - 1) |-> v[q]]
    BY <1>1
  <2> QED  BY <2>1 DEF PageStart, SumTo
<1> HIDE DEF v, n
<1>6. /\ SumTo(v, 0) = 0
      /\ \A k \in 0..n : SumTo(v, k) \in Nat
  BY <1>1, <1>4, SumsGrow
<1>7. \A i, j \in 0..n : i < j => SumTo(v, i) + v[i + 1] <= SumTo(v, j)
  BY <1>1, <1>4, SumsAreOrdered
<1>8. \A p \in 1..n : PageStart(pages, p) \in Nat
  <2> SUFFICES ASSUME NEW p \in 1..n PROVE PageStart(pages, p) \in Nat
    OBVIOUS
  <2>1. p - 1 \in 0..n
    BY <1>1
  <2> QED  BY <1>5, <1>6, <2>1
<1>9. ASSUME NEW p \in 1..n, NEW q \in 1..n, p < q
      PROVE  PageStart(pages, p) + PageLength(pages[p]) + 2 <= PageStart(pages, q)
  <2>1. p - 1 \in 0..n /\ q - 1 \in 0..n /\ p - 1 < q - 1 /\ (p - 1) + 1 = p
    BY <1>1, <1>9
  <2>2. SumTo(v, p - 1) + v[p] <= SumTo(v, q - 1)
    BY <1>7, <2>1
  <2> QED  BY <1>3, <1>4, <1>5, <1>8, <2>2
<1>10. PageStart(pages, 1) = 0
  BY <1>1, <1>5, <1>6
<1>11. n \in 1..n /\ TextLength(pages) = PageStart(pages, n) + PageLength(pages[n])
  BY <1>1 DEF TextLength, n
<1>12. TextLength(pages) \in Nat
  BY <1>3, <1>8, <1>11
<1>13. ASSUME NEW p \in 1..n
       PROVE  PageStart(pages, p) + PageLength(pages[p]) <= TextLength(pages)
  <2>1. CASE p = n
    BY <1>3, <1>8, <1>11, <2>1
  <2>2. CASE p < n
    BY <1>3, <1>8, <1>9, <1>11, <2>2
  <2> QED  BY <1>1, <2>1, <2>2
<1> QED  BY <1>1, <1>2, <1>3, <1>8, <1>9, <1>10, <1>12, <1>13 DEF n

\* One line lies before another, on its page or on an earlier one.
Precedes(x, y) == x.page < y.page \/ (x.page = y.page /\ x.number < y.number)

\* L are lines, with their places in a text of this length.
Placed(L, pages, length) ==
  /\ IsFiniteSet(L) /\ length \in Nat
  /\ \A x \in L : /\ x.page \in 1..Len(pages) /\ x.number \in 1..Len(pages[x.page])
                  /\ x = LineAt(pages, x.page, x.number)
                  /\ x.span[1] \in Int /\ x.span[2] \in Int
                  /\ 0 <= x.span[1] /\ x.span[1] < x.span[2] /\ x.span[2] <= length
  /\ \A p \in 1..Len(pages) : \A l \in 1..Len(pages[p]) :
       LineAt(pages, p, l) \in L /\ LineAt(pages, p, l).page = p /\ LineAt(pages, p, l).number = l
  /\ \A x, y \in L : Precedes(x, y) => x.span[2] < y.span[1]
  /\ \E x \in L : x.span[1] = 0

\* The lines of a text that has no blank page lie in it apart and in order.
LEMMA LinesArePlaced ==
  ASSUME NEW pages, Whole(pages)
  PROVE  Placed(Lines(pages), pages, TextLength(pages))
<1> DEFINE n == Len(pages)
           L == Lines(pages)
           At(p, l) == LineAt(pages, p, l)
<1>1. /\ n \in Nat \ {0} /\ DOMAIN pages = 1..n
      /\ \A p \in 1..n : /\ pages[p] \in Seq(LineRecord) /\ pages[p] # <<>>
                         /\ PageStart(pages, p) \in Nat
                         /\ PageLength(pages[p]) \in Nat \ {0}
      /\ \A p, q \in 1..n :
              p < q => PageStart(pages, p) + PageLength(pages[p]) + 2 <= PageStart(pages, q)
      /\ PageStart(pages, 1) = 0
      /\ TextLength(pages) \in Nat
      /\ \A p \in 1..n : PageStart(pages, p) + PageLength(pages[p]) <= TextLength(pages)
  BY PagesFollow
<1>2. \A p \in 1..n : DOMAIN pages[p] = 1..Len(pages[p]) /\ Len(pages[p]) \in Nat \ {0}
  BY <1>1, PageHasItsLines
<1>3. \A p \in 1..n : \A l \in 1..Len(pages[p]) :
        /\ pages[p][l].length \in Nat \ {0}
        /\ Offset(pages[p], l) \in Nat
        /\ Offset(pages[p], l) + pages[p][l].length <= PageLength(pages[p])
        /\ \A m \in 1..Len(pages[p]) :
             l < m => Offset(pages[p], l) + pages[p][l].length + 1 <= Offset(pages[p], m)
  BY <1>1, PageHasItsLines
<1>4. \A p, l : /\ At(p, l).page = p /\ At(p, l).number = l
                /\ At(p, l).span[1] = PageStart(pages, p) + Offset(pages[p], l)
                /\ At(p, l).span[2] = PageStart(pages, p) + Offset(pages[p], l) + pages[p][l].length
  BY DEF LineAt, LineStart, Offset
<1>5. \A x \in L : \E p \in 1..n : \E l \in 1..Len(pages[p]) : x = At(p, l)
  BY <1>1, <1>2 DEF Lines
<1>6. \A p \in 1..n : \A l \in 1..Len(pages[p]) : At(p, l) \in L
  <2> SUFFICES ASSUME NEW p \in 1..n, NEW l \in 1..Len(pages[p]) PROVE At(p, l) \in L
    OBVIOUS
  <2> DEFINE OfPage(q) == {LineAt(pages, q, m) : m \in DOMAIN pages[q]}
  <2>1. p \in DOMAIN pages /\ l \in DOMAIN pages[p]
    BY <1>1, <1>2
  <2>2. At(p, l) \in OfPage(p)
    BY <2>1
  <2>3. L = UNION {OfPage(q) : q \in DOMAIN pages}
    BY DEF Lines
  <2> HIDE DEF OfPage, L, At
  <2> QED  BY <2>1, <2>2, <2>3
<1>7. IsFiniteSet(L)
  <2> DEFINE OfPage(p) == {At(p, l) : l \in 1..Len(pages[p])}
             F == [p \in 1..n |-> OfPage(p)]
             S == {F[p] : p \in 1..n}
  <2>1. ASSUME NEW p \in 1..n PROVE IsFiniteSet(F[p])
    <3> DEFINE f == [l \in 1..Len(pages[p]) |-> At(p, l)]
               D == 1..Len(pages[p])
    <3>1. IsFiniteSet(D)
      BY <1>2, FS_Interval
    <3>2. F[p] = {f[l] : l \in D}
      OBVIOUS
    <3> HIDE DEF f, D, F
    <3>3. IsFiniteSet({f[l] : l \in D})
      BY <3>1, ImageCounts
    <3> QED  BY <3>2, <3>3
  <2>2. L = UNION S
    BY <1>1, <1>2 DEF Lines
  <2> HIDE DEF F
  <2>3. IsFiniteSet(1..n)
    BY <1>1, FS_Interval
  <2>4. IsFiniteSet(S)
    BY <2>3, ImageCounts
  <2>5. \A T \in S : IsFiniteSet(T)
    BY <2>1
  <2> HIDE DEF S
  <2> QED  BY <2>2, <2>4, <2>5, FS_UNION
<1> HIDE DEF At, n, L
<1>8. ASSUME NEW x \in L
      PROVE  /\ x.page \in 1..n /\ x.number \in 1..Len(pages[x.page])
             /\ x = At(x.page, x.number)
             /\ x.span[1] \in Int /\ x.span[2] \in Int
             /\ 0 <= x.span[1] /\ x.span[1] < x.span[2] /\ x.span[2] <= TextLength(pages)
  <2>1. PICK p \in 1..n : \E l \in 1..Len(pages[p]) : x = At(p, l)
    BY <1>5
  <2>2. PICK l \in 1..Len(pages[p]) : x = At(p, l)
    BY <2>1
  <2>3. x.page = p /\ x.number = l
    BY <1>4, <2>2
  <2>4. /\ x.span[1] = PageStart(pages, p) + Offset(pages[p], l)
        /\ x.span[2] = PageStart(pages, p) + Offset(pages[p], l) + pages[p][l].length
    BY <1>4, <2>2
  <2> DEFINE a == PageStart(pages, p)
             o == Offset(pages[p], l)
             k == pages[p][l].length
             m == PageLength(pages[p])
             t == TextLength(pages)
  <2>5. a \in Nat /\ o \in Nat /\ k \in Nat \ {0} /\ m \in Nat /\ t \in Nat /\ o + k <= m /\ a + m <= t
    BY <1>1, <1>3
  <2>6. x.span[1] = a + o /\ x.span[2] = a + o + k
    BY <2>4
  <2> HIDE DEF a, o, k, m, t
  <2>7. /\ x.span[1] \in Int /\ x.span[2] \in Int
        /\ 0 <= x.span[1] /\ x.span[1] < x.span[2] /\ x.span[2] <= t
    BY <2>5, <2>6
  <2> QED  BY <2>2, <2>3, <2>7 DEF t
<1>9. ASSUME NEW x \in L, NEW y \in L, Precedes(x, y) PROVE x.span[2] < y.span[1]
  <2> DEFINE p == x.page
             l == x.number
             q == y.page
             m == y.number
  <2>1. /\ p \in 1..n /\ l \in 1..Len(pages[p]) /\ x = At(p, l)
        /\ q \in 1..n /\ m \in 1..Len(pages[q]) /\ y = At(q, m)
    BY <1>8
  <2>2. p < q \/ (p = q /\ l < m)
    BY <1>9 DEF Precedes
  <2> HIDE DEF p, l, q, m
  <2>3. /\ x.span[2] = PageStart(pages, p) + Offset(pages[p], l) + pages[p][l].length
        /\ y.span[1] = PageStart(pages, q) + Offset(pages[q], m)
    BY <1>4, <2>1
  <2> DEFINE a == PageStart(pages, p)
             o == Offset(pages[p], l)
             k == pages[p][l].length
             b == PageStart(pages, q)
             u == Offset(pages[q], m)
             z == PageLength(pages[p])
  <2>4. a \in Nat /\ b \in Nat /\ z \in Nat
    BY <1>1, <2>1
  <2>5. o \in Nat /\ u \in Nat /\ k \in Nat /\ o + k <= z
    BY <1>3, <2>1
  <2>6. x.span[2] = a + o + k /\ y.span[1] = b + u
    BY <2>3
  <2>7. CASE p < q
    <3>1. a + z + 2 <= b
      BY <1>1, <2>1, <2>7
    <3> HIDE DEF a, o, k, b, u, z
    <3> QED  BY <2>4, <2>5, <2>6, <3>1
  <2>8. CASE p = q /\ l < m
    <3>1. o + k + 1 <= u /\ a = b
      BY <1>3, <2>1, <2>8
    <3> HIDE DEF a, o, k, b, u, z
    <3> QED  BY <2>4, <2>5, <2>6, <3>1
  <2> QED  BY <2>2, <2>7, <2>8
<1>10. \E x \in L : x.span[1] = 0
  <2>1. 1 \in 1..n
    BY <1>1
  <2>2. 1 \in 1..Len(pages[1])
    BY <1>2, <2>1
  <2>3. Offset(pages[1], 1) = 0 /\ PageStart(pages, 1) = 0
    BY <1>1, <2>1, PageHasItsLines
  <2>4. At(1, 1) \in L /\ At(1, 1).span[1] = 0
    BY <1>4, <1>6, <2>1, <2>2, <2>3
  <2> QED  BY <2>4
<1>11. \A p \in 1..n : \A l \in 1..Len(pages[p]) :
         At(p, l) \in L /\ At(p, l).page = p /\ At(p, l).number = l
  BY <1>4, <1>6
<1>12. TextLength(pages) \in Nat
  BY <1>1
<1> QED  BY <1>7, <1>8, <1>9, <1>10, <1>11, <1>12 DEF Placed, n, L, At

LineStarts(L) == {x.span[1] : x \in L}

\* Of two lines the one that starts first ends before the other starts.
LEMMA LinesAreOrdered ==
  ASSUME NEW L, NEW pages, NEW length, Placed(L, pages, length), NEW x \in L, NEW y \in L
  PROVE  /\ x = y \/ Precedes(x, y) \/ Precedes(y, x)
         /\ x.span[1] < y.span[1] => x.span[2] < y.span[1]
         /\ x.span[1] = y.span[1] => x = y
         /\ x.span[1] < y.span[1] <=> Precedes(x, y)
<1>1. /\ x.page \in Int /\ x.number \in Int /\ x = LineAt(pages, x.page, x.number)
      /\ x.span[1] \in Int /\ x.span[2] \in Int /\ x.span[1] < x.span[2]
      /\ x.page \in 1..Len(pages) /\ x.number \in 1..Len(pages[x.page])
  BY DEF Placed
<1>2. /\ y.page \in Int /\ y.number \in Int /\ y = LineAt(pages, y.page, y.number)
      /\ y.span[1] \in Int /\ y.span[2] \in Int /\ y.span[1] < y.span[2]
  BY DEF Placed
<1>3. x = y \/ Precedes(x, y) \/ Precedes(y, x)
  <2>1. x.page = y.page /\ x.number = y.number => x = y
    BY <1>1, <1>2
  <2> QED  BY <1>1, <1>2, <2>1 DEF Precedes
<1>4. Precedes(x, y) => x.span[2] < y.span[1]
  BY DEF Placed
<1>5. Precedes(y, x) => y.span[2] < x.span[1]
  BY DEF Placed
<1> QED  BY <1>1, <1>2, <1>3, <1>4, <1>5

\* A span from the start of a line to that of another one, or to the end.
LineSpan(s, L, length) ==
  /\ s \in Span /\ s[1] < s[2]
  /\ s[1] \in LineStarts(L) /\ s[2] \in LineStarts(L) \cup {length}

\* S has starts of s, the first one among them.
Cuts(S, s) ==
  /\ IsFiniteSet(S) /\ S \subseteq Int /\ s[1] \in S
  /\ \A a \in S : s[1] <= a /\ a < s[2]

\* The lines inside a span that starts with a line are those that start in it.
LEMMA InsideIsBetween ==
  ASSUME NEW pages, NEW length, Placed(Lines(pages), pages, length),
         NEW s, LineSpan(s, Lines(pages), length)
  PROVE  /\ \A x \in Lines(pages) :
              x \in Inside(pages, s) <=> s[1] <= x.span[1] /\ x.span[1] < s[2]
         /\ Inside(pages, s) \subseteq Lines(pages)
         /\ \E x \in Inside(pages, s) : x.span[1] = s[1]
<1> DEFINE L == Lines(pages)
           inside == Inside(pages, s)
<1>1. Placed(L, pages, length) /\ LineSpan(s, L, length)
  OBVIOUS
<1>2. \A x \in L : x \in inside <=> x.span[1] >= s[1] /\ x.span[2] <= s[2]
  BY DEF Inside
<1>3. inside \subseteq L
  BY DEF Inside
<1> HIDE DEF L, inside
<1>4. s[1] \in Int /\ s[2] \in Int /\ s[1] < s[2] /\ length \in Nat
  BY <1>1 DEF LineSpan, Span, Placed
<1>5. ASSUME NEW x \in L
      PROVE  /\ x.span[1] \in Int /\ x.span[2] \in Int /\ x.span[1] < x.span[2]
             /\ x.span[1] < s[2] => x.span[2] <= s[2]
  <2>1. x.span[1] \in Int /\ x.span[2] \in Int /\ x.span[1] < x.span[2] /\ x.span[2] <= length
    BY <1>1 DEF Placed
  <2>2. ASSUME NEW y \in L, s[2] = y.span[1], x.span[1] < s[2] PROVE x.span[2] <= s[2]
    BY <1>1, <1>4, <2>1, <2>2, LinesAreOrdered
  <2>3. s[2] = length \/ \E y \in L : s[2] = y.span[1]
    BY <1>1 DEF LineSpan, LineStarts
  <2> QED  BY <2>1, <2>2, <2>3
<1>6. \A x \in L : x \in inside <=> s[1] <= x.span[1] /\ x.span[1] < s[2]
  BY <1>2, <1>4, <1>5
<1>7. PICK x \in L : x.span[1] = s[1]
  BY <1>1 DEF LineSpan, LineStarts
<1>8. x \in inside
  BY <1>4, <1>6, <1>7
<1> QED  BY <1>3, <1>6, <1>7, <1>8 DEF L, inside

\* There are finitely many starts of lines.
LEMMA StartsAreFinite ==
  ASSUME NEW L, NEW pages, NEW length, Placed(L, pages, length), NEW S \in SUBSET LineStarts(L)
  PROVE  IsFiniteSet(S) /\ S \subseteq Int
<1> DEFINE f == [x \in L |-> x.span[1]]
           T == {f[x] : x \in L}
<1>1. T = LineStarts(L)
  BY DEF LineStarts
<1>2. IsFiniteSet(L) /\ \A x \in L : x.span[1] \in Int
  BY DEF Placed
<1>3. T \subseteq Int
  BY <1>2
<1> HIDE DEF f
<1>4. IsFiniteSet(T)
  BY <1>2, ImageCounts
<1> HIDE DEF T
<1>5. S \subseteq T
  BY <1>1
<1>6. IsFiniteSet(S)
  BY <1>4, <1>5, FS_Subset
<1> QED  BY <1>3, <1>5, <1>6

\* Starts of lines inside a span, the first one among them.
LEMMA StartsOfLinesCut ==
  ASSUME NEW pages, NEW length, Placed(Lines(pages), pages, length),
         NEW s, LineSpan(s, Lines(pages), length),
         NEW chosen \in SUBSET Inside(pages, s),
         \A x \in Inside(pages, s) : x.span[1] = s[1] => x \in chosen,
         NEW S, S = {x.span[1] : x \in chosen}
  PROVE  Cuts(S, s) /\ S \subseteq LineStarts(Lines(pages))
<1> DEFINE L == Lines(pages)
           inside == Inside(pages, s)
<1>1. /\ \A x \in L : x \in inside <=> s[1] <= x.span[1] /\ x.span[1] < s[2]
      /\ inside \subseteq L
      /\ \E x \in inside : x.span[1] = s[1]
  BY InsideIsBetween
<1>2. Placed(L, pages, length) /\ chosen \subseteq inside /\ \A x \in inside : x.span[1] = s[1] => x \in chosen
  OBVIOUS
<1> HIDE DEF L, inside
<1>3. S \subseteq LineStarts(L)
  BY <1>1, <1>2 DEF LineStarts
<1>4. IsFiniteSet(S) /\ S \subseteq Int
  BY <1>2, <1>3, StartsAreFinite
<1>5. s[1] \in S
  BY <1>1, <1>2
<1>6. \A a \in S : s[1] <= a /\ a < s[2]
  BY <1>1, <1>2
<1> QED  BY <1>3, <1>4, <1>5, <1>6 DEF Cuts, L

\* _paragraph_spans: the paragraphs of a section start with lines, one where it starts.
LEMMA ParagraphsCut ==
  ASSUME NEW pages, NEW length, Placed(Lines(pages), pages, length),
         NEW s, LineSpan(s, Lines(pages), length)
  PROVE  Cuts(ParagraphStarts(pages, s), s) /\ ParagraphStarts(pages, s) \subseteq LineStarts(Lines(pages))
<1> DEFINE inside == Inside(pages, s)
           chosen == {x \in inside : \A y \in inside : y.page = x.page => x.number <= y.number}
           S == {x.span[1] : x \in chosen}
<1>1. S = ParagraphStarts(pages, s)
  BY DEF ParagraphStarts
<1>2. ASSUME NEW x \in inside, x.span[1] = s[1], NEW y \in inside, y.page = x.page
      PROVE  x.number <= y.number
  <2>1. x \in Lines(pages) /\ y \in Lines(pages) /\ s[1] <= y.span[1]
    BY InsideIsBetween
  <2>2. x.number \in Int /\ y.number \in Int /\ x.span[1] \in Int /\ y.span[1] \in Int
    BY <2>1 DEF Placed
  <2>3. ~ (y.span[1] < x.span[1])
    BY <1>2, <2>1, <2>2
  <2>4. ~ Precedes(y, x)
    BY <2>1, <2>3, LinesAreOrdered
  <2> QED  BY <1>2, <2>2, <2>4 DEF Precedes
<1>3. chosen \in SUBSET inside /\ \A x \in inside : x.span[1] = s[1] => x \in chosen
  BY <1>2
<1> HIDE DEF chosen
<1>4. Cuts(S, s) /\ S \subseteq LineStarts(Lines(pages))
  BY <1>3, StartsOfLinesCut
<1> QED  BY <1>1, <1>4

\* _sentence_spans: so do the sentences of a paragraph.
LEMMA SentencesCut ==
  ASSUME NEW pages, NEW length, Placed(Lines(pages), pages, length),
         NEW s, LineSpan(s, Lines(pages), length)
  PROVE  Cuts(SentenceStarts(pages, s), s) /\ SentenceStarts(pages, s) \subseteq LineStarts(Lines(pages))
<1> DEFINE inside == Inside(pages, s)
           chosen == {x \in inside : \A y \in inside :
                        y.page = x.page /\ y.number = x.number - 1 => y.line.ends}
           S == {x.span[1] : x \in chosen}
<1>1. S = SentenceStarts(pages, s)
  BY DEF SentenceStarts
<1>2. ASSUME NEW x \in inside, x.span[1] = s[1], NEW y \in inside,
             y.page = x.page /\ y.number = x.number - 1
      PROVE  FALSE
  <2>1. x \in Lines(pages) /\ y \in Lines(pages) /\ s[1] <= y.span[1]
    BY InsideIsBetween
  <2>2. x.number \in Int /\ y.number \in Int /\ x.span[1] \in Int /\ y.span[1] \in Int
    BY <2>1 DEF Placed
  <2>3. ~ (y.span[1] < x.span[1])
    BY <1>2, <2>1, <2>2
  <2>4. ~ Precedes(y, x)
    BY <2>1, <2>3, LinesAreOrdered
  <2> QED  BY <1>2, <2>2, <2>4 DEF Precedes
<1>3. chosen \in SUBSET inside /\ \A x \in inside : x.span[1] = s[1] => x \in chosen
  BY <1>2
<1> HIDE DEF chosen
<1>4. Cuts(S, s) /\ S \subseteq LineStarts(Lines(pages))
  BY <1>3, StartsOfLinesCut
<1> QED  BY <1>1, <1>4

\* No start is farther than the maximum from the next one, or from the end.
Fine(S, s) ==
  /\ Cuts(S, s)
  /\ \A a \in S : \E b \in S \cup {s[2]} : a < b /\ b <= a + MaxChars

\* To cut every part of a span finely cuts the span finely.
LEMMA PartsCutFinely ==
  ASSUME NEW s \in Span, NEW P, Cuts(P, s), NEW R,
         \A a \in P : Fine(R[a], <<a, Until(P, a, s[2])>>)
  PROVE  Fine(UNION {R[a] : a \in P}, s)
<1> DEFINE U == UNION {R[a] : a \in P}
           end == s[2]
<1>1. /\ IsFiniteSet(P) /\ P \subseteq Int /\ s[1] \in P
      /\ \A a \in P : s[1] <= a /\ a < end
      /\ end \in Int /\ s[1] \in Int
  BY DEF Cuts, Span
<1>2. \A a \in P : /\ Until(P, a, end) \in P \cup {end}
                   /\ Until(P, a, end) \in Int /\ a < Until(P, a, end) /\ Until(P, a, end) <= end
  <2> SUFFICES ASSUME NEW a \in P
               PROVE  /\ Until(P, a, end) \in P \cup {end}
                      /\ Until(P, a, end) \in Int /\ a < Until(P, a, end) /\ Until(P, a, end) <= end
    OBVIOUS
  <2>1. a \in Int /\ a < end
    BY <1>1
  <2> HIDE DEF end
  <2> QED  BY <1>1, <2>1, UntilIsNext
<1>3. \A a \in P : /\ IsFiniteSet(R[a]) /\ R[a] \subseteq Int /\ a \in R[a]
                   /\ \A u \in R[a] : a <= u /\ u < Until(P, a, end)
                   /\ \A u \in R[a] : \E b \in R[a] \cup {Until(P, a, end)} :
                        u < b /\ b <= u + MaxChars
  BY DEF Fine, Cuts
<1>4. \A a \in P : R[a] \subseteq U
  OBVIOUS
<1>5. \A u \in U : \E a \in P : u \in R[a]
  OBVIOUS
<1>6. IsFiniteSet(U)
  <2> DEFINE S == {R[a] : a \in P}
  <2>1. IsFiniteSet(S)
    BY <1>1, ImageCounts
  <2>2. \A T \in S : IsFiniteSet(T)
    BY <1>3
  <2>3. U = UNION S
    OBVIOUS
  <2> HIDE DEF S
  <2> QED  BY <2>1, <2>2, <2>3, FS_UNION
<1> HIDE DEF U, end
<1>7. U \subseteq Int
  BY <1>3, <1>5
<1>8. s[1] \in U
  BY <1>1, <1>3, <1>4
<1>9. ASSUME NEW u \in U
      PROVE  /\ s[1] <= u /\ u < end
             /\ \E b \in U \cup {end} : u < b /\ b <= u + MaxChars
  <2>1. PICK a \in P : u \in R[a]
    BY <1>5
  <2> DEFINE v == Until(P, a, end)
  <2>2. v \in P \cup {end} /\ v \in Int /\ a < v /\ v <= end
    BY <1>2
  <2>3. a <= u /\ u < v /\ u \in Int
    BY <1>3, <2>1
  <2>4. s[1] <= a /\ a \in Int
    BY <1>1
  <2>5. PICK b \in R[a] \cup {v} : u < b /\ b <= u + MaxChars
    BY <1>3, <2>1
  <2> HIDE DEF v
  <2>6. v \in U \cup {end}
    BY <1>3, <1>4, <2>2
  <2>7. b \in U \cup {end}
    BY <1>4, <2>5, <2>6
  <2> QED  BY <1>1, <2>2, <2>3, <2>4, <2>5, <2>7
<1> QED  BY <1>6, <1>7, <1>8, <1>9 DEF Fine, Cuts, U, end

\* The pieces of a long sentence do not exceed the maximum.
LEMMA PiecesCutFinely ==
  ASSUME NEW s \in Span, s[1] < s[2]
  PROVE  Fine(PieceStarts(s), s)
<1>1. s[1] \in Int /\ s[2] \in Int /\ Length(s) = s[2] - s[1]
  BY DEF Span, Length
<1>2. MaxChars \in Nat \ {0}
  BY SplitterAssumption
<1>3. CASE Length(s) <= MaxChars
  <2>1. PieceStarts(s) = {s[1]}
    BY <1>3 DEF PieceStarts
  <2>2. IsFiniteSet({s[1]})
    BY FS_Singleton
  <2>3. s[1] < s[2] /\ s[2] <= s[1] + MaxChars
    BY <1>1, <1>2, <1>3
  <2>4. Cuts({s[1]}, s)
    BY <1>1, <2>2 DEF Cuts
  <2> QED  BY <2>1, <2>3, <2>4 DEF Fine
<1>4. CASE ~ (Length(s) <= MaxChars)
  <2> DEFINE c == s[1]
             d == s[2]
             K == 0..Length(s)
             f == [k \in K |-> c + k * MaxChars]
             T == {f[k] : k \in K}
             S == {a \in T : a < d}
  <2>1. PieceStarts(s) = S
    BY <1>4 DEF PieceStarts
  <2>2. IsFiniteSet(K) /\ 0 \in K /\ \A k \in K : k \in Nat
    BY <1>1, FS_Interval
  <2>3. \A k \in K : f[k] = c + k * MaxChars /\ f[k] \in Int
    BY <1>1, <1>2, <2>2
  <2>4. \A k \in Nat : k \in K <=> k <= d - c
    BY <1>1
  <2> HIDE DEF f, K
  <2>5. IsFiniteSet(T)
    BY <2>2, ImageCounts
  <2>6. S \subseteq T /\ T \subseteq Int
    BY <2>3
  <2>7. \A a \in S : \E k \in K : a = f[k] /\ a < d
    OBVIOUS
  <2>8. \A k \in K : f[k] < d => f[k] \in S
    OBVIOUS
  <2> HIDE DEF S, T, c, d
  <2>9. IsFiniteSet(S)
    BY <2>5, <2>6, FS_Subset
  <2>10. c \in Int /\ d \in Int /\ c < d
    BY <1>1 DEF c, d
  <2>11. c \in S
    <3>1. f[0] = c
      BY <2>2, <2>3, <2>10, <1>2
    <3> QED  BY <2>2, <2>8, <2>10, <3>1
  <2>12. ASSUME NEW a \in S
         PROVE  /\ c <= a /\ a < d
                /\ \E b \in S \cup {d} : a < b /\ b <= a + MaxChars
    <3>1. PICK k \in K : a = f[k] /\ a < d
      BY <2>7
    <3>2. k \in Nat /\ a = c + k * MaxChars /\ a \in Int
      BY <2>2, <2>3, <3>1
    <3>3. k * MaxChars \in Nat /\ (k + 1) * MaxChars = k * MaxChars + MaxChars
      BY <1>2, <3>2
    <3>4. k <= k * MaxChars
      BY <1>2, <3>2
    <3>5. c <= a
      BY <2>10, <3>2, <3>3
    <3>6. CASE a + MaxChars < d
      <4>1. k + 1 <= d - c /\ k + 1 \in Nat
        BY <1>2, <2>10, <3>2, <3>3, <3>4, <3>6
      <4>2. k + 1 \in K
        BY <2>4, <4>1
      <4>3. f[k + 1] = a + MaxChars
        BY <1>2, <2>3, <2>10, <3>2, <3>3, <4>2
      <4>4. a + MaxChars \in S
        BY <2>8, <3>6, <4>2, <4>3
      <4> QED  BY <1>2, <3>1, <3>2, <3>5, <4>4
    <3>7. CASE ~ (a + MaxChars < d)
      BY <1>2, <2>10, <3>1, <3>2, <3>5, <3>7
    <3> QED  BY <3>6, <3>7
  <2>13. S \subseteq Int
    BY <2>6
  <2>14. PieceStarts(s) = S
    BY <2>1
  <2> QED  BY <2>9, <2>11, <2>12, <2>13, <2>14 DEF Fine, Cuts, c, d
<1> QED  BY <1>3, <1>4

\* The parts of a span between starts of lines are spans between starts of lines.
LEMMA PartsAreLineSpans ==
  ASSUME NEW L, NEW pages, NEW length, Placed(L, pages, length), NEW s, LineSpan(s, L, length),
         NEW S, Cuts(S, s), S \subseteq LineStarts(L), NEW a \in S
  PROVE  /\ LineSpan(<<a, Until(S, a, s[2])>>, L, length)
         /\ <<a, Until(S, a, s[2])>>[1] = a /\ <<a, Until(S, a, s[2])>>[2] = Until(S, a, s[2])
<1> DEFINE end == s[2]
           u == Until(S, a, end)
<1>1. end \in Int /\ end \in LineStarts(L) \cup {length} /\ s \in Span
  BY DEF LineSpan, Span
<1>2. IsFiniteSet(S) /\ S \subseteq Int /\ a \in Int /\ a < end
  BY DEF Cuts
<1> HIDE DEF end
<1>3. u \in S \cup {end} /\ u \in Int /\ a < u
  BY <1>1, <1>2, UntilIsNext
<1>4. u \in LineStarts(L) \cup {length} /\ a \in LineStarts(L)
  BY <1>1, <1>3
<1> HIDE DEF u
<1>5. LineSpan(<<a, u>>, L, length)
  BY <1>2, <1>3, <1>4 DEF LineSpan, Span
<1> QED  BY <1>5 DEF u, end

\* _atomic_spans: neither do the units of a section, and the first starts where it does.
LEMMA UnitsCutFinely ==
  ASSUME NEW pages, NEW length, Placed(Lines(pages), pages, length),
         NEW s, LineSpan(s, Lines(pages), length)
  PROVE  Fine(UnitStarts(pages, s), s)
<1> DEFINE L == Lines(pages)
           P == ParagraphStarts(pages, s)
<1>1. Cuts(P, s) /\ P \subseteq LineStarts(L) /\ s \in Span
  BY ParagraphsCut DEF LineSpan
<1>2. ASSUME NEW t, LineSpan(t, L, length) PROVE Fine(PartStarts(pages, t), t)
  <2> DEFINE Q == SentenceStarts(pages, t)
  <2>1. Cuts(Q, t) /\ Q \subseteq LineStarts(L) /\ t \in Span /\ t[1] < t[2]
    BY <1>2, SentencesCut DEF LineSpan
  <2>2. CASE Length(t) <= MaxChars
    <3>1. PartStarts(pages, t) = PieceStarts(t)
      BY <2>2 DEF PartStarts, PieceStarts
    <3> QED  BY <2>1, <3>1, PiecesCutFinely
  <2>3. CASE ~ (Length(t) <= MaxChars)
    <3> DEFINE Cutout(a) == <<a, Until(Q, a, t[2])>>
               R == [a \in Q |-> PieceStarts(Cutout(a))]
    <3>1. ASSUME NEW a \in Q PROVE Fine(R[a], Cutout(a))
      <4>1. LineSpan(Cutout(a), L, length)
        BY <1>2, <2>1, PartsAreLineSpans
      <4>2. Cutout(a) \in Span /\ Cutout(a)[1] < Cutout(a)[2]
        BY <4>1 DEF LineSpan
      <4> HIDE DEF Cutout, Q
      <4>3. Fine(PieceStarts(Cutout(a)), Cutout(a))
        BY <4>2, PiecesCutFinely
      <4> QED  BY <4>3
    <3>2. PartStarts(pages, t) = UNION {R[a] : a \in Q}
      BY <2>3 DEF PartStarts
    <3> HIDE DEF R, Q
    <3> QED  BY <2>1, <3>1, <3>2, PartsCutFinely
  <2> QED  BY <2>2, <2>3
<1> DEFINE Cutout(a) == <<a, Until(P, a, s[2])>>
           R == [a \in P |-> PartStarts(pages, Cutout(a))]
<1>3. ASSUME NEW a \in P PROVE Fine(R[a], Cutout(a))
  <2>1. LineSpan(Cutout(a), L, length)
    BY <1>1, PartsAreLineSpans
  <2> HIDE DEF Cutout, P
  <2> QED  BY <1>2, <2>1
<1>4. UnitStarts(pages, s) = UNION {R[a] : a \in P}
  BY DEF UnitStarts
<1> HIDE DEF R, P
<1> QED  BY <1>1, <1>3, <1>4, PartsCutFinely

-----------------------------------------------------------------------------
(* Sections, units and groups. *)

\* _section_spans: the sections start with lines and make up the text.
LEMMA SectionsTile ==
  ASSUME NEW pages, Whole(pages), NEW majorOnly
  PROVE  /\ \E S \in SUBSET LineStarts(Lines(pages)) :
              /\ 0 \in S
              /\ Tiles(Sections(pages, majorOnly), S, TextLength(pages))
         /\ \A i \in 1..Len(Sections(pages, majorOnly)) :
              LineSpan(Sections(pages, majorOnly)[i], Lines(pages), TextLength(pages))
<1> DEFINE L == Lines(pages)
           length == TextLength(pages)
           B == Sections(pages, majorOnly)
           wanted == IF majorOnly THEN {"major"} ELSE {"major", "minor"}
           S == {x.span[1] : x \in {x \in L : x.line.major \in wanted}} \cup {0}
<1>1. Placed(L, pages, length)
  BY LinesArePlaced
<1>2. B = Between(Ascending(S), length)
  BY DEF Sections
<1>3. S \subseteq LineStarts(L) /\ 0 \in S
  BY <1>1 DEF LineStarts, Placed
<1> HIDE DEF L, length, S, B
<1>4. IsFiniteSet(S) /\ S \subseteq Int
  BY <1>1, <1>3, StartsAreFinite
<1>5. \A a \in S : a < length
  BY <1>1, <1>3 DEF LineStarts, Placed
<1>6. length \in Int
  BY <1>1 DEF Placed
<1>7. Tiles(B, S, length)
  BY <1>2, <1>4, <1>5, <1>6, BetweenTiles
<1>8. \A i \in 1..Len(B) : LineSpan(B[i], L, length)
  <2> SUFFICES ASSUME NEW i \in 1..Len(B) PROVE LineSpan(B[i], L, length)
    OBVIOUS
  <2>1. B \in Seq(Span) /\ Len(B) \in Nat /\ DOMAIN B = 1..Len(B)
    BY <1>7 DEF Tiles
  <2>2. B[i] \in Span
    BY <2>1
  <2>3. /\ B[i][1] \in S /\ B[i][1] < B[i][2]
        /\ i < Len(B) => B[i][2] = B[i + 1][1]
        /\ i = Len(B) => B[i][2] = length
    BY <1>7 DEF Tiles
  <2>4. i < Len(B) => i + 1 \in 1..Len(B)
    BY <2>1
  <2>5. i < Len(B) => B[i + 1][1] \in S
    BY <1>7, <2>4 DEF Tiles
  <2>6. B[i][2] \in S \cup {length}
    <3>1. CASE i < Len(B)
      BY <2>3, <2>5, <3>1
    <3>2. CASE i = Len(B)
      BY <2>3, <3>2
    <3>3. i < Len(B) \/ i = Len(B)
      <4>1. Len(B) \in Nat
        BY <2>1
      <4> QED  BY <4>1
    <3> QED  BY <3>1, <3>2, <3>3
  <2> QED  BY <1>3, <2>2, <2>3, <2>6 DEF LineSpan
<1> QED  BY <1>3, <1>7, <1>8 DEF B, L, length

\* The units of a section: they tile it, and none is longer than the maximum.
Units(A, s) ==
  /\ A \in Seq(Span) /\ Len(A) \in Nat \ {0} /\ DOMAIN A = 1..Len(A)
  /\ A[1][1] = s[1] /\ A[Len(A)][2] = s[2]
  /\ \A i \in 1..Len(A) : /\ A[i][1] \in Int /\ A[i][2] \in Int
                          /\ A[i][1] < A[i][2] /\ A[i][2] <= A[i][1] + MaxChars
                          /\ s[1] <= A[i][1] /\ A[i][2] <= s[2]
  /\ \A i, j \in 1..Len(A) : i < j => A[i][1] < A[j][1] /\ A[i][2] <= A[j][1]
  /\ \A a \in Int : s[1] <= a /\ a < s[2] => \E i \in 1..Len(A) : A[i][1] <= a /\ a < A[i][2]

\* The units of a section make it up, and none exceeds the maximum.
LEMMA AtomsTile ==
  ASSUME NEW pages, NEW length, Placed(Lines(pages), pages, length),
         NEW s, LineSpan(s, Lines(pages), length)
  PROVE  Units(Atoms(pages, s), s)
<1> DEFINE U == UnitStarts(pages, s)
           b == s[1]
           e == s[2]
           T == Between(Ascending(U), e)
           A == Atoms(pages, s)
<1>1. Fine(U, s)
  BY UnitsCutFinely
<1>2. b \in Int /\ e \in Int /\ b < e
  BY DEF LineSpan, Span
<1>3. A = [i \in DOMAIN T |-> <<IF i = 1 THEN b ELSE T[i][1], T[i][2]>>]
  BY DEF Atoms
<1>4. /\ IsFiniteSet(U) /\ U \subseteq Int /\ b \in U
      /\ \A a \in U : b <= a /\ a < e
      /\ \A a \in U : \E c \in U \cup {e} : a < c /\ c <= a + MaxChars
  BY <1>1 DEF Fine, Cuts
<1> HIDE DEF U, b, e, A
<1>5. Tiles(T, U, e)
  BY <1>2, <1>4, BetweenTiles
<1> HIDE DEF T
<1>6. T \in Seq(Span) /\ Len(T) \in Nat /\ DOMAIN T = 1..Len(T)
  BY <1>5 DEF Tiles
<1>7. \A i \in 1..Len(T) : /\ T[i][1] \in U /\ T[i][1] \in Int /\ T[i][2] \in Int
                           /\ T[i][1] < T[i][2] /\ T[i][2] <= e
                           /\ T[i][2] = Until(U, T[i][1], e)
                           /\ i = Len(T) => T[i][2] = e
  BY <1>5 DEF Tiles
<1>8. \A i, j \in 1..Len(T) : i < j => T[i][1] < T[j][1] /\ T[i][2] <= T[j][1]
  BY <1>5 DEF Tiles
<1>9. 1 \in 1..Len(T) /\ T[1][1] = b
  <2>1. PICK i \in 1..Len(T) : T[i][1] = b
    BY <1>4, <1>5 DEF Tiles
  <2>2. 1 \in 1..Len(T) /\ (1 < i \/ i = 1)
    BY <1>6
  <2>3. b <= T[1][1]
    BY <1>4, <1>7, <2>2
  <2> QED  BY <1>2, <1>7, <1>8, <2>1, <2>2, <2>3
<1>10. A \in Seq(Span) /\ Len(A) = Len(T) /\ DOMAIN A = 1..Len(T)
  <2>1. A \in [1..Len(T) -> Span]
    BY <1>2, <1>3, <1>6, <1>7 DEF Span
  <2> QED  BY <1>6, <2>1
<1>11. \A i \in 1..Len(T) : A[i][1] = T[i][1] /\ A[i][2] = T[i][2]
  BY <1>3, <1>6, <1>9
<1>12. ASSUME NEW i \in 1..Len(T) PROVE T[i][2] <= T[i][1] + MaxChars
  <2> DEFINE t == T[i][1]
             u == Until(U, t, e)
  <2>1. t \in U /\ t \in Int /\ t < e /\ T[i][2] = u
    BY <1>4, <1>7
  <2> HIDE DEF t
  <2>2. u \in Int /\ (\A c \in U : c > t => u <= c) /\ u <= e
    BY <1>2, <1>4, <2>1, UntilIsNext
  <2>3. PICK c \in U \cup {e} : t < c /\ c <= t + MaxChars
    BY <1>4, <2>1
  <2> HIDE DEF u
  <2>4. c \in Int /\ u <= c
    BY <1>2, <1>4, <2>1, <2>2, <2>3
  <2>5. MaxChars \in Int
    BY SplitterAssumption
  <2>6. T[i][2] <= t + MaxChars
    BY <2>1, <2>2, <2>3, <2>4, <2>5
  <2> QED  BY <2>6 DEF t
<1>13. \A a \in Int : b <= a /\ a < e => \E i \in 1..Len(T) : T[i][1] <= a /\ a < T[i][2]
  BY <1>4, <1>5 DEF Tiles
<1>14. /\ Len(A) \in Nat \ {0} /\ DOMAIN A = 1..Len(A)
       /\ A[1][1] = b /\ A[Len(A)][2] = e
  BY <1>6, <1>7, <1>9, <1>10, <1>11
<1>15. \A i \in 1..Len(A) : /\ A[i][1] \in Int /\ A[i][2] \in Int
                            /\ A[i][1] < A[i][2] /\ A[i][2] <= A[i][1] + MaxChars
                            /\ b <= A[i][1] /\ A[i][2] <= e
  BY <1>4, <1>7, <1>10, <1>11, <1>12
<1>16. \A i, j \in 1..Len(A) : i < j => A[i][1] < A[j][1] /\ A[i][2] <= A[j][1]
  BY <1>8, <1>10, <1>11
<1>17. \A a \in Int : b <= a /\ a < e => \E i \in 1..Len(A) : A[i][1] <= a /\ a < A[i][2]
  BY <1>10, <1>11, <1>13
<1> QED  BY <1>10, <1>14, <1>15, <1>16, <1>17 DEF Units, A, b, e

\* What a round of _group_units takes holds the unit it starts with and is in bounds.
LEMMA StopIsBehind ==
  ASSUME NEW A, NEW s, Units(A, s), NEW i \in 1..Len(A)
  PROVE  Stop(A, i) \in (i + 1)..(Len(A) + 1) /\ A[Stop(A, i) - 1][2] - A[i][1] <= MaxChars
<1> DEFINE n == Len(A)
           size(m) == A[m][2] - A[i][1]
           distance(m) == Larger(size(m) - TargetChars, TargetChars - size(m))
           over == {m \in (i + 1)..n : size(m) > TargetChars}
           stop == IF over = {} THEN n + 1 ELSE Least(over)
<1>1. /\ n \in Nat /\ i \in 1..n
      /\ \A m \in 1..n : /\ A[m][1] \in Int /\ A[m][2] \in Int
                         /\ A[m][1] < A[m][2] /\ A[m][2] <= A[m][1] + MaxChars
  BY DEF Units
<1>2. /\ MaxChars \in Int /\ TargetChars \in Int /\ TargetChars <= MaxChars
  BY SplitterAssumption
<1>3. Stop(A, i) = IF stop <= n /\ size(stop) <= MaxChars /\ distance(stop) <= distance(stop - 1)
                   THEN stop + 1 ELSE stop
  BY DEF Stop
<1>4. /\ IsFiniteSet(over) /\ over \subseteq Int
  <2>1. over \subseteq (i + 1)..n
    OBVIOUS
  <2> HIDE DEF over
  <2>2. IsFiniteSet((i + 1)..n)
    BY <1>1, FS_Interval
  <2>3. IsFiniteSet(over)
    BY <2>1, <2>2, FS_Subset
  <2> QED  BY <2>1, <2>3
<1>5. /\ \A m \in over : m \in (i + 1)..n
      /\ \A m \in (i + 1)..n : m \notin over => size(m) <= TargetChars
  BY <1>1, <1>2
<1> HIDE DEF over
<1>6. /\ over = {} => stop = n + 1
      /\ over # {} => stop \in over /\ \A m \in over : stop <= m
  <2>1. CASE over = {}
    BY <2>1
  <2>2. CASE over # {}
    BY <1>4, <2>2, ExtremesAreChosen
  <2> QED  BY <2>1, <2>2
<1> HIDE DEF stop
<1>7. stop \in (i + 1)..(n + 1)
  BY <1>1, <1>5, <1>6
<1>8. size(stop - 1) <= MaxChars
  <2>1. CASE stop = i + 1
    <3>1. stop - 1 = i
      BY <1>1, <2>1
    <3> QED  BY <1>1, <1>2, <3>1
  <2>2. CASE stop # i + 1
    <3>1. stop - 1 \in (i + 1)..n /\ ~ (stop <= stop - 1)
      BY <1>1, <1>7, <2>2
    <3>2. stop - 1 \notin over
      BY <1>6, <3>1
    <3>3. size(stop - 1) <= TargetChars
      BY <1>5, <3>1, <3>2
    <3>4. size(stop - 1) \in Int
      BY <1>1, <3>1
    <3> QED  BY <1>2, <3>3, <3>4
  <2> QED  BY <2>1, <2>2
<1>9. CASE stop <= n /\ size(stop) <= MaxChars /\ distance(stop) <= distance(stop - 1)
  <2>1. Stop(A, i) = stop + 1 /\ (stop + 1) - 1 = stop
    BY <1>3, <1>7, <1>9
  <2>2. stop + 1 \in (i + 1)..(n + 1)
    BY <1>1, <1>7, <1>9
  <2> QED  BY <1>9, <2>1, <2>2
<1>10. CASE ~ (stop <= n /\ size(stop) <= MaxChars /\ distance(stop) <= distance(stop - 1))
  BY <1>3, <1>7, <1>8, <1>10
<1> QED  BY <1>9, <1>10

\* The next chunk starts behind this one, not behind where it stops.
LEMMA ResumeIsNext ==
  ASSUME NEW A, NEW i \in Nat, NEW stop \in Nat, i < stop
  PROVE  Resume(A, i, stop) \in (i + 1)..stop
<1> DEFINE reach == {n \in (i + 1)..(stop - 1) : A[stop - 1][2] - A[n][1] >= OverlapTarget}
<1>1. Resume(A, i, stop) = IF Length(A[stop]) + OverlapTarget > MaxChars THEN stop
                           ELSE IF reach = {} THEN i + 1 ELSE Greatest(reach)
  BY DEF Resume
<1>2. reach \subseteq (i + 1)..(stop - 1)
  OBVIOUS
<1> HIDE DEF reach
<1>3. IsFiniteSet((i + 1)..(stop - 1))
  BY FS_Interval
<1>4. IsFiniteSet(reach)
  BY <1>2, <1>3, FS_Subset
<1>5. reach \subseteq Int
  BY <1>2
<1>6. reach # {} => Greatest(reach) \in reach
  BY <1>4, <1>5, ExtremesAreChosen
<1>7. reach # {} => Greatest(reach) \in (i + 1)..(stop - 1)
  BY <1>2, <1>6
<1> QED  BY <1>1, <1>7

\* Every round of the loop advances its index, and the loop is left behind the last unit.
LEMMA NextIndexAdvances ==
  ASSUME NEW A, NEW s, Units(A, s), NEW i \in 0..Len(A)
  PROVE  /\ NextIndex(A, i) \in 0..Len(A)
         /\ i = 0 => NextIndex(A, i) = 0
         /\ i # 0 /\ NextIndex(A, i) # 0 => i < NextIndex(A, i) /\ NextIndex(A, i) <= Stop(A, i)
         /\ i # 0 /\ NextIndex(A, i) = 0 => Stop(A, i) = Len(A) + 1
<1> DEFINE n == Len(A)
<1>1. n \in Nat /\ i \in Nat
  BY DEF Units
<1>2. CASE i = 0
  BY <1>1, <1>2 DEF NextIndex
<1>3. CASE i # 0
  <2>1. i \in 1..n
    BY <1>1, <1>3
  <2>2. Stop(A, i) \in (i + 1)..(n + 1)
    BY <2>1, StopIsBehind
  <2> DEFINE stop == Stop(A, i)
  <2>3. NextIndex(A, i) = IF stop > n THEN 0 ELSE Resume(A, i, stop)
    BY <1>3 DEF NextIndex
  <2> HIDE DEF stop
  <2>4. stop \in Nat /\ i < stop /\ stop <= n + 1
    BY <1>1, <2>2 DEF stop
  <2>5. Resume(A, i, stop) \in (i + 1)..stop
    BY <1>1, <2>4, ResumeIsNext
  <2>6. /\ NextIndex(A, i) \in 0..n
        /\ NextIndex(A, i) # 0 => i < NextIndex(A, i) /\ NextIndex(A, i) <= stop
        /\ NextIndex(A, i) = 0 => stop = n + 1
    BY <1>1, <2>3, <2>4, <2>5
  <2> QED  BY <1>3, <2>6 DEF stop
<1> QED  BY <1>2, <1>3

\* The rounds of the loop come first, each at a later unit that the round before it reaches.
LEMMA IndexAdvances ==
  ASSUME NEW A, NEW s, Units(A, s)
  PROVE  \E r \in 1..Len(A) :
           /\ Cardinality({k \in DOMAIN A : Index(A)[k] # 0}) = r
           /\ Index(A)[1] = 1
           /\ \A k \in 1..r : Index(A)[k] \in 1..Len(A)
           /\ \A k \in 1..(r - 1) : /\ Index(A)[k] < Index(A)[k + 1]
                                    /\ Index(A)[k + 1] <= Stop(A, Index(A)[k])
           /\ Stop(A, Index(A)[r]) = Len(A) + 1
<1> DEFINE n == Len(A)
           Rounds(f) == [k \in 1..n |-> IF k = 1 THEN 1 ELSE NextIndex(A, f[k - 1])]
           x == Index(A)
           R == {k \in DOMAIN A : x[k] # 0}
<1>1. n \in Nat \ {0} /\ DOMAIN A = 1..n
  BY DEF Units
<1>2. \A i \in 0..n :
         /\ NextIndex(A, i) \in 0..n
         /\ i = 0 => NextIndex(A, i) = 0
         /\ i # 0 /\ NextIndex(A, i) # 0 => i < NextIndex(A, i) /\ NextIndex(A, i) <= Stop(A, i)
         /\ i # 0 /\ NextIndex(A, i) = 0 => Stop(A, i) = n + 1
  BY NextIndexAdvances
<1>3. x = CHOOSE f : f = Rounds(f)
  BY <1>1 DEF Index
<1> HIDE DEF n, x
<1>4. \E f : f = Rounds(f)
  <2> DEFINE V == 0..n
             step == [p \in (1..n) \X V |-> NextIndex(A, p[2])]
  <2>1. step \in [(1..n) \X V -> V] /\ 1 \in V
    BY <1>1, <1>2
  <2>2. \A k \in 1..n : \A v \in V : step[<<k, v>>] = NextIndex(A, v)
    OBVIOUS
  <2> HIDE DEF V, step
  <2>3. PICK f \in [1..n -> V] : Walks(f, 1, step, 1, n)
    <3>1. 1 \in Int /\ n \in Int
      BY <1>1
    <3> QED  BY <2>1, <3>1, WalkExists
  <2>4. ASSUME NEW k \in 1..n PROVE f[k] = IF k = 1 THEN 1 ELSE NextIndex(A, f[k - 1])
    <3>1. f[k] = IF k = 1 THEN 1 ELSE step[<<k, f[k - 1]>>]
      BY <2>3 DEF Walks
    <3>2. k # 1 => k - 1 \in 1..n
      BY <1>1
    <3>3. k # 1 => f[k - 1] \in V
      BY <2>3, <3>2
    <3> QED  BY <2>2, <3>1, <3>3
  <2>5. f = Rounds(f)
    BY <2>3, <2>4
  <2> QED  BY <2>5
<1>5. x = Rounds(x)
  BY <1>3, <1>4
<1>6. \A k \in 1..n : x[k] = IF k = 1 THEN 1 ELSE NextIndex(A, x[k - 1])
  <2> HIDE DEF x
  <2> QED  BY <1>5
<1>7. x[1] = 1
  BY <1>1, <1>6
<1>8. \A k \in 1..(n - 1) : k + 1 \in 1..n /\ x[k + 1] = NextIndex(A, x[k])
  <2> SUFFICES ASSUME NEW k \in 1..(n - 1) PROVE k + 1 \in 1..n /\ x[k + 1] = NextIndex(A, x[k])
    OBVIOUS
  <2>1. k + 1 \in 1..n /\ k + 1 # 1 /\ (k + 1) - 1 = k
    BY <1>1
  <2> QED  BY <1>6, <2>1
<1>9. \A k \in 1..n : x[k] \in 0..n /\ (x[k] # 0 => k <= x[k])
  <2> DEFINE G == {k \in 1..n : x[k] \in 0..n /\ (x[k] # 0 => k <= x[k])}
  <2>1. 1 \in G /\ 1 \in Int /\ n \in Int
    BY <1>1, <1>7
  <2>2. ASSUME NEW k \in 1..(n - 1), k \in G PROVE k + 1 \in G
    <3>1. x[k] \in 0..n /\ (x[k] # 0 => k <= x[k])
      BY <2>2
    <3>2. k + 1 \in 1..n /\ x[k + 1] = NextIndex(A, x[k])
      BY <1>8
    <3>3. /\ NextIndex(A, x[k]) \in 0..n
          /\ x[k] = 0 => NextIndex(A, x[k]) = 0
          /\ x[k] # 0 /\ NextIndex(A, x[k]) # 0 => x[k] < NextIndex(A, x[k])
      BY <1>2, <3>1
    <3>4. x[k + 1] \in 0..n /\ (x[k + 1] # 0 => k + 1 <= x[k + 1])
      BY <3>1, <3>2, <3>3
    <3> QED  BY <3>2, <3>4
  <2>3. 1..n \subseteq G
    <3> HIDE DEF G
    <3> QED  BY <2>1, <2>2, BoundedInduction
  <2> QED  BY <2>3
<1>10. ASSUME NEW j \in 1..n, x[j] = 0 PROVE \A k \in j..n : x[k] = 0
  <2> DEFINE G == {k \in 1..n : x[k] = 0}
  <2>1. j \in G /\ j \in Int /\ n \in Int
    BY <1>1, <1>10
  <2>2. ASSUME NEW k \in j..(n - 1), k \in G PROVE k + 1 \in G
    <3>1. k \in 1..(n - 1) /\ x[k] = 0 /\ x[k] \in 0..n
      BY <1>1, <2>2
    <3> QED  BY <1>2, <1>8, <3>1
  <2>3. j..n \subseteq G
    <3> HIDE DEF G
    <3> QED  BY <2>1, <2>2, BoundedInduction
  <2> QED  BY <2>3
<1>11. /\ IsFiniteSet(R) /\ R \subseteq Int /\ R # {}
       /\ \A k \in R : k \in 1..n /\ x[k] # 0
       /\ \A k \in 1..n : x[k] # 0 => k \in R
  <2>1. R \subseteq 1..n /\ 1 \in R
    BY <1>1, <1>7
  <2>2. \A k \in R : k \in 1..n /\ x[k] # 0
    BY <1>1
  <2>3. \A k \in 1..n : x[k] # 0 => k \in R
    BY <1>1
  <2> HIDE DEF R
  <2>4. IsFiniteSet(1..n)
    BY <1>1, FS_Interval
  <2>5. IsFiniteSet(R)
    BY <2>1, <2>4, FS_Subset
  <2> QED  BY <2>1, <2>2, <2>3, <2>5
<1> HIDE DEF R
<1>12. PICK r \in R : \A k \in R : k <= r
  BY <1>11, ExtremesExist
<1>13. r \in 1..n /\ r \in Nat /\ x[r] # 0
  BY <1>1, <1>11, <1>12
<1>14. \A k \in 1..r : k \in 1..n /\ x[k] # 0
  <2> SUFFICES ASSUME NEW k \in 1..r PROVE k \in 1..n /\ x[k] # 0
    OBVIOUS
  <2>1. k \in 1..n /\ r \in k..n
    BY <1>1, <1>13
  <2> QED  BY <1>10, <1>13, <2>1
<1>15. Cardinality(R) = r
  <2>1. \A k \in R : k \in 1..r
    BY <1>11, <1>12, <1>13
  <2>2. R = 1..r
    BY <1>11, <1>14, <2>1
  <2>3. Cardinality(1..r) = r
    BY <1>13, FS_Interval
  <2> QED  BY <2>2, <2>3
<1>16. \A k \in 1..r : x[k] \in 1..n
  BY <1>1, <1>9, <1>14
<1>17. ASSUME NEW k \in 1..(r - 1) PROVE x[k] < x[k + 1] /\ x[k + 1] <= Stop(A, x[k])
  <2>1. k \in 1..r /\ k + 1 \in 1..r /\ k \in 1..(n - 1)
    BY <1>1, <1>13
  <2>2. x[k] \in 1..n /\ x[k + 1] # 0 /\ x[k + 1] = NextIndex(A, x[k])
    BY <1>8, <1>14, <1>16, <2>1
  <2>3. x[k] \in 0..n /\ x[k] # 0
    BY <2>2
  <2> QED  BY <1>2, <2>2, <2>3
<1>18. Stop(A, x[r]) = n + 1
  <2>1. x[r] \in 1..n
    BY <1>13, <1>16
  <2>2. CASE r = n
    <3>1. x[r] = n /\ x[r] \in 1..Len(A)
      BY <1>9, <1>13, <2>1, <2>2 DEF n
    <3>2. Stop(A, x[r]) \in (n + 1)..(n + 1)
      BY <3>1, StopIsBehind DEF n
    <3> QED  BY <1>1, <3>2
  <2>3. CASE r # n
    <3>1. r \in 1..(n - 1) /\ r + 1 \in 1..n /\ ~ (r + 1 <= r)
      BY <1>1, <1>13, <2>3
    <3>2. x[r + 1] = 0
      BY <1>11, <1>12, <3>1
    <3>3. NextIndex(A, x[r]) = 0 /\ x[r] \in 0..n /\ x[r] # 0
      BY <1>8, <2>1, <3>1, <3>2
    <3> QED  BY <1>2, <3>3
  <2> QED  BY <2>2, <2>3
<1>19. /\ Cardinality(R) = r /\ x[1] = 1
       /\ \A k \in 1..r : x[k] \in 1..n
       /\ \A k \in 1..(r - 1) : x[k] < x[k + 1] /\ x[k + 1] <= Stop(A, x[k])
       /\ Stop(A, x[r]) = n + 1
  BY <1>7, <1>15, <1>16, <1>17, <1>18
<1> QED  BY <1>13, <1>19 DEF R, x, n

\* Spans that cover a section between them, in order, none longer than the maximum.
Grouped(G, s) ==
  /\ G \in Seq(Span) /\ Len(G) \in Nat /\ DOMAIN G = 1..Len(G)
  /\ \A k \in 1..Len(G) : /\ G[k] \in Span /\ G[k][1] \in Int /\ G[k][2] \in Int
                          /\ s[1] <= G[k][1] /\ G[k][1] < G[k][2] /\ G[k][2] <= s[2]
                          /\ Length(G[k]) <= MaxChars
  /\ \A k \in 1..(Len(G) - 1) : G[k][1] < G[k + 1][1]
  /\ \A a \in Int : s[1] <= a /\ a < s[2] => \E k \in 1..Len(G) : G[k][1] <= a /\ a < G[k][2]

\* _group_units: the groups hold all units in order, and none exceeds the maximum.
LEMMA GroupCovers ==
  ASSUME NEW A, NEW s, Units(A, s)
  PROVE  Grouped(Group(A), s)
<1> DEFINE n == Len(A)
           x == Index(A)
           G == Group(A)
<1>1. PICK r \in 1..n :
           /\ Cardinality({k \in DOMAIN A : x[k] # 0}) = r
           /\ x[1] = 1
           /\ \A k \in 1..r : x[k] \in 1..n
           /\ \A k \in 1..(r - 1) : x[k] < x[k + 1] /\ x[k + 1] <= Stop(A, x[k])
           /\ Stop(A, x[r]) = n + 1
  BY IndexAdvances
<1>2. n \in Nat \ {0} /\ r \in Nat \ {0} /\ r <= n
  <2>1. n \in Nat \ {0}
    BY DEF Units
  <2> HIDE DEF n
  <2> QED  BY <2>1, <1>1
<1>3. G = [k \in 1..r |-> <<A[x[k]][1], A[Stop(A, x[k]) - 1][2]>>]
  BY <1>1 DEF Group
<1>4. \A i \in 1..n : Stop(A, i) \in (i + 1)..(n + 1) /\ A[Stop(A, i) - 1][2] - A[i][1] <= MaxChars
  BY StopIsBehind
<1>5. /\ A[1][1] = s[1] /\ A[n][2] = s[2]
      /\ \A i \in 1..n : /\ A[i][1] \in Int /\ A[i][2] \in Int /\ A[i][1] < A[i][2]
                         /\ s[1] <= A[i][1] /\ A[i][2] <= s[2]
      /\ \A i, j \in 1..n : i < j => A[i][1] < A[j][1] /\ A[i][2] <= A[j][1]
      /\ \A a \in Int : s[1] <= a /\ a < s[2] => \E i \in 1..n : A[i][1] <= a /\ a < A[i][2]
  BY DEF Units
<1> HIDE DEF n, x, G
<1> DEFINE last == [k \in 1..r |-> Stop(A, x[k]) - 1]
<1>6. \A k \in 1..r : x[k] \in 1..n /\ last[k] \in x[k]..n /\ last[k] = Stop(A, x[k]) - 1
                      /\ A[last[k]][2] - A[x[k]][1] <= MaxChars
  BY <1>1, <1>2, <1>4
<1>7. \A k \in 1..r : G[k] = <<A[x[k]][1], A[last[k]][2]>>
  BY <1>3
<1> HIDE DEF last
<1>8. ASSUME NEW i \in 1..n, NEW j \in i..n PROVE A[i][1] <= A[j][1] /\ A[i][2] <= A[j][2] /\ j \in 1..n
  <2>1. j \in 1..n /\ i \in 1..n /\ (i = j \/ i < j)
    BY <1>2
  <2> QED  BY <1>5, <2>1
<1>9. ASSUME NEW k \in 1..r
      PROVE  /\ G[k] \in Span /\ G[k][1] \in Int /\ G[k][2] \in Int
             /\ s[1] <= G[k][1] /\ G[k][1] < G[k][2] /\ G[k][2] <= s[2]
             /\ Length(G[k]) <= MaxChars
             /\ G[k][1] = A[x[k]][1] /\ G[k][2] = A[last[k]][2]
  <2>1. x[k] \in 1..n /\ last[k] \in x[k]..n /\ last[k] \in 1..n
    BY <1>2, <1>6
  <2>2. A[x[k]][2] <= A[last[k]][2]
    BY <1>8, <2>1
  <2> DEFINE p == A[x[k]][1]
             q == A[last[k]][2]
  <2>3. /\ p \in Int /\ q \in Int /\ p < q /\ s[1] <= p /\ q <= s[2] /\ q - p <= MaxChars
    BY <1>5, <1>6, <2>1, <2>2
  <2>4. G[k] = <<p, q>>
    BY <1>7
  <2> HIDE DEF p, q
  <2>5. /\ G[k] \in Span /\ G[k][1] \in Int /\ G[k][2] \in Int
             /\ s[1] <= G[k][1] /\ G[k][1] < G[k][2] /\ G[k][2] <= s[2]
             /\ Length(G[k]) <= MaxChars
             /\ G[k][1] = p /\ G[k][2] = q
    BY <2>3, <2>4 DEF Span, Length
  <2> QED  BY <2>5 DEF p, q
<1>10. G \in Seq(Span) /\ Len(G) = r /\ DOMAIN G = 1..r
  <2>1. DOMAIN G = 1..r /\ \A k \in 1..r : G[k] \in Span
    BY <1>3, <1>9
  <2>2. G \in [1..r -> Span]
    BY <1>3, <2>1
  <2> QED  BY <1>2, <2>2
<1>11. ASSUME NEW k \in 1..(r - 1) PROVE G[k][1] < G[k + 1][1]
  <2>1. k \in 1..r /\ k + 1 \in 1..r
    BY <1>2
  <2>2. x[k] < x[k + 1] /\ x[k] \in 1..n /\ x[k + 1] \in 1..n
    BY <1>1, <2>1
  <2> QED  BY <1>5, <1>9, <2>1, <2>2
<1>12. ASSUME NEW a \in Int, s[1] <= a, a < s[2]
       PROVE  \E k \in 1..r : G[k][1] <= a /\ a < G[k][2]
  <2>1. PICK u \in 1..n : A[u][1] <= a /\ a < A[u][2]
    BY <1>5, <1>12
  <2> DEFINE K == {k \in 1..r : x[k] <= u}
  <2>2. /\ IsFiniteSet(K) /\ K \subseteq Int /\ 1 \in K
        /\ \A k \in K : k \in 1..r /\ x[k] <= u
        /\ \A k \in 1..r : x[k] <= u => k \in K
    <3>1. K \subseteq 1..r /\ 1 \in K /\ \A k \in K : x[k] <= u
      BY <1>1, <1>2
    <3>2. \A k \in 1..r : x[k] <= u => k \in K
      OBVIOUS
    <3> HIDE DEF K
    <3>3. IsFiniteSet(1..r)
      BY FS_Interval
    <3>4. IsFiniteSet(K)
      BY <3>1, <3>3, FS_Subset
    <3> QED  BY <3>1, <3>2, <3>4
  <2> HIDE DEF K
  <2>3. PICK k \in K : \A j \in K : j <= k
    BY <2>2, ExtremesExist
  <2>4. k \in 1..r /\ x[k] <= u /\ x[k] \in 1..n /\ last[k] \in 1..n
    BY <1>2, <1>6, <2>2
  <2>5. u <= last[k]
    <3>1. CASE k = r
      BY <1>1, <1>2, <1>6, <2>4, <3>1
    <3>2. CASE k # r
      <4>1. k \in 1..(r - 1) /\ k + 1 \in 1..r /\ ~ (k + 1 <= k)
        BY <1>2, <2>4, <3>2
      <4>2. ~ (x[k + 1] <= u)
        BY <2>2, <2>3, <4>1
      <4>3. x[k + 1] <= last[k] + 1 /\ x[k + 1] \in 1..n
        <5>1. x[k + 1] <= Stop(A, x[k]) /\ x[k + 1] \in 1..n
          BY <1>1, <4>1
        <5>2. Stop(A, x[k]) \in Int /\ last[k] = Stop(A, x[k]) - 1
          BY <1>2, <1>4, <1>6, <2>4
        <5> QED  BY <5>1, <5>2
      <4> QED  BY <1>2, <2>4, <4>2, <4>3
    <3> QED  BY <3>1, <3>2
  <2>6. u \in x[k]..n /\ last[k] \in u..n
    BY <1>2, <2>4, <2>5
  <2>7. A[x[k]][1] <= A[u][1] /\ A[u][2] <= A[last[k]][2]
    BY <1>8, <2>4, <2>6
  <2> QED  BY <1>5, <1>9, <2>1, <2>4, <2>7
<1> QED  BY <1>2, <1>9, <1>10, <1>11, <1>12 DEF Grouped, G

-----------------------------------------------------------------------------
(* The chunks of the structural strategies. *)

Chunk == [span : Span, section : Span]
Start == [c \in Chunk |-> c.span[1]]

\* A part of its section, not longer than the maximum.
InSection(c) ==
  /\ c.span[1] \in Int /\ c.span[2] \in Int /\ c.span[1] < c.span[2]
  /\ c.section[1] <= c.span[1] /\ c.span[2] <= c.section[2]
  /\ Length(c.span) <= MaxChars

\* C are chunks in order that cover their sections between them.
Covering(C, from, to) ==
  /\ C \in Seq(Chunk) /\ Len(C) \in Nat /\ DOMAIN C = 1..Len(C)
  /\ \A k \in 1..Len(C) : InSection(C[k])
  /\ Climbs(C, Start)
  /\ \A a \in Int : from <= a /\ a < to =>
       \E k \in 1..Len(C) : C[k].span[1] <= a /\ a < C[k].span[2]

\* So do the chunks of a section its characters.
LEMMA SectionChunksCover ==
  ASSUME NEW pages, NEW length, Placed(Lines(pages), pages, length),
         NEW s, LineSpan(s, Lines(pages), length)
  PROVE  /\ Covering(SectionChunks(pages, s), s[1], s[2])
         /\ Ranges(SectionChunks(pages, s), Start, s[1], s[2])
<1> DEFINE G == Group(Atoms(pages, s))
           C == SectionChunks(pages, s)
<1>1. Grouped(G, s)
  <2>1. Units(Atoms(pages, s), s)
    BY AtomsTile
  <2> QED  BY <2>1, GroupCovers
<1>2. s \in Span /\ s[1] \in Int /\ s[2] \in Int
  BY DEF LineSpan, Span
<1>3. C = [i \in DOMAIN G |-> [span |-> G[i], section |-> s]]
  BY DEF SectionChunks
<1> HIDE DEF G, C
<1>4. G \in Seq(Span) /\ Len(G) \in Nat /\ DOMAIN G = 1..Len(G)
  BY <1>1 DEF Grouped
<1> DEFINE n == Len(G)
<1>5. \A k \in 1..n : /\ G[k] \in Span /\ G[k][1] \in Int /\ G[k][2] \in Int
                      /\ s[1] <= G[k][1] /\ G[k][1] < G[k][2] /\ G[k][2] <= s[2]
                      /\ Length(G[k]) <= MaxChars
  BY <1>1 DEF Grouped
<1>6. /\ \A k \in 1..(n - 1) : G[k][1] < G[k + 1][1]
      /\ \A a \in Int : s[1] <= a /\ a < s[2] => \E k \in 1..n : G[k][1] <= a /\ a < G[k][2]
  BY <1>1 DEF Grouped
<1> HIDE DEF n
<1>7. \A k \in 1..n : C[k] \in Chunk /\ C[k].span = G[k] /\ C[k].section = s
  BY <1>2, <1>3, <1>4, <1>5 DEF Chunk, n
<1>8. C \in Seq(Chunk) /\ Len(C) = n /\ DOMAIN C = 1..n
  <2>1. C \in [1..n -> Chunk]
    BY <1>3, <1>4, <1>7 DEF n
  <2> QED  BY <1>4, <2>1 DEF n
<1>9. n \in Nat
  BY <1>4 DEF n
<1>10. \A k \in 1..n : Start[C[k]] = G[k][1]
  BY <1>7 DEF Start
<1>11. Climbs(C, Start)
  <2> SUFFICES ASSUME NEW k \in 1..(n - 1) PROVE Start[C[k]] < Start[C[k + 1]]
    BY <1>8 DEF Climbs
  <2>1. k \in 1..n /\ k + 1 \in 1..n
    BY <1>9
  <2> QED  BY <1>6, <1>10, <2>1
<1>12. Ranges(C, Start, s[1], s[2])
  <2> SUFFICES ASSUME NEW k \in 1..n PROVE s[1] <= Start[C[k]] /\ Start[C[k]] < s[2]
    BY <1>8 DEF Ranges
  <2>1. s[1] <= G[k][1] /\ G[k][1] < s[2]
    BY <1>2, <1>5
  <2> QED  BY <1>10, <2>1
<1>13. \A a \in Int : s[1] <= a /\ a < s[2] => \E k \in 1..n : C[k].span[1] <= a /\ a < C[k].span[2]
  BY <1>6, <1>7
<1>14. \A k \in 1..n : InSection(C[k])
  BY <1>5, <1>7 DEF InSection
<1> QED  BY <1>8, <1>9, <1>11, <1>12, <1>13, <1>14 DEF Covering, C

\* _split_structural: the chunks of all sections, one section after the other.
LEMMA AllChunksCover ==
  ASSUME NEW pages, Whole(pages), NEW parents,
         NEW C, C = FlattenSeq([s \in DOMAIN Sections(pages, parents) |->
                                  SectionChunks(pages, Sections(pages, parents)[s])])
  PROVE  Covering(C, 0, TextLength(pages))
<1> DEFINE B == Sections(pages, parents)
           L == Lines(pages)
           length == TextLength(pages)
           n == Len(B)
           ss == [i \in 1..n |-> SectionChunks(pages, B[i])]
           bound == [i \in 1..(n + 1) |-> IF i <= n THEN B[i][1] ELSE length]
<1>1. Placed(L, pages, length)
  BY LinesArePlaced
<1>2. PICK S \in SUBSET LineStarts(L) : 0 \in S /\ Tiles(B, S, length)
  BY SectionsTile
<1>3. \A i \in 1..n : LineSpan(B[i], L, length)
  BY SectionsTile
<1>4. \A i \in 1..n : /\ Covering(SectionChunks(pages, B[i]), B[i][1], B[i][2])
                      /\ Ranges(SectionChunks(pages, B[i]), Start, B[i][1], B[i][2])
  <2> SUFFICES ASSUME NEW i \in 1..n
               PROVE  /\ Covering(SectionChunks(pages, B[i]), B[i][1], B[i][2])
                      /\ Ranges(SectionChunks(pages, B[i]), Start, B[i][1], B[i][2])
    OBVIOUS
  <2> DEFINE s == B[i]
  <2>1. LineSpan(s, L, length)
    BY <1>3
  <2> HIDE DEF s, length
  <2>2. Covering(SectionChunks(pages, s), s[1], s[2]) /\ Ranges(SectionChunks(pages, s), Start, s[1], s[2])
    BY <1>1, <2>1, SectionChunksCover
  <2> QED  BY <2>2 DEF s
<1> HIDE DEF B, L, length
<1>5. B \in Seq(Span) /\ n \in Nat /\ DOMAIN B = 1..n
  BY <1>2 DEF Tiles
<1>6. C = FlattenSeq(ss)
  BY <1>5 DEF B
<1>7. \A i \in 1..n : ss[i] = SectionChunks(pages, B[i])
  OBVIOUS
<1> HIDE DEF ss
<1>8. \A i \in 1..n : /\ Covering(ss[i], B[i][1], B[i][2])
                      /\ Ranges(ss[i], Start, B[i][1], B[i][2])
  BY <1>4, <1>7
<1>9. \A i \in 1..n : ss[i] \in Seq(Chunk) /\ Climbs(ss[i], Start)
  BY <1>8 DEF Covering
<1>10. ss \in [1..n -> Seq(Chunk)]
  <2>1. DOMAIN ss = 1..n /\ ss = [i \in 1..n |-> ss[i]]
    BY DEF ss
  <2> QED  BY <1>9, <2>1
<1>11. \A i \in 1..n : /\ B[i][1] \in Int /\ B[i][2] \in Int /\ B[i][1] < B[i][2]
                       /\ i < n => B[i][2] = B[i + 1][1]
                       /\ i = n => B[i][2] = length
  BY <1>2 DEF Tiles
<1>12. length \in Int
  BY <1>1 DEF Placed
<1>13. \A i \in 1..n : bound[i] = B[i][1] /\ bound[i + 1] = B[i][2]
  <2> SUFFICES ASSUME NEW i \in 1..n PROVE bound[i] = B[i][1] /\ bound[i + 1] = B[i][2]
    OBVIOUS
  <2>1. i \in 1..(n + 1) /\ i + 1 \in 1..(n + 1) /\ i <= n
    BY <1>5
  <2>2. CASE i < n
    <3>1. i + 1 <= n
      BY <1>5, <2>2
    <3> QED  BY <1>11, <2>1, <2>2, <3>1
  <2>3. CASE i = n
    <3>1. ~ (i + 1 <= n)
      BY <1>5, <2>3
    <3> QED  BY <1>11, <2>1, <2>3, <3>1
  <2>4. i < n \/ i = n
    <3> HIDE DEF n
    <3> QED  BY <1>5
  <2> QED  BY <2>2, <2>3, <2>4
<1>14. bound \in [1..(n + 1) -> Int]
  <2>1. \A i \in 1..(n + 1) : i <= n => i \in 1..n
    <3> HIDE DEF n
    <3> QED  BY <1>5
  <2> QED  BY <1>11, <1>12, <2>1
<1> HIDE DEF bound, n
<1>15. Start \in [Chunk -> Int]
  BY DEF Start, Chunk, Span
<1>16. \A i \in 1..n : /\ bound[i] <= bound[i + 1]
                       /\ Climbs(ss[i], Start) /\ Ranges(ss[i], Start, bound[i], bound[i + 1])
  <2> SUFFICES ASSUME NEW i \in 1..n
               PROVE  /\ bound[i] <= bound[i + 1]
                      /\ Climbs(ss[i], Start) /\ Ranges(ss[i], Start, bound[i], bound[i + 1])
    OBVIOUS
  <2>1. bound[i] <= bound[i + 1]
    BY <1>11, <1>13
  <2> QED  BY <1>8, <1>9, <1>13, <2>1
<1>17. Climbs(C, Start)
  <2>1. n \in Nat
    BY <1>5
  <2>2. Climbs(FlattenSeq(ss), Start)
    BY <1>10, <1>14, <1>15, <1>16, <2>1, FlattenedClimbs
  <2> QED  BY <1>6, <2>2
<1>18. C \in Seq(Chunk) /\ ToSet(C) = UNION {ToSet(ss[i]) : i \in 1..n}
  <2>1. n \in Nat
    BY <1>5
  <2>2. /\ FlattenSeq(ss) \in Seq(Chunk)
        /\ ToSet(FlattenSeq(ss)) = UNION {ToSet(ss[i]) : i \in 1..n}
    BY <1>10, <2>1, FlattenedHasAll
  <2> QED  BY <1>6, <2>2
<1>19. Len(C) \in Nat /\ DOMAIN C = 1..Len(C)
  BY <1>18
<1>20. \A k \in 1..Len(C) : InSection(C[k])
  <2> SUFFICES ASSUME NEW k \in 1..Len(C) PROVE InSection(C[k])
    OBVIOUS
  <2>1. C[k] \in ToSet(C)
    BY <1>19 DEF ToSet
  <2>2. PICK i \in 1..n : C[k] \in ToSet(ss[i])
    BY <1>18, <2>1
  <2>3. PICK j \in DOMAIN ss[i] : C[k] = ss[i][j]
    BY <2>2 DEF ToSet
  <2>4. Covering(ss[i], B[i][1], B[i][2])
    BY <1>8
  <2>5. j \in 1..Len(ss[i])
    BY <2>4 DEF Covering
  <2>6. InSection(ss[i][j])
    BY <2>4, <2>5 DEF Covering
  <2> QED  BY <2>3, <2>6
<1>21. ASSUME NEW a \in Int, 0 <= a, a < length
       PROVE  \E k \in 1..Len(C) : C[k].span[1] <= a /\ a < C[k].span[2]
  <2>1. PICK i \in 1..Len(B) : B[i][1] <= a /\ a < B[i][2]
    BY <1>2, <1>21 DEF Tiles
  <2>2. i \in 1..n
    BY <2>1 DEF n
  <2>3. Covering(ss[i], B[i][1], B[i][2])
    BY <1>8, <2>2
  <2>4. PICK j \in 1..Len(ss[i]) : ss[i][j].span[1] <= a /\ a < ss[i][j].span[2]
    BY <2>1, <2>3 DEF Covering
  <2>5. ss[i][j] \in ToSet(ss[i])
    BY <2>3 DEF ToSet, Covering
  <2>6. ss[i][j] \in ToSet(C)
    BY <1>18, <2>2, <2>5
  <2>7. PICK k \in DOMAIN C : C[k] = ss[i][j]
    BY <2>6 DEF ToSet
  <2>8. k \in 1..Len(C)
    BY <1>19
  <2> QED  BY <2>4, <2>7, <2>8
<1> QED  BY <1>17, <1>18, <1>19, <1>20, <1>21 DEF Covering, length

\* What of the lines the chunks hold, once those of nothing but line breaks are dropped.
Holding(C, L) ==
  /\ C \in Seq(Chunk) /\ Len(C) \in Nat /\ DOMAIN C = 1..Len(C)
  /\ \A k \in 1..Len(C) : InSection(C[k]) /\ \E x \in L : Meets(x.span, C[k].span)
  /\ \A k \in 1..(Len(C) - 1) : C[k].span[1] < C[k + 1].span[1]
  /\ \A x \in L : \A a \in x.span[1]..(x.span[2] - 1) :
       \E k \in 1..Len(C) : C[k].span[1] <= a /\ a < C[k].span[2]

\* The chunks that are kept hold every line, and each holds a part of one.
LEMMA ChunksHoldLines ==
  ASSUME NEW pages, Whole(pages), NEW parents
  PROVE  Holding(SplitStructural(pages, parents), Lines(pages))
<1> DEFINE C == FlattenSeq([s \in DOMAIN Sections(pages, parents) |->
                              SectionChunks(pages, Sections(pages, parents)[s])])
           L == Lines(pages)
           length == TextLength(pages)
           places == {i \in DOMAIN C : \E x \in L : Meets(x.span, C[i].span)}
           kept == Picked(C, places)
           order == Ascending(places)
           n == Cardinality(places)
<1>1. kept = SplitStructural(pages, parents)
  BY DEF SplitStructural
<1>2. Placed(L, pages, length)
  BY LinesArePlaced
<1>3. Covering(C, 0, length)
  BY AllChunksCover
<1> HIDE DEF C, L, length
<1>4. C \in Seq(Chunk) /\ Len(C) \in Nat /\ DOMAIN C = 1..Len(C)
  BY <1>3 DEF Covering
<1>5. /\ places \in SUBSET (DOMAIN C)
      /\ \A i \in places : \E x \in L : Meets(x.span, C[i].span)
      /\ \A i \in DOMAIN C : \A x \in L : Meets(x.span, C[i].span) => i \in places
  OBVIOUS
<1>6. kept = Picked(C, places) /\ kept = [k \in DOMAIN order |-> C[order[k]]]
  BY DEF Picked
<1> HIDE DEF places, kept
<1>7. /\ IsFiniteSet(places) /\ kept \in Seq(Chunk) /\ Len(kept) = n
      /\ ToSet(kept) = {C[i] : i \in places}
  <2>1. C \in Seq(Chunk) /\ places \in SUBSET (DOMAIN C)
    BY <1>4, <1>5
  <2>2. kept = Picked(C, places)
    BY <1>6
  <2> HIDE DEF order, n
  <2>3. /\ IsFiniteSet(places) /\ Picked(C, places) \in Seq(Chunk)
        /\ Len(Picked(C, places)) = Cardinality(places)
        /\ ToSet(Picked(C, places)) = {C[i] : i \in places}
    BY <2>1, PickedSelects
  <2> QED  BY <2>2, <2>3 DEF n
<1>8. places \subseteq Int
  BY <1>4, <1>5
<1>9. /\ n \in Nat /\ order \in [1..n -> places]
      /\ \A i, j \in 1..n : i < j <=> order[i] < order[j]
  BY <1>7, <1>8, AscendingSorts
<1> HIDE DEF order, n
<1>10. \A k \in 1..n : kept[k] = C[order[k]] /\ order[k] \in places /\ order[k] \in 1..Len(C)
  BY <1>4, <1>5, <1>6, <1>9
<1>11. \A i, j \in 1..Len(C) : i < j => C[i].span[1] < C[j].span[1]
  <2> DEFINE f == [k \in 1..Len(C) |-> C[k].span[1]]
  <2>1. \A k \in 1..Len(C) : f[k] = C[k].span[1]
    OBVIOUS
  <2>2. \A k \in 1..Len(C) : f[k] \in Int
    BY <1>3 DEF Covering, InSection
  <2>3. ASSUME NEW k \in 1..(Len(C) - 1) PROVE f[k] < f[k + 1]
    <3>1. k \in 1..Len(C) /\ k + 1 \in 1..Len(C)
      BY <1>4
    <3>2. C[k] \in Chunk /\ C[k + 1] \in Chunk
      BY <1>4, <3>1
    <3>3. Start[C[k]] = C[k].span[1] /\ Start[C[k + 1]] = C[k + 1].span[1]
      BY <3>2 DEF Start
    <3>4. Start[C[k]] < Start[C[k + 1]]
      BY <1>3 DEF Covering, Climbs
    <3> QED  BY <2>1, <3>1, <3>3, <3>4
  <2> HIDE DEF f
  <2>4. Len(C) \in Int
    BY <1>4
  <2>5. \A i, j \in 1..Len(C) : i < j => f[i] < f[j]
    BY <2>2, <2>3, <2>4, StepwiseIncreases
  <2> QED  BY <2>1, <2>5
<1>12. \A k \in 1..n : InSection(kept[k]) /\ \E x \in L : Meets(x.span, kept[k].span)
  <2>1. \A i \in 1..Len(C) : InSection(C[i])
    BY <1>3 DEF Covering
  <2> QED  BY <1>5, <1>10, <2>1
<1>13. ASSUME NEW k \in 1..(n - 1) PROVE kept[k].span[1] < kept[k + 1].span[1]
  <2>1. k \in 1..n /\ k + 1 \in 1..n /\ k < k + 1
    BY <1>9
  <2> QED  BY <1>9, <1>10, <1>11, <2>1
<1>14. ASSUME NEW x \in L, NEW a \in x.span[1]..(x.span[2] - 1)
       PROVE  \E k \in 1..n : kept[k].span[1] <= a /\ a < kept[k].span[2]
  <2>1. x.span[1] \in Int /\ x.span[2] \in Int /\ 0 <= x.span[1] /\ x.span[2] <= length /\ length \in Int
    BY <1>2 DEF Placed
  <2>2. a \in Int /\ 0 <= a /\ a < length /\ x.span[1] <= a /\ a < x.span[2]
    BY <2>1
  <2>3. PICK i \in 1..Len(C) : C[i].span[1] <= a /\ a < C[i].span[2]
    BY <1>3, <2>2 DEF Covering
  <2>4. C[i].span[1] \in Int /\ C[i].span[2] \in Int
    BY <1>3 DEF Covering, InSection
  <2>5. Meets(x.span, C[i].span)
    BY <2>1, <2>2, <2>3, <2>4 DEF Meets
  <2>6. i \in places
    BY <1>4, <1>5, <2>5
  <2>7. C[i] \in ToSet(kept)
    BY <1>7, <2>6
  <2>8. PICK k \in DOMAIN kept : kept[k] = C[i]
    BY <2>7 DEF ToSet
  <2>9. k \in 1..n
    BY <1>7
  <2> QED  BY <2>3, <2>8, <2>9
<1>15. Len(kept) = n /\ n \in Nat /\ DOMAIN kept = 1..n
  BY <1>7, <1>9
<1>16. Holding(kept, L)
  BY <1>7, <1>12, <1>13, <1>14, <1>15 DEF Holding
<1> QED  BY <1>1, <1>16 DEF L

-----------------------------------------------------------------------------
(* Blocks. *)

\* _text_block_spans: the blocks of a page start with its lines, one with the first.
LEMMA BlockStartsCut ==
  ASSUME NEW pages, NEW p, NEW n \in Nat \ {0}, DOMAIN pages[p] = 1..n
  PROVE  BlockStarts(pages, p) \subseteq 1..n /\ 1 \in BlockStarts(pages, p)
<1> DEFINE page == pages[p]
           long(l, v) == LineAt(pages, p, l - 1).span[2] - LineAt(pages, p, v).span[1] >= BlockLimit
           Rounds(f) == [l \in 1..n |->
              IF l = 1 \/ page[l].level > 0 THEN l
              ELSE IF page[l - 1].level > 0 \/ page[l - 1].ends \/ long(l, f[l - 1])
                   THEN l ELSE f[l - 1]]
           x == CHOOSE f : f = Rounds(f)
           V == 1..n
           step == [q \in (1..n) \X V |->
              IF page[q[1]].level > 0 THEN q[1]
              ELSE IF page[q[1] - 1].level > 0 \/ page[q[1] - 1].ends \/ long(q[1], q[2])
                   THEN q[1] ELSE q[2]]
<1>1. BlockStarts(pages, p) = {x[l] : l \in 1..n}
  BY DEF BlockStarts
<1>2. step \in [(1..n) \X V -> V] /\ 1 \in V
  OBVIOUS
<1>3. \A l \in 1..n : \A v \in V :
        step[<<l, v>>] = IF page[l].level > 0 THEN l
                         ELSE IF page[l - 1].level > 0 \/ page[l - 1].ends \/ long(l, v)
                              THEN l ELSE v
  OBVIOUS
<1> HIDE DEF V, step, long, page
<1>4. \E f : f = Rounds(f)
  <2>1. 1 \in Int /\ n \in Int
    OBVIOUS
  <2>2. PICK f \in [1..n -> V] : Walks(f, 1, step, 1, n)
    BY <1>2, <2>1, WalkExists
  <2>3. ASSUME NEW l \in 1..n
        PROVE  f[l] = IF l = 1 \/ page[l].level > 0 THEN l
                      ELSE IF page[l - 1].level > 0 \/ page[l - 1].ends \/ long(l, f[l - 1])
                           THEN l ELSE f[l - 1]
    <3>1. f[l] = IF l = 1 THEN 1 ELSE step[<<l, f[l - 1]>>]
      BY <2>2 DEF Walks
    <3>2. l # 1 => l - 1 \in 1..n
      OBVIOUS
    <3>3. l # 1 => f[l - 1] \in V
      BY <2>2, <3>2
    <3> QED  BY <1>3, <3>1, <3>3
  <2>4. f = Rounds(f)
    BY <2>2, <2>3
  <2> QED  BY <2>4
<1>5. x = Rounds(x)
  BY <1>4
<1> HIDE DEF x
<1>6. \A l \in 1..n : x[l] = IF l = 1 \/ page[l].level > 0 THEN l
                      ELSE IF page[l - 1].level > 0 \/ page[l - 1].ends \/ long(l, x[l - 1])
                           THEN l ELSE x[l - 1]
  BY <1>5
<1>7. \A l \in 1..n : x[l] \in 1..n
  <2> DEFINE G == {l \in 1..n : x[l] \in 1..n}
  <2>1. 1 \in G /\ 1 \in Int /\ n \in Int
    BY <1>6
  <2>2. ASSUME NEW l \in 1..(n - 1), l \in G PROVE l + 1 \in G
    <3>1. l + 1 \in 1..n /\ (l + 1) - 1 = l /\ x[l] \in 1..n
      BY <2>2
    <3> QED  BY <1>6, <3>1
  <2>3. 1..n \subseteq G
    <3> HIDE DEF G
    <3> QED  BY <2>1, <2>2, BoundedInduction
  <2> QED  BY <2>3
<1>8. 1 \in 1..n /\ x[1] = 1
  BY <1>6
<1> QED  BY <1>1, <1>7, <1>8

Block == [page : Int, first : LineRecord, span : Span]

\* The block from line f to line g of its page.
BlockOf(b, f, g) == b.page = f.page /\ f.page = g.page /\ b.span = <<f.span[1], g.span[2]>>

PageBlocks(pages, p) ==
  LET bounds == Between(Ascending(BlockStarts(pages, p)), Len(pages[p]) + 1) IN
  [i \in DOMAIN bounds |->
     [page |-> p, first |-> pages[p][bounds[i][1]],
      span |-> <<LineAt(pages, p, bounds[i][1]).span[1],
                 LineAt(pages, p, bounds[i][2] - 1).span[2]>>]]

\* The blocks of a page hold its lines from one to another, and each line is in one.
LEMMA PageBlocksHoldLines ==
  ASSUME NEW pages, Whole(pages), NEW p \in 1..Len(pages)
  PROVE  /\ PageBlocks(pages, p) \in Seq(Block)
         /\ \A b \in ToSet(PageBlocks(pages, p)) : \E f, g \in Lines(pages) : BlockOf(b, f, g)
         /\ \A x \in Lines(pages) : x.page = p =>
              \E b \in ToSet(PageBlocks(pages, p)) :
                b.page = x.page /\ b.span[1] <= x.span[1] /\ x.span[2] <= b.span[2]
<1> DEFINE L == Lines(pages)
           S == BlockStarts(pages, p)
           n == Len(pages[p])
           B == Between(Ascending(S), n + 1)
           D == PageBlocks(pages, p)
           At(l) == LineAt(pages, p, l)
<1>1. Placed(L, pages, TextLength(pages))
  BY LinesArePlaced
<1>2. n \in Nat \ {0} /\ DOMAIN pages[p] = 1..n /\ \A l \in 1..n : pages[p][l] \in LineRecord
  <2>1. pages[p] \in Seq(LineRecord) /\ pages[p] # <<>>
    BY PagesFollow
  <2> QED  BY <2>1, PageHasItsLines
<1>3. S \subseteq 1..n /\ 1 \in S
  BY <1>2, BlockStartsCut
<1>4. D = [i \in DOMAIN B |->
             [page |-> p, first |-> pages[p][B[i][1]],
              span |-> <<At(B[i][1]).span[1], At(B[i][2] - 1).span[2]>>]]
  BY DEF PageBlocks
<1> HIDE DEF S, D
<1>5. IsFiniteSet(S) /\ S \subseteq Int /\ (\A a \in S : a < n + 1) /\ n + 1 \in Int
  <2>1. IsFiniteSet(1..n)
    BY <1>2, FS_Interval
  <2>2. IsFiniteSet(S)
    BY <1>3, <2>1, FS_Subset
  <2> HIDE DEF n
  <2>3. n \in Nat
    BY <1>2
  <2>4. \A a \in S : a \in Int /\ a < n + 1
    BY <1>3, <2>3
  <2>5. n + 1 \in Int
    BY <2>3
  <2> QED  BY <2>2, <2>4, <2>5
<1> DEFINE end == n + 1
<1>6. Tiles(B, S, end)
  <2> HIDE DEF end
  <2>1. Tiles(Between(Ascending(S), end), S, end)
    BY <1>5, BetweenTiles DEF end
  <2> QED  BY <2>1 DEF end
<1> HIDE DEF B
<1>7. B \in Seq(Span) /\ Len(B) \in Nat /\ DOMAIN B = 1..Len(B)
  BY <1>6 DEF Tiles
<1> DEFINE m == Len(B)
<1>8. \A i \in 1..m : /\ B[i][1] \in S /\ B[i][1] \in Int /\ B[i][2] \in Int
                      /\ B[i][1] < B[i][2] /\ B[i][2] <= end
  BY <1>6 DEF Tiles
<1>9. \A a \in Int, b \in S : b <= a /\ a < end => \E i \in 1..m : B[i][1] <= a /\ a < B[i][2]
  BY <1>6 DEF Tiles
<1> HIDE DEF m, n, L
<1>10. \A i \in 1..m : B[i][1] \in 1..n /\ B[i][2] - 1 \in 1..n /\ B[i][1] <= B[i][2] - 1
  <2> SUFFICES ASSUME NEW i \in 1..m
               PROVE  B[i][1] \in 1..n /\ B[i][2] - 1 \in 1..n /\ B[i][1] <= B[i][2] - 1
    OBVIOUS
  <2>1. B[i][1] \in 1..n
    BY <1>3, <1>8
  <2> QED  BY <1>2, <1>8, <2>1
<1>11. \A l \in 1..n : At(l) \in L /\ At(l).page = p /\ At(l).number = l
                       /\ At(l).span[1] \in Int /\ At(l).span[2] \in Int
  <2>1. \A l \in 1..n : At(l) \in L /\ At(l).page = p /\ At(l).number = l
    BY <1>1 DEF Placed, n
  <2>2. \A x \in L : x.span[1] \in Int /\ x.span[2] \in Int
    BY <1>1 DEF Placed
  <2> HIDE DEF At
  <2> QED  BY <2>1, <2>2
<1>12. p \in Int
  BY PagesFollow
<1> HIDE DEF At
<1>13. ASSUME NEW i \in 1..m
       PROVE  /\ D[i] \in Block /\ D[i].page = p
              /\ BlockOf(D[i], At(B[i][1]), At(B[i][2] - 1))
              /\ D[i].span[1] = At(B[i][1]).span[1] /\ D[i].span[2] = At(B[i][2] - 1).span[2]
  <2> DEFINE f == B[i][1]
             g == B[i][2] - 1
  <2>1. f \in 1..n /\ g \in 1..n
    BY <1>10
  <2>2. D[i] = [page |-> p, first |-> pages[p][f], span |-> <<At(f).span[1], At(g).span[2]>>]
    BY <1>4, <1>7 DEF m
  <2> HIDE DEF f, g
  <2>3. /\ pages[p][f] \in LineRecord
        /\ At(f).page = p /\ At(g).page = p /\ At(f).span[1] \in Int /\ At(g).span[2] \in Int
    BY <1>2, <1>11, <2>1
  <2>4. D[i].page = p /\ D[i].span = <<At(f).span[1], At(g).span[2]>>
    BY <2>2
  <2>5. D[i] \in Block
    BY <1>12, <2>2, <2>3 DEF Block, Span
  <2>6. BlockOf(D[i], At(f), At(g))
    BY <2>3, <2>4 DEF BlockOf
  <2> QED  BY <2>4, <2>5, <2>6 DEF f, g
<1>14. DOMAIN D = 1..m /\ D \in Seq(Block)
  <2>1. DOMAIN D = 1..m
    BY <1>4, <1>7 DEF m
  <2>2. D \in [1..m -> Block]
    BY <1>4, <1>7, <1>13 DEF m
  <2>3. m \in Nat
    BY <1>7 DEF m
  <2> QED  BY <2>1, <2>2, <2>3
<1>15. ASSUME NEW b \in ToSet(D) PROVE \E f, g \in L : BlockOf(b, f, g)
  <2>1. PICK i \in 1..m : b = D[i]
    BY <1>14 DEF ToSet
  <2>2. At(B[i][1]) \in L /\ At(B[i][2] - 1) \in L
    BY <1>10, <1>11
  <2> QED  BY <1>13, <2>1, <2>2
<1>16. ASSUME NEW x \in L, x.page = p
       PROVE  \E b \in ToSet(D) : b.page = x.page /\ b.span[1] <= x.span[1] /\ x.span[2] <= b.span[2]
  <2> DEFINE l == x.number
  <2>1. l \in 1..n /\ x = At(l) /\ x.span[1] \in Int /\ x.span[2] \in Int /\ x.span[1] < x.span[2]
    BY <1>1, <1>16 DEF Placed, n, At
  <2> HIDE DEF l
  <2>2. l \in Int /\ 1 <= l /\ l < end
    BY <1>2, <2>1
  <2>3. PICK i \in 1..m : B[i][1] <= l /\ l < B[i][2]
    BY <1>3, <1>9, <2>2
  <2> DEFINE f == B[i][1]
             g == B[i][2] - 1
  <2>4. f \in 1..n /\ g \in 1..n /\ f <= l /\ l <= g
    BY <1>8, <1>10, <2>2, <2>3
  <2>5. D[i].page = p /\ D[i].span[1] = At(f).span[1] /\ D[i].span[2] = At(g).span[2]
    BY <1>13
  <2> HIDE DEF f, g
  <2> DEFINE y == At(f)
             z == At(g)
  <2>6. /\ y \in L /\ y.page = p /\ y.number = f
        /\ z \in L /\ z.page = p /\ z.number = g
        /\ x.number = l /\ l \in Int /\ f \in Int /\ g \in Int
    BY <1>11, <2>1, <2>4
  <2> HIDE DEF y, z
  <2>7. y.span[1] <= x.span[1]
    <3>1. y = x \/ Precedes(y, x)
      <4>1. CASE f = l
        BY <2>1, <4>1 DEF y
      <4>2. CASE f # l
        BY <1>16, <2>4, <2>6, <4>2 DEF Precedes
      <4> QED  BY <4>1, <4>2
    <3>2. Precedes(y, x) => y.span[2] < x.span[1]
      BY <1>1, <2>6 DEF Placed
    <3>3. y.span[1] \in Int /\ y.span[2] \in Int /\ y.span[1] < y.span[2]
      BY <1>1, <2>6 DEF Placed
    <3> QED  BY <2>1, <3>1, <3>2, <3>3
  <2>8. x.span[2] <= z.span[2]
    <3>1. z = x \/ Precedes(x, z)
      <4>1. CASE g = l
        BY <2>1, <4>1 DEF z
      <4>2. CASE g # l
        BY <1>16, <2>4, <2>6, <4>2 DEF Precedes
      <4> QED  BY <4>1, <4>2
    <3>2. Precedes(x, z) => x.span[2] < z.span[1]
      BY <1>1, <2>6 DEF Placed
    <3>3. z.span[1] \in Int /\ z.span[2] \in Int /\ z.span[1] < z.span[2]
      BY <1>1, <2>6 DEF Placed
    <3> QED  BY <2>1, <3>1, <3>2, <3>3
  <2>9. D[i] \in ToSet(D)
    BY <1>14 DEF ToSet
  <2> QED  BY <1>16, <2>5, <2>7, <2>8, <2>9 DEF y, z
<1> QED  BY <1>14, <1>15, <1>16 DEF D, L

\* So it is with the blocks of all pages.
LEMMA BlocksHoldLines ==
  ASSUME NEW pages, Whole(pages), NEW D, D = Blocks(pages)
  PROVE  /\ \A b \in DOMAIN D : \E f, g \in Lines(pages) : BlockOf(D[b], f, g)
         /\ \A x \in Lines(pages) : \E b \in DOMAIN D :
              D[b].page = x.page /\ D[b].span[1] <= x.span[1] /\ x.span[2] <= D[b].span[2]
<1> DEFINE n == Len(pages)
           L == Lines(pages)
           ss == [p \in 1..n |-> PageBlocks(pages, p)]
<1>1. n \in Nat /\ DOMAIN pages = 1..n
  BY PagesFollow
<1>2. D = FlattenSeq(ss)
  BY <1>1 DEF Blocks, PageBlocks
<1>3. \A p \in 1..n :
         /\ PageBlocks(pages, p) \in Seq(Block)
         /\ \A b \in ToSet(PageBlocks(pages, p)) : \E f, g \in L : BlockOf(b, f, g)
         /\ \A x \in L : x.page = p =>
              \E b \in ToSet(PageBlocks(pages, p)) :
                b.page = x.page /\ b.span[1] <= x.span[1] /\ x.span[2] <= b.span[2]
  BY PageBlocksHoldLines
<1>4. ss \in [1..n -> Seq(Block)] /\ \A p \in 1..n : ss[p] = PageBlocks(pages, p)
  BY <1>3
<1> HIDE DEF ss, n, L
<1>5. D \in Seq(Block) /\ ToSet(D) = UNION {ToSet(ss[i]) : i \in 1..n}
  BY <1>1, <1>2, <1>4, FlattenedHasAll
<1>6. ASSUME NEW b \in DOMAIN D PROVE \E f, g \in L : BlockOf(D[b], f, g)
  <2>1. D[b] \in ToSet(D)
    BY DEF ToSet
  <2>2. PICK i \in 1..n : D[b] \in ToSet(ss[i])
    BY <1>5, <2>1
  <2> QED  BY <1>3, <1>4, <2>2
<1>7. ASSUME NEW x \in L
      PROVE  \E b \in DOMAIN D :
               D[b].page = x.page /\ D[b].span[1] <= x.span[1] /\ x.span[2] <= D[b].span[2]
  <2>1. x.page \in 1..n
    BY LinesArePlaced DEF Placed, L, n
  <2>2. PICK b \in ToSet(PageBlocks(pages, x.page)) :
          b.page = x.page /\ b.span[1] <= x.span[1] /\ x.span[2] <= b.span[2]
    BY <1>3, <2>1
  <2>3. b \in ToSet(D)
    BY <1>4, <1>5, <2>1, <2>2
  <2>4. PICK c \in DOMAIN D : D[c] = b
    BY <2>3 DEF ToSet
  <2> QED  BY <2>2, <2>4
<1> QED  BY <1>6, <1>7 DEF L

BlockPages(D, c) == {D[b].page : b \in {b \in DOMAIN D : Meets(D[b].span, c)}}
LinePages(L, c) == {x.page : x \in {x \in L : Meets(x.span, c)}}

\* What meets a line meets a block of its page; what meets a block, and any line, meets a
\* line of the block's page.
LEMMA BlocksTellPages ==
  ASSUME NEW pages, Whole(pages), NEW D, D = Blocks(pages), NEW c \in Span, c[1] < c[2],
         \E x \in Lines(pages) : Meets(x.span, c)
  PROVE  BlockPages(D, c) = LinePages(Lines(pages), c)
<1> DEFINE L == Lines(pages)
<1>1. Placed(L, pages, TextLength(pages))
  BY LinesArePlaced
<1>2. /\ \A b \in DOMAIN D : \E f, g \in L : BlockOf(D[b], f, g)
      /\ \A x \in L : \E b \in DOMAIN D :
           D[b].page = x.page /\ D[b].span[1] <= x.span[1] /\ x.span[2] <= D[b].span[2]
  BY BlocksHoldLines
<1>3. PICK y \in L : Meets(y.span, c)
  OBVIOUS
<1> HIDE DEF L
<1>4. c[1] \in Int /\ c[2] \in Int
  BY DEF Span
<1>5. \A x \in L : x.span[1] \in Int /\ x.span[2] \in Int /\ x.span[1] < x.span[2]
  BY <1>1 DEF Placed
<1>6. ASSUME NEW b \in DOMAIN D, Meets(D[b].span, c)
      PROVE  \E x \in L : Meets(x.span, c) /\ x.page = D[b].page
  <2>1. PICK f \in L, g \in L : BlockOf(D[b], f, g)
    BY <1>2
  <2>2. /\ D[b].page = f.page /\ f.page = g.page
        /\ D[b].span[1] = f.span[1] /\ D[b].span[2] = g.span[2]
    BY <2>1 DEF BlockOf
  <2>3. f.span[1] < c[2] /\ g.span[2] > c[1]
    BY <1>6, <2>2 DEF Meets
  <2>4. y.span[1] < c[2] /\ y.span[2] > c[1]
    BY <1>3 DEF Meets
  <2>5. CASE Precedes(y, f)
    <3>1. y.span[2] < f.span[1]
      BY <1>1, <2>5 DEF Placed
    <3>2. Meets(f.span, c)
      BY <1>4, <1>5, <2>3, <2>4, <3>1 DEF Meets
    <3> QED  BY <2>2, <3>2
  <2>6. CASE Precedes(g, y)
    <3>1. g.span[2] < y.span[1]
      BY <1>1, <2>6 DEF Placed
    <3>2. Meets(g.span, c)
      BY <1>4, <1>5, <2>3, <2>4, <3>1 DEF Meets
    <3> QED  BY <2>2, <3>2
  <2>7. CASE ~ Precedes(y, f) /\ ~ Precedes(g, y)
    <3>1. y.page \in Int /\ f.page \in Int /\ g.page \in Int
      <4>1. \A x \in L : x.page \in 1..Len(pages)
        BY <1>1 DEF Placed
      <4> QED  BY <4>1
    <3>2. y.page = f.page
      BY <2>2, <2>7, <3>1 DEF Precedes
    <3> QED  BY <1>3, <2>2, <3>2
  <2> QED  BY <2>5, <2>6, <2>7
<1>7. ASSUME NEW x \in L, Meets(x.span, c)
      PROVE  \E b \in DOMAIN D : Meets(D[b].span, c) /\ D[b].page = x.page
  <2>1. PICK b \in DOMAIN D :
           D[b].page = x.page /\ D[b].span[1] <= x.span[1] /\ x.span[2] <= D[b].span[2]
    BY <1>2
  <2>2. PICK f \in L, g \in L : BlockOf(D[b], f, g)
    BY <1>2
  <2>3. D[b].span[1] \in Int /\ D[b].span[2] \in Int
    <3>1. D[b].span[1] = f.span[1] /\ D[b].span[2] = g.span[2]
      BY <2>2 DEF BlockOf
    <3> QED  BY <1>5, <3>1
  <2>4. x.span[1] < c[2] /\ x.span[2] > c[1]
    BY <1>7 DEF Meets
  <2>5. Meets(D[b].span, c)
    BY <1>4, <1>5, <2>1, <2>3, <2>4 DEF Meets
  <2> QED  BY <2>1, <2>5
<1> QED  BY <1>6, <1>7 DEF BlockPages, LinePages, L

\* The chunks of a structural strategy cover a text that has no blank page.
LEMMA StructuralChunksCover ==
  ASSUME NEW pages, Whole(pages), NEW strategy, strategy # "fixed_boundary_v1"
  PROVE  Covers(Records(pages, strategy), Lines(pages))
<1> DEFINE L == Lines(pages)
           C == SplitStructural(pages, strategy = "section_parent_child_v1")
           D == Blocks(pages)
           R == Records(pages, strategy)
           Met(i) == {b \in DOMAIN D : Meets(D[b].span, C[i].span)}
<1>1. Holding(C, L)
  BY ChunksHoldLines
<1>2. R = Linked(C, D, SectionPaths(D))
  BY DEF Records, Located, Split
<1>3. /\ DOMAIN R = DOMAIN C
      /\ \A i \in DOMAIN C : /\ R[i].span = C[i].span /\ R[i].parent = C[i].section
                             /\ R[i].pages = {D[b].page : b \in Met(i)}
  BY <1>2 DEF Linked
<1>4. ASSUME NEW c \in Span, c[1] < c[2], \E x \in L : Meets(x.span, c)
      PROVE  BlockPages(D, c) = LinePages(L, c)
  <2>1. D = Blocks(pages)
    OBVIOUS
  <2> HIDE DEF D
  <2> QED  BY <1>4, <2>1, BlocksTellPages
<1> HIDE DEF C, D, R, L
<1>5. C \in Seq(Chunk) /\ Len(C) \in Nat /\ DOMAIN C = 1..Len(C)
  BY <1>1 DEF Holding
<1>6. ASSUME NEW i \in DOMAIN R
      PROVE  /\ Length(R[i].span) <= MaxChars
             /\ R[i].parent[1] <= R[i].span[1]
             /\ R[i].span[2] <= R[i].parent[2]
             /\ R[i].pages = {x.page : x \in {x \in L : Meets(x.span, R[i].span)}}
             /\ R[i].pages # {}
             /\ i > 1 => R[i - 1].span[1] < R[i].span[1]
  <2>1. i \in 1..Len(C) /\ i \in DOMAIN C
    BY <1>3, <1>5
  <2>2. InSection(C[i]) /\ C[i] \in Chunk
    BY <1>1, <1>5, <2>1 DEF Holding
  <2>3. PICK x \in L : Meets(x.span, C[i].span)
    BY <1>1, <2>1 DEF Holding
  <2>4. R[i].span = C[i].span /\ R[i].parent = C[i].section /\ R[i].pages = {D[b].page : b \in Met(i)}
    BY <1>3, <2>1
  <2>5. R[i].pages = LinePages(L, C[i].span)
    <3>1. C[i].span \in Span /\ C[i].span[1] < C[i].span[2]
      BY <2>2 DEF InSection, Chunk
    <3>2. BlockPages(D, C[i].span) = LinePages(L, C[i].span)
      BY <1>4, <2>3, <3>1
    <3> QED  BY <2>4, <3>2 DEF BlockPages
  <2>6. R[i].pages # {}
    BY <2>3, <2>5 DEF LinePages
  <2>7. ASSUME i > 1 PROVE R[i - 1].span[1] < R[i].span[1]
    <3>1. i - 1 \in 1..(Len(C) - 1) /\ (i - 1) + 1 = i /\ i - 1 \in DOMAIN C
      BY <1>5, <2>1, <2>7
    <3>2. C[i - 1].span[1] < C[i].span[1]
      BY <1>1, <3>1 DEF Holding
    <3> QED  BY <1>3, <2>4, <3>1, <3>2
  <2> QED  BY <2>2, <2>4, <2>5, <2>6, <2>7 DEF InSection, LinePages
<1>7. ASSUME NEW x \in L, NEW a \in x.span[1]..(x.span[2] - 1)
      PROVE  \E i \in DOMAIN R : R[i].span[1] <= a /\ a < R[i].span[2]
  <2>1. PICK k \in 1..Len(C) : C[k].span[1] <= a /\ a < C[k].span[2]
    BY <1>1 DEF Holding
  <2>2. k \in DOMAIN C
    BY <1>5
  <2> QED  BY <1>3, <2>1, <2>2
<1> QED  BY <1>6, <1>7 DEF Covers, R, L

-----------------------------------------------------------------------------
(* Pieces, and the length of what they join to. *)

\* A text is made of pieces, of which none is empty.
Pieces(t) ==
  /\ t \in Seq(Span) /\ Len(t) \in Nat /\ DOMAIN t = 1..Len(t)
  /\ \A i \in 1..Len(t) : t[i][1] \in Int /\ t[i][2] \in Int /\ t[i][1] < t[i][2]

Weights(t) == [i \in 1..Len(t) |-> Length(t[i]) + 1]

\* The length of joined pieces is a sum.
LEMMA JoinedSums ==
  ASSUME NEW t, Pieces(t)
  PROVE  /\ Weights(t) \in [1..Len(t) -> Nat]
         /\ Joined(t) = SumTo(Weights(t), Len(t)) - 1
         /\ \A i \in 1..Len(t) : Length(t[i]) \in Nat \ {0} /\ Weights(t)[i] = Length(t[i]) + 1
<1>1. \A i \in 1..Len(t) : Length(t[i]) \in Nat \ {0}
  BY DEF Pieces, Length
<1>2. DOMAIN t = 1..Len(t)
  BY DEF Pieces
<1>3. Weights(t) \in [1..Len(t) -> Nat] /\ \A i \in 1..Len(t) : Weights(t)[i] = Length(t[i]) + 1
  BY <1>1 DEF Weights
<1>4. [i \in DOMAIN t |-> Length(t[i]) + 1] = [i \in 1..Len(t) |-> Weights(t)[i]]
  BY <1>2, <1>3
<1>5. Joined(t) = SumTo(Weights(t), Len(t)) - 1
  BY <1>4 DEF Joined, SumTo
<1> QED  BY <1>1, <1>3, <1>5

\* The joined pieces are as long as the last one at least.
LEMMA JoinedCounts ==
  ASSUME NEW t, Pieces(t)
  PROVE  /\ Joined(t) \in Int /\ Joined(t) + 1 \in Nat
         /\ Len(t) = 0 => Joined(t) = -1
         /\ Len(t) > 0 => Joined(t) >= Length(t[Len(t)])
<1> DEFINE n == Len(t)
           w == Weights(t)
<1>1. n \in Nat
  BY DEF Pieces
<1>2. /\ w \in [1..n -> Nat] /\ Joined(t) = SumTo(w, n) - 1
      /\ \A i \in 1..n : Length(t[i]) \in Nat \ {0} /\ w[i] = Length(t[i]) + 1
  BY JoinedSums
<1> HIDE DEF n, w
<1>3. /\ SumTo(w, 0) = 0
      /\ \A k \in 0..n : SumTo(w, k) \in Nat
      /\ \A k \in 1..n : SumTo(w, k) = SumTo(w, k - 1) + w[k]
  BY <1>1, <1>2, SumsGrow
<1>4. n \in 0..n /\ (n > 0 => n \in 1..n /\ n - 1 \in 0..n)
  BY <1>1
<1>5. Joined(t) \in Int /\ Joined(t) + 1 \in Nat
  BY <1>2, <1>3, <1>4
<1>6. n = 0 => Joined(t) = -1
  BY <1>2, <1>3
<1>7. ASSUME n > 0 PROVE Joined(t) >= Length(t[n])
  <2>1. SumTo(w, n) = SumTo(w, n - 1) + w[n] /\ SumTo(w, n - 1) \in Nat
    BY <1>3, <1>4, <1>7
  <2>2. w[n] = Length(t[n]) + 1 /\ Length(t[n]) \in Nat
    BY <1>2, <1>4, <1>7
  <2> QED  BY <1>2, <2>1, <2>2
<1> QED  BY <1>5, <1>6, <1>7 DEF n

\* One more piece makes a text longer by itself and a space ...
LEMMA JoinedAppends ==
  ASSUME NEW t, Pieces(t), NEW p \in Span, p[1] < p[2]
  PROVE  Pieces(Append(t, p)) /\ Joined(Append(t, p)) = Joined(t) + Length(p) + 1
<1> DEFINE n == Len(t)
           u == Append(t, p)
           w == Weights(t)
           v == Weights(u)
<1>1. t \in Seq(Span) /\ n \in Nat
  BY DEF Pieces
<1>2. /\ u \in Seq(Span) /\ Len(u) = n + 1 /\ DOMAIN u = 1..(n + 1)
      /\ (\A i \in 1..n : u[i] = t[i]) /\ u[n + 1] = p
  BY <1>1
<1>3. p[1] \in Int /\ p[2] \in Int
  BY DEF Span
<1> HIDE DEF u
<1>4. \A i \in 1..(n + 1) : u[i][1] \in Int /\ u[i][2] \in Int /\ u[i][1] < u[i][2]
  <2>1. \A i \in 1..n : t[i][1] \in Int /\ t[i][2] \in Int /\ t[i][1] < t[i][2]
    BY DEF Pieces
  <2>2. \A i \in 1..(n + 1) : i \in 1..n \/ i = n + 1
    BY <1>1
  <2> QED  BY <1>2, <1>3, <2>1, <2>2
<1>5. Pieces(u)
  BY <1>1, <1>2, <1>4 DEF Pieces
<1>6. /\ w \in [1..n -> Nat] /\ Joined(t) = SumTo(w, n) - 1
      /\ \A i \in 1..n : w[i] = Length(t[i]) + 1
  BY JoinedSums
<1>7. /\ v \in [1..(n + 1) -> Nat] /\ Joined(u) = SumTo(v, n + 1) - 1
      /\ \A i \in 1..(n + 1) : v[i] = Length(u[i]) + 1
  BY <1>2, <1>5, JoinedSums
<1> HIDE DEF w, v, n
<1>8. /\ \A k \in 0..(n + 1) : SumTo(v, k) \in Nat
      /\ \A k \in 1..(n + 1) : SumTo(v, k) = SumTo(v, k - 1) + v[k]
  <2>1. n + 1 \in Nat
    BY <1>1
  <2> QED  BY <1>7, <2>1, SumsGrow
<1>9. n + 1 \in 1..(n + 1) /\ (n + 1) - 1 = n /\ n \in 0..(n + 1) /\ \A i \in 1..n : i \in 1..(n + 1)
  BY <1>1
<1>10. SumTo(v, n + 1) = SumTo(v, n) + v[n + 1] /\ SumTo(v, n) \in Nat
  BY <1>8, <1>9
<1>11. SumTo(v, n) = SumTo(w, n)
  <2>1. \A i \in 1..n : v[i] = w[i]
    BY <1>2, <1>6, <1>7, <1>9
  <2>2. [i \in 1..n |-> v[i]] = [i \in 1..n |-> w[i]]
    BY <2>1
  <2> QED  BY <2>2 DEF SumTo
<1>12. v[n + 1] = Length(p) + 1 /\ Length(p) \in Int
  BY <1>2, <1>3, <1>7, <1>9 DEF Length
<1>13. Joined(u) = Joined(t) + Length(p) + 1
  BY <1>6, <1>7, <1>10, <1>11, <1>12
<1> QED  BY <1>5, <1>13 DEF u

\* ... at the front as at the end.
LEMMA JoinedPrepends ==
  ASSUME NEW t, Pieces(t), NEW p \in Span, p[1] < p[2]
  PROVE  /\ Pieces(<<p>> \o t) /\ Joined(<<p>> \o t) = Joined(t) + Length(p) + 1
         /\ Len(<<p>> \o t) = Len(t) + 1 /\ (<<p>> \o t)[1] = p
         /\ \A i \in 1..Len(t) : (<<p>> \o t)[i + 1] = t[i]
<1> DEFINE n == Len(t)
           u == <<p>> \o t
           w == Weights(t)
           v == Weights(u)
<1>1. t \in Seq(Span) /\ n \in Nat
  BY DEF Pieces
<1>2. /\ u \in Seq(Span) /\ Len(u) = n + 1 /\ DOMAIN u = 1..(n + 1)
      /\ (\A i \in 1..n : u[i + 1] = t[i]) /\ u[1] = p
  <2>1. <<p>> \in Seq(Span) /\ Len(<<p>>) = 1
    OBVIOUS
  <2>2. u \in Seq(Span) /\ Len(u) = 1 + n
    BY <1>1, <2>1
  <2>3. DOMAIN u = 1..(n + 1) /\ Len(u) = n + 1
    BY <1>1, <2>2
  <2>4. u[1] = p
    BY <1>1, <2>1
  <2>5. \A i \in 1..n : u[i + 1] = t[i]
    BY <1>1, <2>1
  <2> QED  BY <2>2, <2>3, <2>4, <2>5
<1>3. p[1] \in Int /\ p[2] \in Int
  BY DEF Span
<1> HIDE DEF u
<1>4. \A i \in 1..(n + 1) : u[i][1] \in Int /\ u[i][2] \in Int /\ u[i][1] < u[i][2]
  <2>1. \A i \in 1..n : t[i][1] \in Int /\ t[i][2] \in Int /\ t[i][1] < t[i][2]
    BY DEF Pieces
  <2> SUFFICES ASSUME NEW i \in 1..(n + 1)
               PROVE  u[i][1] \in Int /\ u[i][2] \in Int /\ u[i][1] < u[i][2]
    OBVIOUS
  <2>2. CASE i = 1
    BY <1>2, <1>3, <2>2
  <2>3. CASE i # 1
    <3>1. i - 1 \in 1..n /\ (i - 1) + 1 = i
      BY <1>1, <2>3
    <3>2. u[i] = t[i - 1]
      BY <1>2, <3>1
    <3> QED  BY <2>1, <3>1, <3>2
  <2> QED  BY <2>2, <2>3
<1>5. Pieces(u)
  BY <1>1, <1>2, <1>4 DEF Pieces
<1>6. /\ w \in [1..n -> Nat] /\ Joined(t) = SumTo(w, n) - 1
      /\ \A i \in 1..n : w[i] = Length(t[i]) + 1
  BY JoinedSums
<1>7. /\ v \in [1..(n + 1) -> Nat] /\ Joined(u) = SumTo(v, n + 1) - 1
      /\ \A i \in 1..(n + 1) : v[i] = Length(u[i]) + 1
  BY <1>2, <1>5, JoinedSums
<1> HIDE DEF w, v, n
<1>8. SumTo(v, n + 1) = v[1] + SumTo([i \in 1..n |-> v[i + 1]], n)
  BY <1>1, <1>7, SumsWithOneBefore
<1>9. [i \in 1..n |-> v[i + 1]] = w
  <2>1. ASSUME NEW i \in 1..n PROVE v[i + 1] = w[i]
    <3>1. i + 1 \in 1..(n + 1)
      BY <1>1
    <3> QED  BY <1>2, <1>6, <1>7, <3>1
  <2> QED  BY <1>6, <2>1
<1>10. SumTo(w, n) \in Nat
  <2>1. \A k \in 0..n : SumTo(w, k) \in Nat
    BY <1>1, <1>6, SumsGrow
  <2>2. n \in 0..n
    BY <1>1
  <2> QED  BY <2>1, <2>2
<1>11. v[1] = Length(p) + 1 /\ Length(p) \in Int
  <2>1. 1 \in 1..(n + 1)
    BY <1>1
  <2> QED  BY <1>2, <1>3, <1>7, <2>1 DEF Length
<1>12. Joined(u) = Joined(t) + Length(p) + 1
  <2>1. SumTo(v, n + 1) = v[1] + SumTo(w, n)
    BY <1>8, <1>9
  <2> QED  BY <1>6, <1>7, <1>10, <1>11, <2>1
<1> QED  BY <1>2, <1>5, <1>12 DEF u, n

-----------------------------------------------------------------------------
(* The texts of fixed_boundary_v1. *)

\* The pieces of a text follow each other, and it has one.
Text(t) ==
  /\ Pieces(t) /\ Len(t) > 0
  /\ \A i, j \in 1..Len(t) : i < j => t[i][2] < t[j][1]

Holds(t, a) == \E j \in 1..Len(t) : t[j][1] <= a /\ a < t[j][2]

\* A text has a place, and the search for the next one starts in it.
LEMMA TextHasSource ==
  ASSUME NEW t, Text(t)
  PROVE  /\ Source(t)[1] = t[1][1] /\ Source(t)[2] = t[Len(t)][2]
         /\ Source(t)[1] \in Int /\ Source(t)[2] \in Int /\ Source(t)[1] < Source(t)[2]
         /\ Source(t)[1] <= t[Len(t)][1]
         /\ Len(t) > 1 => Source(t)[1] < t[Len(t)][1]
         /\ SearchStart(t) \in Int /\ SearchStart(t) <= Source(t)[2]
         /\ Source(t)[1] <= SearchStart(t)
<1> DEFINE n == Len(t)
           b == t[1][1]
           e == t[n][2]
<1>1. n \in Nat \ {0} /\ 1 \in 1..n /\ n \in 1..n
  <2>1. n \in Nat /\ n > 0
    BY DEF Text, Pieces
  <2> HIDE DEF n
  <2> QED  BY <2>1
<1>2. Source(t)[1] = b /\ Source(t)[2] = e
  BY DEF Source
<1>3. \A i \in 1..n : t[i][1] \in Int /\ t[i][2] \in Int /\ t[i][1] < t[i][2]
  BY DEF Text, Pieces
<1>4. \A i, j \in 1..n : i < j => t[i][2] < t[j][1]
  BY DEF Text
<1>5. Overlap \in Nat \ {0}
  BY SplitterAssumption
<1> HIDE DEF n
<1>6. b \in Int /\ e \in Int /\ b <= t[n][1] /\ t[n][1] < e /\ (n > 1 => b < t[n][1])
  <2>1. CASE n = 1
    BY <1>1, <1>3, <2>1
  <2>2. CASE n # 1
    <3>1. 1 < n
      BY <1>1, <2>2
    <3> QED  BY <1>1, <1>3, <1>4, <3>1
  <2> QED  BY <2>1, <2>2
<1>7. t[n][1] \in Int
  BY <1>1, <1>3
<1> HIDE DEF b, e
<1>8. SearchStart(t) = IF Joined(t) <= Overlap THEN b
                       ELSE IF b + 1 > e - Overlap THEN b + 1 ELSE e - Overlap
  BY <1>2 DEF SearchStart, Larger
<1>9. SearchStart(t) \in Int /\ SearchStart(t) <= e /\ b <= SearchStart(t)
  BY <1>5, <1>6, <1>7, <1>8
<1> QED  BY <1>2, <1>6, <1>7, <1>9 DEF n, b, e

\* The last text can be extended by what lies behind it.
LEMMA TextAppends ==
  ASSUME NEW t, Text(t), NEW p \in Span, p[1] < p[2], Source(t)[2] < p[1]
  PROVE  /\ Text(Append(t, p)) /\ Joined(Append(t, p)) = Joined(t) + Length(p) + 1
         /\ Source(Append(t, p))[1] = Source(t)[1] /\ Source(Append(t, p))[2] = p[2]
         /\ Append(t, p)[Len(Append(t, p))] = p
         /\ \A a \in Int : Holds(t, a) => Holds(Append(t, p), a)
         /\ \A a \in Int : p[1] <= a /\ a < p[2] => Holds(Append(t, p), a)
<1> DEFINE n == Len(t)
           u == Append(t, p)
<1>1. /\ t \in Seq(Span) /\ n \in Nat \ {0} /\ DOMAIN t = 1..n
      /\ \A i \in 1..n : t[i][1] \in Int /\ t[i][2] \in Int /\ t[i][1] < t[i][2]
      /\ \A i, j \in 1..n : i < j => t[i][2] < t[j][1]
  <2>1. t \in Seq(Span) /\ n \in Nat /\ n > 0 /\ DOMAIN t = 1..n
    BY DEF Text, Pieces
  <2>2. /\ \A i \in 1..n : t[i][1] \in Int /\ t[i][2] \in Int /\ t[i][1] < t[i][2]
        /\ \A i, j \in 1..n : i < j => t[i][2] < t[j][1]
    BY DEF Text, Pieces
  <2>3. n \in Nat \ {0}
    <3> HIDE DEF n
    <3> QED  BY <2>1
  <2> QED  BY <2>1, <2>2, <2>3
<1>2. /\ Len(u) = n + 1 /\ (\A i \in 1..n : u[i] = t[i]) /\ u[n + 1] = p
  BY <1>1
<1>3. Pieces(u) /\ Joined(u) = Joined(t) + Length(p) + 1
  <2>1. Pieces(t)
    BY DEF Text
  <2> QED  BY <2>1, JoinedAppends
<1>4. Source(t)[1] = t[1][1] /\ Source(t)[2] = t[n][2]
  BY TextHasSource
<1>5. p[1] \in Int /\ p[2] \in Int
  BY DEF Span
<1> HIDE DEF u, n
<1>6. 1 \in 1..n /\ n \in 1..n /\ n + 1 \in 1..(n + 1) /\ n + 1 > 0
      /\ \A i \in 1..n : i \in 1..(n + 1)
  BY <1>1
<1>7. ASSUME NEW i \in 1..(n + 1), NEW j \in 1..(n + 1), i < j PROVE u[i][2] < u[j][1]
  <2>1. i \in 1..n
    BY <1>1, <1>7
  <2>2. CASE j \in 1..n
    BY <1>1, <1>2, <1>7, <2>1, <2>2
  <2>3. CASE j = n + 1
    <3>1. t[i][2] <= t[n][2]
      <4>1. CASE i = n
        BY <1>1, <1>6, <4>1
      <4>2. CASE i # n
        <5>1. i < n
          BY <1>1, <2>1, <4>2
        <5> QED  BY <1>1, <1>6, <2>1, <5>1
      <4> QED  BY <4>1, <4>2
    <3>2. t[i][2] \in Int /\ t[n][2] \in Int
      BY <1>1, <1>6, <2>1
    <3>3. t[n][2] < p[1]
      BY <1>4
    <3> QED  BY <1>2, <1>5, <2>1, <2>3, <3>1, <3>2, <3>3
  <2>4. j \in 1..n \/ j = n + 1
    BY <1>1
  <2> QED  BY <2>2, <2>3, <2>4
<1>8. Text(u)
  BY <1>2, <1>3, <1>6, <1>7 DEF Text
<1>9. Source(u)[1] = Source(t)[1] /\ Source(u)[2] = p[2]
  <2>1. u[1] = t[1] /\ u[n + 1] = p
    BY <1>2, <1>6
  <2>2. Source(u)[1] = u[1][1] /\ Source(u)[2] = u[n + 1][2]
    BY <1>2, <1>8, TextHasSource
  <2> QED  BY <1>4, <2>1, <2>2
<1>10. \A a \in Int : Holds(t, a) => Holds(u, a)
  BY <1>2, <1>6 DEF Holds, n
<1>11. \A a \in Int : p[1] <= a /\ a < p[2] => Holds(u, a)
  BY <1>2, <1>6 DEF Holds
<1>12. u[Len(u)] = p
  BY <1>2
<1> QED  BY <1>3, <1>8, <1>9, <1>10, <1>11, <1>12 DEF u

\* What is left of a text behind one of its pieces.
LEMMA RestIsPieces ==
  ASSUME NEW t, Text(t), NEW f \in 1..Len(t)
  PROVE  LET r == SubSeq(t, f + 1, Len(t)) IN
         /\ Pieces(r) /\ Len(r) = Len(t) - f
         /\ \A i \in 1..Len(r) : f + i \in 1..Len(t) /\ r[i] = t[f + i]
<1> DEFINE n == Len(t)
           r == SubSeq(t, f + 1, n)
<1>1. /\ t \in Seq(Span) /\ n \in Nat /\ DOMAIN t = 1..n
      /\ \A i \in 1..n : t[i] \in Span /\ t[i][1] \in Int /\ t[i][2] \in Int /\ t[i][1] < t[i][2]
  <2>1. t \in Seq(Span) /\ n \in Nat /\ DOMAIN t = 1..n
    BY DEF Text, Pieces
  <2>2. \A i \in 1..n : t[i] \in Span
    BY <2>1
  <2>3. \A i \in 1..n : t[i][1] \in Int /\ t[i][2] \in Int /\ t[i][1] < t[i][2]
    BY DEF Text, Pieces
  <2> QED  BY <2>1, <2>2, <2>3
<1>2. f \in 1..n
  OBVIOUS
<1> HIDE DEF n
<1>3. r \in Seq(Span) /\ Len(r) = n - f /\ \A i \in 1..(n - f) : r[i] = t[f + i]
  <2> DEFINE g == f + 1
  <2>1. g \in Int /\ g \in 1..(n + 1) /\ f \in Int
    BY <1>1, <1>2
  <2>2. \A i \in g..n : t[i] \in Span
    BY <1>1, <2>1
  <2> HIDE DEF g
  <2>3. /\ SubSeq(t, g, n) \in Seq(Span)
        /\ Len(SubSeq(t, g, n)) = IF g <= n THEN n - g + 1 ELSE 0
        /\ \A i \in 1..(n - g + 1) : SubSeq(t, g, n)[i] = t[g + i - 1]
    BY <1>1, <2>1, <2>2, SubSeqProperties
  <2>4. r = SubSeq(t, g, n)
    BY DEF g
  <2> HIDE DEF r
  <2>5. g = f + 1
    BY DEF g
  <2>6. Len(r) = n - f
    BY <1>1, <1>2, <2>3, <2>4, <2>5
  <2>7. ASSUME NEW i \in 1..(n - f) PROVE r[i] = t[f + i]
    <3>1. i \in 1..(n - g + 1) /\ g + i - 1 = f + i
      BY <1>1, <1>2, <2>5
    <3> QED  BY <2>3, <2>4, <3>1
  <2> QED  BY <2>3, <2>4, <2>6, <2>7
<1> HIDE DEF r
<1>4. Len(r) \in Nat /\ DOMAIN r = 1..Len(r)
  BY <1>3
<1>5. \A i \in 1..Len(r) : f + i \in 1..n /\ r[i] = t[f + i]
  <2> SUFFICES ASSUME NEW i \in 1..Len(r) PROVE f + i \in 1..n /\ r[i] = t[f + i]
    OBVIOUS
  <2>1. i \in 1..(n - f)
    BY <1>3
  <2> QED  BY <1>1, <1>2, <1>3, <2>1
<1>6. Pieces(r)
  BY <1>1, <1>3, <1>4, <1>5 DEF Pieces
<1> QED  BY <1>3, <1>5, <1>6 DEF r, n

\* What a text hands to the next one is at most the overlap, and starts where the search
\* for it does unless the last piece is shorter than the overlap.
LEMMA CarriedIsText ==
  ASSUME NEW t, Text(t)
  PROVE  /\ Text(Carried(t)) /\ Joined(Carried(t)) <= Overlap
         /\ Source(Carried(t))[2] = Source(t)[2]
         /\ Length(t[Len(t)]) >= Overlap => Source(Carried(t))[1] >= SearchStart(t)
<1> DEFINE n == Len(t)
           behind(i) == Joined(SubSeq(t, i + 1, n)) + 1
           near == {i \in DOMAIN t : behind(i) < Overlap}
           f == Least(near)
           from == Larger(t[f][1], t[f][2] - (Overlap - behind(f)))
           r == SubSeq(t, f + 1, n)
           c == <<from, t[f][2]>>
           u == <<c>> \o r
<1>1. Carried(t) = u
  BY DEF Carried
<1>2. /\ n \in Nat \ {0} /\ n \in Nat /\ DOMAIN t = 1..n
      /\ \A i \in 1..n : t[i][1] \in Int /\ t[i][2] \in Int /\ t[i][1] < t[i][2]
      /\ \A i, j \in 1..n : i < j => t[i][2] < t[j][1]
  <2>1. n \in Nat /\ n > 0 /\ DOMAIN t = 1..n
    BY DEF Text, Pieces
  <2>2. /\ \A i \in 1..n : t[i][1] \in Int /\ t[i][2] \in Int /\ t[i][1] < t[i][2]
        /\ \A i, j \in 1..n : i < j => t[i][2] < t[j][1]
    BY DEF Text, Pieces
  <2>3. n \in Nat \ {0}
    <3> HIDE DEF n
    <3> QED  BY <2>1
  <2> QED  BY <2>1, <2>2, <2>3
<1>3. Overlap \in Nat \ {0}
  BY SplitterAssumption
<1>4. ASSUME NEW i \in 1..n
      PROVE  /\ behind(i) \in Nat
             /\ i = n => behind(i) = 0
             /\ i < n => behind(i) >= Length(t[n]) + 1
  <2> DEFINE q == SubSeq(t, i + 1, n)
  <2>1. Pieces(q) /\ Len(q) = n - i /\ \A j \in 1..Len(q) : i + j \in 1..n /\ q[j] = t[i + j]
    BY RestIsPieces
  <2> HIDE DEF q
  <2>2. /\ Joined(q) \in Int /\ Joined(q) + 1 \in Nat
        /\ Len(q) = 0 => Joined(q) = -1
        /\ Len(q) > 0 => Joined(q) >= Length(q[Len(q)])
    BY <2>1, JoinedCounts
  <2>3. behind(i) = Joined(q) + 1
    BY DEF q
  <2> HIDE DEF behind, n
  <2>4. i = n => behind(i) = 0
    BY <1>2, <2>1, <2>2, <2>3
  <2>5. ASSUME i < n PROVE behind(i) >= Length(t[n]) + 1
    <3>1. Len(q) \in 1..Len(q) /\ Len(q) > 0 /\ i + Len(q) = n
      <4>1. n \in Nat /\ Len(q) = n - i /\ i \in Nat /\ i < n
        BY <1>2, <2>1, <2>5
      <4> QED  BY <4>1
    <3>2. q[Len(q)] = t[n]
      BY <2>1, <3>1
    <3>3. Length(t[n]) \in Int
      BY <1>2 DEF Length
    <3> QED  BY <2>2, <2>3, <3>1, <3>2, <3>3
  <2> QED  BY <2>2, <2>3, <2>4, <2>5
<1>5. n \in near /\ IsFiniteSet(near) /\ near \subseteq 1..n
  <2>1. n \in 1..n
    BY <1>2
  <2>2. behind(n) = 0
    BY <1>4, <2>1
  <2>3. near \subseteq 1..n
    BY <1>2
  <2>4. n \in near
    BY <1>2, <1>3, <2>1, <2>2
  <2> HIDE DEF near
  <2>5. IsFiniteSet(1..n)
    BY <1>2, FS_Interval
  <2>6. IsFiniteSet(near)
    BY <2>3, <2>5, FS_Subset
  <2> QED  BY <2>3, <2>4, <2>6
<1>6. \A i \in near : behind(i) < Overlap
  OBVIOUS
<1> HIDE DEF near, behind
<1>7. near \subseteq Int /\ near # {}
  BY <1>2, <1>5
<1>8. f \in near
  BY <1>5, <1>7, ExtremesAreChosen
<1>9. f \in 1..n /\ behind(f) < Overlap /\ behind(f) \in Nat
  BY <1>4, <1>5, <1>6, <1>8
<1> HIDE DEF f
<1>10. /\ Pieces(r) /\ Len(r) = n - f
       /\ \A i \in 1..Len(r) : f + i \in 1..n /\ r[i] = t[f + i]
  BY <1>9, RestIsPieces
<1>11. behind(f) = Joined(r) + 1 /\ Joined(r) \in Int
  BY <1>10, JoinedCounts DEF behind
<1>12. from = IF t[f][1] > t[f][2] - (Overlap - behind(f)) THEN t[f][1]
              ELSE t[f][2] - (Overlap - behind(f))
  BY DEF Larger
<1> HIDE DEF from, r
<1>13. t[f][1] \in Int /\ t[f][2] \in Int /\ t[f][1] < t[f][2]
  BY <1>2, <1>9
<1>14. /\ from \in Int /\ from < t[f][2] /\ t[f][1] <= from
       /\ from >= t[f][2] - (Overlap - behind(f))
  BY <1>3, <1>9, <1>12, <1>13
<1>15. c \in Span /\ c[1] = from /\ c[2] = t[f][2] /\ c[1] < c[2]
  BY <1>13, <1>14 DEF Span
<1>16. Length(c) = t[f][2] - from
  BY <1>15 DEF Length
<1> HIDE DEF c
<1>17. /\ Pieces(u) /\ Joined(u) = Joined(r) + Length(c) + 1
       /\ Len(u) = Len(r) + 1 /\ u[1] = c
       /\ \A i \in 1..Len(r) : u[i + 1] = r[i]
  BY <1>10, <1>15, JoinedPrepends
<1> HIDE DEF u
<1>18. Joined(u) <= Overlap
  BY <1>3, <1>9, <1>11, <1>13, <1>14, <1>16, <1>17
<1>19. Len(u) = n - f + 1 /\ Len(u) \in Nat /\ Len(u) > 0
  BY <1>2, <1>9, <1>10, <1>17
<1>20. \A j \in 1..Len(u) : /\ f + j - 1 \in 1..n /\ u[j][2] = t[f + j - 1][2]
                            /\ t[f + j - 1][1] <= u[j][1]
  <2> SUFFICES ASSUME NEW j \in 1..Len(u)
               PROVE  /\ f + j - 1 \in 1..n /\ u[j][2] = t[f + j - 1][2]
                      /\ t[f + j - 1][1] <= u[j][1]
    OBVIOUS
  <2>1. CASE j = 1
    <3>1. f + j - 1 = f
      BY <1>9, <2>1
    <3> QED  BY <1>9, <1>14, <1>15, <1>17, <2>1, <3>1
  <2>2. CASE j # 1
    <3>1. j - 1 \in 1..Len(r) /\ (j - 1) + 1 = j /\ f + (j - 1) = f + j - 1
      BY <1>2, <1>9, <1>10, <1>19, <2>2
    <3>2. f + j - 1 \in 1..n /\ u[j] = t[f + j - 1]
      BY <1>10, <1>17, <3>1
    <3> QED  BY <1>2, <3>2
  <2> QED  BY <2>1, <2>2
<1>21. Text(u)
  <2>1. ASSUME NEW i \in 1..Len(u), NEW j \in 1..Len(u), i < j PROVE u[i][2] < u[j][1]
    <3>1. f + i - 1 \in 1..n /\ f + j - 1 \in 1..n /\ f + i - 1 < f + j - 1
      BY <1>9, <1>19, <1>20, <2>1
    <3>2. t[f + i - 1][2] < t[f + j - 1][1]
      BY <1>2, <3>1
    <3>3. t[f + i - 1][2] \in Int /\ t[f + j - 1][1] \in Int /\ u[j][1] \in Int
      BY <1>2, <1>17, <3>1 DEF Pieces
    <3>4. u[i][2] = t[f + i - 1][2] /\ t[f + j - 1][1] <= u[j][1]
      BY <1>20
    <3> QED  BY <3>2, <3>3, <3>4
  <2> QED  BY <1>17, <1>19, <2>1 DEF Text
<1>22. Source(u)[2] = t[n][2] /\ Source(u)[1] = from
  <2>1. Source(u)[2] = u[Len(u)][2] /\ Source(u)[1] = u[1][1]
    BY <1>21, TextHasSource
  <2>2. Len(u) \in 1..Len(u) /\ f + Len(u) - 1 = n
    BY <1>2, <1>9, <1>19
  <2>3. u[Len(u)][2] = t[n][2]
    BY <1>20, <2>2
  <2>4. u[1][1] = from
    BY <1>15, <1>17
  <2> QED  BY <2>1, <2>3, <2>4
<1>23. Source(t)[2] = t[n][2] /\ Source(t)[1] = t[1][1] /\ (n > 1 => t[1][1] < t[n][1])
  BY TextHasSource
<1>24. ASSUME Length(t[n]) >= Overlap PROVE from >= SearchStart(t)
  <2>1. f = n
    <3>1. Length(t[n]) \in Int
      BY <1>2 DEF Length
    <3>2. ~ (f < n)
      BY <1>3, <1>4, <1>9, <1>24, <3>1
    <3>3. n \in Nat /\ f \in 1..n
      BY <1>2, <1>9
    <3> QED  BY <3>2, <3>3
  <2>2. behind(f) = 0
    <3>1. n \in 1..n
      BY <1>2
    <3> QED  BY <1>4, <2>1, <3>1
  <2>3. /\ t[n][1] \in Int /\ t[n][2] \in Int /\ t[n][2] - t[n][1] >= Overlap
        /\ from >= t[n][2] - Overlap /\ from >= t[n][1] /\ from \in Int
    <3>1. from >= t[n][2] - Overlap
      BY <1>3, <1>13, <1>14, <2>1, <2>2
    <3> QED  BY <1>13, <1>14, <1>24, <2>1, <3>1 DEF Length
  <2>4. SearchStart(t) = IF Joined(t) <= Overlap THEN t[1][1]
                         ELSE IF t[1][1] + 1 > t[n][2] - Overlap THEN t[1][1] + 1
                         ELSE t[n][2] - Overlap
    BY <1>23 DEF SearchStart, Larger
  <2>5. t[1][1] \in Int /\ (n = 1 => t[1][1] = t[n][1])
    <3>1. 1 \in 1..n
      BY <1>2
    <3> QED  BY <1>2, <3>1
  <2>6. CASE n > 1
    BY <1>3, <1>23, <2>3, <2>4, <2>5, <2>6
  <2>7. CASE n = 1
    <3>1. Joined(t) = Length(t[n])
      <4>1. Pieces(t) /\ 1 \in 1..n
        BY <2>7 DEF Text
      <4> DEFINE w == Weights(t)
      <4>2. w \in [1..n -> Nat] /\ Joined(t) = SumTo(w, n) - 1 /\ w[1] = Length(t[1]) + 1
        BY <4>1, JoinedSums
      <4> HIDE DEF w
      <4>3. SumTo(w, 0) = 0 /\ \A k \in 1..n : SumTo(w, k) = SumTo(w, k - 1) + w[k]
        BY <1>2, <4>2, SumsGrow
      <4>4. SumTo(w, 1) = w[1]
        <5>1. SumTo(w, 1) = SumTo(w, 0) + w[1] /\ w[1] \in Nat
          BY <4>1, <4>2, <4>3
        <5> QED  BY <4>3, <5>1
      <4>5. Length(t[1]) \in Int
        BY <1>2, <4>1 DEF Length
      <4> QED  BY <2>7, <4>2, <4>4, <4>5
    <3>2. Length(t[n]) = t[n][2] - t[n][1]
      BY DEF Length
    <3> QED  BY <1>3, <2>3, <2>4, <2>5, <2>7, <3>1, <3>2
  <2> QED  BY <1>2, <2>6, <2>7
<1> QED  BY <1>1, <1>18, <1>21, <1>22, <1>23, <1>24 DEF n

\* A piece is a text.
LEMMA OneIsText ==
  ASSUME NEW p \in Span, p[1] < p[2]
  PROVE  /\ Text(<<p>>) /\ Joined(<<p>>) = Length(p)
         /\ Source(<<p>>)[1] = p[1] /\ Source(<<p>>)[2] = p[2]
         /\ \A a \in Int : p[1] <= a /\ a < p[2] => Holds(<<p>>, a)
<1> DEFINE none == <<>>
           u == Append(none, p)
<1>1. /\ none \in Seq(Span) /\ Len(none) = 0 /\ DOMAIN none = 1..0
      /\ u = <<p>> /\ Len(u) = 1 /\ u[1] = p
  OBVIOUS
<1>2. Pieces(none)
  BY <1>1 DEF Pieces
<1> HIDE DEF none, u
<1>3. Pieces(u) /\ Joined(u) = Joined(none) + Length(p) + 1
  <2>1. u = Append(none, p)
    BY DEF u
  <2> QED  BY <1>2, <2>1, JoinedAppends
<1>4. Joined(none) = -1
  BY <1>1, <1>2, JoinedCounts
<1>5. p[1] \in Int /\ p[2] \in Int /\ Length(p) \in Int
  BY DEF Span, Length
<1>6. Joined(u) = Length(p)
  BY <1>3, <1>4, <1>5
<1>7. Text(u)
  BY <1>1, <1>3 DEF Text
<1>8. Source(u)[1] = p[1] /\ Source(u)[2] = p[2]
  <2>1. Source(u)[1] = u[1][1] /\ Source(u)[2] = u[Len(u)][2]
    BY <1>7, TextHasSource
  <2> QED  BY <1>1, <2>1
<1>9. \A a \in Int : p[1] <= a /\ a < p[2] => Holds(u, a)
  BY <1>1 DEF Holds
<1> QED  BY <1>1, <1>6, <1>7, <1>8, <1>9

\* Multiples of a step are a step apart.
LEMMA MultiplesAreApart ==
  ASSUME NEW step \in Nat \ {0}, NEW j \in Nat, NEW k \in Nat, j * step < k * step
  PROVE  (j + 1) * step <= k * step /\ (j + 1) * step = j * step + step
<1>1. (j + 1) * step = j * step + step
  OBVIOUS
<1>2. j < k
  <2> SUFFICES ASSUME ~ (j < k) PROVE FALSE
    OBVIOUS
  <2>1. PICK d \in Nat : j = k + d
    <3>1. j - k \in Nat /\ j = k + (j - k)
      OBVIOUS
    <3> QED  BY <3>1
  <2>2. j * step = k * step + d * step
    BY <2>1
  <2>3. d * step \in Nat /\ k * step \in Nat
    OBVIOUS
  <2> QED  BY <2>2, <2>3
<1>3. PICK d \in Nat : k = (j + 1) + d
  <2>1. k - (j + 1) \in Nat /\ k = (j + 1) + (k - (j + 1))
    BY <1>2
  <2> QED  BY <2>1
<1>4. k * step = (j + 1) * step + d * step
  BY <1>3
<1>5. d * step \in Nat /\ (j + 1) * step \in Nat
  OBVIOUS
<1> QED  BY <1>1, <1>4, <1>5

\* The windows of a long page are texts in bounds, in order, and hold the page.
LEMMA WindowsAreTexts ==
  ASSUME NEW s \in Span, s[1] < s[2], NEW W, W = Windows(s)
  PROVE  /\ W \in Seq(Seq(Span)) /\ Len(W) \in Nat \ {0} /\ DOMAIN W = 1..Len(W)
         /\ \A i \in 1..Len(W) : /\ Text(W[i]) /\ Joined(W[i]) <= ChunkSize
                                 /\ s[1] <= Source(W[i])[1] /\ Source(W[i])[2] <= s[2]
         /\ \A i \in 1..(Len(W) - 1) : Source(W[i + 1])[1] >= SearchStart(W[i])
         /\ \A a \in Int : s[1] <= a /\ a < s[2] => \E i \in 1..Len(W) : Holds(W[i], a)
<1> DEFINE c == s[1]
           d == s[2]
           step == ChunkSize - Overlap
           K == 0..Length(s)
           f == [k \in K |-> c + k * step]
           T == {f[k] : k \in K}
           S == {a \in T : a = c \/ a + Overlap < d}
           starts == Ascending(S)
           n == Cardinality(S)
           end == [i \in 1..n |-> IF starts[i] + ChunkSize < d THEN starts[i] + ChunkSize ELSE d]
<1>1. /\ Overlap \in Nat \ {0} /\ ChunkSize \in Nat /\ step \in Nat \ {0}
      /\ ChunkSize = Overlap + step
  <2>1. Overlap \in Nat \ {0} /\ ChunkSize \in Nat /\ Overlap < ChunkSize
    BY SplitterAssumption
  <2> QED  BY <2>1
<1>2. c \in Int /\ d \in Int /\ c < d /\ Length(s) = d - c
  BY DEF Span, Length
<1>3. W = [i \in DOMAIN starts |-> <<<<starts[i], Smaller(starts[i] + ChunkSize, d)>>>>]
  BY DEF Windows
<1>4. IsFiniteSet(K) /\ 0 \in K /\ \A k \in K : k \in Nat
  BY <1>2, FS_Interval
<1>5. \A k \in Nat : k \in K <=> k <= d - c
  BY <1>2
<1> HIDE DEF K, c, d, step
<1>6. \A k \in K : f[k] = c + k * step /\ f[k] \in Int /\ c <= f[k]
  <2> SUFFICES ASSUME NEW k \in K PROVE f[k] = c + k * step /\ f[k] \in Int /\ c <= f[k]
    OBVIOUS
  <2>1. k * step \in Nat
    BY <1>1, <1>4
  <2> QED  BY <1>2, <2>1
<1> HIDE DEF f
<1>7. IsFiniteSet(T)
  BY <1>4, ImageCounts
<1>8. S \subseteq T /\ T \subseteq Int
  BY <1>6
<1>9. /\ \A a \in S : \E k \in K : a = f[k] /\ (a = c \/ a + Overlap < d)
      /\ \A k \in K : f[k] = c \/ f[k] + Overlap < d => f[k] \in S
  OBVIOUS
<1> HIDE DEF T, S
<1>10. IsFiniteSet(S) /\ S \subseteq Int
  <2>1. IsFiniteSet(S)
    BY <1>7, <1>8, FS_Subset
  <2> QED  BY <1>8, <2>1
<1>11. c \in S
  <2>1. f[0] = c
    <3>1. 0 * step = 0
      BY <1>1
    <3> QED  BY <1>2, <1>4, <1>6, <3>1
  <2> QED  BY <1>4, <1>9, <2>1
<1>12. /\ n \in Nat /\ starts \in [1..n -> S] /\ ToSet(starts) = S
       /\ \A i, j \in 1..n : i < j <=> starts[i] < starts[j]
  BY <1>10, AscendingSorts
<1>13. DOMAIN starts = 1..n /\ \A a \in S : \E i \in 1..n : starts[i] = a
  BY <1>12 DEF ToSet
<1> HIDE DEF starts, n
<1>14. n \in Nat \ {0}
  BY <1>11, <1>12, <1>13
<1>15. ASSUME NEW i \in 1..n
       PROVE  /\ starts[i] \in Int /\ end[i] \in Int /\ c <= starts[i] /\ starts[i] < end[i]
              /\ end[i] <= d /\ end[i] <= starts[i] + ChunkSize
              /\ Smaller(starts[i] + ChunkSize, d) = end[i]
  <2>1. starts[i] \in S /\ starts[i] \in Int
    BY <1>10, <1>12
  <2>2. PICK k \in K : starts[i] = f[k] /\ (starts[i] = c \/ starts[i] + Overlap < d)
    BY <1>9, <2>1
  <2>3. c <= starts[i] /\ starts[i] < d
    BY <1>1, <1>2, <1>6, <2>1, <2>2
  <2>4. end[i] = IF starts[i] + ChunkSize < d THEN starts[i] + ChunkSize ELSE d
    OBVIOUS
  <2> HIDE DEF end
  <2> QED  BY <1>1, <1>2, <2>1, <2>3, <2>4 DEF Smaller
<1> HIDE DEF end
<1> DEFINE p == [i \in 1..n |-> <<starts[i], end[i]>>]
<1>16. \A i \in 1..n : /\ p[i] \in Span /\ p[i][1] = starts[i] /\ p[i][2] = end[i]
                       /\ p[i][1] < p[i][2] /\ Length(p[i]) <= ChunkSize
                       /\ p[i] = <<starts[i], end[i]>>
  <2> SUFFICES ASSUME NEW i \in 1..n
               PROVE  /\ p[i] \in Span /\ p[i][1] = starts[i] /\ p[i][2] = end[i]
                      /\ p[i][1] < p[i][2] /\ Length(p[i]) <= ChunkSize
                      /\ p[i] = <<starts[i], end[i]>>
    OBVIOUS
  <2>1. p[i] = <<starts[i], end[i]>>
    OBVIOUS
  <2> HIDE DEF p
  <2> QED  BY <1>1, <1>15, <2>1 DEF Span, Length
<1> HIDE DEF p
<1>17. W = [i \in 1..n |-> <<p[i]>>]
  <2>1. \A i \in 1..n : <<<<starts[i], Smaller(starts[i] + ChunkSize, d)>>>> = <<p[i]>>
    BY <1>15, <1>16
  <2> QED  BY <1>3, <1>13, <2>1
<1>18. ASSUME NEW i \in 1..n
       PROVE  /\ W[i] = <<p[i]>> /\ Text(W[i]) /\ Joined(W[i]) = Length(p[i])
              /\ Source(W[i])[1] = starts[i] /\ Source(W[i])[2] = end[i]
              /\ \A a \in Int : starts[i] <= a /\ a < end[i] => Holds(W[i], a)
  <2>1. W[i] = <<p[i]>>
    BY <1>17
  <2> DEFINE q == p[i]
  <2>2. q \in Span /\ q[1] < q[2] /\ q[1] = starts[i] /\ q[2] = end[i]
    BY <1>16
  <2> HIDE DEF q
  <2>3. /\ Text(<<q>>) /\ Joined(<<q>>) = Length(q)
        /\ Source(<<q>>)[1] = q[1] /\ Source(<<q>>)[2] = q[2]
        /\ \A a \in Int : q[1] <= a /\ a < q[2] => Holds(<<q>>, a)
    BY <2>2, OneIsText
  <2>4. W[i] = <<q>>
    BY <2>1 DEF q
  <2> QED  BY <2>1, <2>2, <2>3, <2>4 DEF q
<1>19. W \in Seq(Seq(Span)) /\ Len(W) = n /\ DOMAIN W = 1..n
  <2>1. \A i \in 1..n : <<p[i]>> \in Seq(Span)
    BY <1>16
  <2>2. W \in [1..n -> Seq(Span)]
    BY <1>17, <2>1
  <2> QED  BY <1>12, <2>2
<1>20. \A i \in 1..n : /\ Text(W[i]) /\ Joined(W[i]) <= ChunkSize
                       /\ c <= Source(W[i])[1] /\ Source(W[i])[2] <= d
  BY <1>15, <1>16, <1>18
<1>21. ASSUME NEW i \in 1..(n - 1) PROVE Source(W[i + 1])[1] >= SearchStart(W[i])
  <2>1. i \in 1..n /\ i + 1 \in 1..n /\ i < i + 1
    BY <1>12
  <2>2. starts[i] < starts[i + 1] /\ starts[i] \in S /\ starts[i + 1] \in S
    BY <1>12, <2>1
  <2>3. PICK j \in K : starts[i] = f[j]
    BY <1>9, <2>2
  <2>4. PICK k \in K : starts[i + 1] = f[k]
    BY <1>9, <2>2
  <2>5. /\ starts[i] = c + j * step /\ starts[i + 1] = c + k * step
        /\ j \in Nat /\ k \in Nat
    BY <1>4, <1>6, <2>3, <2>4
  <2>6. j * step \in Int /\ k * step \in Int /\ step \in Nat \ {0}
    BY <1>1, <2>5
  <2>7. j * step < k * step
    BY <1>2, <2>2, <2>5, <2>6
  <2>8. (j + 1) * step <= k * step /\ (j + 1) * step = j * step + step
    BY <2>5, <2>6, <2>7, MultiplesAreApart
  <2>9. starts[i + 1] >= starts[i] + step
    BY <1>2, <2>5, <2>6, <2>8
  <2>10. SearchStart(W[i]) = IF Length(p[i]) <= Overlap THEN starts[i]
                             ELSE IF starts[i] + 1 > end[i] - Overlap THEN starts[i] + 1
                             ELSE end[i] - Overlap
    BY <1>18, <2>1 DEF SearchStart, Larger
  <2>11. /\ starts[i] \in Int /\ starts[i + 1] \in Int /\ end[i] \in Int
         /\ end[i] <= starts[i] + ChunkSize
    BY <1>15, <2>1
  <2>12. Source(W[i + 1])[1] = starts[i + 1]
    BY <1>18, <2>1
  <2> QED  BY <1>1, <2>6, <2>9, <2>10, <2>11, <2>12
<1>22. ASSUME NEW a \in Int, c <= a, a < d PROVE \E i \in 1..n : Holds(W[i], a)
  <2> DEFINE I == {b \in S : b <= a}
  <2>1. IsFiniteSet(I) /\ I \subseteq Int /\ c \in I
    <3>1. I \subseteq S /\ c \in I
      BY <1>11, <1>22
    <3> HIDE DEF I
    <3>2. IsFiniteSet(I)
      BY <1>10, <3>1, FS_Subset
    <3>3. I \subseteq Int
      BY <1>10, <3>1
    <3> QED  BY <3>1, <3>2, <3>3
  <2>2. /\ \A b \in S : b <= a => b \in I
        /\ \A b \in I : b \in S /\ b <= a
    OBVIOUS
  <2> HIDE DEF I
  <2>3. PICK b \in I : \A y \in I : y <= b
    BY <2>1, ExtremesExist
  <2>4. b \in S /\ b <= a /\ b \in Int
    BY <2>1, <2>2
  <2>5. PICK i \in 1..n : starts[i] = b
    BY <1>13, <2>4
  <2>6. a < end[i]
    <3> SUFFICES ASSUME ~ (a < end[i]) PROVE FALSE
      OBVIOUS
    <3>1. end[i] = b + ChunkSize
      <4>1. end[i] = IF b + ChunkSize < d THEN b + ChunkSize ELSE d
        BY <2>5 DEF end
      <4> QED  BY <1>22, <4>1
    <3>2. b + ChunkSize <= a
      BY <1>15, <3>1
    <3>3. PICK k \in K : b = f[k]
      BY <1>9, <2>4
    <3>4. k \in Nat /\ b = c + k * step /\ k * step \in Nat
      BY <1>1, <1>4, <1>6, <3>3
    <3>5. (k + 1) * step = k * step + step /\ k <= k * step
      BY <1>1, <3>4
    <3>6. k + 1 \in K
      <4>1. k + 1 \in Nat /\ k + 1 <= d - c
        BY <1>1, <1>2, <1>22, <3>2, <3>4, <3>5
      <4> QED  BY <1>5, <4>1
    <3>7. f[k + 1] = b + step
      BY <1>1, <1>2, <1>6, <3>4, <3>5, <3>6
    <3>8. f[k + 1] + Overlap < d /\ f[k + 1] <= a
      BY <1>1, <1>2, <1>22, <2>4, <3>2, <3>7
    <3>9. f[k + 1] <= b
      BY <1>9, <2>2, <2>3, <3>6, <3>8
    <3> QED  BY <1>1, <2>4, <3>7, <3>9
  <2> QED  BY <1>18, <2>4, <2>5, <2>6
<1> QED  BY <1>14, <1>19, <1>20, <1>21, <1>22 DEF c, d

-----------------------------------------------------------------------------
(* Filling the texts, page after page. *)

SpansFollow(sp) ==
  /\ sp \in Seq(Span) /\ Len(sp) \in Nat /\ DOMAIN sp = 1..Len(sp)
  /\ \A i \in 1..Len(sp) : /\ sp[i] \in Span /\ sp[i][1] \in Int /\ sp[i][2] \in Int
                           /\ sp[i][1] < sp[i][2]
  /\ \A i, j \in 1..Len(sp) : i < j => sp[i][2] < sp[j][1]

LongSpans(sp) == \A i \in 1..Len(sp) : Length(sp[i]) >= Overlap

\* The texts of the first k pages: they hold these, none is too long, and if no page is
\* shorter than the overlap, each is found behind the one before it.
Good(F, k, sp) ==
  /\ F \in Seq(Seq(Span)) /\ Len(F) \in Nat /\ DOMAIN F = 1..Len(F)
  /\ \A i \in 1..Len(F) : Text(F[i]) /\ Joined(F[i]) <= ChunkSize + Overlap + 1
  /\ Len(F) > 0 => k > 0 /\ Source(F[Len(F)])[2] <= sp[k][2]
  /\ \A p \in 1..k : \A a \in Int :
       sp[p][1] <= a /\ a < sp[p][2] => \E i \in 1..Len(F) : Holds(F[i], a)
  /\ LongSpans(sp) => \A i \in 1..(Len(F) - 1) : Source(F[i + 1])[1] >= SearchStart(F[i])

\* The next page lies behind all texts and behind where the search starts.
LEMMA NextIsBehind ==
  ASSUME NEW sp, SpansFollow(sp), NEW k \in 0..(Len(sp) - 1), NEW F, Good(F, k, sp), Len(F) > 0
  PROVE  /\ Source(F[Len(F)])[2] < sp[k + 1][1]
         /\ sp[k + 1][1] >= SearchStart(F[Len(F)])
<1>1. Len(sp) \in Nat /\ Len(F) \in Nat
  BY DEF SpansFollow, Good
<1>2. Len(F) \in 1..Len(F)
  BY <1>1
<1>3. Text(F[Len(F)]) /\ k > 0 /\ Source(F[Len(F)])[2] <= sp[k][2]
  BY <1>2 DEF Good
<1>4. k \in 1..Len(sp) /\ k + 1 \in 1..Len(sp) /\ k < k + 1
  BY <1>1, <1>3
<1>5. sp[k][2] < sp[k + 1][1] /\ sp[k][2] \in Int /\ sp[k + 1][1] \in Int
  BY <1>4 DEF SpansFollow
<1>6. /\ Source(F[Len(F)])[2] \in Int /\ SearchStart(F[Len(F)]) \in Int
      /\ SearchStart(F[Len(F)]) <= Source(F[Len(F)])[2]
  BY <1>3, TextHasSource
<1> QED  BY <1>3, <1>5, <1>6

\* Texts stay good with those of the next page ...
LEMMA GoodJoins ==
  ASSUME NEW sp, SpansFollow(sp), NEW k \in 0..(Len(sp) - 1), NEW F, Good(F, k, sp),
         NEW W \in Seq(Seq(Span)), Len(W) \in Nat \ {0}, DOMAIN W = 1..Len(W),
         \A i \in 1..Len(W) : Text(W[i]) /\ Joined(W[i]) <= ChunkSize + Overlap + 1,
         Source(W[Len(W)])[2] <= sp[k + 1][2],
         \A a \in Int : sp[k + 1][1] <= a /\ a < sp[k + 1][2] => \E i \in 1..Len(W) : Holds(W[i], a),
         LongSpans(sp) => \A i \in 1..(Len(W) - 1) : Source(W[i + 1])[1] >= SearchStart(W[i]),
         LongSpans(sp) /\ Len(F) > 0 => Source(W[1])[1] >= SearchStart(F[Len(F)])
  PROVE  Good(F \o W, k + 1, sp)
<1> DEFINE m == Len(F)
           n == Len(W)
           U == F \o W
<1>1. F \in Seq(Seq(Span)) /\ m \in Nat /\ n \in Nat \ {0} /\ n \in Nat /\ k \in Nat
  BY DEF Good
<1>2. /\ U \in Seq(Seq(Span)) /\ Len(U) = m + n /\ DOMAIN U = 1..(m + n)
      /\ \A i \in 1..m : U[i] = F[i]
      /\ \A i \in (m + 1)..(m + n) : U[i] = W[i - m]
  BY <1>1
<1> HIDE DEF U
<1>3. /\ \A i \in 1..m : Text(F[i]) /\ Joined(F[i]) <= ChunkSize + Overlap + 1
      /\ \A p \in 1..k : \A a \in Int :
           sp[p][1] <= a /\ a < sp[p][2] => \E i \in 1..m : Holds(F[i], a)
      /\ LongSpans(sp) => \A i \in 1..(m - 1) : Source(F[i + 1])[1] >= SearchStart(F[i])
  BY DEF Good
<1>4. /\ \A i \in 1..n : Text(W[i]) /\ Joined(W[i]) <= ChunkSize + Overlap + 1
      /\ Source(W[n])[2] <= sp[k + 1][2]
      /\ \A a \in Int : sp[k + 1][1] <= a /\ a < sp[k + 1][2] => \E i \in 1..n : Holds(W[i], a)
      /\ LongSpans(sp) => \A i \in 1..(n - 1) : Source(W[i + 1])[1] >= SearchStart(W[i])
      /\ LongSpans(sp) /\ m > 0 => Source(W[1])[1] >= SearchStart(F[m])
  OBVIOUS
<1> HIDE DEF m, n
<1>5. \A i \in 1..(m + n) : \/ i \in 1..m
                            \/ i \in (m + 1)..(m + n) /\ i - m \in 1..n
  BY <1>1
<1>6. \A i \in 1..n : i + m \in (m + 1)..(m + n) /\ i + m \in 1..(m + n) /\ (i + m) - m = i
  BY <1>1
<1>7. \A i \in 1..m : i \in 1..(m + n)
  BY <1>1
<1>8. \A i \in 1..n : U[i + m] = W[i]
  BY <1>2, <1>6
<1>9. ASSUME NEW i \in 1..(m + n)
      PROVE  Text(U[i]) /\ Joined(U[i]) <= ChunkSize + Overlap + 1
  <2>1. CASE i \in 1..m
    BY <1>2, <1>3, <2>1
  <2>2. CASE i \in (m + 1)..(m + n) /\ i - m \in 1..n
    BY <1>2, <1>4, <2>2
  <2> QED  BY <1>5, <2>1, <2>2
<1>10. Source(U[m + n])[2] <= sp[k + 1][2] /\ k + 1 > 0
  <2>1. n \in 1..n /\ n + m = m + n
    BY <1>1
  <2>2. U[m + n] = W[n]
    BY <1>8, <2>1
  <2> QED  BY <1>1, <1>4, <2>2
<1>11. ASSUME NEW p \in 1..(k + 1), NEW a \in Int, sp[p][1] <= a, a < sp[p][2]
       PROVE  \E i \in 1..(m + n) : Holds(U[i], a)
  <2>1. CASE p \in 1..k
    <3>1. PICK i \in 1..m : Holds(F[i], a)
      BY <1>3, <1>11, <2>1
    <3> QED  BY <1>2, <1>7, <3>1
  <2>2. CASE p = k + 1
    <3>1. PICK i \in 1..n : Holds(W[i], a)
      BY <1>4, <1>11, <2>2
    <3> QED  BY <1>6, <1>8, <3>1
  <2>3. p \in 1..k \/ p = k + 1
    BY <1>1
  <2> QED  BY <2>1, <2>2, <2>3
<1>12. ASSUME LongSpans(sp), NEW i \in 1..(m + n - 1)
       PROVE  Source(U[i + 1])[1] >= SearchStart(U[i])
  <2>1. CASE i + 1 <= m
    <3>1. i \in 1..m /\ i + 1 \in 1..m /\ i \in 1..(m - 1)
      BY <1>1, <2>1
    <3> QED  BY <1>2, <1>3, <1>12, <3>1
  <2>2. CASE i = m
    <3>1. i \in 1..m /\ m > 0 /\ 1 \in 1..n /\ i + 1 = 1 + m
      BY <1>1, <2>2
    <3>2. U[i] = F[m] /\ U[i + 1] = W[1]
      BY <1>2, <1>8, <2>2, <3>1
    <3> QED  BY <1>4, <1>12, <3>1, <3>2
  <2>3. CASE i > m
    <3>1. i - m \in 1..n /\ (i - m) + m = i /\ (i - m) + 1 \in 1..n
          /\ ((i - m) + 1) + m = i + 1 /\ i - m \in 1..(n - 1)
      BY <1>1, <2>3
    <3>2. U[i] = W[i - m] /\ U[i + 1] = W[(i - m) + 1]
      BY <1>8, <3>1
    <3> QED  BY <1>4, <1>12, <3>1, <3>2
  <2>4. i + 1 <= m \/ i = m \/ i > m
    BY <1>1
  <2> QED  BY <2>1, <2>2, <2>3, <2>4
<1>13. Len(U) = m + n /\ m + n \in Nat
  BY <1>1, <1>2
<1>14. Good(U, k + 1, sp)
  <2>1. DOMAIN U = 1..Len(U)
    BY <1>2, <1>13
  <2>2. \A i \in 1..Len(U) : Text(U[i]) /\ Joined(U[i]) <= ChunkSize + Overlap + 1
    BY <1>9, <1>13
  <2>3. \A p \in 1..(k + 1) : \A a \in Int :
           sp[p][1] <= a /\ a < sp[p][2] => \E i \in 1..Len(U) : Holds(U[i], a)
    BY <1>11, <1>13
  <2>4. LongSpans(sp) => \A i \in 1..(Len(U) - 1) : Source(U[i + 1])[1] >= SearchStart(U[i])
    <3>1. Len(U) - 1 = m + n - 1
      BY <1>1, <1>13
    <3> QED  BY <1>12, <3>1
  <2>5. U \in Seq(Seq(Span)) /\ Len(U) \in Nat
    BY <1>2, <1>13
  <2>6. Len(U) > 0 => k + 1 > 0 /\ Source(U[Len(U)])[2] <= sp[k + 1][2]
    BY <1>10, <1>13
  <2> QED  BY <2>1, <2>2, <2>3, <2>4, <2>5, <2>6 DEF Good
<1> QED  BY <1>14 DEF U

\* The same with one text.
LEMMA GoodAppends ==
  ASSUME NEW sp, SpansFollow(sp), NEW k \in 0..(Len(sp) - 1), NEW F, Good(F, k, sp),
         NEW t, Text(t), Joined(t) <= ChunkSize + Overlap + 1,
         Source(t)[2] <= sp[k + 1][2],
         \A a \in Int : sp[k + 1][1] <= a /\ a < sp[k + 1][2] => Holds(t, a),
         LongSpans(sp) /\ Len(F) > 0 => Source(t)[1] >= SearchStart(F[Len(F)])
  PROVE  Good(Append(F, t), k + 1, sp)
<1> DEFINE W == <<t>>
<1>1. t \in Seq(Span) /\ F \in Seq(Seq(Span))
  BY DEF Text, Pieces, Good
<1>2. /\ W \in Seq(Seq(Span)) /\ Len(W) = 1 /\ DOMAIN W = 1..1 /\ W[1] = t
      /\ Append(F, t) = F \o W
  <2>1. W \in Seq(Seq(Span)) /\ Len(W) = 1 /\ DOMAIN W = 1..1 /\ W[1] = t
    BY <1>1
  <2>2. Append(F, t) = F \o W
    BY <1>1, AppendIsConcat
  <2> QED  BY <2>1, <2>2
<1>3. Len(W) \in Nat \ {0} /\ DOMAIN W = 1..Len(W)
  BY <1>2
<1> HIDE DEF W
<1>4. \A i \in 1..Len(W) : Text(W[i]) /\ Joined(W[i]) <= ChunkSize + Overlap + 1
  BY <1>2
<1>5. /\ Source(W[Len(W)])[2] <= sp[k + 1][2]
      /\ LongSpans(sp) /\ Len(F) > 0 => Source(W[1])[1] >= SearchStart(F[Len(F)])
  BY <1>2
<1>6. \A a \in Int : sp[k + 1][1] <= a /\ a < sp[k + 1][2] => \E i \in 1..Len(W) : Holds(W[i], a)
  BY <1>2
<1>7. LongSpans(sp) => \A i \in 1..(Len(W) - 1) : Source(W[i + 1])[1] >= SearchStart(W[i])
  BY <1>2
<1>8. Good(F \o W, k + 1, sp)
  BY <1>2, <1>3, <1>4, <1>5, <1>6, <1>7, GoodJoins
<1> QED  BY <1>2, <1>8

\* The same with the last text extended.
LEMMA GoodExtends ==
  ASSUME NEW sp, SpansFollow(sp), NEW k \in 0..(Len(sp) - 1),
         NEW done \in Seq(Seq(Span)), NEW t \in Seq(Span), Good(Append(done, t), k, sp),
         NEW u, Text(u), Joined(u) <= ChunkSize + Overlap + 1,
         Source(u)[1] = Source(t)[1], Source(u)[2] <= sp[k + 1][2],
         \A a \in Int : Holds(t, a) => Holds(u, a),
         \A a \in Int : sp[k + 1][1] <= a /\ a < sp[k + 1][2] => Holds(u, a)
  PROVE  Good(Append(done, u), k + 1, sp)
<1> DEFINE m == Len(done)
           F == Append(done, t)
           U == Append(done, u)
<1>1. m \in Nat /\ u \in Seq(Span) /\ k \in Nat
  BY DEF Text, Pieces
<1>2. /\ Len(F) = m + 1 /\ F[m + 1] = t /\ \A i \in 1..m : F[i] = done[i]
  BY <1>1
<1>3. /\ U \in Seq(Seq(Span)) /\ Len(U) = m + 1 /\ DOMAIN U = 1..(m + 1)
      /\ U[m + 1] = u /\ \A i \in 1..m : U[i] = done[i]
  BY <1>1
<1>4. Good(F, k, sp)
  OBVIOUS
<1> HIDE DEF F, U, m
<1>5. /\ \A i \in 1..(m + 1) : Text(F[i]) /\ Joined(F[i]) <= ChunkSize + Overlap + 1
      /\ \A p \in 1..k : \A a \in Int :
           sp[p][1] <= a /\ a < sp[p][2] => \E i \in 1..(m + 1) : Holds(F[i], a)
      /\ LongSpans(sp) => \A i \in 1..((m + 1) - 1) : Source(F[i + 1])[1] >= SearchStart(F[i])
  BY <1>2, <1>4 DEF Good
<1>6. (\A i \in 1..(m + 1) : i \in 1..m \/ i = m + 1) /\ m + 1 \in 1..(m + 1)
      /\ (m + 1) - 1 = m /\ (\A i \in 1..m : i \in 1..(m + 1))
  BY <1>1
<1>7. \A i \in 1..(m + 1) : Text(U[i]) /\ Joined(U[i]) <= ChunkSize + Overlap + 1
  <2> SUFFICES ASSUME NEW i \in 1..(m + 1)
               PROVE  Text(U[i]) /\ Joined(U[i]) <= ChunkSize + Overlap + 1
    OBVIOUS
  <2>1. CASE i \in 1..m
    BY <1>2, <1>3, <1>5, <1>6, <2>1
  <2>2. CASE i = m + 1
    BY <1>3, <2>2
  <2> QED  BY <1>6, <2>1, <2>2
<1>8. Source(U[m + 1])[2] <= sp[k + 1][2] /\ k + 1 > 0
  BY <1>1, <1>3
<1>9. ASSUME NEW a \in Int, NEW i \in 1..(m + 1), Holds(F[i], a)
      PROVE  \E j \in 1..(m + 1) : Holds(U[j], a)
  <2>1. CASE i \in 1..m
    BY <1>2, <1>3, <1>6, <1>9, <2>1
  <2>2. CASE i = m + 1
    <3>1. Holds(t, a)
      BY <1>2, <1>9, <2>2
    <3>2. Holds(U[m + 1], a)
      BY <1>3, <3>1
    <3> QED  BY <1>6, <3>2
  <2> QED  BY <1>6, <2>1, <2>2
<1>10. ASSUME NEW p \in 1..(k + 1), NEW a \in Int, sp[p][1] <= a, a < sp[p][2]
       PROVE  \E i \in 1..(m + 1) : Holds(U[i], a)
  <2>1. CASE p \in 1..k
    <3>1. PICK i \in 1..(m + 1) : Holds(F[i], a)
      BY <1>5, <1>10, <2>1
    <3> QED  BY <1>9, <3>1
  <2>2. CASE p = k + 1
    <3>1. Holds(U[m + 1], a)
      BY <1>3, <1>10, <2>2
    <3> QED  BY <1>6, <3>1
  <2>3. p \in 1..k \/ p = k + 1
    BY <1>1
  <2> QED  BY <2>1, <2>2, <2>3
<1>11. ASSUME LongSpans(sp), NEW i \in 1..m
       PROVE  Source(U[i + 1])[1] >= SearchStart(U[i])
  <2>1. Source(F[i + 1])[1] >= SearchStart(F[i])
    BY <1>5, <1>6, <1>11
  <2>2. U[i] = F[i]
    BY <1>2, <1>3
  <2>3. Source(U[i + 1])[1] = Source(F[i + 1])[1]
    <3>1. CASE i + 1 \in 1..m
      BY <1>2, <1>3, <3>1
    <3>2. CASE i = m
      BY <1>2, <1>3, <3>2
    <3>3. i + 1 \in 1..m \/ i = m
      BY <1>1
    <3> QED  BY <3>1, <3>2, <3>3
  <2> QED  BY <2>1, <2>2, <2>3
<1>12. Len(U) = m + 1 /\ m + 1 \in Nat /\ DOMAIN U = 1..(m + 1)
  BY <1>1, <1>3
<1> QED  BY <1>3, <1>6, <1>7, <1>8, <1>10, <1>11, <1>12 DEF Good, U

Flushed(st) == IF st[2] = <<>> THEN st[1] ELSE Append(st[1], st[2])

\* What the rounds keep of the finished texts and the current one.
Filling(k, sp, st) ==
  /\ st[1] \in Seq(Seq(Span)) /\ st[2] \in Seq(Span)
  /\ Good(Flushed(st), k, sp)
  /\ st[2] # <<>> => k > 0 /\ st[2][Len(st[2])] = sp[k]

\* Every round of _chunk_text keeps the texts good.
LEMMA FilledKeeps ==
  ASSUME NEW sp, SpansFollow(sp), NEW k \in 0..(Len(sp) - 1), NEW st, Filling(k, sp, st)
  PROVE  Filling(k + 1, sp, NextTexts(st, sp[k + 1]))
<1> DEFINE done == st[1]
           current == st[2]
           flushed == Flushed(st)
           s == sp[k + 1]
           new == NextTexts(st, s)
<1>1. /\ done \in Seq(Seq(Span)) /\ current \in Seq(Span)
      /\ Good(flushed, k, sp)
      /\ current # <<>> => k > 0 /\ current[Len(current)] = sp[k]
  BY DEF Filling
<1>2. flushed = IF current = <<>> THEN done ELSE Append(done, current)
  BY DEF Flushed
<1>3. new = IF Length(s) > ChunkSize THEN <<flushed \o Windows(s), <<>>>>
            ELSE IF current = <<>> \/ Joined(Append(current, s)) <= ChunkSize
            THEN <<done, Append(current, s)>>
            ELSE <<flushed, Append(Carried(current), s)>>
  BY DEF NextTexts, Flushed
<1>4. k + 1 \in 1..Len(sp) /\ k + 1 > 0 /\ k \in Nat
  <2>1. Len(sp) \in Nat
    BY DEF SpansFollow
  <2> QED  BY <2>1
<1>5. s \in Span /\ s[1] \in Int /\ s[2] \in Int /\ s[1] < s[2] /\ Length(s) \in Int
  BY <1>4 DEF SpansFollow, Length
<1>6. Overlap \in Nat \ {0} /\ ChunkSize \in Nat
  BY SplitterAssumption
<1>7. flushed \in Seq(Seq(Span)) /\ Len(flushed) \in Nat
  BY <1>1 DEF Good
<1>8. Len(flushed) > 0 => /\ Source(flushed[Len(flushed)])[2] < s[1]
                          /\ s[1] >= SearchStart(flushed[Len(flushed)])
  BY <1>1, NextIsBehind
<1> DEFINE n == Len(current)
<1>9. ASSUME current # <<>>
      PROVE  /\ flushed = Append(done, current) /\ Len(flushed) = Len(done) + 1
             /\ flushed[Len(flushed)] = current /\ Len(flushed) > 0
             /\ Text(current) /\ current[n] = sp[k] /\ k \in 1..Len(sp)
             /\ Source(current)[2] < s[1]
  <2>1. flushed = Append(done, current)
    BY <1>2, <1>9
  <2>2. Len(flushed) = Len(done) + 1 /\ flushed[Len(done) + 1] = current /\ Len(done) \in Nat
    BY <1>1, <2>1
  <2>3. Len(flushed) > 0 /\ Len(flushed) \in 1..Len(flushed) /\ flushed[Len(flushed)] = current
    BY <2>2
  <2>4. Text(current)
    BY <1>1, <2>3 DEF Good
  <2>5. k > 0 /\ current[n] = sp[k]
    BY <1>1, <1>9
  <2>6. k \in 1..Len(sp)
    <3>1. Len(sp) \in Nat
      BY DEF SpansFollow
    <3> QED  BY <2>5, <3>1
  <2> QED  BY <1>8, <2>1, <2>2, <2>3, <2>4, <2>5, <2>6
<1> HIDE DEF done, current, flushed, s, new, n
<1>10. CASE Length(s) > ChunkSize
  <2> DEFINE W == Windows(s)
  <2>1. /\ W \in Seq(Seq(Span)) /\ Len(W) \in Nat \ {0} /\ DOMAIN W = 1..Len(W)
        /\ \A i \in 1..Len(W) : /\ Text(W[i]) /\ Joined(W[i]) <= ChunkSize
                                /\ s[1] <= Source(W[i])[1] /\ Source(W[i])[2] <= s[2]
        /\ \A i \in 1..(Len(W) - 1) : Source(W[i + 1])[1] >= SearchStart(W[i])
        /\ \A a \in Int : s[1] <= a /\ a < s[2] => \E i \in 1..Len(W) : Holds(W[i], a)
    BY <1>5, WindowsAreTexts
  <2> HIDE DEF W
  <2>2. new = <<flushed \o W, <<>>>>
    BY <1>3, <1>10 DEF W
  <2>3. 1 \in 1..Len(W) /\ Len(W) \in 1..Len(W)
    BY <2>1
  <2>4. \A i \in 1..Len(W) : Text(W[i]) /\ Joined(W[i]) <= ChunkSize + Overlap + 1
    <3> SUFFICES ASSUME NEW i \in 1..Len(W)
                 PROVE  Text(W[i]) /\ Joined(W[i]) <= ChunkSize + Overlap + 1
      OBVIOUS
    <3>1. Text(W[i]) /\ Joined(W[i]) <= ChunkSize
      BY <2>1
    <3>2. Joined(W[i]) \in Int
      BY <3>1, JoinedCounts DEF Text
    <3> QED  BY <1>6, <3>1, <3>2
  <2>5. LongSpans(sp) /\ Len(flushed) > 0 => Source(W[1])[1] >= SearchStart(flushed[Len(flushed)])
    <3> SUFFICES ASSUME Len(flushed) > 0
                 PROVE  Source(W[1])[1] >= SearchStart(flushed[Len(flushed)])
      OBVIOUS
    <3>1. s[1] <= Source(W[1])[1] /\ Source(W[1])[1] \in Int
      BY <2>1, <2>3, TextHasSource
    <3>2. s[1] >= SearchStart(flushed[Len(flushed)])
      BY <1>8
    <3>3. SearchStart(flushed[Len(flushed)]) \in Int
      <4>1. Len(flushed) \in 1..Len(flushed)
        BY <1>7
      <4>2. Text(flushed[Len(flushed)])
        BY <1>1, <4>1 DEF Good
      <4> QED  BY <4>2, TextHasSource
    <3> QED  BY <1>5, <3>1, <3>2, <3>3
  <2>6. Good(flushed \o W, k + 1, sp)
    <3>1. Source(W[Len(W)])[2] <= s[2]
      BY <2>1, <2>3
    <3>2. \A a \in Int : s[1] <= a /\ a < s[2] => \E i \in 1..Len(W) : Holds(W[i], a)
      BY <2>1
    <3>3. LongSpans(sp) => \A i \in 1..(Len(W) - 1) : Source(W[i + 1])[1] >= SearchStart(W[i])
      BY <2>1
    <3>4. W \in Seq(Seq(Span)) /\ Len(W) \in Nat \ {0} /\ DOMAIN W = 1..Len(W)
      BY <2>1
    <3> QED  BY <1>1, <2>4, <2>5, <3>1, <3>2, <3>3, <3>4, GoodJoins DEF s
  <2>7. flushed \o W \in Seq(Seq(Span))
    BY <1>7, <2>1
  <2>8. new[1] = flushed \o W /\ new[2] = <<>>
    BY <2>2
  <2>9. Flushed(new) = flushed \o W
    BY <2>8 DEF Flushed
  <2> QED  BY <2>6, <2>7, <2>8, <2>9 DEF Filling, new, s
<1>11. CASE Length(s) <= ChunkSize /\ current = <<>>
  <2> DEFINE t == <<s>>
  <2>1. /\ Text(t) /\ Joined(t) = Length(s) /\ Source(t)[1] = s[1] /\ Source(t)[2] = s[2]
        /\ \A a \in Int : s[1] <= a /\ a < s[2] => Holds(t, a)
    BY <1>5, OneIsText
  <2>2. Append(current, s) = t /\ t # <<>> /\ Len(t) = 1 /\ t[1] = s /\ t \in Seq(Span)
    BY <1>5, <1>11
  <2> HIDE DEF t
  <2>3. new = <<done, t>> /\ flushed = done
    <3>1. ~ (Length(s) > ChunkSize)
      BY <1>5, <1>6, <1>11
    <3> QED  BY <1>2, <1>3, <1>11, <2>2, <3>1
  <2>4. Good(Append(flushed, t), k + 1, sp)
    <3>1. Joined(t) <= ChunkSize + Overlap + 1
      BY <1>5, <1>6, <1>11, <2>1
    <3>2. Source(t)[2] <= s[2]
      BY <1>5, <2>1
    <3>3. LongSpans(sp) /\ Len(flushed) > 0 => Source(t)[1] >= SearchStart(flushed[Len(flushed)])
      BY <1>8, <2>1
    <3>4. \A a \in Int : s[1] <= a /\ a < s[2] => Holds(t, a)
      BY <2>1
    <3> QED  BY <1>1, <2>1, <3>1, <3>2, <3>3, <3>4, GoodAppends DEF s
  <2>5. new[1] = done /\ new[2] = t
    BY <2>3
  <2>6. Flushed(new) = Append(flushed, t)
    BY <2>2, <2>3, <2>5 DEF Flushed
  <2>7. new[2] # <<>> => k + 1 > 0 /\ new[2][Len(new[2])] = s
    BY <1>4, <2>2, <2>5
  <2> QED  BY <1>1, <2>2, <2>4, <2>5, <2>6, <2>7 DEF Filling, new, s
<1>12. CASE Length(s) <= ChunkSize /\ current # <<>> /\ Joined(Append(current, s)) <= ChunkSize
  <2> DEFINE u == Append(current, s)
  <2>1. /\ Text(u) /\ Source(u)[1] = Source(current)[1] /\ Source(u)[2] = s[2]
        /\ u[Len(u)] = s /\ Joined(u) = Joined(current) + Length(s) + 1
        /\ \A a \in Int : Holds(current, a) => Holds(u, a)
        /\ \A a \in Int : s[1] <= a /\ a < s[2] => Holds(u, a)
    BY <1>5, <1>9, <1>12, TextAppends
  <2>2. u \in Seq(Span) /\ u # <<>>
    <3>1. current \in Seq(Span) /\ s \in Span
      BY <1>1, <1>5
    <3>2. Append(current, s) \in Seq(Span) /\ Append(current, s) # <<>>
      BY <3>1, AppendProperties
    <3> QED  BY <3>2
  <2>3. Joined(u) <= ChunkSize
    BY <1>12
  <2>4. new = <<done, u>>
    <3>1. ~ (Length(s) > ChunkSize)
      BY <1>5, <1>6, <1>12
    <3> QED  BY <1>3, <1>12, <3>1
  <2> HIDE DEF u
  <2>5. Good(Append(done, u), k + 1, sp)
    <3>1. Joined(u) <= ChunkSize + Overlap + 1
      <4>1. Joined(u) \in Int
        BY <2>1, JoinedCounts DEF Text
      <4> QED  BY <1>6, <2>3, <4>1
    <3>2. Source(u)[2] <= s[2]
      BY <1>5, <2>1
    <3>3. Good(Append(done, current), k, sp)
      BY <1>1, <1>9, <1>12
    <3>4. /\ \A a \in Int : Holds(current, a) => Holds(u, a)
          /\ \A a \in Int : s[1] <= a /\ a < s[2] => Holds(u, a)
      BY <2>1
    <3> QED  BY <1>1, <2>1, <3>1, <3>2, <3>3, <3>4, GoodExtends DEF s
  <2>6. new[1] = done /\ new[2] = u
    BY <2>4
  <2>7. Flushed(new) = Append(done, u)
    BY <2>2, <2>6 DEF Flushed
  <2>8. new[2] # <<>> => k + 1 > 0 /\ new[2][Len(new[2])] = s
    BY <1>4, <2>1, <2>6
  <2> QED  BY <1>1, <2>2, <2>5, <2>6, <2>7, <2>8 DEF Filling, new, s
<1>13. CASE /\ Length(s) <= ChunkSize
            /\ ~ (current = <<>> \/ Joined(Append(current, s)) <= ChunkSize)
  <2> DEFINE c == Carried(current)
             u == Append(c, s)
  <2>1. current # <<>> /\ Text(current) /\ Source(current)[2] < s[1]
    BY <1>9, <1>13
  <2>2. /\ Text(c) /\ Joined(c) <= Overlap /\ Source(c)[2] = Source(current)[2]
        /\ Length(current[n]) >= Overlap => Source(c)[1] >= SearchStart(current)
    BY <2>1, CarriedIsText DEF n
  <2>3. new = <<flushed, u>>
    <3>1. ~ (Length(s) > ChunkSize)
      BY <1>5, <1>6, <1>13
    <3> QED  BY <1>3, <1>13, <3>1
  <2> HIDE DEF c
  <2>4. /\ Text(u) /\ Source(u)[1] = Source(c)[1] /\ Source(u)[2] = s[2]
        /\ u[Len(u)] = s /\ Joined(u) = Joined(c) + Length(s) + 1
        /\ \A a \in Int : s[1] <= a /\ a < s[2] => Holds(u, a)
    BY <1>5, <2>1, <2>2, TextAppends
  <2>5. u \in Seq(Span) /\ u # <<>>
    <3>1. c \in Seq(Span) /\ s \in Span
      BY <1>5, <2>2 DEF Text, Pieces
    <3> QED  BY <3>1, AppendProperties
  <2> HIDE DEF u
  <2>6. Good(Append(flushed, u), k + 1, sp)
    <3>1. Joined(u) <= ChunkSize + Overlap + 1
      <4>1. Joined(c) \in Int
        BY <2>2, JoinedCounts DEF Text
      <4> QED  BY <1>5, <1>6, <1>13, <2>2, <2>4, <4>1
    <3>2. Source(u)[2] <= s[2]
      BY <1>5, <2>4
    <3>3. ASSUME LongSpans(sp), Len(flushed) > 0
          PROVE  Source(u)[1] >= SearchStart(flushed[Len(flushed)])
      <4>1. current[n] = sp[k] /\ k \in 1..Len(sp) /\ flushed[Len(flushed)] = current
        BY <1>9, <2>1
      <4>2. Length(current[n]) >= Overlap
        BY <3>3, <4>1 DEF LongSpans
      <4> QED  BY <2>2, <2>4, <4>1, <4>2
    <3>4. \A a \in Int : s[1] <= a /\ a < s[2] => Holds(u, a)
      BY <2>4
    <3> QED  BY <1>1, <2>4, <3>1, <3>2, <3>3, <3>4, GoodAppends DEF s
  <2>7. new[1] = flushed /\ new[2] = u
    BY <2>3
  <2>8. Flushed(new) = Append(flushed, u)
    BY <2>5, <2>7 DEF Flushed
  <2>9. new[2] # <<>> => k + 1 > 0 /\ new[2][Len(new[2])] = s
    BY <1>4, <2>4, <2>7
  <2> QED  BY <1>7, <2>5, <2>6, <2>7, <2>8, <2>9 DEF Filling, new, s
<1>14. Length(s) > ChunkSize \/ Length(s) <= ChunkSize
  BY <1>5, <1>6
<1> QED  BY <1>10, <1>11, <1>12, <1>13, <1>14

Fills(f, sp, m) ==
  f = [n \in 0..m |-> IF n = 0 THEN <<<<>>, <<>>>> ELSE NextTexts(f[n - 1], sp[n])]

\* The rounds of _chunk_text.
LEMMA FillExists ==
  ASSUME NEW sp, NEW n \in Nat
  PROVE  \E f : Fills(f, sp, n)
<1> DEFINE none == <<<<>>, <<>>>>
           Bad == {m \in Nat : ~ \E f : Fills(f, sp, m)}
<1>1. 0 \notin Bad
  <2> DEFINE f == [i \in 0..0 |-> none]
  <2>1. Fills(f, sp, 0)
    BY DEF Fills
  <2> QED  BY <2>1
<1>2. ASSUME NEW m \in Nat, m \notin Bad PROVE m + 1 \notin Bad
  <2>1. PICK f : Fills(f, sp, m)
    BY <1>2
  <2> DEFINE g == [i \in 0..(m + 1) |-> IF i = 0 THEN none ELSE NextTexts(f[i - 1], sp[i])]
  <2>2. \A i \in 0..m : g[i] = f[i]
    <3> SUFFICES ASSUME NEW i \in 0..m PROVE g[i] = f[i]
      OBVIOUS
    <3>1. f[i] = IF i = 0 THEN none ELSE NextTexts(f[i - 1], sp[i])
      BY <2>1 DEF Fills
    <3>2. i \in 0..(m + 1)
      BY <1>2
    <3> QED  BY <3>1, <3>2
  <2>3. \A i \in 0..(m + 1) : i # 0 => g[i - 1] = f[i - 1]
    <3> SUFFICES ASSUME NEW i \in 0..(m + 1), i # 0 PROVE g[i - 1] = f[i - 1]
      OBVIOUS
    <3>1. i - 1 \in 0..m
      BY <1>2
    <3> HIDE DEF g
    <3> QED  BY <2>2, <3>1
  <2>4. g = [i \in 0..(m + 1) |-> IF i = 0 THEN none ELSE NextTexts(g[i - 1], sp[i])]
    <3> DEFINE h == [i \in 0..(m + 1) |-> IF i = 0 THEN none ELSE NextTexts(g[i - 1], sp[i])]
    <3>1. \A i \in 0..(m + 1) : g[i] = h[i]
      BY <2>3
    <3> QED  BY <3>1
  <2>5. Fills(g, sp, m + 1)
    BY <2>4 DEF Fills
  <2> QED  BY <2>5
<1> HIDE DEF Bad
<1>3. Bad = {}
  BY <1>1, <1>2, LeastCounterexample DEF Bad
<1> QED  BY <1>3 DEF Bad

\* _chunk_text: the texts of all pages are good.
LEMMA TextsAreGood ==
  ASSUME NEW sp, SpansFollow(sp)
  PROVE  Good(JoinedTexts(sp), Len(sp), sp)
<1> DEFINE n == Len(sp)
           none == <<<<>>, <<>>>>
           Rounds(f) == [m \in 0..n |-> IF m = 0 THEN none ELSE NextTexts(f[m - 1], sp[m])]
           x == CHOOSE f : f = Rounds(f)
<1>1. n \in Nat
  BY DEF SpansFollow
<1>2. JoinedTexts(sp) = Flushed(x[n])
  BY DEF JoinedTexts, Flushed
<1>3. \E f : f = Rounds(f)
  BY <1>1, FillExists DEF Fills
<1>4. x = Rounds(x)
  BY <1>3
<1> HIDE DEF x
<1>5. \A m \in 0..n : x[m] = IF m = 0 THEN none ELSE NextTexts(x[m - 1], sp[m])
  BY <1>4
<1> DEFINE G == {m \in 0..n : Filling(m, sp, x[m])}
<1>6. 0 \in G
  <2> DEFINE done == <<>>
  <2>1. done \in Seq(Seq(Span)) /\ done \in Seq(Span) /\ Len(done) = 0 /\ DOMAIN done = 1..0
    OBVIOUS
  <2>2. 0 \in 0..n /\ x[0] = <<done, done>>
    BY <1>1, <1>5
  <2> HIDE DEF done
  <2>3. x[0][1] = done /\ x[0][2] = done
    BY <2>2
  <2>4. Good(done, 0, sp)
    BY <2>1 DEF Good
  <2>5. Flushed(x[0]) = done
    BY <2>3 DEF Flushed, done
  <2>6. x[0][2] # <<>> => FALSE
    BY <2>3 DEF done
  <2>7. Filling(0, sp, x[0])
    BY <2>1, <2>3, <2>4, <2>5, <2>6 DEF Filling
  <2> QED  BY <2>2, <2>7
<1>7. ASSUME NEW m \in 0..(n - 1), m \in G PROVE m + 1 \in G
  <2>1. m + 1 \in 0..n /\ m + 1 # 0 /\ (m + 1) - 1 = m
    BY <1>1
  <2>2. x[m + 1] = NextTexts(x[m], sp[m + 1])
    BY <1>5, <2>1
  <2>3. Filling(m, sp, x[m])
    BY <1>7
  <2>4. Filling(m + 1, sp, x[m + 1])
    BY <2>2, <2>3, FilledKeeps
  <2> QED  BY <2>1, <2>4
<1>8. 0..n \subseteq G
  <2> HIDE DEF G
  <2>1. 0 \in Int /\ n \in Int
    BY <1>1
  <2> HIDE DEF n
  <2> QED  BY <1>6, <1>7, <2>1, BoundedInduction
<1>9. Filling(n, sp, x[n])
  <2>1. n \in 0..n
    BY <1>1
  <2> QED  BY <1>8, <2>1
<1> QED  BY <1>2, <1>9 DEF Filling

-----------------------------------------------------------------------------
(* The pages of fixed_boundary_v1. *)

\* The pages of a text that has no blank page follow one another.
LEMMA FilledSpansFollow ==
  ASSUME NEW pages, Whole(pages), NEW sp, sp = FilledSpans(pages)
  PROVE  /\ SpansFollow(sp) /\ Len(sp) = Len(pages)
         /\ \A p \in 1..Len(pages) : /\ sp[p] = PageSpan(pages, p)
                                     /\ Length(sp[p]) = PageLength(pages[p])
<1> DEFINE n == Len(pages)
           all == [p \in 1..n |-> p]
           filled == {p \in DOMAIN pages : pages[p] # <<>>}
<1>1. /\ n \in Nat \ {0} /\ DOMAIN pages = 1..n
      /\ \A p \in 1..n : /\ pages[p] # <<>> /\ PageStart(pages, p) \in Nat
                         /\ PageLength(pages[p]) \in Nat \ {0}
      /\ \A p, q \in 1..n :
           p < q => PageStart(pages, p) + PageLength(pages[p]) + 2 <= PageStart(pages, q)
  BY PagesFollow
<1> HIDE DEF n
<1>2. Ascending(filled) = all
  <2>1. Increasing(all, n)
    BY <1>1 DEF Increasing
  <2>2. ToSet(all) = 1..n
    BY DEF ToSet
  <2>3. filled = 1..n
    BY <1>1
  <2> HIDE DEF all, filled
  <2>4. Ascending(ToSet(all)) = all
    BY <2>1, IncreasingIsSorted
  <2> QED  BY <2>2, <2>3, <2>4
<1>3. sp = [i \in 1..n |-> PageSpan(pages, i)]
  <2>1. sp = [i \in DOMAIN all |-> PageSpan(pages, all[i])]
    BY <1>2 DEF FilledSpans
  <2>2. DOMAIN all = 1..n /\ \A i \in 1..n : all[i] = i
    OBVIOUS
  <2> QED  BY <2>1, <2>2
<1>4. ASSUME NEW p \in 1..n
      PROVE  /\ sp[p] = PageSpan(pages, p) /\ sp[p] \in Span
             /\ sp[p][1] = PageStart(pages, p)
             /\ sp[p][2] = PageStart(pages, p) + PageLength(pages[p])
             /\ sp[p][1] \in Int /\ sp[p][2] \in Int /\ sp[p][1] < sp[p][2]
             /\ Length(sp[p]) = PageLength(pages[p])
  <2> DEFINE b == PageStart(pages, p)
             l == PageLength(pages[p])
  <2>1. sp[p] = PageSpan(pages, p) /\ PageSpan(pages, p) = <<b, b + l>>
    BY <1>3 DEF PageSpan
  <2>2. b \in Nat /\ l \in Nat \ {0}
    BY <1>1
  <2> HIDE DEF b, l
  <2>3. /\ sp[p] \in Span /\ sp[p][1] = b /\ sp[p][2] = b + l
        /\ sp[p][1] \in Int /\ sp[p][2] \in Int /\ sp[p][1] < sp[p][2]
    BY <2>1, <2>2 DEF Span
  <2>4. Length(sp[p]) = l
    BY <2>2, <2>3 DEF Length
  <2> QED  BY <2>1, <2>3, <2>4 DEF b, l
<1>5. sp \in Seq(Span) /\ Len(sp) = n /\ DOMAIN sp = 1..n
  <2>1. sp \in [1..n -> Span]
    BY <1>3, <1>4
  <2> QED  BY <1>1, <2>1
<1>6. ASSUME NEW i \in 1..n, NEW j \in 1..n, i < j PROVE sp[i][2] < sp[j][1]
  <2>1. PageStart(pages, i) + PageLength(pages[i]) + 2 <= PageStart(pages, j)
    BY <1>1, <1>6
  <2>2. PageStart(pages, i) \in Nat /\ PageLength(pages[i]) \in Nat /\ PageStart(pages, j) \in Nat
    BY <1>1
  <2> QED  BY <1>4, <2>1, <2>2
<1>7. SpansFollow(sp)
  BY <1>1, <1>4, <1>5, <1>6 DEF SpansFollow
<1> QED  BY <1>4, <1>5, <1>7 DEF n

\* fixed_boundary_v1 traces a text that has no blank page.
LEMMA FixedTextsTrace ==
  ASSUME NEW pages, Whole(pages)
  PROVE  FixedSplitTraces(pages)
<1> DEFINE L == Lines(pages)
           n == Len(pages)
           sp == FilledSpans(pages)
           F == FixedTexts(pages)
<1>1. /\ SpansFollow(sp) /\ Len(sp) = n
      /\ \A p \in 1..n : sp[p] = PageSpan(pages, p) /\ Length(sp[p]) = PageLength(pages[p])
  BY FilledSpansFollow
<1>2. DOMAIN pages = 1..n
  BY PagesFollow
<1>3. F = JoinedTexts(sp)
  BY DEF FixedTexts
<1> HIDE DEF sp
<1>4. Good(F, n, sp)
  BY <1>1, <1>3, TextsAreGood
<1> HIDE DEF F, L
<1>5. Len(F) \in Nat /\ DOMAIN F = 1..Len(F)
  BY <1>4 DEF Good
<1>6. ASSUME ~ FixedFound(pages)
      PROVE  \E p \in DOMAIN pages : PageLength(pages[p]) < Overlap
  <2> SUFFICES ASSUME \A p \in DOMAIN pages : ~ (PageLength(pages[p]) < Overlap)
               PROVE  FixedFound(pages)
    BY <1>6
  <2>1. LongSpans(sp)
    <3>1. Overlap \in Nat
      BY SplitterAssumption
    <3>2. \A p \in 1..n : PageLength(pages[p]) \in Nat
      BY PagesFollow
    <3> QED  BY <1>1, <1>2, <3>1, <3>2 DEF LongSpans
  <2>2. \A i \in 1..(Len(F) - 1) : Source(F[i + 1])[1] >= SearchStart(F[i])
    BY <1>4, <2>1 DEF Good
  <2>3. ASSUME NEW i \in DOMAIN F, i > 1 PROVE Source(F[i])[1] >= SearchStart(F[i - 1])
    <3>1. i - 1 \in 1..(Len(F) - 1) /\ (i - 1) + 1 = i
      BY <1>5, <2>3
    <3> QED  BY <2>2, <3>1
  <2> QED  BY <2>3 DEF FixedFound, F
<1>7. \A i \in DOMAIN F : Joined(F[i]) <= ChunkSize + Overlap + 1
  BY <1>4, <1>5 DEF Good
<1>8. ASSUME NEW x \in L, NEW a \in x.span[1]..(x.span[2] - 1)
      PROVE  \E i \in DOMAIN F : \E j \in DOMAIN F[i] : F[i][j][1] <= a /\ a < F[i][j][2]
  <2> DEFINE p == x.page
             l == x.number
             start == PageStart(pages, p)
             page == pages[p]
  <2>1. Placed(L, pages, TextLength(pages))
    BY LinesArePlaced DEF L
  <2>2. /\ p \in 1..n /\ l \in 1..Len(page) /\ x = LineAt(pages, p, l)
        /\ x.span[1] \in Int /\ x.span[2] \in Int
    BY <2>1 DEF Placed
  <2>3. x.span[1] = start + Offset(page, l) /\ x.span[2] = start + Offset(page, l) + page[l].length
    <3>1. LineStart(pages, p, l) = start + Offset(page, l)
      BY DEF LineStart, Offset
    <3> HIDE DEF start, page
    <3>2. /\ LineAt(pages, p, l).span[1] = LineStart(pages, p, l)
          /\ LineAt(pages, p, l).span[2] = LineStart(pages, p, l) + page[l].length
      BY DEF LineAt, page
    <3> HIDE DEF p, l
    <3> QED  BY <2>2, <3>1, <3>2
  <2>4. page \in Seq(LineRecord) /\ page # <<>> /\ start \in Nat /\ PageLength(page) \in Nat
    BY <2>2, PagesFollow
  <2> HIDE DEF page
  <2>5. /\ Offset(page, l) \in Nat /\ page[l].length \in Nat
        /\ Offset(page, l) + page[l].length <= PageLength(page)
    BY <2>2, <2>4, PageHasItsLines
  <2> HIDE DEF start, l
  <2>6. a \in Int /\ start <= a /\ a < start + PageLength(page)
    <3>1. a \in Int /\ x.span[1] <= a /\ a < x.span[2]
      BY <2>2
    <3>2. start \in Nat /\ PageLength(page) \in Nat
      BY <2>4
    <3> QED  BY <2>3, <2>5, <3>1, <3>2
  <2>7. sp[p] = <<start, start + PageLength(page)>>
    BY <1>1, <2>2 DEF PageSpan, start, page
  <2>8. PICK i \in 1..Len(F) : Holds(F[i], a)
    BY <1>4, <2>2, <2>6, <2>7 DEF Good
  <2>9. PICK j \in 1..Len(F[i]) : F[i][j][1] <= a /\ a < F[i][j][2]
    BY <2>8 DEF Holds
  <2>10. DOMAIN F[i] = 1..Len(F[i])
    BY <1>4 DEF Good, Text, Pieces
  <2> QED  BY <1>5, <2>9, <2>10
<1> QED  BY <1>6, <1>7, <1>8 DEF FixedSplitTraces, F, L

\* However a paper is split: the chunks of a structural strategy hold every line, in order,
\* each within its section, in bounds and with the pages of its lines; those of
\* fixed_boundary_v1 hold every line in bounds, and are refused only for a page shorter
\* than the overlap (ingestion/splitter.py, ingestion/service.py).
THEOREM ChunksAlwaysCoverText == SplitSpec => []ChunksCoverText
<1> DEFINE Inv == split \subseteq PaperTexts
<1>1. SplitInit => Inv
  BY DEF SplitInit
<1>2. Inv /\ [SplitPaper]_split => Inv'
  BY DEF SplitPaper
<1>3. Inv => ChunksCoverText
  <2> SUFFICES ASSUME Inv, NEW paper \in split
               PROVE  /\ StructuralCovers(paper.pages, paper.strategy)
                      /\ paper.strategy = "fixed_boundary_v1" => FixedSplitTraces(paper.pages)
    BY DEF ChunksCoverText
  <2> DEFINE pages == paper.pages
             strategy == paper.strategy
  <2>1. IsPaper(paper)
    BY SplitterAssumption
  <2>2. pages \in Seq(Seq(LineRecord)) /\ pages # <<>>
    BY <2>1 DEF IsPaper, LineRecord
  <2> HIDE DEF pages, strategy
  <2>3. ASSUME ParseStatus(pages) = "PASS" PROVE Whole(pages)
    <3>1. \A p \in DOMAIN pages : pages[p] # <<>>
      BY <2>3 DEF ParseStatus
    <3> QED  BY <2>2, <3>1 DEF Whole
  <2>4. StructuralCovers(pages, strategy)
    BY <2>3, StructuralChunksCover DEF StructuralCovers
  <2>5. FixedSplitTraces(pages)
    <3>1. ParseStatus(pages) # "PASS" => FixedSplitTraces(pages)
      BY DEF FixedSplitTraces
    <3> QED  BY <2>3, <3>1, FixedTextsTrace
  <2> QED  BY <2>4, <2>5 DEF pages, strategy
<1> QED  BY <1>1, <1>2, <1>3, PTL DEF SplitSpec

=============================================================================
