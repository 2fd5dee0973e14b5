--------------------------- MODULE RetrievalMetrics ---------------------------
(***************************************************************************)
(* How rankings are scored against the labels of the evaluation corpus:    *)
(* the report of evaluation/retrieval_metrics.py, and the scores the paired *)
(* gate computes for itself from the chunks of an isolated run, which have *)
(* other ids than the labelled ones.                                       *)
(*                                                                         *)
(* relevance maps the judged chunks of a question to 0..3. A question has  *)
(* an answerability and a relevance; its result a decision, the candidates *)
(* in the order of their ranks, top_k and a latency.                       *)
(***************************************************************************)
EXTENDS Orders, SequencesExt

CONSTANTS
  Discount,   \* what a gain counts at each rank: 1 / log2(rank + 1), scaled to an integer
  Rankings,   \* rankings of the chunks of an isolated run, with the labels of a question
  Evaluations \* labelled questions, the results of a run, and k

Million == 1000000
AnswerableStates == {"ANSWERABLE", "PARTIALLY_ANSWERABLE", "CONFLICTING_EVIDENCE"}
Relevant(relevance) == {c \in DOMAIN relevance : relevance[c] >= 2}
Unknown == 0

IsRelevance(relevance) ==
  IsFiniteSet(DOMAIN relevance) /\ relevance \in [DOMAIN relevance -> 0..3]
    /\ Unknown \notin DOMAIN relevance

\* A ranking of runtime chunks that names none twice.
IsRanking(r) ==
  /\ IsRelevance(r.relevance) /\ r.k \in DOMAIN Discount
  /\ IsFiniteSet(DOMAIN r.frozen) /\ IsFiniteSet(DOMAIN r.runtime)
  /\ r.ranking \in Seq(DOMAIN r.runtime) /\ IsInjective(r.ranking)

\* EvaluationItemV1.validate_item_semantics: an answerable question has a relevant
\* chunk. Rates have six decimals, so that fewer than a million questions are told apart.
IsEvaluation(e) ==
  /\ IsFiniteSet(DOMAIN e.items) /\ DOMAIN e.items # {} /\ Cardinality(DOMAIN e.items) < Million
  /\ \A q \in DOMAIN e.items :
       /\ IsRelevance(e.items[q].relevance)
       /\ e.items[q].answerability \in AnswerableStates \cup {"NO_EVIDENCE", "FORBIDDEN"}
       /\ e.items[q].answerability \in AnswerableStates => Relevant(e.items[q].relevance) # {}
  /\ \A q \in DOMAIN e.results :
       /\ e.results[q].decision \in {"EVIDENCE_FOUND", "NO_EVIDENCE", "FORBIDDEN"}
       /\ e.results[q].candidates \in Seq(ToSet(e.results[q].candidates))
       /\ e.results[q].latency \in Nat
  /\ e.k \in Nat \ {0}

ASSUME MetricsAssumption ==
  /\ Discount \in Seq(Nat \ {0})
  /\ \A m, n \in DOMAIN Discount : m < n => Discount[n] < Discount[m]
  /\ \A r \in Rankings : IsRanking(r)
  /\ \A e \in Evaluations : IsEvaluation(e)

VARIABLES
  scored,  \* the ranking of this behaviour, once it was scored
  reported \* the run of this behaviour, once its report was built

-----------------------------------------------------------------------------
(* The score of one ranking. *)

\* 2 ** grade - 1
Gain(grade) == <<0, 1, 3, 7>>[grade + 1]
Grade(relevance, c) == IF c \in DOMAIN relevance THEN relevance[c] ELSE 0
Dcg(grades) == SumFunction([n \in DOMAIN grades |-> Gain(grades[n]) * Discount[n]])

\* The grades in descending order, down to rank k.
Ideal(relevance, k) ==
  LET judged == Cardinality(DOMAIN relevance) IN
  Dcg([n \in 1..(IF k < judged THEN k ELSE judged) |-> Nth(relevance, judged + 1 - n)])

\* _ranking_scores: numerators and denominators.
Scores(relevance, ranking, k) ==
  LET top == Top(ranking, k)
      hits == {n \in DOMAIN top : top[n] \in Relevant(relevance)}
  IN [hits |-> Cardinality(hits), relevant |-> Cardinality(Relevant(relevance)),
      first |-> IF hits = {} THEN 0 ELSE Least(hits),
      dcg |-> Dcg([n \in DOMAIN top |-> Grade(relevance, top[n])]),
      ideal |-> Ideal(relevance, k)]

-----------------------------------------------------------------------------
(* The report of a run: _aggregate_backend. Rates are in millionths.                   *)

Undefined == -1

\* ranks_and_candidates_must_be_consistent
ResultValid(result) ==
  /\ IsInjective(result.candidates)
  /\ Len(result.candidates) <= result.topK
  /\ result.decision = "EVIDENCE_FOUND" <=> result.candidates # <<>>

\* One valid result per question, long enough for the largest k.
Covered(items, results, k) ==
  /\ DOMAIN results = DOMAIN items
  /\ \A q \in DOMAIN results : ResultValid(results[q]) /\ results[q].topK >= k

Rate(part, whole) ==
  IF whole = {} THEN Undefined
  ELSE (2 * Million * Cardinality(part) + Cardinality(whole)) \div (2 * Cardinality(whole))

\* _percentile, in hundredths: linear between the neighbours of the position.
Percentile(values, percent) ==
  LET position == (Cardinality(DOMAIN values) - 1) * percent
      lower == position \div 100 + 1
      upper == IF position % 100 = 0 THEN lower ELSE lower + 1
  IN 100 * Nth(values, lower) + (Nth(values, upper) - Nth(values, lower)) * (position % 100)

Labelled(items, answers) == {q \in DOMAIN items : items[q].answerability \in answers}
DecidedAs(items, results, decision) == {q \in DOMAIN items : results[q].decision = decision}

\* Of an answerable question, the share of its relevant chunks that was found, rounded down.
Recall(item, result, k) ==
  LET scores == Scores(item.relevance, result.candidates, k) IN
  (Million * scores.hits) \div scores.relevant

Rates(items, results, k) ==
  LET eligible == Labelled(items, AnswerableStates)
      empty == Labelled(items, {"NO_EVIDENCE"})
      forbidden == Labelled(items, {"FORBIDDEN"})
      recalls == [q \in eligible |-> Recall(items[q], results[q], k)]
      latencies == [q \in DOMAIN items |-> results[q].latency]
  IN [recall |-> IF eligible = {} THEN Undefined
                 ELSE SumFunction(recalls) \div Cardinality(eligible),
      noAnswerDetection |-> Rate(empty \cap DecidedAs(items, results, "NO_EVIDENCE"), empty),
      refusalPrecision |-> Rate(empty \cap DecidedAs(items, results, "NO_EVIDENCE"),
                                DecidedAs(items, results, "NO_EVIDENCE")),
      wrongRefusal |-> Rate(eligible \ DecidedAs(items, results, "EVIDENCE_FOUND"), eligible),
      forbiddenBlock |-> Rate(forbidden \cap DecidedAs(items, results, "FORBIDDEN"), forbidden),
      p50 |-> Percentile(latencies, 50), p95 |-> Percentile(latencies, 95)]

-----------------------------------------------------------------------------
(* The scores of the gate. frozen and runtime map the ids of chunks to what identifies *)
(* a chunk in its source: document, position, pages, section and text.                *)

Twins(key, chunks) == {c \in DOMAIN chunks : chunks[c] = key}

\* remap_runtime_chunks
ChunksRemap(frozen, runtime) ==
  /\ \A s \in DOMAIN frozen : Cardinality(Twins(frozen[s], runtime)) = 1
  /\ \A s, t \in DOMAIN frozen : Twins(frozen[s], runtime) = Twins(frozen[t], runtime) => s = t
  /\ Cardinality(DOMAIN runtime) = Cardinality(DOMAIN frozen)

RuntimeToSource(frozen, runtime) ==
  [r \in UNION {Twins(frozen[s], runtime) : s \in DOMAIN frozen} |->
     CHOOSE s \in DOMAIN frozen : r \in Twins(frozen[s], runtime)]

SourceOf(source, r) == IF r \in DOMAIN source THEN source[r] ELSE Unknown

\* _score
GateScore(relevance, source, ranking, k) ==
  LET top == Top(ranking, k)
      ids == [n \in DOMAIN top |-> SourceOf(source, top[n])]
  IN [hits |-> Cardinality({n \in DOMAIN ids : ids[n] \in Relevant(relevance)}),
      relevant |-> Cardinality(Relevant(relevance)),
      dcg |-> Dcg([n \in DOMAIN ids |-> Grade(relevance, ids[n])]),
      ideal |-> Ideal(relevance, k)]

\* _strict_two_sided: the first three show both documents that have relevant chunks.
StrictTwoSided(relevance, documentOf, source, ranking) ==
  LET sides == {documentOf[c] : c \in Relevant(relevance)}
      shown == {SourceOf(source, c) : c \in ToSet(Top(ranking, 3))} \cap Relevant(relevance)
  IN Cardinality(sides) = 2 /\ {documentOf[c] : c \in shown} = sides

-----------------------------------------------------------------------------
(* A ranking is scored, or the report of a run is built. *)

MetricsInit == scored = {} /\ reported = {}

ScoreRanking ==
  /\ scored = {} /\ \E r \in Rankings : scored' = {r}
  /\ UNCHANGED reported

BuildReport ==
  /\ reported = {} /\ \E e \in Evaluations : reported' = {e}
  /\ UNCHANGED scored

MetricsSpec == MetricsInit /\ [][ScoreRanking \/ BuildReport]_<<scored, reported>>

-----------------------------------------------------------------------------
(* Properties. *)

\* No ranking scores better than perfect: it hits no more than what is relevant, its
\* discounted gain is at most the ideal one, less if it could have hit more, and only a
\* ranking without a relevant chunk in front has no reciprocal rank.
ScoreBounded(relevance, ranking, k) ==
  LET scores == Scores(relevance, ranking, k) IN
  /\ scores.hits <= scores.relevant /\ scores.hits <= k
  /\ scores.dcg <= scores.ideal
  /\ scores.first = 0 <=> scores.hits = 0
  /\ scores.hits < scores.relevant /\ scores.hits < k => scores.dcg < scores.ideal

\* The chunks of an isolated run stand for the labelled ones: the gate scores a
\* ranking of them as the metrics score the labelled ranking, a ranking that shows
\* both sides hits at least twice, and one that hits everything shows both sides.
GateScoreAgrees(relevance, documentOf, frozen, runtime, ranking, k) ==
  ChunksRemap(frozen, runtime) =>
    LET source == RuntimeToSource(frozen, runtime)
        labelled == [n \in DOMAIN ranking |->
                       CHOOSE s \in DOMAIN frozen : frozen[s] = runtime[ranking[n]]]
        gate == GateScore(relevance, source, ranking, k)
        scores == Scores(relevance, labelled, k)
        strict == StrictTwoSided(relevance, documentOf, source, ranking)
    IN /\ \A field \in DOMAIN gate : gate[field] = scores[field]
       /\ strict /\ k >= 3 => gate.hits >= 2
       /\ gate.hits = gate.relevant /\ k <= 3 =>
            (strict <=> Cardinality({documentOf[c] : c \in Relevant(relevance)}) = 2)

\* Perfect rates mean perfect decisions: if no answerable question is refused and
\* every unanswerable and every forbidden one is recognized, all were decided as they
\* are labelled, and no recall is complete as long as an answerable question is refused.
RatesTell(items, results, k) == Covered(items, results, k) =>
  LET rates == Rates(items, results, k)
      due(q) == IF items[q].answerability \in AnswerableStates THEN "EVIDENCE_FOUND"
                ELSE items[q].answerability
      right == \A q \in DOMAIN items : results[q].decision = due(q)
      refused == DecidedAs(items, results, "NO_EVIDENCE")
  IN /\ right <=> /\ rates.wrongRefusal \in {Undefined, 0}
                  /\ rates.noAnswerDetection \in {Undefined, Million}
                  /\ rates.forbiddenBlock \in {Undefined, Million}
     /\ rates.refusalPrecision = Million <=>
          refused # {} /\ \A q \in refused : items[q].answerability = "NO_EVIDENCE"
     /\ rates.recall = Million => rates.wrongRefusal = 0
     /\ rates.p50 <= rates.p95
     /\ \A p \in {rates.p50, rates.p95} : \E q, r \in DOMAIN results :
          100 * results[q].latency <= p /\ p <= 100 * results[r].latency

\* So the scores and the report mean what they say.
MetricsAreSound ==
  /\ \A r \in scored :
       /\ ScoreBounded(r.relevance, r.ranking, r.k)
       /\ GateScoreAgrees(r.relevance, r.documents, r.frozen, r.runtime, r.ranking, r.k)
  /\ \A e \in reported : RatesTell(e.items, e.results, e.k)

=============================================================================
