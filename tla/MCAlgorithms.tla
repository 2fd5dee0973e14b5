----------------------------- MODULE MCAlgorithms -----------------------------
(***************************************************************************)
(* The inputs of the algorithms without a state: the splitter, the         *)
(* decomposition of a comparison, and the evaluation.                      *)
(***************************************************************************)
EXTENDS Evaluation, Comparison, Chunking, TLC

-----------------------------------------------------------------------------
(* Papers. The sizes of the splitter are about a hundredth of the real ones. *)

Line(length, level, major, ends) ==
  [length |-> length, level |-> level, major |-> major, ends |-> ends]
LineKinds == {Line(1, 0, "no", TRUE), Line(4, 0, "no", TRUE), Line(6, 0, "no", FALSE),
              Line(10, 0, "no", TRUE), Line(13, 0, "no", TRUE),
              Line(3, 1, "major", FALSE), Line(2, 2, "minor", FALSE)}
Pages == {<<>>} \cup {<<a>> : a \in LineKinds} \cup {<<a, b>> : a, b \in LineKinds}
ShortPages == {p \in Pages : Len(p) < 2}

SmallPapers ==
  [pages : {<<p, q>> : p, q \in Pages} \cup {<<p, q, r>> : p, q, r \in ShortPages},
   strategy : {"fixed_boundary_v1", "paragraph_sentence_v1", "section_parent_child_v1"}]

-----------------------------------------------------------------------------
(* Comparisons. *)

\* Short clauses, and clauses that name both documents with what may stand between and
\* behind the names.
Words == {"A", "B", "compare", "transition", "word"}
ShortClauses == {<<a>> : a \in Words} \cup {<<a, b>> : a, b \in Words}
BilateralClauses ==
  {p \o <<a>> \o m \o <<b>> \o t :
     p \in {<<>>, <<"compare">>}, a, b \in {"A", "B"},
     m \in {<<>>, <<"connector">>, <<"word", "connector", "word">>},
     t \in {<<>>, <<"shared">>, <<"word", "shared", "A">>}}
ComparisonQuestions ==
  LET clauses == ShortClauses \cup BilateralClauses IN
  {<<>>} \cup {<<a>> : a \in clauses} \cup {<<a, b>> : a, b \in clauses}
DocumentAliases == "d" :> {"A"} @@ "e" :> {"B"}
DocumentIds == {"d" :> "d1" @@ "e" :> "e1", "d" :> "B" @@ "e" :> "e1"}

AllTokens == Words \cup {"connector", "shared", "d1", "e1"}

SmallComparisons ==
  [question : ComparisonQuestions, aliases : {DocumentAliases}, ids : DocumentIds,
   routes : {{"d1", "e1"}, {"d1"}, {"d1", "x"}}, enabled : {TRUE}]
  \cup [question : {<<c>> : c \in ShortClauses}, aliases : {DocumentAliases}, ids : DocumentIds,
        routes : {{"d1", "e1"}}, enabled : {FALSE}]

-----------------------------------------------------------------------------
(* The corpus. *)

Review(id, role, annotator, actor, label, parents) ==
  [id |-> id, role |-> role, annotator |-> annotator, actor |-> actor, label |-> label,
   parents |-> parents]
Annotations(id) ==
  {Review(id, "ANNOTATOR", w, a, l, {}) : w \in {"p", "q"}, a \in {"HUMAN", "GPT"}, l \in 0..1}
Thirds ==
  {r \in {Review("r3", role, w, a, l, ps) :
            role \in {"ANNOTATOR", "ADJUDICATOR", "EXPERT_REVIEWER"}, w \in {"p", "s"},
            a \in {"HUMAN", "GPT", "FIXTURE"}, l \in 0..1, ps \in {{}, {"r1"}, {"r1", "r2"}}} :
     RoleValid(r)}
Experts == {Review("r4", "EXPERT_REVIEWER", "t", "HUMAN", l, {p}) : l \in 0..1, p \in {"r1", "r3"}}
TwoReviews == {{a, b} : a \in Annotations("r1"), b \in Annotations("r2")}
ThreeReviews == {two \cup {c} : two \in TwoReviews, c \in Thirds}
FourReviews ==
  {three \cup {d} : d \in Experts,
     three \in {two \cup {c} : two \in TwoReviews,
                 c \in {r \in Thirds : r.role = "ADJUDICATOR" /\ r.actor = "HUMAN"}}}

\* The items that may stand over reviews with these ids.
Judged(ids) ==
  {i \in [status : {"DRAFT", "GPT_ASSISTED", "DOUBLE_ANNOTATED", "ADJUDICATED", "EXPERT_REVIEWED"},
          score : {"none", "full", "partial"}, label : {1}, final : {"none", "r3", "r4"},
          records : {ids}, hard : BOOLEAN, sensitive : {FALSE}] :
     ItemValid(i, [id : ids])}

SmallCorpus ==
  [item : Judged({"r1", "r2"}), records : TwoReviews]
  \cup [item : Judged({"r1", "r2", "r3"}), records : ThreeReviews]
  \cup [item : Judged({"r1", "r2", "r3", "r4"}), records : FourReviews]

-----------------------------------------------------------------------------
(* Scores. *)

Discounts == <<1000, 631, 500>>

\* Chunks 1 and 2 of one document and 3 of another; chunk n of the isolated run stands
\* for chunk n, for another one, or two of them for the same one.
FrozenChunks == [c \in 1..4 |-> c]
ScoredDocuments == <<"d", "d", "e", "e">>
RuntimeChunks == {FrozenChunks, <<2, 3, 1, 4>>, <<2, 2, 3, 4>>}

SmallRankings ==
  [relevance : UNION {[judged -> 0..3] : judged \in SUBSET (1..3)},
   ranking : UNION {{f \in [1..n -> 1..4] : IsInjective(f)} : n \in 0..3},
   k : 1..3, documents : {ScoredDocuments}, frozen : {FrozenChunks}, runtime : RuntimeChunks]

Label3(answerability, relevance) == [answerability |-> answerability, relevance |-> relevance]
Labels == {Label3("ANSWERABLE", 1 :> 3), Label3("CONFLICTING_EVIDENCE", 1 :> 2 @@ 2 :> 3),
           Label3("NO_EVIDENCE", <<>>), Label3("FORBIDDEN", <<>>)}
Ranked3(decision, candidates) == [decision |-> decision, candidates |-> candidates, topK |-> 3]
Results == {Ranked3("EVIDENCE_FOUND", <<1, 2>>), Ranked3("EVIDENCE_FOUND", <<3>>),
              Ranked3("NO_EVIDENCE", <<>>), Ranked3("FORBIDDEN", <<>>),
              Ranked3("FORBIDDEN", <<1>>)}

SmallEvaluations ==
  {[items |-> e[1], k |-> e[4],
    results |-> [q \in DOMAIN e[1] |-> e[2][q] @@ ("latency" :> e[3][q])]] :
     e \in UNION {[1..n -> Labels] \X [1..n -> Results] \X {<<1, 2, 9>>, <<3, 1, 1>>} \X {2, 4} :
                    n \in 1..3}}

-----------------------------------------------------------------------------
(* The gate for a model. *)

\* Three pairs, the third one perhaps only partly supported; logits in all orders and
\* two that tie.
Logits == {<<2, 1, 0>>, <<1, 2, 0>>, <<0, 1, 2>>, <<1, 1, 0>>, <<0, 1, 1>>}
NliConfigs ==
  [batchSize : 1..1, pairCount : 0..1, repetitions : {29, 30}, warmup : {1},
   minimumCandidate : {0, 50, 100}, minimumHuman : {67, 100}, enforcesOnline : {FALSE}]

SmallWorkloads ==
  {[config |-> w[1], logits |-> w[2], supported |-> w[3], partial |-> (1..3) \ w[3],
    groups |-> w[4]] :
     w \in NliConfigs \X [1..3 -> Logits] \X (SUBSET (1..3))
             \X {{}, {{1}, {2}}, {{1, 2}, {3}}, {{1}, {2}, {3}}}}

-----------------------------------------------------------------------------
(* The paired gate, with four target questions as in the code, and fewer of the other  *)
(* cases.                                                                              *)

SmallCanary == "ANSWERABLE" :> 2 @@ "NO_EVIDENCE" :> 1 @@ "FORBIDDEN" :> 1

\* A measurement that passes every threshold, and what differs from it in one part or
\* two. The numbers lie around the thresholds and around what rounding tells apart.
Arm(strict, recall, ndcg) == [strict |-> strict, recall |-> recall, ndcg |-> ndcg]
Pair(control, treatment) == [control |-> control, treatment |-> treatment]
CanaryCase(name, category, outcome) ==
  [name |-> name, category |-> category, control |-> outcome, treatment |-> outcome,
   located |-> TRUE]
GoodCanary ==
  {CanaryCase(1, "ANSWERABLE", "COMPLETED"), CanaryCase(2, "ANSWERABLE", "COMPLETED"),
   CanaryCase(3, "NO_EVIDENCE", "NO_EVIDENCE"), CanaryCase(4, "FORBIDDEN", "FORBIDDEN")}
GoodCleanup ==
  [versions |-> 3, observed |-> 9, succeeded |-> 9, forbidden |-> TRUE, failedClosed |-> TRUE,
   raised |-> FALSE]
Measured(experiment, changed) ==
  [experiment |-> experiment, ended |-> "complete", cleanup |-> GoodCleanup,
   control |-> Arm(0, 3333333, 4000000), treatment |-> Arm(3, 6666667, 6000000),
   others |-> Pair(Arm(0, 8000006, 9000004), Arm(0, 8000006, 9000004)),
   empty |-> Pair(1, 1), canary |-> GoodCanary,
   cost |-> [control |-> 100000006, treatment |-> 300000003, variable |-> 20000004],
   applied |-> 4, changed |-> changed]
Near(x) == {x - 6, x - 4, x, x + 4, x + 6}
Targeted(m) ==
  {[m EXCEPT !.control = Arm(c, 3333333, 4000004), !.treatment = Arm(t, r, n)] :
     c \in 0..1, t \in 2..4, r \in Near(5333333) \cup {10000000}, n \in Near(5000004)}
Otherwise(m) ==
  {[m EXCEPT !.others = Pair(Arm(0, 8000006, 9000004), Arm(0, r, n))] :
     r \in Near(8000006) \cup Near(7900006), n \in Near(9000004) \cup Near(8900004)}
EmptyHanded(m) == {[m EXCEPT !.empty = Pair(c, t)] : c, t \in 0..2}
Canaries(m) ==
  {[m EXCEPT !.canary = {CanaryCase(1, "ANSWERABLE", o), [c EXCEPT !.treatment = t, !.located = l]}
                          \cup (GoodCanary \ {CanaryCase(1, "ANSWERABLE", "COMPLETED"), c})] :
     o \in {"COMPLETED", "DEGRADED"}, c \in {c \in GoodCanary : c.name # 1},
     t \in {"COMPLETED", "NO_EVIDENCE", "FORBIDDEN"}, l \in BOOLEAN}
Costs(m) ==
  {[m EXCEPT !.cost = [control |-> c, treatment |-> t, variable |-> v]] :
     c \in Near(100000000), t \in Near(600000000) \cup {90000000}, v \in Near(50000000)}
Cleanups ==
  [versions : 2..3, observed : 8..9, succeeded : 8..9, forbidden : BOOLEAN,
   failedClosed : BOOLEAN, raised : BOOLEAN]
Endings(m) ==
  {[m EXCEPT !.ended = e, !.cleanup = c, !.applied = a, !.control = Arm(s, 3333333, 4000000)] :
     e \in {"refused", "error", "complete"}, c \in {c \in Cleanups : c.succeeded <= c.observed},
     a \in 3..4, s \in 0..1}

SmallMeasurements ==
  UNION {LET m == Measured(experiment, changed) IN
         Targeted(m) \cup Otherwise(m) \cup EmptyHanded(m) \cup Canaries(m) \cup Costs(m)
           \cup Endings(m) : experiment \in Experiments, changed \in {0, 4}}

-----------------------------------------------------------------------------
avars == <<evars, planned, split>>

AlgorithmsInit == EvaluationInit /\ PlanInit /\ SplitInit

NothingYet == validated \cup scored \cup reported \cup evaluated \cup measured = {}

\* One input per behaviour.
AlgorithmsNext(subject) ==
  \/ subject = "evaluation" /\ NothingYet /\ EvaluationNext /\ UNCHANGED <<planned, split>>
  \/ subject = "comparison" /\ PlanQuestion /\ UNCHANGED <<evars, split>>
  \/ subject = "chunks" /\ SplitPaper /\ UNCHANGED <<evars, planned>>

=============================================================================
