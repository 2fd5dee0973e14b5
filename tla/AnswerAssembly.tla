---------------------------- MODULE AnswerAssembly ----------------------------
(***************************************************************************)
(* From the candidates of the searches to the answer the API returns:      *)
(* fusion and coverage selection (OnlineVersionRrfRetriever.search), the   *)
(* reranker and build_answer (answer_online_ready_question), and the model *)
(* with its claims and citations (apply_real_generation). OnlineRead has   *)
(* the concurrency of the same path; here one question runs alone and the  *)
(* order of its chunks matters. Backends, scorer and model are external:   *)
(* they return anything their clients do not refuse.                       *)
(***************************************************************************)
EXTENDS Ranking, ClaimEvidence

CONSTANTS
  QuoteOf,     \* the text of each chunk
  TopK,        \* top_k of an answer
  CandidateK,  \* candidate_top_k of the reranker
  Threshold,   \* vector_min_score, on an integer scale
  HitScores,   \* bound: scores of a hit
  Replies,     \* bound: what the model answers; none means that the call fails
  MaxClaims    \* the claims a reply may hold (8 in the code)

Routes == {ChunkOf[c] : c \in Chunk}
RouteChunks(document) == {c \in Chunk : ChunkOf[c] = document}

\* There is something to search, no two chunks have the same id, no ranking is longer
\* than MaxRank, and a reply of the model is a list.
ASSUME AssemblyAssumption ==
  /\ IsFiniteSet(Chunk) /\ Chunk # {}
  /\ ChunkOrder \in [Chunk -> Int] /\ IsInjective(ChunkOrder)
  /\ RrfK \in Nat /\ MaxRank \in Nat
  /\ \A d \in Routes : Cardinality(RouteChunks(d)) <= MaxRank
  /\ TopK \in Nat \ {0} /\ CandidateK \in Nat \ {0}
  /\ HitScores \subseteq Int /\ Threshold \in Int
  /\ \A reply \in Replies : reply \in Seq(ToSet(reply))
  /\ MaxClaims \in Nat

VARIABLES
  stage,    \* what happens next
  request,  \* is it a comparison, is there a reranker, a model, are claims enforced?
  rankings, \* the rankings of the routes, Elasticsearch and Milvus in turn
  fused,    \* the fused order of all candidates
  chosen,   \* the chunks that go into the answer
  reranked, \* the status of the reranker
  answer    \* the answer

vars == <<stage, request, rankings, fused, chosen, reranked, answer>>

NoAnswer == [status |-> "none", evidence |-> <<>>, citations |-> <<>>, claims |-> <<>>,
             warning |-> "none"]

Init ==
  /\ stage = "search"
  /\ request \in [comparison : BOOLEAN, reranker : BOOLEAN, model : BOOLEAN, enforce : BOOLEAN]
  /\ request.enforce => request.model
  /\ rankings = <<>> /\ fused = <<>> /\ chosen = <<>>
  /\ reranked = "NOT_CONFIGURED"
  /\ answer = NoAnswer

\* What is asked of retrieval: the reranker wants more candidates than it returns.
RetrievedK == IF request.reranker THEN CandidateK ELSE TopK

-----------------------------------------------------------------------------
(* Retrieval. *)

RouteOrder == SetToSeq(Routes)
Bodies == {[c \in Chunk |-> 0]} \cup {[c \in Chunk |-> IF c = odd THEN 1 ELSE 0] : odd \in Chunk}

\* What a search of a route may return; in Milvus one payload may differ.
Responses(document, bodies, threshold) ==
  LET chunks == RouteChunks(document)
      hits == {{[id |-> c, score |-> score[c], body |-> body[c]] : c \in found} :
                 found \in SUBSET chunks, score \in [chunks -> HitScores], body \in bodies}
      rankings_of == {Ranked(h, threshold) : h \in hits}
  IN {[i \in DOMAIN r |-> [id |-> r[i].id, body |-> r[i].body]] : r \in rankings_of}

Lexical == [d \in Routes |-> Responses(d, {[c \in Chunk |-> 0]}, 0)]
Vector == [d \in Routes |-> Responses(d, Bodies, Threshold)]

\* The results are collected in the order of the routes.
Search ==
  LET d == RouteOrder[Len(rankings) \div 2 + 1] IN
  /\ stage = "search"
  /\ \E l \in Lexical[d], v \in Vector[d] : rankings' = rankings \o <<l, v>>
  /\ stage' = IF Len(rankings') = 2 * Cardinality(Routes) THEN "fuse" ELSE "search"
  /\ UNCHANGED <<request, fused, chosen, reranked, answer>>

FuseRefuses ==
  /\ stage = "fuse"
  /\ ~Consistent(rankings)
  /\ stage' = "unavailable"
  /\ UNCHANGED <<request, rankings, fused, chosen, reranked, answer>>

\* Without a selector the first candidates, with one the covering selection.
FuseCandidates ==
  /\ stage = "fuse"
  /\ Consistent(rankings)
  /\ fused' = FusedOrder(rankings)
  /\ chosen' = SelectCovering(fused', Routes, RetrievedK, request.comparison)
  /\ stage' = IF request.reranker THEN "rerank" ELSE "build"
  /\ UNCHANGED <<request, rankings, reranked, answer>>

\* The scorer returns a score per candidate, too few of them, or raises.
RerankCandidates ==
  /\ stage = "rerank"
  /\ Rerankable(chosen, TopK, CandidateK, Routes)
  /\ \E n \in {0, Len(chosen)} : \E scores \in [1..n -> {0, 1}] :
       LET outcome == Rerank(chosen, scores, TopK) IN
       /\ chosen' = outcome.chunks
       /\ reranked' = outcome.status
  /\ stage' = "build"
  /\ rankings' = <<>>
  /\ UNCHANGED <<request, fused, answer>>

-----------------------------------------------------------------------------
(* The answer. *)

\* build_answer: evidence and citation n belong to chunk n.
BuildAnswer ==
  /\ stage = "build"
  /\ answer' = [status |-> IF chosen = <<>> THEN "NO_EVIDENCE" ELSE "COMPLETED",
                evidence |-> chosen,
                citations |-> [n \in DOMAIN chosen |-> n],
                claims |-> <<>>,
                warning |-> IF chosen = <<>> THEN "NO_EVIDENCE" ELSE reranked]
  /\ stage' = IF request.model THEN "generate" ELSE "done"
  /\ rankings' = <<>>
  /\ UNCHANGED <<request, fused, chosen, reranked>>

Evidence == [n \in DOMAIN chosen |-> [quote |-> QuoteOf[chosen[n]]]]

\* _parse_claims: between one and MaxClaims claims, each citing this evidence;
\* the positions are sorted and each is kept once.
ReplyValid(reply) ==
  /\ Len(reply) \in 1..MaxClaims
  /\ \A i \in DOMAIN reply :
       reply[i].clauses # <<>> /\ reply[i].cites # {} /\ reply[i].cites \subseteq DOMAIN chosen

Parsed(reply) ==
  [i \in DOMAIN reply |-> [clauses |-> reply[i].clauses, cites |-> Ascending(reply[i].cites)]]

\* Mutant: the citations of the dropped claims stay.
PositionsOfReply(claims, reply) == UNION {reply[i].cites : i \in DOMAIN reply}

\* _validated_citation_positions of the rendered claims.
UsedPositions(claims, reply) == UNION {ToSet(claims[i].cites) : i \in DOMAIN claims}

Statuses(claims) == {VerifyClaim(claims[i], Evidence) : i \in DOMAIN claims}

\* The suffix of the warning of a completed answer.
Warning(claims, kept) ==
  LET statuses == Statuses(claims) IN
  IF ~request.enforce
  THEN IF "UNSUPPORTED" \in statuses THEN "AUDIT_FAILED" ELSE "AUDIT_PASS"
  ELSE IF "UNSUPPORTED" \in statuses THEN "PARTIAL"
  ELSE IF "CONFLICTING_EVIDENCE" \in statuses THEN "CONFLICT"
  ELSE IF statuses = {"INSUFFICIENT_EVIDENCE"} THEN "LIMITATION"
  ELSE "VALIDATED"

\* _degraded_answer: the evidence and all its citations stay.
Degrade(warning) ==
  answer' = [answer EXCEPT !.status = "DEGRADED", !.warning = warning]

GenerateNothing ==
  /\ stage = "generate"
  /\ chosen = <<>>
  /\ answer' = [answer EXCEPT !.warning = "NOT_CALLED"]
  /\ stage' = "done"
  /\ UNCHANGED <<request, rankings, fused, chosen, reranked>>

\* The model is unavailable or another one, or its reply is refused.
GenerationFails ==
  /\ stage = "generate"
  /\ chosen # <<>>
  /\ Degrade("FAILED_CLOSED")
  /\ stage' = "done"
  /\ UNCHANGED <<request, rankings, fused, chosen, reranked>>

\* Mutant: enforcement is forgotten.
KeptUnchecked(claims) == claims

Kept(claims) == IF request.enforce THEN Retained(claims, Evidence) ELSE claims

Generate ==
  /\ stage = "generate"
  /\ chosen # <<>>
  /\ \E reply \in Replies :
       /\ ReplyValid(reply)
       /\ LET claims == Parsed(reply)
              kept == Kept(claims)
          IN IF kept = <<>> THEN Degrade("CLAIM_EVIDENCE")
             ELSE answer' = [answer EXCEPT
                    !.claims = kept,
                    !.citations = Ascending(UsedPositions(kept, reply)),
                    !.warning = Warning(claims, kept)]
  /\ stage' = "done"
  /\ UNCHANGED <<request, rankings, fused, chosen, reranked>>

Next ==
  \/ Search \/ FuseRefuses \/ FuseCandidates \/ RerankCandidates
  \/ BuildAnswer \/ GenerateNothing \/ GenerationFails \/ Generate

AssemblySpec == Init /\ [][Next]_vars

-----------------------------------------------------------------------------
(* Properties. *)

\* The rank of a chunk in a ranking, behind every other one if it is not there.
RankIn(ranking, c) ==
  IF \E i \in DOMAIN ranking : ranking[i].id = c
  THEN CHOOSE i \in DOMAIN ranking : ranking[i].id = c ELSE MaxRank + 1

\* A chunk that both backends rank at least as well as another one, and one of
\* them better, comes before it in the fused order, which lists every candidate of
\* every ranking once.
FusionKeepsAgreement == stage \in {"rerank", "build"} /\ rankings # <<>> =>
  LET place(c) == CHOOSE i \in DOMAIN fused : fused[i] = c
      candidates == UNION {ToSet(Ids(rankings[i])) : i \in DOMAIN rankings}
      ranks(c) == {<<RankIn(rankings[i], c), RankIn(rankings[i + 1], c)>> :
                     i \in {i \in DOMAIN rankings : i % 2 = 1 /\
                              c \in ToSet(Ids(rankings[i])) \cup ToSet(Ids(rankings[i + 1]))}}
  IN
  /\ ToSet(fused) = candidates /\ IsInjective(fused)
  /\ \A c, e \in candidates : \A r \in ranks(c), s \in ranks(e) :
       r[1] <= s[1] /\ r[2] <= s[2] /\ r # s => place(c) < place(e)

\* In a comparison of two documents that both have a candidate the answer shows
\* both of them, in fused order, and at most one of the best candidates gives way.
CoverageDisplacesOne ==
  stage = "build" /\ request.comparison /\ ~request.reranker /\ Len(fused) >= TopK =>
    /\ Len(chosen) = TopK
    /\ {ChunkOf[c] : c \in ToSet(chosen)} = {ChunkOf[c] : c \in ToSet(fused)}
    /\ chosen = Picked(fused, {i \in DOMAIN fused : fused[i] \in ToSet(chosen)})
    /\ Cardinality(ToSet(Top(fused, TopK)) \ ToSet(chosen)) <= 1

\* The reranker returns a selection of its candidates, as many as asked for and
\* none twice; when it falls back they are the first of them in order. Its candidates
\* are the best fused ones, or those of the coverage selection if it wants just three.
RerankingStaysWithin == stage = "build" /\ request.reranker =>
  LET candidates == IF request.comparison /\ CandidateK = 3
                    THEN SelectCovering(fused, Routes, CandidateK, TRUE)
                    ELSE Top(fused, CandidateK)
  IN
  /\ ToSet(chosen) \subseteq ToSet(candidates)
  /\ IsInjective(chosen)
  /\ Len(chosen) = Len(Top(candidates, TopK))
  /\ reranked = "FALLBACK" => chosen = Top(candidates, TopK)

\* The citations of an answer are the positions its claims cite, or all of them
\* when the evidence is shown without claims; none is outside the evidence, and an
\* answer that claims nothing is not presented as checked.
CitationsMatchClaims == stage = "done" =>
  LET cited == UNION {ToSet(answer.claims[i].cites) : i \in DOMAIN answer.claims} IN
  /\ answer.evidence = chosen
  /\ ToSet(answer.citations) =
       IF answer.claims = <<>> THEN DOMAIN answer.evidence ELSE cited
  /\ IsInjective(answer.citations)
  /\ answer.status = "NO_EVIDENCE" <=> answer.evidence = <<>>
  /\ answer.status = "DEGRADED" => answer.claims = <<>>

\* With enforcement no claim of the answer states a number with its unit that its
\* citations do not, and an answer that lost a claim says so.
EnforcedClaimsAreBacked == stage = "done" /\ request.enforce =>
  /\ \A i \in DOMAIN answer.claims :
       LET claim == answer.claims[i] IN
       Claimed(claim).facts \subseteq Bound(claim, Evidence).facts
         \/ SafeLimitation(claim)
  /\ answer.warning \in {"VALIDATED", "CONFLICT", "LIMITATION"} =>
       "UNSUPPORTED" \notin Statuses(answer.claims)
  /\ answer.warning = "LIMITATION" => \A i \in DOMAIN answer.claims : SafeLimitation(answer.claims[i])

-----------------------------------------------------------------------------
(* The invariant behind them. *)

AssemblyTypeOK ==
  /\ stage \in {"search", "fuse", "unavailable", "rerank", "build", "generate", "done"}
  /\ request \in [comparison : BOOLEAN, reranker : BOOLEAN, model : BOOLEAN, enforce : BOOLEAN]
  /\ rankings \in Seq(Seq([id : Chunk, body : {0, 1}]))
  /\ fused \in Seq(Chunk) /\ IsInjective(fused)
  /\ chosen \in Seq(Chunk) /\ IsInjective(chosen)

\* Rankings 2n - 1 and 2n are about route n, and mention a chunk once.
RoutesApart ==
  /\ \E n \in 0..Cardinality(Routes) :
       /\ DOMAIN rankings = 1..(2 * n)
       /\ stage = "search" => n < Cardinality(Routes)
       /\ stage = "fuse" => n = Cardinality(Routes)
  /\ \A i \in DOMAIN rankings :
       /\ rankings[i] \in Seq([id : RouteChunks(RouteOrder[(i + 1) \div 2]), body : {0, 1}])
       /\ ValidRanking(rankings[i])

FusedFromRankings == stage \in {"rerank", "build"} /\ rankings # <<>> =>
  fused = FusedOrder(rankings)

ChosenFromFused ==
  /\ stage \in {"rerank", "build"} => (rankings # <<>> <=> stage = "rerank" \/ ~request.reranker)
  /\ stage = "rerank" \/ (stage = "build" /\ ~request.reranker) =>
       chosen = SelectCovering(fused, Routes, RetrievedK, request.comparison)
  /\ stage = "rerank" => request.reranker

AnswerFromChosen == stage = "generate" =>
  answer = [status |-> IF chosen = <<>> THEN "NO_EVIDENCE" ELSE "COMPLETED",
            evidence |-> chosen,
            citations |-> [n \in DOMAIN chosen |-> n],
            claims |-> <<>>,
            warning |-> answer.warning]

AssemblyInv ==
  /\ AssemblyTypeOK /\ RoutesApart /\ FusedFromRankings /\ ChosenFromFused
  /\ AnswerFromChosen /\ RerankingStaysWithin /\ CitationsMatchClaims /\ EnforcedClaimsAreBacked

=============================================================================
