------------------------------- MODULE Ranking -------------------------------
(***************************************************************************)
(* Ranked candidates: what one backend search returns, reciprocal rank     *)
(* fusion (online.py, remote_hybrid.py, hybrid.py), the coverage selection *)
(* for comparisons (comparison_route_coverage.py) and the reranker with    *)
(* its fallback (online_reranker.py). A candidate is its chunk and the     *)
(* body of its payload; its rank is its position. Scores are exact         *)
(* fractions over a common denominator.                                    *)
(***************************************************************************)
EXTENDS Integers, Sequences, FiniteSets, SequencesExt, Orders

CONSTANTS
  Chunk,       \* chunk ids
  ChunkOrder,  \* their lexicographic order
  ChunkOf,     \* the document of each chunk
  RrfK,        \* rrf_k
  MaxRank      \* bound: the longest ranking (candidate_k)

Ids(ranking) == [i \in DOMAIN ranking |-> ranking[i].id]

\* validate_ranking: contiguous ranks, no chunk twice.
ValidRanking(ranking) == IsInjective(Ids(ranking))

\* search of either backend: the hits that pass the filter and the score
\* threshold, by descending score and chunk id, whatever order they came in.
Ranked(hits, threshold) ==
  LET kept == {h \in hits : h.score >= threshold}
      before(g, h) ==
        g.score > h.score \/ (g.score = h.score /\ ChunkOrder[g.id] < ChunkOrder[h.id])
  IN Ordered(kept, {p \in kept \X kept : before(p[1], p[2])})

-----------------------------------------------------------------------------
(* Fusion. *)

\* 1 / (rrf_k + rank) times a common multiple of all denominators.
Denominator == FoldSeq(LAMBDA n, product : n * product, 1, [r \in 1..MaxRank |-> RrfK + r])
Weight(rank) == Denominator \div (RrfK + rank)

\* Where the rankings mention a chunk.
Mentions(rankings, c) ==
  {m \in (DOMAIN rankings) \X (1..MaxRank) :
     m[2] \in DOMAIN rankings[m[1]] /\ rankings[m[1]][m[2]].id = c}

Fusible(rankings) == {c \in Chunk : Mentions(rankings, c) # {}}
Score(rankings, c) == SumFunction([m \in Mentions(rankings, c) |-> Weight(m[2])])
BestRank(rankings, c) ==
  LET ranks == {m[2] : m \in Mentions(rankings, c)} IN
  CHOOSE r \in ranks : \A s \in ranks : r <= s

\* Two backends disagree on the payload of a chunk.
Disagree(rankings) == \E c \in Chunk : \E m, n \in Mentions(rankings, c) :
  rankings[m[1]][m[2]].body # rankings[n[1]][n[2]].body

\* Mutant: only the best rank counts.
FirstByBestRank(rankings, c, e) ==
  \/ BestRank(rankings, c) < BestRank(rankings, e)
  \/ BestRank(rankings, c) = BestRank(rankings, e) /\ ChunkOrder[c] < ChunkOrder[e]

First(rankings, c, e) ==
  LET s == Score(rankings, c)
      t == Score(rankings, e)
      b == BestRank(rankings, c)
      a == BestRank(rankings, e)
  IN s > t \/ (s = t /\ b < a) \/ (s = t /\ b = a /\ ChunkOrder[c] < ChunkOrder[e])

FusedOrder(rankings) ==
  LET found == Fusible(rankings) IN
  Ordered(found, {p \in found \X found : First(rankings, p[1], p[2])})

\* OnlineVersionRrfRetriever._fuse and RemoteRrfHybridRetriever.search raise unless
\* the rankings are consistent; the local hybrid does not compare the payloads.
Consistent(rankings) ==
  (\A i \in DOMAIN rankings : ValidRanking(rankings[i])) /\ ~Disagree(rankings)

LocalFuse(rankings, k) == Top(FusedOrder(rankings), k)

-----------------------------------------------------------------------------
(* Coverage of the two sides of a comparison. *)

\* The first candidate of every route.
Leaders(candidates) ==
  {candidates[i] : i \in {i \in DOMAIN candidates :
     \A j \in DOMAIN candidates : ChunkOf[candidates[j]] = ChunkOf[candidates[i]] => i <= j}}

\* The leaders, filled up in order to k chunks.
Filled(candidates, k) ==
  LET leaders == Leaders(candidates)
      rest == Picked(candidates, {i \in DOMAIN candidates : candidates[i] \notin leaders})
  IN leaders \cup ToSet(Top(rest, k - Cardinality(leaders)))

\* Mutant: the leaders come first and the rest is not taken in its order.
SelectLeadersFirst(candidates, routes, k, comparison) ==
  SetToSeq(Leaders(candidates))
    \o Top(SelectSeq(candidates, LAMBDA c : c \notin Leaders(candidates)),
           k - Cardinality(Leaders(candidates)))

\* BilateralComparisonRouteCoverageSelector.plan followed by _apply_selection; on
\* every reason to fall back the original top k stay.
SelectCovering(candidates, routes, k, comparison) ==
  IF /\ comparison
     /\ Cardinality(routes) = 2
     /\ k = 3
     /\ Len(candidates) >= k
     /\ {ChunkOf[c] : c \in ToSet(candidates)} = routes
  THEN Picked(candidates, {i \in DOMAIN candidates : candidates[i] \in Filled(candidates, k)})
  ELSE Top(candidates, k)

-----------------------------------------------------------------------------
(* Reranking. *)

\* _validate_authorized_candidates: bounds, identities and no duplicates; a
\* violation is an error, never a fallback.
Rerankable(candidates, k, candidateK, documents) ==
  /\ k \in 1..candidateK
  /\ Len(candidates) <= candidateK
  /\ IsInjective(candidates)
  /\ \A i \in DOMAIN candidates : documents # {} => ChunkOf[candidates[i]] \in documents

ByScore(candidates, scores, i, j) == scores[i] > scores[j] \/ (scores[i] = scores[j] /\ i < j)

\* Mutant: the fallback keeps every candidate.
FallBackWhole(candidates, k) == [status |-> "FALLBACK", chunks |-> candidates]

\* Titles or the model are unavailable, or a score is missing or not a number:
\* the first k of the given order.
FallBack(candidates, k) == [status |-> "FALLBACK", chunks |-> Top(candidates, k)]

\* scores is empty if the scorer raises.
Rerank(candidates, scores, k) ==
  IF candidates = <<>> THEN [status |-> "NO_EVIDENCE", chunks |-> <<>>]
  ELSE IF Len(scores) # Len(candidates) THEN FallBack(candidates, k)
  ELSE LET places == DOMAIN candidates
           order == Ordered(places,
             {p \in places \X places : ByScore(candidates, scores, p[1], p[2])})
       IN [status |-> "APPLIED", chunks |-> Top([n \in DOMAIN order |-> candidates[order[n]]], k)]

=============================================================================
