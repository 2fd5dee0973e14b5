---------------------------- MODULE Answer_proofs ----------------------------
(***************************************************************************)
(* Who may see what, for any chunks, scopes and requests; and what an      *)
(* answer shows, for any chunks, routes, scores, models and replies.       *)
(***************************************************************************)
EXTENDS AnswerApi, AnswerAssembly, ClaimAudit, Orders_proofs

-----------------------------------------------------------------------------
(* Access. *)

\* A narrowed scope shows a chunk only if another chunk of the same document is authorized.
LEMMA NarrowedShowsAuthorized ==
  ASSUME NEW chunks \in SUBSET StoredChunk, NEW scope \in Scope,
         NEW requested \in SUBSET Document, requested # {},
         ~Forbidden(chunks, scope, requested),
         \A c, d \in chunks : c.document = d.document =>
           c.visibility = d.visibility /\ c.tenant = d.tenant /\ c.libraries = d.libraries,
         NEW c \in chunks, Authorized(c, Narrowed(scope, requested))
  PROVE  Authorized(c, scope)
<1> DEFINE narrow == Narrowed(scope, requested)
<1>1. /\ narrow.documents.items = requested /\ narrow.libraries.items = {}
      /\ narrow.tenant = scope.tenant
  BY DEF Narrowed, Scope, Selectors, None0
<1>2. c.document \in requested
  BY <1>1 DEF Authorized, HasSelectors, Selected
<1>3. PICK d \in chunks : Authorized(d, scope) /\ d.document = c.document
  BY <1>2 DEF Forbidden, AuthorizedDocuments
<1>4. c.visibility = d.visibility /\ c.tenant = d.tenant /\ c.libraries = d.libraries
  BY <1>3
<1>5. Selected(c, scope) <=> Selected(d, scope)
  BY <1>3, <1>4 DEF Selected
<1>6. c.active
  BY DEF Authorized
<1> QED  BY <1>3, <1>4, <1>5, <1>6 DEF Authorized

\* The filters of Elasticsearch and Milvus select the same chunks, those is_chunk_authorized
\* allows and no other.
LEMMA FiltersSelectAuthorized ==
  ASSUME NEW chunk \in StoredChunk, NEW scope \in Scope
  PROVE  FiltersAgree(chunk, scope)
<1> DEFINE resolvable == scope.documents.items # {} \/ scope.libraries.items # {}
<1>1. Selected(chunk, scope) => resolvable
  BY DEF Selected
<1>2. HasSelectors(scope) <=> resolvable \/ scope.folders.items # {}
  BY DEF HasSelectors
<1>3. Readable(scope) => scope.complete
  BY DEF Readable
<1> DEFINE picks == Selected(chunk, scope)
           any == HasSelectors(scope)
<1>4. EsFilter(chunk, scope) <=>
        /\ Readable(scope) /\ chunk.active
        /\ \/ scope.public /\ chunk.visibility = "public" /\ (any => picks)
           \/ chunk.visibility = "tenant" /\ chunk.tenant = scope.tenant /\ (any => picks)
           \/ chunk.visibility = "private" /\ chunk.tenant = scope.tenant /\ picks
  BY <1>1, <1>2 DEF EsFilter
<1>5. MilvusFilter(chunk, scope) <=>
        /\ Readable(scope) /\ chunk.active
        /\ \/ scope.public /\ chunk.visibility = "public" /\ (any => picks)
           \/ chunk.visibility = "tenant" /\ chunk.tenant = scope.tenant /\ (any => picks)
           \/ chunk.visibility = "private" /\ chunk.tenant = scope.tenant /\ picks
  BY <1>1, <1>2 DEF MilvusFilter
<1>6. Authorized(chunk, scope) <=>
        /\ scope.complete /\ chunk.active
        /\ \/ scope.public /\ chunk.visibility = "public" /\ (any => picks)
           \/ chunk.visibility = "tenant" /\ chunk.tenant = scope.tenant /\ (any => picks)
           \/ chunk.visibility = "private" /\ chunk.tenant = scope.tenant /\ picks
  BY DEF Authorized
<1> QED  BY <1>3, <1>4, <1>5, <1>6 DEF FiltersAgree

\* A request that names documents sees nothing it would not see without them.
LEMMA NarrowingIsSafe ==
  ASSUME NEW searched, NEW chunks \in SUBSET StoredChunk, NEW scope \in Scope,
         NEW requested \in SUBSET Document
  PROVE  NarrowingNeverWidens(searched, chunks, scope, requested)
<1> SUFFICES ASSUME \A c, d \in chunks : c.document = d.document =>
                      c.visibility = d.visibility /\ c.tenant = d.tenant
                        /\ c.libraries = d.libraries,
                    NEW c \in Answerable(searched, chunks, scope, requested)
             PROVE  c \in chunks /\ Authorized(c, scope)
  BY DEF NarrowingNeverWidens
<1>1. /\ ~Forbidden(chunks, scope, requested)
      /\ c \in chunks /\ Searchable(searched, c, Narrowed(scope, requested))
  BY DEF Answerable
<1>2. Authorized(c, Narrowed(scope, requested))
  BY <1>1 DEF Searchable
<1>3. CASE requested = {}
  BY <1>1, <1>2, <1>3 DEF Narrowed
<1>4. CASE requested # {}
  BY <1>1, <1>2, <1>4, NarrowedShowsAuthorized
<1> QED  BY <1>3, <1>4

\* The two filters agree with is_chunk_authorized on every stored chunk, and a request that
\* names documents sees nothing it would not see without them (fixture.py, elasticsearch.py,
\* milvus.py, api/app.py: _narrow_scope), for any chunks, scopes and requests.
THEOREM AccessIsNeverWidened == AskSpec => []AccessNeverWidens
<1> DEFINE IsRequest(r) ==
             r.chunks \in SUBSET StoredChunk /\ r.scope \in Scope /\ r.requested \in SUBSET Document
           Inv == \A r \in asked : IsRequest(r)
<1>1. AskInit => Inv
  BY DEF AskInit
<1>2. Inv /\ [Ask]_asked => Inv'
  <2> SUFFICES ASSUME Inv, [Ask]_asked
               PROVE  Inv'
    OBVIOUS
  <2>1. CASE Ask
    <3>1. PICK chunks \in Corpora, scope \in Scopes, requested \in SUBSET Document :
            asked' = {[chunks |-> chunks, scope |-> scope, requested |-> requested]}
      BY <2>1 DEF Ask
    <3>2. chunks \in SUBSET StoredChunk /\ scope \in Scope
      BY AccessAssumption
    <3> QED  BY <3>1, <3>2
  <2>2. CASE UNCHANGED asked
    BY <2>2
  <2> QED  BY <2>1, <2>2
<1>3. Inv => AccessNeverWidens
  <2> SUFFICES ASSUME NEW r \in asked, IsRequest(r)
               PROVE  /\ \A chunk \in r.chunks : FiltersAgree(chunk, r.scope)
                      /\ \A searched \in {"elasticsearch", "milvus", "sqlite"} :
                           NarrowingNeverWidens(searched, r.chunks, r.scope, r.requested)
    BY DEF AccessNeverWidens
  <2>1. \A chunk \in r.chunks : FiltersAgree(chunk, r.scope)
    BY FiltersSelectAuthorized
  <2>2. \A searched \in {"elasticsearch", "milvus", "sqlite"} :
          NarrowingNeverWidens(searched, r.chunks, r.scope, r.requested)
    BY NarrowingIsSafe
  <2> QED  BY <2>1, <2>2
<1> QED  BY <1>1, <1>2, <1>3, PTL DEF AskSpec

-----------------------------------------------------------------------------
(* Rankings and their fusion. *)

RankingOf(d) == Seq([id : RouteChunks(d), body : {0, 1}])

LEMMA RankingsListChunks ==
  ASSUME NEW d, NEW r \in RankingOf(d)
  PROVE  r \in Seq([id : Chunk, body : {0, 1}])
<1> DEFINE S == [id : RouteChunks(d), body : {0, 1}]
           T == [id : Chunk, body : {0, 1}]
<1>1. S \subseteq T /\ r \in Seq(S)
  BY DEF RankingOf, RouteChunks
<1> HIDE DEF S, T
<1>2. r \in Seq(T)
  BY <1>1
<1> QED  BY <1>2 DEF T

\* A backend returns the chunks of the route it searched, each once.
LEMMA ResponsesAreRankings ==
  ASSUME NEW d \in Routes, NEW t \in Int, NEW bodies \in SUBSET [Chunk -> {0, 1}],
         NEW r \in Responses(d, bodies, t)
  PROVE  r \in RankingOf(d) /\ ValidRanking(r)
<1> DEFINE found_hits == {{[id |-> c, score |-> score[c], body |-> body[c]] : c \in found} :
                            found \in SUBSET RouteChunks(d),
                            score \in [RouteChunks(d) -> HitScores], body \in bodies}
           returned(x) == [i \in DOMAIN x |-> [id |-> x[i].id, body |-> x[i].body]]
<1>a. PICK some \in found_hits : r = returned(Ranked(some, t))
  <2>1. Responses(d, bodies, t) = {returned(x) : x \in {Ranked(h, t) : h \in found_hits}}
    BY DEF Responses
  <2> HIDE DEF found_hits, returned
  <2> QED  BY <2>1
<1>1. PICK found \in SUBSET RouteChunks(d), score \in [RouteChunks(d) -> HitScores], body \in bodies :
        some = {[id |-> c, score |-> score[c], body |-> body[c]] : c \in found}
  OBVIOUS
<1> DEFINE hits == {[id |-> c, score |-> score[c], body |-> body[c]] : c \in found}
           kept == {h \in hits : h.score >= t}
           before(g, h) ==
             g.score > h.score \/ (g.score = h.score /\ ChunkOrder[g.id] < ChunkOrder[h.id])
           R == {p \in kept \X kept : before(p[1], p[2])}
           q == Ranked(hits, t)
<1>2. \A h \in hits : /\ h.id \in RouteChunks(d) /\ h.id \in Chunk /\ h.score \in Int
                      /\ h.body \in {0, 1}
                      /\ h = [id |-> h.id, score |-> score[h.id], body |-> body[h.id]]
  BY AssemblyAssumption DEF RouteChunks
<1>3. IsFiniteSet(hits)
  <2> DEFINE make == [c \in found |-> [id |-> c, score |-> score[c], body |-> body[c]]]
  <2>1. make \in Surjection(found, hits)
    BY DEF Surjection
  <2>2. found \in SUBSET Chunk
    BY DEF RouteChunks
  <2>3. IsFiniteSet(found)
    BY <2>2, FS_Subset, AssemblyAssumption
  <2> QED  BY <2>1, <2>3, FS_Surjection
<1>4. kept \in SUBSET hits /\ IsFiniteSet(kept)
  BY <1>3, FS_Subset
<1>5. \A g, h \in kept : <<g, h>> \in R <=> before(g, h)
  OBVIOUS
<1>6. q = Ordered(kept, R)
  BY DEF Ranked
<1> HIDE DEF hits, kept, R, q
<1>7. StrictOrder(R, kept)
  <2>1. \A g \in kept : ~ before(g, g)
    BY <1>2, <1>4, AssemblyAssumption
  <2>2. \A g, h, k \in kept : before(g, h) /\ before(h, k) => before(g, k)
    BY <1>2, <1>4, AssemblyAssumption
  <2>3. ASSUME NEW g \in kept, NEW h \in kept, g # h
        PROVE  before(g, h) \/ before(h, g)
    <3>1. g.id # h.id /\ g.id \in Chunk /\ h.id \in Chunk /\ g.score \in Int /\ h.score \in Int
      BY <1>2, <1>4, <2>3
    <3>2. ChunkOrder[g.id] \in Int /\ ChunkOrder[h.id] \in Int /\ ChunkOrder[g.id] # ChunkOrder[h.id]
      BY <3>1, AssemblyAssumption DEF IsInjective
    <3> QED  BY <3>1, <3>2
  <2> QED  BY <1>5, <2>1, <2>2, <2>3 DEF StrictOrder
<1>8. /\ Cardinality(kept) \in Nat /\ q \in [1..Cardinality(kept) -> kept] /\ IsInjective(q)
  BY <1>4, <1>6, <1>7, OrderedSorts
<1>9. r = [i \in 1..Cardinality(kept) |-> [id |-> q[i].id, body |-> q[i].body]]
  BY <1>a, <1>1, <1>8 DEF q, hits
<1>10. r \in [1..Cardinality(kept) -> [id : RouteChunks(d), body : {0, 1}]]
  BY <1>2, <1>4, <1>8, <1>9
<1>11. r \in RankingOf(d)
  <2> DEFINE T == [id : RouteChunks(d), body : {0, 1}]
             n == Cardinality(kept)
  <2>1. n \in Nat /\ r \in [1..n -> T]
    BY <1>8, <1>10
  <2> HIDE DEF T, n
  <2>2. r \in Seq(T)
    BY <2>1
  <2> QED  BY <2>2 DEF T, RankingOf
<1>12. ValidRanking(r)
  <2> SUFFICES ASSUME NEW i \in 1..Cardinality(kept), NEW j \in 1..Cardinality(kept),
                      r[i].id = r[j].id
               PROVE  i = j
    BY <1>10 DEF ValidRanking, Ids, IsInjective
  <2>1. q[i].id = q[j].id /\ q[i] \in hits /\ q[j] \in hits
    BY <1>4, <1>8, <1>9
  <2>2. q[i] = q[j]
    BY <1>2, <2>1
  <2> QED  BY <1>8, <2>2 DEF IsInjective
<1> QED  BY <1>11, <1>12

LEMMA ExactDivision ==
  ASSUME NEW a \in Nat, a # 0, NEW b \in Nat
  PROVE  (a * b) \div a = b
OBVIOUS

LEMMA ProductsGrow ==
  ASSUME NEW a \in Nat, NEW b \in Nat, NEW c \in Nat, c # 0, a < b
  PROVE  b * c > a * c
OBVIOUS

\* The weights are positive numbers and get smaller with the rank.
LEMMA WeightsDecrease ==
  /\ \A r \in 1..MaxRank : Weight(r) \in Nat \ {0}
  /\ \A r, s \in 1..MaxRank : r < s => Weight(r) > Weight(s)
<1> DEFINE w == [r \in 1..MaxRank |-> RrfK + r]
<1>1. w \in [1..MaxRank -> Nat \ {0}] /\ MaxRank \in Nat
  BY AssemblyAssumption
<1>2. PICK g \in [SUBSET (1..MaxRank) -> Nat \ {0}] :
        /\ FoldSeq(LAMBDA a, b : a * b, 1, w) = g[1..MaxRank]
        /\ \A s \in SUBSET (1..MaxRank) : \A x \in s : g[s] = w[x] * g[s \ {x}]
  <2> HIDE DEF w
  <2> QED  BY <1>1, ProductsMultiply
<1>3. Denominator = g[1..MaxRank]
  BY <1>2 DEF Denominator
<1> HIDE DEF w
<1>4. \A r \in 1..MaxRank : w[r] = RrfK + r /\ w[r] \in Nat \ {0}
  BY <1>1 DEF w
<1>6. \A r \in 1..MaxRank : Weight(r) = g[(1..MaxRank) \ {r}]
  <2> SUFFICES ASSUME NEW r \in 1..MaxRank
               PROVE  Weight(r) = g[(1..MaxRank) \ {r}]
    OBVIOUS
  <2>1. g[1..MaxRank] = w[r] * g[(1..MaxRank) \ {r}] /\ g[(1..MaxRank) \ {r}] \in Nat
    BY <1>2
  <2>2. (w[r] * g[(1..MaxRank) \ {r}]) \div w[r] = g[(1..MaxRank) \ {r}]
    BY <1>4, <2>1, ExactDivision
  <2>3. Weight(r) = g[1..MaxRank] \div w[r]
    BY <1>3, <1>4 DEF Weight
  <2> QED  BY <2>1, <2>2, <2>3
<1>7. \A r \in 1..MaxRank : Weight(r) \in Nat \ {0}
  BY <1>2, <1>6
<1>8. ASSUME NEW r \in 1..MaxRank, NEW s \in 1..MaxRank, r < s
      PROVE  Weight(r) > Weight(s)
  <2> DEFINE both == g[((1..MaxRank) \ {r}) \ {s}]
  <2>1. ((1..MaxRank) \ {r}) \ {s} = ((1..MaxRank) \ {s}) \ {r}
    OBVIOUS
  <2>2. both \in Nat \ {0}
    BY <1>2
  <2>3. Weight(r) = w[s] * both
    <3>1. (1..MaxRank) \ {r} \in SUBSET (1..MaxRank) /\ s \in (1..MaxRank) \ {r}
      BY <1>8
    <3>2. g[(1..MaxRank) \ {r}] = w[s] * both
      BY <1>2, <3>1
    <3> QED  BY <1>6, <3>2
  <2>4. Weight(s) = w[r] * both
    <3>1. (1..MaxRank) \ {s} \in SUBSET (1..MaxRank) /\ r \in (1..MaxRank) \ {s}
      BY <1>8
    <3>2. g[(1..MaxRank) \ {s}] = w[r] * g[((1..MaxRank) \ {s}) \ {r}]
      BY <1>2, <3>1
    <3> QED  BY <1>6, <2>1, <3>2
  <2> HIDE DEF both
  <2>5. w[r] \in Nat /\ w[s] \in Nat /\ w[r] < w[s]
    BY <1>4, <1>8, AssemblyAssumption
  <2> QED  BY <2>2, <2>3, <2>4, <2>5, ProductsGrow
<1> QED  BY <1>7, <1>8

\* What a list of rankings may be, whatever routes they are of.
Searched(rs) ==
  /\ \E n \in Nat : DOMAIN rs = 1..n
  /\ \A i \in DOMAIN rs : \E d \in Routes : rs[i] \in RankingOf(d) /\ ValidRanking(rs[i])

\* A ranking has no more entries than its route has chunks.
LEMMA RankingsFit ==
  ASSUME NEW d \in Routes, NEW r \in RankingOf(d), ValidRanking(r)
  PROVE  /\ DOMAIN r = 1..Len(r) /\ Len(r) \in Nat /\ Len(r) <= MaxRank
         /\ \A k \in DOMAIN r : r[k].id \in RouteChunks(d) /\ r[k].body \in {0, 1}
         /\ \A k, l \in DOMAIN r : r[k].id = r[l].id => k = l
<1> DEFINE n == Len(r)
           T == [id : RouteChunks(d), body : {0, 1}]
<1>1. n \in Nat /\ DOMAIN r = 1..n /\ r \in [1..n -> T]
  <2> HIDE DEF T
  <2>1. r \in Seq(T)
    BY DEF RankingOf, T
  <2> QED  BY <2>1
<1> HIDE DEF n
<1>2. \A k \in 1..n : r[k].id \in RouteChunks(d) /\ r[k].body \in {0, 1}
  BY <1>1
<1>3. Ids(r) \in [1..n -> RouteChunks(d)] /\ \A k \in 1..n : Ids(r)[k] = r[k].id
  BY <1>1, <1>2 DEF Ids
<1>4. Ids(r) \in Injection(1..n, RouteChunks(d))
  BY <1>3 DEF ValidRanking, Injection
<1>5. IsFiniteSet(RouteChunks(d)) /\ Cardinality(RouteChunks(d)) \in Nat
  <2>1. RouteChunks(d) \in SUBSET Chunk
    BY DEF RouteChunks
  <2> QED  BY <2>1, FS_Subset, FS_CardinalityType, AssemblyAssumption
<1>6. Cardinality(1..n) = n
  <2>1. 1 \in Int /\ n \in Int
    BY <1>1
  <2>2. Cardinality(1..n) = IF 1 > n THEN 0 ELSE n - 1 + 1
    BY <2>1, FS_Interval
  <2> QED  BY <1>1, <2>2
<1>7. n <= Cardinality(RouteChunks(d))
  BY <1>4, <1>5, <1>6, FS_Injection
<1>8. n <= MaxRank
  BY <1>1, <1>5, <1>7, AssemblyAssumption
<1>9. \A k, l \in 1..n : r[k].id = r[l].id => k = l
  BY <1>3 DEF ValidRanking, IsInjective
<1> QED  BY <1>1, <1>2, <1>8, <1>9 DEF n

\* A set of numbers that has any has a least one.
LEMMA LeastExists ==
  ASSUME NEW S \in SUBSET Nat, S # {}
  PROVE  \E n \in S : \A m \in S : n <= m
<1>1. PICK n \in S : \A m \in S : ~ (<<m, n>> \in OpToRel(<, Nat))
  BY NatLessThanWellFounded, WFMin
<1>2. \A m \in S : ~ (m < n)
  BY <1>1 DEF OpToRel
<1>3. \A m \in S : m \in Nat /\ n \in Nat
  OBVIOUS
<1> QED  BY <1>2, <1>3

\* Scores and best ranks are numbers.
LEMMA ScoresAreNumbers ==
  ASSUME NEW rs, Searched(rs), NEW c \in Chunk
  PROVE  /\ IsFiniteSet(Mentions(rs, c))
         /\ Mentions(rs, c) \subseteq (DOMAIN rs) \X (1..MaxRank)
         /\ [m \in Mentions(rs, c) |-> Weight(m[2])] \in [Mentions(rs, c) -> Nat]
         /\ Score(rs, c) \in Nat
         /\ Mentions(rs, c) # {} =>
              /\ BestRank(rs, c) \in 1..MaxRank
              /\ \E m \in Mentions(rs, c) : BestRank(rs, c) = m[2]
              /\ \A m \in Mentions(rs, c) : BestRank(rs, c) <= m[2]
<1> DEFINE M == Mentions(rs, c)
           w == [m \in M |-> Weight(m[2])]
<1>1. PICK n \in Nat : DOMAIN rs = 1..n
  BY DEF Searched
<1>2. MaxRank \in Nat
  BY AssemblyAssumption
<1>3. M \in SUBSET ((1..n) \X (1..MaxRank))
  BY <1>1 DEF Mentions
<1>4. IsFiniteSet(M)
  <2>1. 1 \in Int /\ n \in Int /\ MaxRank \in Int
    BY <1>2
  <2>2. IsFiniteSet(1..n) /\ IsFiniteSet(1..MaxRank)
    BY <2>1, FS_Interval
  <2>3. IsFiniteSet((1..n) \X (1..MaxRank))
    BY <2>2, FS_Product
  <2> QED  BY <1>3, <2>3, FS_Subset
<1>5. \A m \in M : m[2] \in 1..MaxRank
  BY <1>3
<1> HIDE DEF M
<1>6. w \in [M -> Nat]
  BY <1>5, WeightsDecrease
<1>7. Score(rs, c) \in Nat
  <2>1. Score(rs, c) = SumFunction(w)
    BY DEF Score, M
  <2> HIDE DEF w
  <2>2. PICK g \in [SUBSET M -> Nat] : SumFunction(w) = g[M]
    BY <1>4, <1>6, SumsUp
  <2> QED  BY <2>1, <2>2
<1>8. ASSUME M # {}
      PROVE  /\ BestRank(rs, c) \in 1..MaxRank
             /\ \E m \in M : BestRank(rs, c) = m[2]
             /\ \A m \in M : BestRank(rs, c) <= m[2]
  <2> DEFINE ranks == {m[2] : m \in M}
  <2>1. ranks \in SUBSET Nat /\ ranks # {} /\ ranks \subseteq 1..MaxRank
    BY <1>5, <1>8
  <2>2. BestRank(rs, c) = CHOOSE r \in ranks : \A s \in ranks : r <= s
    BY DEF BestRank, M
  <2> HIDE DEF ranks
  <2>3. \E r \in ranks : \A s \in ranks : r <= s
    BY <2>1, LeastExists
  <2>4. BestRank(rs, c) \in ranks /\ \A s \in ranks : BestRank(rs, c) <= s
    BY <2>2, <2>3
  <2> QED  BY <2>1, <2>4 DEF ranks
<1> QED  BY <1>1, <1>3, <1>4, <1>6, <1>7, <1>8 DEF M

\* The fused order lists what any ranking mentions, once each and by First.
LEMMA FusionSorts ==
  ASSUME NEW rs, Searched(rs)
  PROVE  LET order == FusedOrder(rs) IN
         /\ order \in Seq(Chunk) /\ IsInjective(order) /\ ToSet(order) = Fusible(rs)
         /\ \A i, j \in DOMAIN order : i < j <=> First(rs, order[i], order[j])
<1> DEFINE found == Fusible(rs)
           R == {p \in found \X found : First(rs, p[1], p[2])}
           order == FusedOrder(rs)
<1>1. found \in SUBSET Chunk /\ IsFiniteSet(found)
  <2>1. found \in SUBSET Chunk
    BY DEF Fusible
  <2> QED  BY <2>1, FS_Subset, AssemblyAssumption
<1>2. \A c \in found : /\ Score(rs, c) \in Int /\ BestRank(rs, c) \in Int
                       /\ ChunkOrder[c] \in Int
  BY ScoresAreNumbers, AssemblyAssumption DEF Fusible
<1>3. \A c, e \in found : <<c, e>> \in R <=> First(rs, c, e)
  OBVIOUS
<1>4. order = Ordered(found, R)
  BY DEF FusedOrder
<1>5. \A c, e \in found : ChunkOrder[c] = ChunkOrder[e] => c = e
  BY <1>1, AssemblyAssumption DEF IsInjective
<1> HIDE DEF found, R, order
<1>6. StrictOrder(R, found)
  <2>1. \A c \in found : ~ First(rs, c, c)
    BY <1>2 DEF First
  <2>2. \A c, e, k \in found : First(rs, c, e) /\ First(rs, e, k) => First(rs, c, k)
    BY <1>2 DEF First
  <2>3. \A c, e \in found : c # e => First(rs, c, e) \/ First(rs, e, c)
    BY <1>2, <1>5 DEF First
  <2> QED  BY <1>3, <2>1, <2>2, <2>3 DEF StrictOrder
<1>7. /\ Cardinality(found) \in Nat
      /\ order \in [1..Cardinality(found) -> found]
      /\ IsInjective(order)
      /\ \A c \in found : \E i \in 1..Cardinality(found) : order[i] = c
      /\ \A i, j \in 1..Cardinality(found) : i < j <=> <<order[i], order[j]>> \in R
  BY <1>1, <1>4, <1>6, OrderedSorts
<1>8. order \in Seq(Chunk)
  BY <1>1, <1>7
<1>9. ToSet(order) = found
  BY <1>7 DEF ToSet
<1>10. \A i, j \in DOMAIN order : i < j <=> First(rs, order[i], order[j])
  BY <1>3, <1>7
<1> QED  BY <1>7, <1>8, <1>9, <1>10 DEF found, order

-----------------------------------------------------------------------------
(* Selection and reranking. *)

\* Every route once, in some order.
LEMMA RoutesListed ==
  /\ IsFiniteSet(Routes) /\ Cardinality(Routes) \in Nat /\ Cardinality(Routes) # 0
  /\ RouteOrder \in [1..Cardinality(Routes) -> Routes] /\ IsInjective(RouteOrder)
<1>1. IsFiniteSet(Routes) /\ Routes # {}
  <2> DEFINE f == [c \in Chunk |-> ChunkOf[c]]
  <2>1. f \in Surjection(Chunk, Routes)
    BY DEF Surjection, Routes
  <2>2. IsFiniteSet(Chunk) /\ Chunk # {}
    BY AssemblyAssumption
  <2> HIDE DEF f
  <2> QED  BY <2>1, <2>2, FS_Surjection DEF Routes
<1>2. Cardinality(Routes) \in Nat /\ Cardinality(Routes) # 0
  BY <1>1, FS_CardinalityType, FS_EmptySet
<1>3. \E f \in [1..Cardinality(Routes) -> Routes] : IsInjective(f)
  BY <1>1, FS_CardinalityType DEF ExistsBijection, Bijection, Injection
<1>4. RouteOrder \in [1..Cardinality(Routes) -> Routes] /\ IsInjective(RouteOrder)
  BY <1>3 DEF RouteOrder, SetToSeq
<1> QED  BY <1>1, <1>2, <1>4

LEMMA ApartIsSearched ==
  ASSUME RoutesApart
  PROVE  Searched(rankings)
<1>1. PICK n \in 0..Cardinality(Routes) : DOMAIN rankings = 1..(2 * n)
  BY DEF RoutesApart
<1>2. n \in Nat /\ n <= Cardinality(Routes) /\ Cardinality(Routes) \in Nat /\ 2 * n \in Nat
  BY RoutesListed
<1>3. \A i \in DOMAIN rankings : RouteOrder[(i + 1) \div 2] \in Routes
  <2> SUFFICES ASSUME NEW i \in DOMAIN rankings
               PROVE  RouteOrder[(i + 1) \div 2] \in Routes
    OBVIOUS
  <2>1. (i + 1) \div 2 \in 1..Cardinality(Routes)
    BY <1>1, <1>2
  <2> QED  BY <2>1, RoutesListed
<1>4. \A i \in DOMAIN rankings :
        rankings[i] \in RankingOf(RouteOrder[(i + 1) \div 2]) /\ ValidRanking(rankings[i])
  BY DEF RoutesApart, RankingOf
<1> QED  BY <1>1, <1>2, <1>3, <1>4 DEF Searched

\* The selection keeps to the fused candidates, and to the first ones if it does not apply.
LEMMA CoveringSelects ==
  ASSUME NEW s \in Seq(Chunk), IsInjective(s), NEW k \in Nat, NEW comparison \in BOOLEAN
  PROVE  LET selected == SelectCovering(s, Routes, k, comparison) IN
         /\ selected \in Seq(Chunk) /\ IsInjective(selected)
         /\ ~ (comparison /\ k = 3) => selected = Top(s, k)
<1> DEFINE places == {i \in DOMAIN s : s[i] \in Filled(s, k)}
           selected == SelectCovering(s, Routes, k, comparison)
<1>1. Picked(s, places) \in Seq(Chunk) /\ IsInjective(Picked(s, places))
  BY PickedSelects
<1>2. Top(s, k) \in Seq(Chunk) /\ IsInjective(Top(s, k))
  BY TopCuts
<1>3. \/ selected = Top(s, k)
      \/ comparison /\ k = 3 /\ selected = Picked(s, places)
  BY DEF SelectCovering
<1> QED  BY <1>1, <1>2, <1>3

\* Sorted by score, the candidates are the same ones.
LEMMA ScoresSort ==
  ASSUME NEW s \in Seq(Chunk), IsInjective(s), NEW scores \in [1..Len(s) -> {0, 1}]
  PROVE  LET places == DOMAIN s
             order == Ordered(places, {p \in places \X places : ByScore(s, scores, p[1], p[2])})
             sorted == [m \in DOMAIN order |-> s[order[m]]]
         IN /\ sorted \in Seq(Chunk) /\ IsInjective(sorted) /\ Len(sorted) = Len(s)
            /\ ToSet(sorted) \subseteq ToSet(s)
<1> DEFINE places == DOMAIN s
           R == {p \in places \X places : ByScore(s, scores, p[1], p[2])}
           order == Ordered(places, R)
           sorted == [m \in DOMAIN order |-> s[order[m]]]
           n == Len(s)
<1>1. n \in Nat /\ places = 1..n /\ \A i \in places : s[i] \in Chunk
  OBVIOUS
<1>2. \A i \in places : scores[i] \in Int /\ i \in Int
  BY <1>1
<1>3. \A i, j \in places : <<i, j>> \in R <=> ByScore(s, scores, i, j)
  OBVIOUS
<1> HIDE DEF R, n
<1>4. IsFiniteSet(places) /\ Cardinality(places) = n
  <2>1. 1 \in Int /\ n \in Int
    BY <1>1
  <2>2. IsFiniteSet(1..n) /\ Cardinality(1..n) = IF 1 > n THEN 0 ELSE n - 1 + 1
    BY <2>1, FS_Interval
  <2> QED  BY <1>1, <2>2
<1> HIDE DEF places
<1>5. StrictOrder(R, places)
  <2>1. \A i \in places : ~ ByScore(s, scores, i, i)
    BY <1>2 DEF ByScore
  <2>2. \A i, j, l \in places :
          ByScore(s, scores, i, j) /\ ByScore(s, scores, j, l) => ByScore(s, scores, i, l)
    BY <1>2 DEF ByScore
  <2>3. \A i, j \in places : i # j => ByScore(s, scores, i, j) \/ ByScore(s, scores, j, i)
    BY <1>2 DEF ByScore
  <2> QED  BY <1>3, <2>1, <2>2, <2>3 DEF StrictOrder
<1>6. order \in [1..n -> places] /\ IsInjective(order)
  BY <1>4, <1>5, OrderedSorts
<1> HIDE DEF order
<1>7. sorted \in [1..n -> Chunk] /\ \A m \in 1..n : sorted[m] = s[order[m]]
  BY <1>1, <1>6
<1> HIDE DEF sorted
<1>8. sorted \in Seq(Chunk) /\ Len(sorted) = n
  BY <1>1, <1>7
<1>9. ToSet(sorted) \subseteq ToSet(s)
  BY <1>6, <1>7 DEF ToSet, places
<1>10. IsInjective(sorted)
  BY <1>6, <1>7 DEF IsInjective, places
<1> QED  BY <1>8, <1>9, <1>10 DEF sorted, order, R, places, n

\* The reranker returns some of its candidates, each once and as many as asked for.
LEMMA RerankSelects ==
  ASSUME NEW s \in Seq(Chunk), IsInjective(s), NEW k \in Nat,
         NEW n \in {0, Len(s)}, NEW scores \in [1..n -> {0, 1}]
  PROVE  LET outcome == Rerank(s, scores, k) IN
         /\ outcome.chunks \in Seq(Chunk) /\ IsInjective(outcome.chunks)
         /\ ToSet(outcome.chunks) \subseteq ToSet(s)
         /\ Len(outcome.chunks) = Len(Top(s, k))
         /\ outcome.status = "FALLBACK" => outcome.chunks = Top(s, k)
<1> DEFINE outcome == Rerank(s, scores, k)
           places == DOMAIN s
           order == Ordered(places, {p \in places \X places : ByScore(s, scores, p[1], p[2])})
           sorted == [m \in DOMAIN order |-> s[order[m]]]
<1>1. /\ Top(s, k) \in Seq(Chunk) /\ IsInjective(Top(s, k))
      /\ ToSet(Top(s, k)) \subseteq ToSet(s)
      /\ Len(Top(s, k)) = IF k < Len(s) THEN k ELSE Len(s)
  BY TopCuts
<1>2. CASE s = <<>>
  <2>1. Top(s, k) = <<>>
    BY <1>1, <1>2
  <2>2. outcome.chunks = <<>> /\ outcome.status = "NO_EVIDENCE"
    BY <1>2 DEF Rerank
  <2> QED  BY <1>1, <2>1, <2>2
<1>3. CASE s # <<>> /\ Len(scores) # Len(s)
  <2>1. outcome = FallBack(s, k)
    BY <1>3 DEF Rerank
  <2>2. outcome.chunks = Top(s, k)
    BY <2>1 DEF FallBack
  <2> QED  BY <1>1, <2>2
<1>4. CASE s # <<>> /\ Len(scores) = Len(s)
  <2>1. n = Len(s)
    <3>1. n \in Nat
      OBVIOUS
    <3>2. Len(scores) = n
      BY <3>1
    <3> QED  BY <1>4, <3>2
  <2>2. outcome.chunks = Top(sorted, k) /\ outcome.status = "APPLIED"
    BY <1>4 DEF Rerank
  <2>3. /\ sorted \in Seq(Chunk) /\ IsInjective(sorted) /\ Len(sorted) = Len(s)
        /\ ToSet(sorted) \subseteq ToSet(s)
    BY <2>1, ScoresSort
  <2> HIDE DEF sorted
  <2>4. /\ Top(sorted, k) \in Seq(Chunk) /\ IsInjective(Top(sorted, k))
        /\ ToSet(Top(sorted, k)) \subseteq ToSet(sorted)
        /\ Len(Top(sorted, k)) = IF k < Len(sorted) THEN k ELSE Len(sorted)
    BY <2>3, TopCuts
  <2> QED  BY <1>1, <2>2, <2>3, <2>4
<1> QED  BY <1>2, <1>3, <1>4

-----------------------------------------------------------------------------
(* The way of an answer. *)

LEMMA StagesBegin == Init => AssemblyInv
<1> SUFFICES ASSUME Init PROVE AssemblyInv
  OBVIOUS
<1>1. AssemblyTypeOK
  BY DEF Init, AssemblyTypeOK, IsInjective
<1>2. RoutesApart
  <2>1. 0 \in 0..Cardinality(Routes) /\ 0 < Cardinality(Routes) /\ 2 * 0 = 0
    BY RoutesListed
  <2>2. rankings = <<>> /\ DOMAIN rankings = 1..(2 * 0) /\ stage = "search"
    BY <2>1 DEF Init
  <2> QED  BY <2>1, <2>2 DEF RoutesApart
<1> QED  BY <1>1, <1>2
      DEF Init, AssemblyInv, FusedFromRankings, ChosenFromFused, AnswerFromChosen,
          RerankingStaysWithin, CitationsMatchClaims, EnforcedClaimsAreBacked

LEMMA SearchKeeps == AssemblyInv /\ Search => AssemblyInv'
<1> SUFFICES ASSUME AssemblyInv, Search PROVE AssemblyInv'
  OBVIOUS
<1> DEFINE entry == [id : Chunk, body : {0, 1}]
           d == RouteOrder[Len(rankings) \div 2 + 1]
<1>1. AssemblyTypeOK /\ RoutesApart /\ stage = "search" /\ stage' \in {"search", "fuse"}
  BY DEF AssemblyInv, Search
<1>2. PICK n \in 0..Cardinality(Routes) : DOMAIN rankings = 1..(2 * n) /\ n < Cardinality(Routes)
  BY <1>1 DEF RoutesApart
<1>3. n \in Nat /\ Cardinality(Routes) \in Nat /\ n + 1 \in 1..Cardinality(Routes)
  BY <1>2, RoutesListed
<1>4. rankings \in Seq(Seq(entry)) /\ Len(rankings) = 2 * n
  <2>1. rankings \in Seq(Seq(entry))
    BY <1>1 DEF AssemblyTypeOK
  <2> DEFINE T == Seq(entry)
  <2> HIDE DEF T
  <2>2. Len(rankings) \in Nat /\ DOMAIN rankings = 1..Len(rankings)
    BY <2>1 DEF T
  <2>3. 2 * n \in Nat
    BY <1>3
  <2>4. Len(rankings) = 2 * n
    BY <1>2, <2>2, <2>3
  <2> QED  BY <2>1, <2>4
<1>5. d = RouteOrder[n + 1] /\ d \in Routes
  <2>1. Len(rankings) \div 2 + 1 = n + 1
    BY <1>3, <1>4
  <2>2. RouteOrder[n + 1] \in Routes
    BY <1>3, RoutesListed
  <2> QED  BY <2>1, <2>2
<1> HIDE DEF d
<1>6. PICK l \in Lexical[d], v \in Vector[d] : rankings' = rankings \o <<l, v>>
  BY DEF Search, d
<1>7. /\ l \in RankingOf(d) /\ ValidRanking(l)
      /\ v \in RankingOf(d) /\ ValidRanking(v)
  <2>1. l \in Responses(d, {[c \in Chunk |-> 0]}, 0) /\ v \in Responses(d, Bodies, Threshold)
    BY <1>5, <1>6 DEF Lexical, Vector
  <2>2. /\ {[c \in Chunk |-> 0]} \in SUBSET [Chunk -> {0, 1}]
        /\ Bodies \in SUBSET [Chunk -> {0, 1}]
    BY DEF Bodies
  <2> QED  BY <1>5, <2>1, <2>2, ResponsesAreRankings, AssemblyAssumption
<1>8. l \in Seq(entry) /\ v \in Seq(entry)
  BY <1>7, RankingsListChunks
<1>9. /\ rankings' \in Seq(Seq(entry)) /\ DOMAIN rankings' = 1..(2 * (n + 1))
      /\ Len(rankings') = 2 * (n + 1)
      /\ \A i \in 1..(2 * n) : rankings'[i] = rankings[i]
      /\ rankings'[2 * n + 1] = l /\ rankings'[2 * n + 2] = v
  <2> DEFINE T == Seq(entry)
  <2>1. rankings \in Seq(T) /\ l \in T /\ v \in T
    BY <1>4, <1>8
  <2> HIDE DEF T
  <2>2. <<l, v>> \in Seq(T) /\ Len(<<l, v>>) = 2 /\ <<l, v>>[1] = l /\ <<l, v>>[2] = v
    BY <2>1
  <2>3. /\ rankings' \in Seq(T) /\ Len(rankings') = 2 * n + 2
        /\ \A i \in 1..(2 * n + 2) :
             rankings'[i] = IF i <= 2 * n THEN rankings[i] ELSE <<l, v>>[i - 2 * n]
    BY <1>3, <1>4, <1>6, <2>1, <2>2, ConcatProperties
  <2>4. 2 * n \in Nat /\ 2 * (n + 1) = 2 * n + 2
    BY <1>3
  <2>5. DOMAIN rankings' = 1..(2 * n + 2)
    BY <2>3
  <2>6. \A i \in 1..(2 * n) : rankings'[i] = rankings[i]
    BY <2>3, <2>4
  <2>7. rankings'[2 * n + 1] = l
    BY <2>2, <2>3, <2>4
  <2>8. rankings'[2 * n + 2] = v
    BY <2>2, <2>3, <2>4
  <2> QED  BY <2>3, <2>4, <2>5, <2>6, <2>7, <2>8 DEF T
<1>10. RoutesApart'
  <2>1. /\ n + 1 \in 0..Cardinality(Routes) /\ DOMAIN rankings' = 1..(2 * (n + 1))
        /\ stage' = "search" => n + 1 < Cardinality(Routes)
        /\ stage' = "fuse" => n + 1 = Cardinality(Routes)
    <3>1. stage' = IF Len(rankings') = 2 * Cardinality(Routes) THEN "fuse" ELSE "search"
      BY DEF Search
    <3>2. stage' = IF n + 1 = Cardinality(Routes) THEN "fuse" ELSE "search"
      BY <1>3, <1>9, <3>1
    <3> QED  BY <1>3, <1>9, <3>2
  <2>2. ASSUME NEW i \in DOMAIN rankings'
        PROVE  /\ rankings'[i] \in RankingOf(RouteOrder[(i + 1) \div 2])
               /\ ValidRanking(rankings'[i])
    <3>1. i \in 1..(2 * n) \/ i = 2 * n + 1 \/ i = 2 * n + 2
      <4>1. i \in 1..(2 * (n + 1))
        BY <1>9
      <4> QED  BY <1>3, <4>1
    <3>2. CASE i \in 1..(2 * n)
      BY <1>1, <1>2, <1>9, <3>2 DEF RoutesApart, RankingOf
    <3>3. CASE i = 2 * n + 1
      <4>1. (i + 1) \div 2 = n + 1
        BY <1>3, <3>3
      <4> QED  BY <1>5, <1>7, <1>9, <3>3, <4>1
    <3>4. CASE i = 2 * n + 2
      <4>1. (i + 1) \div 2 = n + 1
        BY <1>3, <3>4
      <4> QED  BY <1>5, <1>7, <1>9, <3>4, <4>1
    <3> QED  BY <3>1, <3>2, <3>3, <3>4
  <2>3. RouteOrder' = RouteOrder /\ Routes' = Routes
    BY DEF RouteOrder, Routes
  <2> QED  BY <2>1, <2>2, <2>3 DEF RoutesApart, RankingOf
<1>11. AssemblyTypeOK'
  <2>1. UNCHANGED <<request, fused, chosen>>
    BY DEF Search
  <2> QED  BY <1>1, <1>9, <2>1 DEF AssemblyTypeOK
<1> QED  BY <1>1, <1>10, <1>11
      DEF AssemblyInv, FusedFromRankings, ChosenFromFused, AnswerFromChosen,
          RerankingStaysWithin, CitationsMatchClaims, EnforcedClaimsAreBacked

LEMMA PlacesListThemselves ==
  ASSUME NEW D, NEW f, f = [n \in D |-> n]
  PROVE  ToSet(f) = D /\ IsInjective(f)
BY DEF ToSet, IsInjective

\* Once fused, the rankings are kept or forgotten.
LEMMA RankingsStayApart ==
  ASSUME RoutesApart, rankings' = rankings \/ rankings' = <<>>,
         stage' \notin {"search", "fuse"}
  PROVE  RoutesApart'
<1>1. RouteOrder' = RouteOrder /\ Routes' = Routes
  BY DEF RouteOrder, Routes
<1>2. CASE rankings' = rankings
  BY <1>1, <1>2 DEF RoutesApart
<1>3. CASE rankings' = <<>>
  <2>1. 0 \in 0..Cardinality(Routes) /\ 2 * 0 = 0
    BY RoutesListed
  <2>2. DOMAIN rankings' = 1..(2 * 0)
    BY <1>3, <2>1
  <2> QED  BY <1>1, <1>3, <2>1, <2>2 DEF RoutesApart
<1> QED  BY <1>2, <1>3

LEMMA RefusalKeeps == AssemblyInv /\ FuseRefuses => AssemblyInv'
<1> SUFFICES ASSUME AssemblyInv, FuseRefuses PROVE AssemblyInv'
  OBVIOUS
<1>1. RoutesApart'
  BY RankingsStayApart DEF AssemblyInv, FuseRefuses
<1>2. AssemblyTypeOK'
  BY DEF AssemblyInv, AssemblyTypeOK, FuseRefuses
<1> QED  BY <1>1, <1>2
      DEF AssemblyInv, FuseRefuses, FusedFromRankings, ChosenFromFused, AnswerFromChosen,
          RerankingStaysWithin, CitationsMatchClaims, EnforcedClaimsAreBacked

LEMMA FusionKeeps == AssemblyInv /\ FuseCandidates => AssemblyInv'
<1> SUFFICES ASSUME AssemblyInv, FuseCandidates PROVE AssemblyInv'
  OBVIOUS
<1>1. /\ stage = "fuse" /\ stage' = IF request.reranker THEN "rerank" ELSE "build"
      /\ rankings' = rankings /\ request' = request
      /\ fused' = FusedOrder(rankings)
      /\ chosen' = SelectCovering(fused', Routes, RetrievedK, request.comparison)
  BY DEF FuseCandidates
<1>2. /\ request \in [comparison : BOOLEAN, reranker : BOOLEAN, model : BOOLEAN, enforce : BOOLEAN]
      /\ rankings \in Seq(Seq([id : Chunk, body : {0, 1}]))
      /\ RoutesApart
  BY DEF AssemblyInv, AssemblyTypeOK
<1>3. RoutesApart'
  BY <1>1, <1>2, RankingsStayApart
<1>4. rankings # <<>>
  <2>1. PICK n \in 0..Cardinality(Routes) :
          DOMAIN rankings = 1..(2 * n) /\ n = Cardinality(Routes)
    BY <1>1, <1>2 DEF RoutesApart
  <2>2. 1 \in 1..(2 * n)
    BY <2>1, RoutesListed
  <2> QED  BY <2>1, <2>2
<1>5. fused' \in Seq(Chunk) /\ IsInjective(fused')
  BY <1>1, <1>2, ApartIsSearched, FusionSorts
<1>6. RetrievedK \in Nat /\ request.comparison \in BOOLEAN
  BY <1>2, AssemblyAssumption DEF RetrievedK
<1>7. chosen' \in Seq(Chunk) /\ IsInjective(chosen')
  BY <1>1, <1>5, <1>6, CoveringSelects
<1>8. AssemblyTypeOK'
  BY <1>1, <1>2, <1>5, <1>7 DEF AssemblyTypeOK
<1>9. FusedFromRankings'
  <2>1. FusedOrder(rankings)' = FusedOrder(rankings)
    BY <1>1
  <2> QED  BY <1>1, <2>1 DEF FusedFromRankings
<1>10. ChosenFromFused'
  <2>1. RetrievedK' = RetrievedK
    BY <1>1 DEF RetrievedK
  <2> QED  BY <1>1, <1>4, <2>1 DEF ChosenFromFused
<1> QED  BY <1>1, <1>3, <1>8, <1>9, <1>10
      DEF AssemblyInv, AnswerFromChosen, RerankingStaysWithin, CitationsMatchClaims,
          EnforcedClaimsAreBacked

LEMMA RerankingKeeps == AssemblyInv /\ RerankCandidates => AssemblyInv'
<1> SUFFICES ASSUME AssemblyInv, RerankCandidates PROVE AssemblyInv'
  OBVIOUS
<1>1. /\ stage = "rerank" /\ stage' = "build" /\ rankings' = <<>>
      /\ request' = request /\ fused' = fused
  BY DEF RerankCandidates
<1>2. /\ request \in [comparison : BOOLEAN, reranker : BOOLEAN, model : BOOLEAN, enforce : BOOLEAN]
      /\ fused \in Seq(Chunk) /\ IsInjective(fused)
      /\ chosen \in Seq(Chunk) /\ IsInjective(chosen)
      /\ RoutesApart
      /\ chosen = SelectCovering(fused, Routes, CandidateK, request.comparison)
      /\ request.reranker
  BY <1>1 DEF AssemblyInv, AssemblyTypeOK, ChosenFromFused, RetrievedK
<1>3. PICK n \in {0, Len(chosen)} : \E scores \in [1..n -> {0, 1}] :
        /\ chosen' = Rerank(chosen, scores, TopK).chunks
        /\ reranked' = Rerank(chosen, scores, TopK).status
  BY DEF RerankCandidates
<1>4. PICK scores \in [1..n -> {0, 1}] :
        /\ chosen' = Rerank(chosen, scores, TopK).chunks
        /\ reranked' = Rerank(chosen, scores, TopK).status
  BY <1>3
<1>5. /\ chosen' \in Seq(Chunk) /\ IsInjective(chosen')
      /\ ToSet(chosen') \subseteq ToSet(chosen)
      /\ Len(chosen') = Len(Top(chosen, TopK))
      /\ reranked' = "FALLBACK" => chosen' = Top(chosen, TopK)
  BY <1>2, <1>4, RerankSelects, AssemblyAssumption
<1>6. RoutesApart'
  BY <1>1, <1>2, RankingsStayApart
<1>7. AssemblyTypeOK'
  BY <1>1, <1>2, <1>5 DEF AssemblyTypeOK
<1>8. chosen = IF request.comparison /\ CandidateK = 3
               THEN SelectCovering(fused, Routes, CandidateK, TRUE) ELSE Top(fused, CandidateK)
  <2>1. ~ (request.comparison /\ CandidateK = 3) => chosen = Top(fused, CandidateK)
    BY <1>2, CoveringSelects, AssemblyAssumption
  <2>2. request.comparison => request.comparison = TRUE
    BY <1>2
  <2> QED  BY <1>2, <2>1, <2>2
<1>9. RerankingStaysWithin'
  BY <1>1, <1>5, <1>8 DEF RerankingStaysWithin
<1>10. ChosenFromFused'
  BY <1>1, <1>2 DEF ChosenFromFused
<1> QED  BY <1>1, <1>6, <1>7, <1>9, <1>10
      DEF AssemblyInv, FusedFromRankings, AnswerFromChosen, CitationsMatchClaims,
          EnforcedClaimsAreBacked

LEMMA BuildingKeeps == AssemblyInv /\ BuildAnswer => AssemblyInv'
<1> SUFFICES ASSUME AssemblyInv, BuildAnswer PROVE AssemblyInv'
  OBVIOUS
<1>1. /\ stage = "build" /\ stage' = IF request.model THEN "generate" ELSE "done"
      /\ rankings' = <<>> /\ request' = request /\ fused' = fused /\ chosen' = chosen
      /\ answer' = [status |-> IF chosen = <<>> THEN "NO_EVIDENCE" ELSE "COMPLETED",
                    evidence |-> chosen, citations |-> [n \in DOMAIN chosen |-> n],
                    claims |-> <<>>,
                    warning |-> IF chosen = <<>> THEN "NO_EVIDENCE" ELSE reranked]
  BY DEF BuildAnswer
<1>2. AssemblyTypeOK /\ RoutesApart
  BY DEF AssemblyInv
<1>3. RoutesApart'
  BY <1>1, <1>2, RankingsStayApart
<1>4. AssemblyTypeOK'
  BY <1>1, <1>2 DEF AssemblyTypeOK
<1>5. AnswerFromChosen'
  BY <1>1 DEF AnswerFromChosen
<1>6. CitationsMatchClaims'
  <2>1. /\ answer'.claims = <<>> /\ answer'.evidence = chosen
        /\ answer'.status = IF chosen = <<>> THEN "NO_EVIDENCE" ELSE "COMPLETED"
        /\ answer'.citations = [n \in DOMAIN chosen |-> n]
    BY <1>1
  <2>2. ToSet(answer'.citations) = DOMAIN chosen /\ IsInjective(answer'.citations)
    BY <2>1, PlacesListThemselves
  <2> QED  BY <1>1, <2>1, <2>2 DEF CitationsMatchClaims
<1>7. EnforcedClaimsAreBacked'
  <2>1. answer'.claims = <<>> /\ DOMAIN (answer'.claims) = {}
    BY <1>1
  <2>2. Statuses(answer.claims)' = {}
    BY <2>1 DEF Statuses
  <2> QED  BY <2>1, <2>2 DEF EnforcedClaimsAreBacked
<1> QED  BY <1>1, <1>3, <1>4, <1>5, <1>6, <1>7
      DEF AssemblyInv, FusedFromRankings, ChosenFromFused, RerankingStaysWithin

\* A claim that is not refused is backed by what it cites, or admits that evidence is missing.
LEMMA VerifiedIsBacked ==
  ASSUME NEW claim, NEW evidence
  PROVE  /\ VerifyClaim(claim, evidence) # "UNSUPPORTED" =>
              Claimed(claim).facts \subseteq Bound(claim, evidence).facts \/ SafeLimitation(claim)
         /\ VerifyClaim(claim, evidence) = "INSUFFICIENT_EVIDENCE" => SafeLimitation(claim)
<1>1. Supported(Clauses(claim), Bound(claim, evidence)) =>
        Claimed(claim).facts \subseteq Bound(claim, evidence).facts
  BY DEF Supported, Claimed
<1> QED  BY <1>1 DEF VerifyClaim

\* What is retained are claims, and none that is refused.
LEMMA RetainedAreVerified ==
  ASSUME NEW m \in Nat, NEW claims, claims = [i \in 1..m |-> claims[i]], NEW evidence
  PROVE  LET kept == Retained(claims, evidence) IN
         /\ \E n \in Nat : kept \in [1..n -> ToSet(claims)]
         /\ \A i \in DOMAIN kept : \E j \in DOMAIN claims :
              kept[i] = claims[j] /\ VerifyClaim(claims[j], evidence) # "UNSUPPORTED"
<1> DEFINE places == {i \in DOMAIN claims : VerifyClaim(claims[i], evidence) # "UNSUPPORTED"}
           kept == Retained(claims, evidence)
           T == ToSet(claims)
<1>1. claims \in Seq(T)
  BY SequenceOverItself
<1>2. kept = Picked(claims, places)
  BY DEF Retained
<1>a. places \in SUBSET DOMAIN claims
  OBVIOUS
<1> HIDE DEF kept, places
<1>3. kept \in Seq(T) /\ ToSet(kept) = {claims[i] : i \in places}
  <2> HIDE DEF T
  <2> QED  BY <1>1, <1>a, <1>2, PickedSelects
<1>4. \E n \in Nat : kept \in [1..n -> T]
  <2> HIDE DEF T
  <2>1. Len(kept) \in Nat /\ kept \in [1..Len(kept) -> T]
    BY <1>3
  <2> QED  BY <2>1
<1>5. \A i \in DOMAIN kept : kept[i] \in {claims[j] : j \in places}
  BY <1>3 DEF ToSet
<1> QED  BY <1>4, <1>5 DEF kept, places

LEMMA GenerationKeeps ==
  AssemblyInv /\ (GenerateNothing \/ GenerationFails) => AssemblyInv'
<1> SUFFICES ASSUME AssemblyInv, GenerateNothing \/ GenerationFails PROVE AssemblyInv'
  OBVIOUS
<1>1. /\ stage = "generate" /\ stage' = "done"
      /\ UNCHANGED <<request, rankings, fused, chosen, reranked>>
  BY DEF GenerateNothing, GenerationFails
<1>2. AssemblyTypeOK /\ RoutesApart
  BY DEF AssemblyInv
<1>3. answer = [status |-> IF chosen = <<>> THEN "NO_EVIDENCE" ELSE "COMPLETED",
                evidence |-> chosen, citations |-> [n \in DOMAIN chosen |-> n],
                claims |-> <<>>, warning |-> answer.warning]
  BY <1>1 DEF AssemblyInv, AnswerFromChosen
<1>4. /\ answer'.claims = <<>> /\ answer'.evidence = chosen
      /\ answer'.citations = [n \in DOMAIN chosen |-> n]
      /\ answer'.status \in {"NO_EVIDENCE", "DEGRADED"}
      /\ answer'.status = "NO_EVIDENCE" <=> chosen = <<>>
  <2>1. CASE GenerateNothing
    BY <1>3, <2>1 DEF GenerateNothing
  <2>2. CASE GenerationFails
    BY <1>3, <2>2 DEF GenerationFails, Degrade
  <2> QED  BY <2>1, <2>2
<1>5. RoutesApart'
  BY <1>1, <1>2, RankingsStayApart
<1>6. AssemblyTypeOK'
  BY <1>1, <1>2 DEF AssemblyTypeOK
<1>7. CitationsMatchClaims'
  <2>1. ToSet(answer'.citations) = DOMAIN chosen /\ IsInjective(answer'.citations)
    BY <1>4, PlacesListThemselves
  <2> QED  BY <1>1, <1>4, <2>1 DEF CitationsMatchClaims
<1>8. EnforcedClaimsAreBacked'
  <2>1. DOMAIN (answer'.claims) = {}
    BY <1>4
  <2>2. Statuses(answer.claims)' = {}
    BY <2>1 DEF Statuses
  <2> QED  BY <2>1, <2>2 DEF EnforcedClaimsAreBacked
<1> QED  BY <1>1, <1>5, <1>6, <1>7, <1>8
      DEF AssemblyInv, FusedFromRankings, ChosenFromFused, AnswerFromChosen, RerankingStaysWithin

\* The claims of a reply that passes cite places of the evidence, each once.
LEMMA ReplyIsParsed ==
  ASSUME AssemblyTypeOK, NEW reply \in Replies, ReplyValid(reply)
  PROVE  LET claims == Parsed(reply) IN
         /\ \E m \in Nat : claims = [i \in 1..m |-> claims[i]]
         /\ \A i \in DOMAIN claims : ToSet(claims[i].cites) \subseteq DOMAIN chosen
<1> DEFINE claims == Parsed(reply)
<1>1. reply \in Seq(ToSet(reply))
  BY AssemblyAssumption
<1>2. Len(reply) \in Nat /\ DOMAIN reply = 1..Len(reply)
  <2> DEFINE T == ToSet(reply)
  <2> HIDE DEF T
  <2> QED  BY <1>1 DEF T
<1>3. claims = [i \in 1..Len(reply) |->
                  [clauses |-> reply[i].clauses, cites |-> Ascending(reply[i].cites)]]
  BY <1>2 DEF Parsed
<1>4. IsFiniteSet(DOMAIN chosen) /\ DOMAIN chosen \subseteq Int
  <2>1. Len(chosen) \in Nat /\ DOMAIN chosen = 1..Len(chosen)
    BY DEF AssemblyTypeOK
  <2>2. IsFiniteSet(1..Len(chosen))
    BY <2>1, FS_Interval
  <2> QED  BY <2>1, <2>2
<1>5. ASSUME NEW i \in 1..Len(reply)
      PROVE  ToSet(claims[i].cites) \subseteq DOMAIN chosen
  <2>1. reply[i].cites \subseteq DOMAIN chosen
    BY <1>2, <1>5 DEF ReplyValid
  <2>2. IsFiniteSet(reply[i].cites) /\ reply[i].cites \subseteq Int
    BY <1>4, <2>1, FS_Subset
  <2>3. ToSet(Ascending(reply[i].cites)) = reply[i].cites
    BY <2>2, AscendingSorts
  <2>4. claims[i].cites = Ascending(reply[i].cites)
    BY <1>3, <1>5
  <2> QED  BY <2>1, <2>3, <2>4
<1> QED  BY <1>2, <1>3, <1>5

LEMMA ClaimsKeep == AssemblyInv /\ Generate => AssemblyInv'
<1> SUFFICES ASSUME AssemblyInv, Generate PROVE AssemblyInv'
  OBVIOUS
<1>1. /\ stage = "generate" /\ stage' = "done" /\ chosen # <<>>
      /\ UNCHANGED <<request, rankings, fused, chosen, reranked>>
  BY DEF Generate
<1>2. AssemblyTypeOK /\ RoutesApart
  BY DEF AssemblyInv
<1>3. answer = [status |-> "COMPLETED", evidence |-> chosen,
                citations |-> [n \in DOMAIN chosen |-> n],
                claims |-> <<>>, warning |-> answer.warning]
  BY <1>1 DEF AssemblyInv, AnswerFromChosen
<1>4. PICK reply \in Replies :
        /\ ReplyValid(reply)
        /\ LET claims == Parsed(reply)
               kept == Kept(claims)
           IN IF kept = <<>> THEN Degrade("CLAIM_EVIDENCE")
              ELSE answer' = [answer EXCEPT
                     !.claims = kept,
                     !.citations = Ascending(UsedPositions(kept, reply)),
                     !.warning = Warning(claims, kept)]
  BY DEF Generate
<1> DEFINE claims == Parsed(reply)
           kept == Kept(claims)
<1>5. PICK m \in Nat : claims = [i \in 1..m |-> claims[i]]
  BY <1>2, <1>4, ReplyIsParsed
<1>6. \A i \in DOMAIN claims : ToSet(claims[i].cites) \subseteq DOMAIN chosen
  BY <1>2, <1>4, ReplyIsParsed
<1>7. RoutesApart'
  BY <1>1, <1>2, RankingsStayApart
<1>8. AssemblyTypeOK'
  BY <1>1, <1>2 DEF AssemblyTypeOK
<1>9. CASE kept = <<>>
  <2>1. /\ answer'.claims = <<>> /\ answer'.evidence = chosen /\ answer'.status = "DEGRADED"
        /\ answer'.citations = [n \in DOMAIN chosen |-> n]
    <3>1. answer' = [answer EXCEPT !.status = "DEGRADED", !.warning = "CLAIM_EVIDENCE"]
      BY <1>4, <1>9 DEF Degrade
    <3> QED  BY <1>3, <3>1
  <2>2. ToSet(answer'.citations) = DOMAIN chosen /\ IsInjective(answer'.citations)
    BY <2>1, PlacesListThemselves
  <2>3. CitationsMatchClaims'
    BY <1>1, <2>1, <2>2 DEF CitationsMatchClaims
  <2>4. DOMAIN (answer'.claims) = {}
    BY <2>1
  <2>5. Statuses(answer.claims)' = {}
    BY <2>4 DEF Statuses
  <2>6. EnforcedClaimsAreBacked'
    BY <2>4, <2>5 DEF EnforcedClaimsAreBacked
  <2> QED  BY <1>1, <1>7, <1>8, <2>3, <2>6
        DEF AssemblyInv, FusedFromRankings, ChosenFromFused, AnswerFromChosen,
            RerankingStaysWithin
<1>10. CASE kept # <<>>
  <2> HIDE DEF claims
  <2>1. answer' = [answer EXCEPT !.claims = kept,
                     !.citations = Ascending(UsedPositions(kept, reply)),
                     !.warning = Warning(claims, kept)]
    BY <1>4, <1>10 DEF claims
  <2> HIDE DEF kept
  <2>2. /\ answer'.claims = kept /\ answer'.evidence = chosen /\ answer'.status = "COMPLETED"
        /\ answer'.citations = Ascending(UsedPositions(kept, reply))
        /\ answer'.warning = Warning(claims, kept)
    <3> DEFINE cited == Ascending(UsedPositions(kept, reply))
               warned == Warning(claims, kept)
    <3>1. answer' = [answer EXCEPT !.claims = kept, !.citations = cited, !.warning = warned]
      BY <2>1
    <3> HIDE DEF cited, warned
    <3>2. /\ answer'.claims = kept /\ answer'.evidence = chosen /\ answer'.status = "COMPLETED"
          /\ answer'.citations = cited /\ answer'.warning = warned
      BY <1>3, <3>1
    <3> QED  BY <3>2 DEF cited, warned
  <2>3. /\ \A i \in DOMAIN kept : \E j \in DOMAIN claims : kept[i] = claims[j]
        /\ request.enforce => \A i \in DOMAIN kept :
             VerifyClaim(kept[i], Evidence) # "UNSUPPORTED"
    <3>1. CASE request.enforce
      <4>1. kept = Retained(claims, Evidence)
        BY <3>1 DEF kept, Kept
      <4>2. \A i \in DOMAIN kept : \E j \in DOMAIN claims :
              kept[i] = claims[j] /\ VerifyClaim(claims[j], Evidence) # "UNSUPPORTED"
        BY <1>5, <4>1, RetainedAreVerified
      <4> QED  BY <4>2
    <3>2. CASE ~request.enforce
      BY <3>2 DEF kept, Kept
    <3> QED  BY <3>1, <3>2
  <2>4. CitationsMatchClaims'
    <3>1. UsedPositions(kept, reply) = UNION {ToSet(kept[i].cites) : i \in DOMAIN kept}
      BY DEF UsedPositions
    <3>2. UsedPositions(kept, reply) \subseteq DOMAIN chosen
      BY <1>6, <2>3, <3>1
    <3>3. IsFiniteSet(DOMAIN chosen) /\ DOMAIN chosen \subseteq Int
      <4>1. Len(chosen) \in Nat /\ DOMAIN chosen = 1..Len(chosen)
        BY <1>2 DEF AssemblyTypeOK
      <4>2. IsFiniteSet(1..Len(chosen))
        BY <4>1, FS_Interval
      <4> QED  BY <4>1, <4>2
    <3>4. IsFiniteSet(UsedPositions(kept, reply)) /\ UsedPositions(kept, reply) \subseteq Int
      BY <3>2, <3>3, FS_Subset
    <3>5. /\ ToSet(answer'.citations) = UsedPositions(kept, reply)
          /\ IsInjective(answer'.citations)
      BY <2>2, <3>4, AscendingSorts
    <3> QED  BY <1>1, <1>10, <2>2, <3>1, <3>5 DEF CitationsMatchClaims
  <2>5. EnforcedClaimsAreBacked'
    <3> SUFFICES ASSUME request.enforce
                 PROVE  EnforcedClaimsAreBacked'
      BY <1>1 DEF EnforcedClaimsAreBacked
    <3>1. Evidence' = Evidence /\ Statuses(answer.claims)' = Statuses(kept)
      BY <1>1, <2>2 DEF Statuses, Evidence
    <3>2. \A i \in DOMAIN kept :
            Claimed(kept[i]).facts \subseteq Bound(kept[i], Evidence).facts
              \/ SafeLimitation(kept[i])
      BY <2>3, VerifiedIsBacked
    <3>3. "UNSUPPORTED" \notin Statuses(kept)
      BY <2>3 DEF Statuses
    <3>4. ASSUME Warning(claims, kept) = "LIMITATION", NEW i \in DOMAIN kept
          PROVE  SafeLimitation(kept[i])
      <4>1. Statuses(claims) = {"INSUFFICIENT_EVIDENCE"}
        BY <3>4 DEF Warning
      <4>2. PICK j \in DOMAIN claims : kept[i] = claims[j]
        BY <2>3
      <4>3. VerifyClaim(claims[j], Evidence) = "INSUFFICIENT_EVIDENCE"
        BY <4>1 DEF Statuses
      <4> QED  BY <4>2, <4>3, VerifiedIsBacked
    <3> QED  BY <2>2, <3>1, <3>2, <3>3, <3>4 DEF EnforcedClaimsAreBacked
  <2> QED  BY <1>1, <1>7, <1>8, <2>4, <2>5
        DEF AssemblyInv, FusedFromRankings, ChosenFromFused, AnswerFromChosen,
            RerankingStaysWithin
<1> QED  BY <1>9, <1>10

LEMMA StutteringKeeps == AssemblyInv /\ UNCHANGED vars => AssemblyInv'
<1> SUFFICES ASSUME AssemblyInv, UNCHANGED vars PROVE AssemblyInv'
  OBVIOUS
<1> USE DEF vars
<1>1. AssemblyTypeOK' /\ RoutesApart'
  BY DEF AssemblyInv, AssemblyTypeOK, RoutesApart, RouteOrder, Routes
<1>2. FusedFromRankings' /\ ChosenFromFused' /\ AnswerFromChosen'
  BY DEF AssemblyInv, FusedFromRankings, ChosenFromFused, AnswerFromChosen, RetrievedK
<1>3. RerankingStaysWithin' /\ CitationsMatchClaims'
  BY DEF AssemblyInv, RerankingStaysWithin, CitationsMatchClaims
<1>4. EnforcedClaimsAreBacked'
  BY DEF AssemblyInv, EnforcedClaimsAreBacked, Statuses, Evidence
<1> QED  BY <1>1, <1>2, <1>3, <1>4 DEF AssemblyInv

\* At every step of a question its rankings are of one route each, its candidates those of
\* its rankings, its chunks some of its candidates and its answer about its chunks.
THEOREM AssemblyInvariant == AssemblySpec => []AssemblyInv
<1>1. Init => AssemblyInv
  BY StagesBegin
<1>2. AssemblyInv /\ [Next]_vars => AssemblyInv'
  BY SearchKeeps, RefusalKeeps, FusionKeeps, RerankingKeeps, BuildingKeeps, GenerationKeeps,
     ClaimsKeep, StutteringKeeps DEF Next
<1> QED  BY <1>1, <1>2, PTL DEF AssemblySpec

\* The reranker returns a selection of its candidates, as many as asked for, and the first
\* of them when it falls back (rag/online_reranker.py), for any scores.
THEOREM RerankingIsSelection == AssemblySpec => []RerankingStaysWithin
<1>1. AssemblyInv => RerankingStaysWithin
  BY DEF AssemblyInv
<1> QED  BY <1>1, AssemblyInvariant, PTL

\* The citations of an answer are those of its claims (rag/generation.py:
\* _validated_citation_positions, apply_real_generation), for any reply of the model.
THEOREM CitationsAreOfClaims == AssemblySpec => []CitationsMatchClaims
<1>1. AssemblyInv => CitationsMatchClaims
  BY DEF AssemblyInv
<1> QED  BY <1>1, AssemblyInvariant, PTL

\* With enforcement no claim goes out that the evidence it cites does not back
\* (rag/claim_evidence.py: verify_claim_evidence), for any evidence and reply.
THEOREM EnforcementBacksClaims == AssemblySpec => []EnforcedClaimsAreBacked
<1>1. AssemblyInv => EnforcedClaimsAreBacked
  BY DEF AssemblyInv
<1> QED  BY <1>1, AssemblyInvariant, PTL

-----------------------------------------------------------------------------
(* What both backends prefer comes first. *)

\* Outside a ranking a chunk earns nothing.
WeightOf(r) == IF r <= MaxRank THEN Weight(r) ELSE 0

LEMMA WorseRanksWeighLess ==
  /\ \A r \in 1..(MaxRank + 1) : WeightOf(r) \in Nat
  /\ \A r, s \in 1..(MaxRank + 1) : r < s => WeightOf(r) > WeightOf(s)
<1>1. MaxRank \in Nat
  BY AssemblyAssumption
<1>2. \A r \in 1..(MaxRank + 1) : r <= MaxRank => r \in 1..MaxRank
  BY <1>1
<1>3. \A r \in 1..(MaxRank + 1) : WeightOf(r) \in Nat
  BY <1>2, WeightsDecrease DEF WeightOf
<1>4. ASSUME NEW r \in 1..(MaxRank + 1), NEW s \in 1..(MaxRank + 1), r < s
      PROVE  WeightOf(r) > WeightOf(s)
  <2>1. r \in 1..MaxRank
    BY <1>1, <1>4
  <2>2. CASE s <= MaxRank
    <3>1. s \in 1..MaxRank
      BY <1>2, <2>2
    <3>2. Weight(r) > Weight(s)
      BY <1>4, <2>1, <3>1, WeightsDecrease
    <3> QED  BY <2>1, <3>1, <3>2 DEF WeightOf
  <2>3. CASE ~ (s <= MaxRank)
    <3>1. WeightOf(s) = 0 /\ WeightOf(r) = Weight(r)
      BY <2>1, <2>3 DEF WeightOf
    <3>2. Weight(r) \in Nat \ {0}
      BY <2>1, WeightsDecrease
    <3> QED  BY <3>1, <3>2
  <2> QED  BY <2>2, <2>3
<1> QED  BY <1>3, <1>4

LEMMA RankInFinds ==
  ASSUME NEW d \in Routes, NEW q \in RankingOf(d), ValidRanking(q), NEW c \in Chunk
  PROVE  /\ RankIn(q, c) \in 1..(MaxRank + 1)
         /\ RankIn(q, c) <= MaxRank <=> \E k \in DOMAIN q : q[k].id = c
         /\ \A k \in 1..MaxRank : k \in DOMAIN q /\ q[k].id = c <=> k = RankIn(q, c)
<1> DEFINE n == Len(q)
<1>1. /\ DOMAIN q = 1..n /\ n \in Nat /\ n <= MaxRank /\ MaxRank \in Nat
      /\ \A k, l \in DOMAIN q : q[k].id = q[l].id => k = l
  BY RankingsFit, AssemblyAssumption
<1> HIDE DEF n
<1>2. CASE \E k \in DOMAIN q : q[k].id = c
  <2>1. RankIn(q, c) \in DOMAIN q /\ q[RankIn(q, c)].id = c
    BY <1>2 DEF RankIn
  <2>2. \A k \in DOMAIN q : q[k].id = c => k = RankIn(q, c)
    BY <1>1, <2>1
  <2>3. RankIn(q, c) \in 1..(MaxRank + 1) /\ RankIn(q, c) <= MaxRank
    BY <1>1, <2>1
  <2> QED  BY <1>2, <2>1, <2>2, <2>3
<1>3. CASE ~ \E k \in DOMAIN q : q[k].id = c
  <2>1. RankIn(q, c) = MaxRank + 1
    BY <1>3 DEF RankIn
  <2>2. RankIn(q, c) \in 1..(MaxRank + 1) /\ ~ (RankIn(q, c) <= MaxRank)
        /\ \A k \in 1..MaxRank : k # RankIn(q, c)
    BY <1>1, <2>1
  <2> QED  BY <1>3, <2>2
<1> QED  BY <1>2, <1>3

\* The two rankings of a route, and what they say of a chunk of it.
Pair(i, c) ==
  /\ i \in DOMAIN rankings /\ i % 2 = 1
  /\ \E k \in {i, i + 1} : c \in ToSet(Ids(rankings[k]))

\* Nothing but the two rankings of its route mentions a chunk.
LEMMA PairMentions ==
  ASSUME RoutesApart, NEW c \in Chunk, NEW i, Pair(i, c)
  PROVE  LET r == RankIn(rankings[i], c)
             s == RankIn(rankings[i + 1], c)
         IN /\ i \in Nat /\ r \in 1..(MaxRank + 1) /\ s \in 1..(MaxRank + 1)
            /\ \A m : m \in Mentions(rankings, c) <=>
                 \/ r <= MaxRank /\ m = <<i, r>>
                 \/ s <= MaxRank /\ m = <<i + 1, s>>
<1> DEFINE r == RankIn(rankings[i], c)
           s == RankIn(rankings[i + 1], c)
           d == RouteOrder[(i + 1) \div 2]
<1>1. PICK n \in 0..Cardinality(Routes) : DOMAIN rankings = 1..(2 * n)
  BY DEF RoutesApart
<1>2. n \in Nat /\ n <= Cardinality(Routes) /\ Cardinality(Routes) \in Nat
  BY RoutesListed
<1>3. i \in Nat /\ i % 2 = 1 /\ i \in 1..(2 * n)
  BY <1>1, <1>2 DEF Pair
<1>4. PICK h \in Nat : i = 2 * h + 1 /\ h < n
  BY <1>2, <1>3
<1>5. i + 1 \in 1..(2 * n) /\ (i + 1) \div 2 = h + 1 /\ (i + 1 + 1) \div 2 = h + 1
      /\ h + 1 \in 1..Cardinality(Routes)
  BY <1>2, <1>4
<1>6. d \in Routes
  BY <1>5, RoutesListed
<1> HIDE DEF d
<1>7. /\ rankings[i] \in RankingOf(d) /\ ValidRanking(rankings[i])
      /\ rankings[i + 1] \in RankingOf(d) /\ ValidRanking(rankings[i + 1])
  <2>1. \A k \in DOMAIN rankings :
          rankings[k] \in RankingOf(RouteOrder[(k + 1) \div 2]) /\ ValidRanking(rankings[k])
    BY DEF RoutesApart, RankingOf
  <2> QED  BY <1>1, <1>3, <1>5, <2>1 DEF d
<1>8. /\ r \in 1..(MaxRank + 1) /\ s \in 1..(MaxRank + 1)
      /\ \A k \in 1..MaxRank : k \in DOMAIN rankings[i] /\ rankings[i][k].id = c <=> k = r
      /\ \A k \in 1..MaxRank : k \in DOMAIN rankings[i + 1] /\ rankings[i + 1][k].id = c <=> k = s
  BY <1>6, <1>7, RankInFinds
<1>9. ChunkOf[c] = d
  <2>1. PICK k \in {i, i + 1} : c \in ToSet(Ids(rankings[k]))
    BY DEF Pair
  <2>2. rankings[k] \in RankingOf(d) /\ ValidRanking(rankings[k])
    BY <1>7, <2>1
  <2>3. PICK l \in DOMAIN rankings[k] : rankings[k][l].id = c
    BY <2>1 DEF ToSet, Ids
  <2>4. c \in RouteChunks(d)
    BY <1>6, <2>2, <2>3, RankingsFit
  <2> QED  BY <2>4 DEF RouteChunks
<1>10. ASSUME NEW m \in Mentions(rankings, c)
       PROVE  m[1] \in {i, i + 1} /\ m = <<m[1], m[2]>> /\ m[2] \in 1..MaxRank
  <2>1. /\ m \in (DOMAIN rankings) \X (1..MaxRank)
        /\ m[2] \in DOMAIN rankings[m[1]] /\ rankings[m[1]][m[2]].id = c
    BY DEF Mentions
  <2> DEFINE k == m[1]
             e == RouteOrder[(k + 1) \div 2]
  <2>2. k \in 1..(2 * n) /\ k \in Int
    BY <1>1, <1>2, <2>1
  <2>3. (k + 1) \div 2 \in 1..Cardinality(Routes)
    BY <1>2, <2>2
  <2>4. e \in Routes
    BY <2>3, RoutesListed
  <2>5. rankings[k] \in RankingOf(e) /\ ValidRanking(rankings[k])
    BY <1>1, <2>2 DEF RoutesApart, RankingOf
  <2>6. c \in RouteChunks(e)
    BY <2>1, <2>4, <2>5, RankingsFit
  <2>7. RouteOrder[(k + 1) \div 2] = RouteOrder[h + 1]
    BY <1>5, <1>9, <2>6 DEF RouteChunks, d
  <2>8. (k + 1) \div 2 = h + 1
    BY <1>5, <2>3, <2>7, RoutesListed DEF IsInjective
  <2>9. k \in {i, i + 1}
    BY <1>4, <2>2, <2>8
  <2> QED  BY <2>1, <2>9
<1>11. ASSUME NEW m
       PROVE  m \in Mentions(rankings, c) <=>
                \/ r <= MaxRank /\ m = <<i, r>>
                \/ s <= MaxRank /\ m = <<i + 1, s>>
  <2>1. MaxRank \in Nat
    BY AssemblyAssumption
  <2> HIDE DEF r, s
  <2>2. ASSUME m \in Mentions(rankings, c)
        PROVE  \/ r <= MaxRank /\ m = <<i, r>>
               \/ s <= MaxRank /\ m = <<i + 1, s>>
    <3>1. /\ m = <<m[1], m[2]>> /\ m[2] \in 1..MaxRank /\ m[1] \in {i, i + 1}
          /\ m[2] \in DOMAIN rankings[m[1]] /\ rankings[m[1]][m[2]].id = c
      BY <1>10, <2>2 DEF Mentions
    <3>2. CASE m[1] = i
      BY <1>8, <2>1, <3>1, <3>2
    <3>3. CASE m[1] = i + 1
      BY <1>8, <2>1, <3>1, <3>3
    <3> QED  BY <3>1, <3>2, <3>3
  <2>3. ASSUME r <= MaxRank
        PROVE  <<i, r>> \in Mentions(rankings, c)
    <3>1. r \in 1..MaxRank
      BY <1>8, <2>1, <2>3
    <3> QED  BY <1>1, <1>3, <1>8, <3>1 DEF Mentions
  <2>4. ASSUME s <= MaxRank
        PROVE  <<i + 1, s>> \in Mentions(rankings, c)
    <3>1. s \in 1..MaxRank
      BY <1>8, <2>1, <2>4
    <3> QED  BY <1>1, <1>5, <1>8, <3>1 DEF Mentions
  <2> QED  BY <2>2, <2>3, <2>4
<1> QED  BY <1>3, <1>8, <1>11

LEMMA SumOfTwo ==
  ASSUME NEW x, NEW y, x # y, NEW D \in SUBSET {x, y}, NEW w \in [D -> Nat]
  PROVE  SumFunction(w) = (IF x \in D THEN w[x] ELSE 0) + (IF y \in D THEN w[y] ELSE 0)
<1>1. IsFiniteSet(D)
  <2>1. IsFiniteSet({x}) /\ {x, y} = {x} \cup {y}
    BY FS_Singleton
  <2>2. IsFiniteSet({x, y})
    BY <2>1, FS_AddElement
  <2> QED  BY <2>2, FS_Subset
<1>0. PICK g \in [SUBSET D -> Nat] : SumFunction(w) = g[D] /\ g[{}] = 0 /\ AnySummand(g, w, D)
  BY <1>1, SumsUp
<1>2. /\ SumFunction(w) = g[D] /\ g[{}] = 0
      /\ \A s \in SUBSET D : \A z \in s : g[s] = w[z] + g[s \ {z}]
  BY <1>0 DEF AnySummand
<1>3. CASE x \in D /\ y \in D
  <2>1. g[D] = w[x] + g[D \ {x}]
    BY <1>2, <1>3
  <2>2. D \ {x} \in SUBSET D /\ y \in D \ {x} /\ (D \ {x}) \ {y} = {}
    BY <1>3
  <2>3. g[D \ {x}] = w[y] + g[{}]
    BY <1>2, <2>2
  <2>4. w[x] \in Nat /\ w[y] \in Nat
    BY <1>3
  <2> QED  BY <1>2, <1>3, <2>1, <2>3, <2>4
<1>4. CASE x \in D /\ y \notin D
  <2>1. g[D] = w[x] + g[D \ {x}] /\ D \ {x} = {}
    BY <1>2, <1>4
  <2>2. w[x] \in Nat
    BY <1>4
  <2> QED  BY <1>2, <1>4, <2>1, <2>2
<1>5. CASE x \notin D /\ y \in D
  <2>1. g[D] = w[y] + g[D \ {y}] /\ D \ {y} = {}
    BY <1>2, <1>5
  <2>2. w[y] \in Nat
    BY <1>5
  <2> QED  BY <1>2, <1>5, <2>1, <2>2
<1>6. CASE x \notin D /\ y \notin D
  <2>1. D = {}
    BY <1>6
  <2> QED  BY <1>2, <1>6, <2>1
<1> QED  BY <1>3, <1>4, <1>5, <1>6

\* A chunk scores what its two ranks weigh.
LEMMA ScoreOfPair ==
  ASSUME RoutesApart, NEW c \in Chunk, NEW i, Pair(i, c)
  PROVE  Score(rankings, c) = WeightOf(RankIn(rankings[i], c)) + WeightOf(RankIn(rankings[i + 1], c))
<1> DEFINE r == RankIn(rankings[i], c)
           s == RankIn(rankings[i + 1], c)
           M == Mentions(rankings, c)
           w == [m \in M |-> Weight(m[2])]
           x == <<i, r>>
           y == <<i + 1, s>>
<1>1. /\ i \in Nat /\ r \in 1..(MaxRank + 1) /\ s \in 1..(MaxRank + 1)
      /\ \A m : m \in M <=> \/ r <= MaxRank /\ m = <<i, r>>
                            \/ s <= MaxRank /\ m = <<i + 1, s>>
  BY PairMentions
<1>2. w \in [M -> Nat]
  BY ApartIsSearched, ScoresAreNumbers
<1>3. Score(rankings, c) = SumFunction(w)
  BY DEF Score
<1>4. \A m \in M : w[m] = Weight(m[2])
  OBVIOUS
<1> HIDE DEF M, w, r, s
<1>5. x # y /\ M \in SUBSET {x, y} /\ (x \in M <=> r <= MaxRank) /\ (y \in M <=> s <= MaxRank)
  BY <1>1
<1>6. /\ (IF x \in M THEN w[x] ELSE 0) = WeightOf(r)
      /\ (IF y \in M THEN w[y] ELSE 0) = WeightOf(s)
  BY <1>4, <1>5 DEF WeightOf
<1> HIDE DEF x, y
<1>7. SumFunction(w) = (IF x \in M THEN w[x] ELSE 0) + (IF y \in M THEN w[y] ELSE 0)
  BY <1>2, <1>5, SumOfTwo, ZenonT(30)
<1> QED  BY <1>3, <1>6, <1>7 DEF r, s

\* Better ranks in both rankings, and one of them not the same, make the better score.
LEMMA BetterRanksScoreMore ==
  ASSUME RoutesApart, NEW c \in Chunk, NEW e \in Chunk, NEW i, NEW j, Pair(i, c), Pair(j, e),
         RankIn(rankings[i], c) <= RankIn(rankings[j], e),
         RankIn(rankings[i + 1], c) <= RankIn(rankings[j + 1], e),
         <<RankIn(rankings[i], c), RankIn(rankings[i + 1], c)>>
           # <<RankIn(rankings[j], e), RankIn(rankings[j + 1], e)>>
  PROVE  Score(rankings, c) > Score(rankings, e)
<1> DEFINE r == RankIn(rankings[i], c)
           s == RankIn(rankings[i + 1], c)
           t == RankIn(rankings[j], e)
           u == RankIn(rankings[j + 1], e)
<1>1. /\ r \in 1..(MaxRank + 1) /\ s \in 1..(MaxRank + 1)
      /\ t \in 1..(MaxRank + 1) /\ u \in 1..(MaxRank + 1)
  BY PairMentions
<1>2. /\ Score(rankings, c) = WeightOf(r) + WeightOf(s)
      /\ Score(rankings, e) = WeightOf(t) + WeightOf(u)
  BY ScoreOfPair
<1>3. r <= t /\ s <= u /\ (r # t \/ s # u)
  OBVIOUS
<1> HIDE DEF r, s, t, u
<1>4. /\ WeightOf(r) \in Nat /\ WeightOf(s) \in Nat /\ WeightOf(t) \in Nat /\ WeightOf(u) \in Nat
      /\ r = t \/ WeightOf(r) > WeightOf(t)
      /\ s = u \/ WeightOf(s) > WeightOf(u)
  <2>1. r < t \/ r = t
    BY <1>1, <1>3, AssemblyAssumption
  <2>2. s < u \/ s = u
    BY <1>1, <1>3, AssemblyAssumption
  <2> QED  BY <1>1, <2>1, <2>2, WorseRanksWeighLess
<1>5. WeightOf(r) + WeightOf(s) > WeightOf(t) + WeightOf(u)
  BY <1>3, <1>4
<1> QED  BY <1>2, <1>5 DEF r, s, t, u

\* Before an answer is built the candidates are those of the rankings, and a chunk that both
\* backends rank at least as well as another one, and one of them better, comes before it.
LEMMA AgreementComesFirst == AssemblyInv => FusionKeepsAgreement
<1> SUFFICES ASSUME AssemblyInv, stage \in {"rerank", "build"}, rankings # <<>>
             PROVE  FusionKeepsAgreement
  BY DEF FusionKeepsAgreement
<1> DEFINE candidates == UNION {ToSet(Ids(rankings[i])) : i \in DOMAIN rankings}
           place(c) == CHOOSE i \in DOMAIN fused : fused[i] = c
           ranks(c) == {<<RankIn(rankings[i], c), RankIn(rankings[i + 1], c)>> :
                          i \in {i \in DOMAIN rankings : i % 2 = 1 /\
                                   c \in ToSet(Ids(rankings[i])) \cup ToSet(Ids(rankings[i + 1]))}}
<1>1. RoutesApart /\ Searched(rankings) /\ fused = FusedOrder(rankings)
  BY ApartIsSearched DEF AssemblyInv, FusedFromRankings
<1>2. /\ fused \in Seq(Chunk) /\ IsInjective(fused) /\ ToSet(fused) = Fusible(rankings)
      /\ \A i, j \in DOMAIN fused : i < j <=> First(rankings, fused[i], fused[j])
  BY <1>1, FusionSorts
<1>3. candidates = Fusible(rankings)
  <2>1. ASSUME NEW c \in candidates
        PROVE  c \in Fusible(rankings)
    <3>1. PICK i \in DOMAIN rankings : c \in ToSet(Ids(rankings[i]))
      OBVIOUS
    <3>2. PICK k \in DOMAIN rankings[i] : rankings[i][k].id = c
      BY <3>1 DEF ToSet, Ids
    <3>3. PICK d \in Routes : rankings[i] \in RankingOf(d) /\ ValidRanking(rankings[i])
      BY <1>1 DEF Searched
    <3>4. k \in 1..MaxRank /\ c \in Chunk
      BY <3>2, <3>3, RankingsFit, AssemblyAssumption DEF RouteChunks
    <3>5. <<i, k>> \in Mentions(rankings, c)
      BY <3>2, <3>4 DEF Mentions
    <3> QED  BY <3>4, <3>5 DEF Fusible
  <2>2. ASSUME NEW c \in Fusible(rankings)
        PROVE  c \in candidates
    <3>1. PICK m : m \in Mentions(rankings, c)
      BY DEF Fusible
    <3>2. m[1] \in DOMAIN rankings /\ m[2] \in DOMAIN rankings[m[1]] /\ rankings[m[1]][m[2]].id = c
      BY <3>1 DEF Mentions
    <3>3. c \in ToSet(Ids(rankings[m[1]]))
      BY <3>2 DEF ToSet, Ids
    <3> QED  BY <3>2, <3>3
  <2> QED  BY <2>1, <2>2
<1>4. ASSUME NEW c \in candidates, NEW e \in candidates, NEW r \in ranks(c), NEW s \in ranks(e),
             r[1] <= s[1] /\ r[2] <= s[2] /\ r # s
      PROVE  place(c) < place(e)
  <2>1. c \in Chunk /\ e \in Chunk
    BY <1>3 DEF Fusible
  <2>2. PICK i \in DOMAIN rankings :
          /\ i % 2 = 1 /\ c \in ToSet(Ids(rankings[i])) \cup ToSet(Ids(rankings[i + 1]))
          /\ r = <<RankIn(rankings[i], c), RankIn(rankings[i + 1], c)>>
    OBVIOUS
  <2>3. PICK j \in DOMAIN rankings :
          /\ j % 2 = 1 /\ e \in ToSet(Ids(rankings[j])) \cup ToSet(Ids(rankings[j + 1]))
          /\ s = <<RankIn(rankings[j], e), RankIn(rankings[j + 1], e)>>
    OBVIOUS
  <2>4. Pair(i, c) /\ Pair(j, e)
    BY <2>2, <2>3 DEF Pair
  <2>5. Score(rankings, c) > Score(rankings, e)
    BY <1>1, <1>4, <2>1, <2>2, <2>3, <2>4, BetterRanksScoreMore
  <2>6. First(rankings, c, e)
    BY <2>5 DEF First
  <2>7. /\ place(c) \in DOMAIN fused /\ fused[place(c)] = c
        /\ place(e) \in DOMAIN fused /\ fused[place(e)] = e
    <3>1. c \in ToSet(fused) /\ e \in ToSet(fused)
      BY <1>2, <1>3
    <3>2. (\E k \in DOMAIN fused : fused[k] = c) /\ (\E k \in DOMAIN fused : fused[k] = e)
      BY <3>1 DEF ToSet
    <3> QED  BY <3>2
  <2> QED  BY <1>2, <2>6, <2>7
<1>5. ToSet(fused) = candidates
  BY <1>2, <1>3
<1> HIDE DEF candidates, place, ranks
<1>6. /\ ToSet(fused) = candidates /\ IsInjective(fused)
      /\ \A c, e \in candidates : \A r \in ranks(c), s \in ranks(e) :
           r[1] <= s[1] /\ r[2] <= s[2] /\ r # s => place(c) < place(e)
  BY <1>2, <1>4, <1>5
<1> QED  BY <1>6 DEF FusionKeepsAgreement, candidates, place, ranks

\* Reciprocal rank fusion keeps what both backends agree on (rag/online.py: _fuse), for any
\* chunks, routes, rrf_k and rankings.
THEOREM FusionKeepsAgreementAlways == AssemblySpec => []FusionKeepsAgreement
BY AgreementComesFirst, AssemblyInvariant, PTL

-----------------------------------------------------------------------------
(* The coverage of a comparison. *)

LEMMA TwoThings ==
  ASSUME NEW x, NEW y, x # y
  PROVE  IsFiniteSet({x, y}) /\ Cardinality({x, y}) = 2
<1>1. IsFiniteSet({x}) /\ Cardinality({x}) = 1
  BY FS_Singleton
<1>2. {x, y} = {x} \cup {y} /\ y \notin {x}
  OBVIOUS
<1>3. IsFiniteSet({x} \cup {y}) /\ Cardinality({x} \cup {y}) = 1 + 1
  BY <1>1, <1>2, FS_AddElement
<1> QED  BY <1>2, <1>3

LEMMA ThreeThings ==
  ASSUME NEW x, NEW y, NEW z, x # y, x # z, y # z
  PROVE  IsFiniteSet({x, y, z}) /\ Cardinality({x, y, z}) = 3
<1>1. IsFiniteSet({x, y}) /\ Cardinality({x, y}) = 2
  BY TwoThings
<1>2. {x, y, z} = {x, y} \cup {z} /\ z \notin {x, y}
  OBVIOUS
<1>3. IsFiniteSet({x, y} \cup {z}) /\ Cardinality({x, y} \cup {z}) = 2 + 1
  BY <1>1, <1>2, FS_AddElement
<1> QED  BY <1>2, <1>3

\* The first of some numbers is the least.
LEMMA AscendingBeginsLeast ==
  ASSUME NEW S, IsFiniteSet(S), S \subseteq Int, NEW q \in S, \A x \in S : q <= x
  PROVE  Cardinality(S) \in Nat /\ Cardinality(S) >= 1 /\ Ascending(S)[1] = q
<1> DEFINE n == Cardinality(S)
<1>1. /\ n \in Nat /\ Ascending(S) \in [1..n -> S] /\ ToSet(Ascending(S)) = S
      /\ \A i, j \in 1..n : i < j <=> Ascending(S)[i] < Ascending(S)[j]
  BY AscendingSorts
<1> HIDE DEF n
<1>2. PICK k \in 1..n : Ascending(S)[k] = q
  BY <1>1 DEF ToSet
<1>3. n >= 1 /\ 1 \in 1..n
  BY <1>1
<1>4. Ascending(S)[1] \in S
  BY <1>1, <1>3
<1>5. ~ (1 < k)
  <2>1. Ascending(S)[1] \in Int /\ q \in Int /\ q <= Ascending(S)[1]
    BY <1>4
  <2>2. ~ (Ascending(S)[1] < q)
    BY <2>1
  <2>3. 1 < k <=> Ascending(S)[1] < Ascending(S)[k]
    BY <1>1, <1>3
  <2> QED  BY <1>2, <2>2, <2>3
<1>6. k = 1
  BY <1>1, <1>5
<1> QED  BY <1>1, <1>2, <1>3, <1>6 DEF n

\* The first k places pick the first k elements.
LEMMA PickedIsTop ==
  ASSUME NEW T, NEW s \in Seq(T), NEW k \in Nat, k <= Len(s)
  PROVE  Picked(s, 1..k) = Top(s, k)
<1> DEFINE id == [i \in 1..k |-> i]
<1>1. ToSet(id) = 1..k
  BY PlacesListThemselves
<1>2. Increasing(id, k)
  BY DEF Increasing
<1>3. Ascending(1..k) = id
  BY <1>1, <1>2, IncreasingIsSorted
<1>4. Picked(s, 1..k) = [i \in 1..k |-> s[i]]
  BY <1>3 DEF Picked
<1>5. /\ Top(s, k) \in Seq(T) /\ Len(Top(s, k)) = k
      /\ \A i \in 1..k : Top(s, k)[i] = s[i]
  <2>1. /\ Top(s, k) \in Seq(T) /\ Len(Top(s, k)) = IF k < Len(s) THEN k ELSE Len(s)
        /\ \A i \in 1..Len(Top(s, k)) : i \in 1..Len(s) /\ Top(s, k)[i] = s[i]
    BY TopCuts
  <2>2. Len(s) \in Nat
    OBVIOUS
  <2>3. Len(Top(s, k)) = k
    BY <2>1, <2>2
  <2> QED  BY <2>1, <2>3
<1>6. Top(s, k) = [i \in 1..k |-> Top(s, k)[i]]
  BY <1>5
<1> QED  BY <1>4, <1>5, <1>6

\* The places of what stands at some places are these.
LEMMA PlacesOfPicked ==
  ASSUME NEW s, IsInjective(s), NEW places \in SUBSET (DOMAIN s), NEW S, S = {s[j] : j \in places}
  PROVE  {i \in DOMAIN s : s[i] \in S} = places
BY DEF IsInjective

LEMMA TwoRoutes ==
  ASSUME Cardinality(Routes) = 2
  PROVE  \E d, e : d # e /\ Routes = {d, e}
<1>1. PICK f : f \in Bijection(1..2, Routes)
  BY RoutesListed, FS_CardinalityType DEF ExistsBijection
<1>2. /\ f \in [1..2 -> Routes] /\ IsInjective(f)
      /\ \A d \in Routes : \E i \in 1..2 : f[i] = d
  BY <1>1 DEF Bijection, Injection, Surjection
<1>3. 1 \in 1..2 /\ 2 \in 1..2 /\ \A i \in 1..2 : i = 1 \/ i = 2
  OBVIOUS
<1>4. f[1] # f[2] /\ Routes = {f[1], f[2]}
  BY <1>2, <1>3 DEF IsInjective
<1> QED  BY <1>4

LEMMA TopOfOne ==
  ASSUME NEW T, NEW s \in Seq(T), Len(s) >= 1
  PROVE  ToSet(Top(s, 1)) = {s[1]}
<1> DEFINE n == Len(s)
           m == IF 1 < n THEN 1 ELSE n
<1>1. n \in Nat /\ n >= 1
  OBVIOUS
<1>2. Top(s, 1) = SubSeq(s, 1, m)
  BY DEF Top
<1> HIDE DEF n
<1>3. m = 1
  BY <1>1
<1>4. Top(s, 1) = [i \in 1..1 |-> s[i]]
  <2> HIDE DEF m
  <2>1. Top(s, 1) = SubSeq(s, 1, 1)
    BY <1>3, <1>2
  <2>2. SubSeq(s, 1, 1) = [i \in 1..1 |-> s[i]]
    OBVIOUS
  <2> QED  BY <2>1, <2>2
<1> QED  BY <1>4 DEF ToSet

\* If both routes have a candidate, the three that are selected are the first one, the first
\* of the other route and the first of the others.
LEMMA FilledIsKnown ==
  ASSUME Cardinality(Routes) = 2, NEW s \in Seq(Chunk), IsInjective(s), Len(s) >= 3,
         {ChunkOf[c] : c \in ToSet(s)} = Routes
  PROVE  \E l, q \in 2..Len(s) :
           /\ l # q /\ q \in {2, 3} /\ (q = 3 => l = 2)
           /\ ChunkOf[s[l]] # ChunkOf[s[1]]
           /\ Filled(s, 3) = {s[i] : i \in {1, l, q}}
<1> DEFINE n == Len(s)
<1>1. n \in Nat /\ n >= 3 /\ DOMAIN s = 1..n /\ 1 \in 1..n /\ 2 \in 1..n /\ 3 \in 1..n
  OBVIOUS
<1> HIDE DEF n
<1>2. PICK d, e : d # e /\ Routes = {d, e} /\ ChunkOf[s[1]] = d
  <2>1. PICK d, e : d # e /\ Routes = {d, e}
    BY TwoRoutes
  <2>2. ChunkOf[s[1]] \in Routes
    BY <1>1 DEF ToSet
  <2> QED  BY <2>1, <2>2
<1>3. \A i \in 1..n : ChunkOf[s[i]] = d \/ ChunkOf[s[i]] = e
  BY <1>1, <1>2 DEF ToSet
<1>4. PICK l \in 1..n : ChunkOf[s[l]] = e /\ \A j \in 1..n : ChunkOf[s[j]] = e => l <= j
  <2> DEFINE others == {i \in 1..n : ChunkOf[s[i]] = e}
  <2>1. \E i \in 1..n : ChunkOf[s[i]] = e
    <3>1. PICK c \in ToSet(s) : ChunkOf[c] = e
      BY <1>2
    <3>2. PICK i \in 1..n : s[i] = c
      BY <1>1 DEF ToSet
    <3> QED  BY <3>1, <3>2
  <2>2. others \in SUBSET Nat /\ others # {}
    BY <1>1, <2>1
  <2>3. \E l \in others : \A j \in others : l <= j
    BY <2>2, LeastExists
  <2> QED  BY <2>3
<1>5. l # 1 /\ l \in 2..n
  <2>1. l # 1
    BY <1>2, <1>4
  <2> QED  BY <1>1, <2>1
<1>6. Leaders(s) = {s[1], s[l]} /\ s[1] # s[l]
  <2> DEFINE first == {i \in DOMAIN s : \A j \in DOMAIN s : ChunkOf[s[j]] = ChunkOf[s[i]] => i <= j}
  <2>1. 1 \in first /\ l \in first
    BY <1>1, <1>4
  <2>2. ASSUME NEW i \in first
        PROVE  i = 1 \/ i = l
    <3>1. i \in 1..n /\ \A j \in 1..n : ChunkOf[s[j]] = ChunkOf[s[i]] => i <= j
      BY <1>1
    <3>2. CASE ChunkOf[s[i]] = d
      <4>1. i <= 1
        BY <1>1, <1>2, <3>1, <3>2
      <4> QED  BY <1>1, <3>1, <4>1
    <3>3. CASE ChunkOf[s[i]] = e
      <4>1. i <= l /\ l <= i
        BY <1>4, <3>1, <3>3
      <4> QED  BY <1>1, <3>1, <4>1
    <3> QED  BY <1>3, <3>1, <3>2, <3>3
  <2>3. first = {1, l}
    BY <2>1, <2>2
  <2>4. Leaders(s) = {s[i] : i \in first}
    BY DEF Leaders
  <2> HIDE DEF first
  <2>5. Leaders(s) = {s[1], s[l]}
    BY <2>3, <2>4
  <2> QED  BY <1>1, <1>5, <2>5 DEF IsInjective
<1>7. Cardinality(Leaders(s)) = 2
  <2>1. Cardinality({s[1], s[l]}) = 2
    BY <1>6, TwoThings
  <2> QED  BY <1>6, <2>1
<1> DEFINE places == {i \in DOMAIN s : s[i] \notin Leaders(s)}
           q == IF l = 2 THEN 3 ELSE 2
           rest == Picked(s, places)
<1>8. places = (1..n) \ {1, l}
  BY <1>1, <1>6 DEF IsInjective
<1>9. q \in places /\ \A i \in places : q <= i
  BY <1>1, <1>5, <1>8
<1>10. IsFiniteSet(places) /\ places \subseteq Int /\ places \in SUBSET (DOMAIN s)
  <2>1. IsFiniteSet(1..n)
    <3>1. 1 \in Int /\ n \in Int
      BY <1>1
    <3> HIDE DEF places, rest, q
    <3> QED  BY <3>1, FS_Interval
  <2>2. places \in SUBSET (1..n)
    BY <1>8
  <2> QED  BY <1>1, <2>1, <2>2, FS_Subset
<1>11. q \in {2, 3} /\ (q = 3 => l = 2) /\ q # l /\ q \in 2..n /\ q \in 1..n
  BY <1>1, <1>5
<1> HIDE DEF places, q
<1>12. Cardinality(places) \in Nat /\ Cardinality(places) >= 1 /\ Ascending(places)[1] = q
  BY <1>9, <1>10, AscendingBeginsLeast
<1>13. rest \in Seq(Chunk) /\ Len(rest) = Cardinality(places) /\ rest[1] = s[q]
  <2>1. rest \in Seq(Chunk) /\ Len(rest) = Cardinality(places)
    BY <1>10, PickedSelects
  <2>2. DOMAIN Ascending(places) = 1..Cardinality(places)
    BY <1>10, AscendingSorts
  <2>3. rest = [i \in 1..Cardinality(places) |-> s[Ascending(places)[i]]]
    BY <2>2 DEF Picked
  <2>4. rest[1] = s[Ascending(places)[1]]
    BY <1>12, <2>3
  <2> QED  BY <1>12, <2>1, <2>4
<1> HIDE DEF rest
<1>14. ToSet(Top(rest, 1)) = {s[q]}
  <2>1. Len(rest) >= 1
    BY <1>12, <1>13
  <2> QED  BY <1>13, <2>1, TopOfOne
<1>15. Filled(s, 3) = {s[1], s[l]} \cup {s[q]}
  <2>1. Filled(s, 3) = Leaders(s) \cup ToSet(Top(rest, 3 - Cardinality(Leaders(s))))
    BY DEF Filled, rest, places
  <2>2. 3 - Cardinality(Leaders(s)) = 1
    BY <1>7
  <2> QED  BY <1>6, <1>14, <2>1, <2>2
<1>16. Filled(s, 3) = {s[i] : i \in {1, l, q}}
  BY <1>15
<1>17. ChunkOf[s[l]] # ChunkOf[s[1]]
  BY <1>2, <1>4
<1> QED  BY <1>5, <1>11, <1>16, <1>17 DEF n

\* The selection of three candidates of a comparison.
LEMMA CoverageSelects ==
  ASSUME Cardinality(Routes) = 2, NEW s \in Seq(Chunk), IsInjective(s), Len(s) >= 3
  PROVE  LET selected == SelectCovering(s, Routes, 3, TRUE) IN
         /\ Len(selected) = 3
         /\ {ChunkOf[c] : c \in ToSet(selected)} = {ChunkOf[c] : c \in ToSet(s)}
         /\ selected = Picked(s, {i \in DOMAIN s : s[i] \in ToSet(selected)})
         /\ Cardinality(ToSet(Top(s, 3)) \ ToSet(selected)) <= 1
<1> DEFINE n == Len(s)
           selected == SelectCovering(s, Routes, 3, TRUE)
           top == Top(s, 3)
<1>1. /\ n \in Nat /\ n >= 3 /\ DOMAIN s = 1..n /\ \A i \in 1..n : s[i] \in Chunk
      /\ 1 \in 1..n /\ 2 \in 1..n /\ 3 \in 1..n /\ 1..3 \in SUBSET (1..n)
      /\ 1..3 = {1, 2, 3}
  <2>1. n \in Nat /\ n >= 3 /\ DOMAIN s = 1..n /\ \A i \in 1..n : s[i] \in Chunk
    OBVIOUS
  <2> HIDE DEF n
  <2> QED  BY <2>1
<1>2. top = Picked(s, 1..3)
  BY <1>1, PickedIsTop
<1>3. Cardinality(1..3) = 3
  <2>1. 1 # 2 /\ 1 # 3 /\ 2 # 3
    OBVIOUS
  <2>2. Cardinality({1, 2, 3}) = 3
    BY <2>1, ThreeThings, Zenon
  <2> QED  BY <1>1, <2>2, Zenon
<1>4. top \in Seq(Chunk) /\ Len(top) = 3 /\ ToSet(top) = {s[i] : i \in 1..3}
  BY <1>1, <1>2, <1>3, PickedSelects, ZenonT(30)
<1>5. CASE {ChunkOf[c] : c \in ToSet(s)} # Routes
  <2>1. selected = top
    BY <1>5 DEF SelectCovering
  <2> HIDE DEF n, selected, top
  <2>2. {i \in DOMAIN s : s[i] \in ToSet(top)} = 1..3
    <3> DEFINE three == 1..3
               shown == ToSet(top)
    <3>1. three \in SUBSET (DOMAIN s) /\ shown = {s[i] : i \in three}
      BY <1>1, <1>4
    <3> HIDE DEF three, shown
    <3>2. {i \in DOMAIN s : s[i] \in shown} = three
      BY <3>1 DEF IsInjective
    <3> QED  BY <3>2 DEF three, shown
  <2>3. ToSet(top) \ ToSet(top) = {}
    OBVIOUS
  <2>4. {ChunkOf[c] : c \in ToSet(top)} = {ChunkOf[c] : c \in ToSet(s)}
    <3>1. \A c, e \in ToSet(s) : ChunkOf[c] = ChunkOf[e]
      <4> SUFFICES ASSUME NEW c \in ToSet(s), NEW e \in ToSet(s), ChunkOf[c] # ChunkOf[e]
                   PROVE  FALSE
        OBVIOUS
      <4>1. ToSet(s) \subseteq Chunk
        BY <1>1 DEF ToSet
      <4>2. ChunkOf[c] \in Routes /\ ChunkOf[e] \in Routes
        BY <4>1 DEF Routes
      <4>3. PICK d, f : d # f /\ Routes = {d, f}
        BY TwoRoutes
      <4>4. Routes = {ChunkOf[c], ChunkOf[e]}
        BY <4>2, <4>3
      <4>5. {ChunkOf[a] : a \in ToSet(s)} \subseteq Routes
        BY <4>1 DEF Routes
      <4> QED  BY <1>5, <4>4, <4>5
    <3>2. s[1] \in ToSet(s) /\ s[1] \in ToSet(top) /\ ToSet(top) \subseteq ToSet(s)
      BY <1>1, <1>4 DEF ToSet
    <3> QED  BY <3>1, <3>2
  <2>5. Cardinality(ToSet(top) \ ToSet(top)) = 0
    BY <2>3, FS_EmptySet
  <2>6. /\ Len(selected) = 3
        /\ {ChunkOf[c] : c \in ToSet(selected)} = {ChunkOf[c] : c \in ToSet(s)}
        /\ Cardinality(ToSet(top) \ ToSet(selected)) <= 1
    <3>1. ToSet(top) \ ToSet(selected) = ToSet(top) \ ToSet(top)
      BY <2>1
    <3>2. Cardinality(ToSet(top) \ ToSet(selected)) = 0
      BY <2>5, <3>1
    <3>3. Cardinality(ToSet(top) \ ToSet(selected)) <= 1
      BY <3>2
    <3> QED  BY <1>4, <2>1, <2>4, <3>3
  <2>7. selected = Picked(s, {i \in DOMAIN s : s[i] \in ToSet(selected)})
    BY <1>2, <2>1, <2>2
  <2> QED  BY <2>6, <2>7 DEF selected, top
<1>6. CASE {ChunkOf[c] : c \in ToSet(s)} = Routes
  <2>1. PICK l, q \in 2..n :
          /\ l # q /\ q \in {2, 3} /\ (q = 3 => l = 2)
          /\ ChunkOf[s[l]] # ChunkOf[s[1]]
          /\ Filled(s, 3) = {s[i] : i \in {1, l, q}}
    BY <1>6, FilledIsKnown
  <2> DEFINE places == {1, l, q}
  <2>2. selected = Picked(s, {i \in DOMAIN s : s[i] \in Filled(s, 3)})
    BY <1>6 DEF SelectCovering
  <2> HIDE DEF n, selected, top
  <2>3. l \in Int /\ q \in Int /\ l # 1 /\ q # 1 /\ l \in 1..n /\ q \in 1..n
    BY <1>1, <2>1
  <2>4. places \in SUBSET (DOMAIN s)
    BY <1>1, <2>3
  <2>5. Cardinality(places) = 3
    <3>1. 1 # l /\ 1 # q /\ l # q
      BY <2>1, <2>3
    <3> QED  BY <3>1, ThreeThings, Zenon
  <2>a. Filled(s, 3) = {s[i] : i \in places}
    BY <2>1
  <2> HIDE DEF places
  <2>6. {i \in DOMAIN s : s[i] \in Filled(s, 3)} = places
    BY <2>4, <2>a, PlacesOfPicked
  <2>7. selected = Picked(s, places)
    BY <2>2, <2>6
  <2>8. ToSet(selected) = {s[i] : i \in places} /\ Len(selected) = 3
    BY <2>4, <2>5, <2>7, PickedSelects
  <2>9. {i \in DOMAIN s : s[i] \in ToSet(selected)} = places
    <3> DEFINE shown == ToSet(selected)
    <3>1. shown = {s[i] : i \in places}
      BY <2>8
    <3> HIDE DEF shown
    <3>2. {i \in DOMAIN s : s[i] \in shown} = places
      BY <2>4, <3>1 DEF IsInjective
    <3> QED  BY <3>2 DEF shown
  <2>10. {ChunkOf[c] : c \in ToSet(selected)} = {ChunkOf[c] : c \in ToSet(s)}
    <3>1. s[1] \in ToSet(selected) /\ s[l] \in ToSet(selected) /\ ToSet(selected) \subseteq ToSet(s)
      BY <1>1, <2>3, <2>8 DEF ToSet, places
    <3>2. PICK d, e : d # e /\ Routes = {d, e}
      BY TwoRoutes
    <3>3. ChunkOf[s[1]] \in Routes /\ ChunkOf[s[l]] \in Routes
      BY <1>6, <3>1
    <3>4. Routes = {ChunkOf[s[1]], ChunkOf[s[l]]}
      BY <2>1, <3>2, <3>3
    <3>5. Routes \subseteq {ChunkOf[c] : c \in ToSet(selected)}
      BY <3>1, <3>4
    <3>6. {ChunkOf[c] : c \in ToSet(selected)} \subseteq {ChunkOf[c] : c \in ToSet(s)}
      BY <3>1
    <3> QED  BY <1>6, <3>5, <3>6
  <2>11. Cardinality(ToSet(top) \ ToSet(selected)) <= 1
    <3>1. ToSet(top) = {s[1], s[2], s[3]}
      BY <1>1, <1>4
    <3>2. ToSet(selected) = {s[1], s[l], s[q]}
      BY <2>8 DEF places
    <3>3. ToSet(top) \ ToSet(selected) \in SUBSET {s[3]}
      BY <2>1, <3>1, <3>2
    <3>4. IsFiniteSet({s[3]}) /\ Cardinality({s[3]}) = 1
      BY FS_Singleton
    <3>5. Cardinality(ToSet(top) \ ToSet(selected)) <= Cardinality({s[3]})
      BY <3>3, <3>4, FS_Subset
    <3> QED  BY <3>4, <3>5
  <2> QED  BY <2>7, <2>8, <2>9, <2>10, <2>11 DEF selected, top
<1> QED  BY <1>5, <1>6

\* A comparison of two documents shows both of them if both have a candidate, and for that at
\* most one of the three best candidates gives way (rag/comparison_route_coverage.py), for any
\* candidates. With another top_k or number of documents the code selects nothing.
THEOREM CoverageCostsOne ==
  ASSUME TopK = 3, Cardinality(Routes) = 2
  PROVE  AssemblySpec => []CoverageDisplacesOne
<1>1. AssemblyInv => CoverageDisplacesOne
  <2> SUFFICES ASSUME AssemblyInv, stage = "build", request.comparison, ~request.reranker,
                      Len(fused) >= TopK
               PROVE  CoverageDisplacesOne
    BY DEF CoverageDisplacesOne
  <2>1. /\ fused \in Seq(Chunk) /\ IsInjective(fused) /\ request.comparison = TRUE
        /\ chosen = SelectCovering(fused, Routes, TopK, request.comparison)
    BY DEF AssemblyInv, AssemblyTypeOK, ChosenFromFused, RetrievedK
  <2>2. chosen = SelectCovering(fused, Routes, 3, TRUE) /\ Len(fused) >= 3
    BY <2>1
  <2>3. /\ Len(chosen) = 3
        /\ {ChunkOf[c] : c \in ToSet(chosen)} = {ChunkOf[c] : c \in ToSet(fused)}
        /\ chosen = Picked(fused, {i \in DOMAIN fused : fused[i] \in ToSet(chosen)})
        /\ Cardinality(ToSet(Top(fused, 3)) \ ToSet(chosen)) <= 1
    BY <2>1, <2>2, CoverageSelects
  <2> QED  BY <2>3 DEF CoverageDisplacesOne
<1> QED  BY <1>1, AssemblyInvariant, PTL

-----------------------------------------------------------------------------
(* The audit of claims. *)

LEMMA ValidCitesIncrease ==
  ASSUME NEW n \in Nat, NEW evidence, DOMAIN evidence = 1..n,
         NEW claim, claim.cites \in Seq(Int), CitationsValid(claim, evidence)
  PROVE  /\ Increasing(claim.cites, Len(claim.cites))
         /\ ToSet(claim.cites) \in SUBSET (1..n)
         /\ IsFiniteSet(ToSet(claim.cites)) /\ Cardinality(ToSet(claim.cites)) = Len(claim.cites)
         /\ Ascending(ToSet(claim.cites)) = claim.cites
<1> DEFINE cites == claim.cites
           m == Len(cites)
<1>1. m \in Nat /\ cites \in [1..m -> Int]
  OBVIOUS
<1>2. \A i \in 1..m : cites[i] \in 1..n
  BY <1>1 DEF CitationsValid
<1>3. \A i, j \in 1..m : i < j => cites[i] < cites[j]
  BY <1>1 DEF CitationsValid
<1> HIDE DEF cites, m
<1>4. Increasing(cites, m)
  BY <1>1, <1>3 DEF Increasing
<1>5. ToSet(cites) \in SUBSET (1..n)
  BY <1>1, <1>2 DEF ToSet
<1>6. /\ IsFiniteSet(ToSet(cites)) /\ Cardinality(ToSet(cites)) = m
      /\ Ascending(ToSet(cites)) = cites
  BY <1>4, IncreasingIsSorted
<1> QED  BY <1>4, <1>5, <1>6 DEF cites, m

\* The audit of the cited set reads the quotes the check of the answer reads.
LEMMA SameQuotes ==
  ASSUME NEW n \in Nat, NEW evidence, DOMAIN evidence = 1..n,
         NEW claim, claim.cites \in Seq(Int), CitationsValid(claim, evidence)
  PROVE  LET cited == ToSet(claim.cites) IN
         [i \in 1..Cardinality(cited) |-> evidence[Ascending(cited)[i]].quote]
           = Quotes(claim, evidence)
<1>1. DOMAIN claim.cites = 1..Len(claim.cites)
  OBVIOUS
<1>2. /\ Cardinality(ToSet(claim.cites)) = Len(claim.cites)
      /\ Ascending(ToSet(claim.cites)) = claim.cites
  BY ValidCitesIncrease
<1> QED  BY <1>1, <1>2 DEF Quotes

LEMMA VerifiersTellTheSame ==
  ASSUME NEW n \in Nat, NEW evidence, DOMAIN evidence = 1..n,
         NEW claim, claim.cites \in Seq(Int), NEW owner, NEW current
  PROVE  VerifiersAgree(claim, evidence, owner, current)
<1> DEFINE cited == ToSet(claim.cites)
           quotes == Quotes(claim, evidence)
           bound == Bound(claim, evidence)
           supported == Supported(Clauses(claim), bound)
           disclosed == "conflict" \in Claimed(claim).marks
           kept == VerifyClaim(claim, evidence)
           audit == AuditClaim(claim, evidence, owner, current, FALSE).status
<1> SUFFICES ASSUME CitationsValid(claim, evidence),
                    IdentitiesValid(cited, evidence, owner, current)
             PROVE  /\ kept = "SUPPORTED" <=> audit = "SUPPORTED_BY_EVIDENCE_SET"
                    /\ kept = "CONFLICTING_EVIDENCE" => audit = "CONFLICTING_EVIDENCE"
  BY DEF VerifiersAgree
<1>1. audit = Classify(claim, cited, evidence)
  BY DEF AuditClaim
<1>2. [i \in 1..Cardinality(cited) |-> evidence[Ascending(cited)[i]].quote] = quotes
  BY SameQuotes
<1>3. bound = Join(ToSet(quotes))
  BY DEF Bound
<1>4. ~ \E i \in DOMAIN quotes : quotes[i] = Empty
  BY DEF IdentitiesValid, Quotes, ToSet
<1> HIDE DEF quotes, bound, cited, audit
<1>5. /\ audit = "CONFLICTING_EVIDENCE" <=> Conflicts(quotes) # {}
      /\ audit = "SUPPORTED_BY_EVIDENCE_SET" <=>
           Conflicts(quotes) = {} /\ ~disclosed /\ ~SafeLimitation(claim) /\ supported
  BY <1>1, <1>2, <1>3 DEF Classify
<1>6. /\ kept = "SUPPORTED" <=>
           Conflicts(quotes) = {} /\ ~disclosed /\ ~SafeLimitation(claim) /\ supported
      /\ kept = "CONFLICTING_EVIDENCE" => Conflicts(quotes) # {}
  BY <1>4 DEF VerifyClaim, quotes, bound
<1> QED  BY <1>5, <1>6

\* Two things make at least two.
LEMMA AtLeastTwo ==
  ASSUME NEW S, IsFiniteSet(S), NEW x \in S, NEW y \in S, x # y
  PROVE  Cardinality(S) >= 2
<1>1. Cardinality({x, y}) = 2 /\ {x, y} \in SUBSET S
  BY TwoThings
<1>2. Cardinality({x, y}) <= Cardinality(S) /\ Cardinality(S) \in Nat
  BY <1>1, FS_Subset, FS_CardinalityType
<1> QED  BY <1>1, <1>2

\* A union of finitely many finite sets.
LEMMA UnionIsFinite ==
  ASSUME NEW m \in Nat, NEW f, \A i \in 1..m : IsFiniteSet(f[i])
  PROVE  IsFiniteSet(UNION {f[i] : i \in 1..m})
<1> DEFINE S == {f[i] : i \in 1..m}
<1>1. IsFiniteSet(1..m)
  <2>1. 1 \in Int /\ m \in Int
    OBVIOUS
  <2> QED  BY <2>1, FS_Interval
<1>2. [i \in 1..m |-> f[i]] \in Surjection(1..m, S)
  BY DEF Surjection
<1>3. IsFiniteSet(S)
  <2> DEFINE g == [i \in 1..m |-> f[i]]
  <2> HIDE DEF S, g
  <2>1. g \in Surjection(1..m, S)
    BY <1>2 DEF g
  <2> QED  BY <1>1, <2>1, FS_Surjection
<1>4. \A T \in S : IsFiniteSet(T)
  OBVIOUS
<1> HIDE DEF S
<1> QED  BY <1>3, <1>4, FS_UNION DEF S

\* Quotes without a conflict give a unit one value, or one quote gives it both.
NoneDisagree(quotes, m) ==
  \A i, k \in 1..m : \A f \in quotes[i].facts, g \in quotes[k].facts :
    f[1] = g[1] /\ f # g => i = k

LEMMA NoConflictNoneDisagree ==
  ASSUME NEW m \in Nat, NEW quotes, DOMAIN quotes = 1..m, \A i \in 1..m : IsText(quotes[i]),
         Conflicts(quotes) = {}
  PROVE  NoneDisagree(quotes, m)
<1> SUFFICES ASSUME NEW i \in 1..m, NEW k \in 1..m,
                    NEW f \in quotes[i].facts, NEW g \in quotes[k].facts,
                    f[1] = g[1], f # g, i # k
             PROVE  FALSE
  BY DEF NoneDisagree
<1> DEFINE unit == f[1]
           speaking == {h \in DOMAIN quotes : unit \in Units(quotes[h])}
           values == UNION {Values(quotes[h], unit) : h \in speaking}
<1>1. f = <<f[1], f[2]>> /\ g = <<g[1], g[2]>> /\ f[2] # g[2]
  BY DEF IsText
<1>2. i \in speaking /\ k \in speaking
  BY DEF Units
<1>3. f[2] \in values /\ g[2] \in values
  BY <1>2 DEF Values
<1>4. IsFiniteSet(speaking)
  <2>1. IsFiniteSet(1..m) /\ speaking \in SUBSET (1..m)
    BY FS_Interval
  <2> QED  BY <2>1, FS_Subset
<1>5. IsFiniteSet(values)
  <2> DEFINE all == [h \in 1..m |-> {v[2] : v \in quotes[h].facts}]
  <2>1. \A h \in 1..m : IsFiniteSet(all[h])
    <3> SUFFICES ASSUME NEW h \in 1..m
                 PROVE  IsFiniteSet(all[h])
      OBVIOUS
    <3> DEFINE S == quotes[h].facts
               T == {v[2] : v \in S}
               second == [v \in S |-> v[2]]
    <3>1. IsFiniteSet(S)
      BY DEF IsText
    <3>2. second \in Surjection(S, T)
      BY DEF Surjection
    <3>3. all[h] = T
      OBVIOUS
    <3> HIDE DEF S, T, second, all
    <3> QED  BY <3>1, <3>2, <3>3, FS_Surjection
  <2>2. values \subseteq UNION {all[h] : h \in 1..m}
    <3> SUFFICES ASSUME NEW h \in speaking, NEW v \in Values(quotes[h], unit)
                 PROVE  \E l \in 1..m : v \in all[l]
      OBVIOUS
    <3> QED  BY DEF Values
  <2> HIDE DEF all, values
  <2>3. IsFiniteSet(UNION {all[h] : h \in 1..m})
    BY <2>1, UnionIsFinite
  <2>4. values \in SUBSET (UNION {all[h] : h \in 1..m})
    BY <2>2
  <2> QED  BY <2>3, <2>4, FS_Subset
<1>6. Cardinality(speaking) >= 2
  <2> HIDE DEF speaking
  <2> QED  BY <1>2, <1>4, AtLeastTwo
<1>7. Cardinality(values) >= 2
  <2> HIDE DEF values
  <2> QED  BY <1>1, <1>3, <1>5, AtLeastTwo
<1>8. Conflicting(quotes, unit)
  BY <1>6, <1>7 DEF Conflicting
<1>9. unit \in UNION {Units(quotes[h]) : h \in DOMAIN quotes}
  BY DEF Units
<1> QED  BY <1>8, <1>9 DEF Conflicts

\* A set of positions that is classified as supported states the facts of the claim, and
\* only one quote of it gives a unit two values.
StatesFacts(claim, evidence, positions) ==
  LET stated == UNION {evidence[p].quote.facts : p \in positions} IN
  /\ Claimed(claim).facts \subseteq stated
  /\ \A f, g \in stated : f[1] = g[1] /\ f # g =>
       \E p \in positions : {f, g} \subseteq evidence[p].quote.facts

LEMMA SupportedStatesFacts ==
  ASSUME NEW n \in Nat, NEW evidence, DOMAIN evidence = 1..n,
         \A p \in 1..n : IsText(evidence[p].quote),
         NEW claim, NEW positions \in SUBSET (1..n),
         Classify(claim, positions, evidence) = "SUPPORTED_BY_EVIDENCE_SET"
  PROVE  StatesFacts(claim, evidence, positions)
<1> DEFINE stated == UNION {evidence[p].quote.facts : p \in positions}
           order == Ascending(positions)
           m == Cardinality(positions)
           quotes == [i \in 1..m |-> evidence[order[i]].quote]
<1>1. m \in Nat /\ order \in [1..m -> positions] /\ ToSet(order) = positions
  <2>1. IsFiniteSet(1..n)
    <3>1. 1 \in Int /\ n \in Int
      OBVIOUS
    <3> QED  BY <3>1, FS_Interval
  <2>2. IsFiniteSet(positions)
    BY <2>1, FS_Subset
  <2>3. positions \in SUBSET Int
    OBVIOUS
  <2> QED  BY <2>2, <2>3, AscendingSorts
<1>2. Conflicts(quotes) = {} /\ Supported(Clauses(claim), Join(ToSet(quotes)))
  BY DEF Classify
<1> HIDE DEF order, m
<1>3. \A p \in positions : \E i \in 1..m : order[i] = p
  BY <1>1 DEF ToSet
<1>4. \A i \in 1..m : order[i] \in positions /\ quotes[i] = evidence[order[i]].quote
  BY <1>1
<1>5. DOMAIN quotes = 1..m
  OBVIOUS
<1> HIDE DEF quotes
<1>6. Join(ToSet(quotes)).facts \subseteq stated
  <2>1. Join(ToSet(quotes)).facts = UNION {q.facts : q \in ToSet(quotes)}
    BY DEF Join
  <2>2. \A q \in ToSet(quotes) : \E p \in positions : q = evidence[p].quote
    BY <1>4, <1>5 DEF ToSet
  <2> QED  BY <2>1, <2>2
<1>7. Claimed(claim).facts \subseteq stated
  BY <1>2, <1>6 DEF Supported, Claimed
<1>8. ASSUME NEW f \in stated, NEW g \in stated, f[1] = g[1], f # g
      PROVE  \E p \in positions : {f, g} \subseteq evidence[p].quote.facts
  <2>1. PICK p \in positions : f \in evidence[p].quote.facts
    OBVIOUS
  <2>2. PICK r \in positions : g \in evidence[r].quote.facts
    OBVIOUS
  <2>3. PICK i \in 1..m : order[i] = p
    BY <1>3
  <2>4. PICK k \in 1..m : order[k] = r
    BY <1>3
  <2>5. f \in quotes[i].facts /\ g \in quotes[k].facts
    BY <1>4, <2>1, <2>2, <2>3, <2>4
  <2>6. \A h \in 1..m : IsText(quotes[h])
    BY <1>4
  <2>7. NoneDisagree(quotes, m)
    BY <1>1, <1>2, <1>5, <2>6, NoConflictNoneDisagree
  <2>8. i = k
    BY <1>8, <2>5, <2>7 DEF NoneDisagree
  <2> QED  BY <2>1, <2>2, <2>3, <2>4, <2>8
<1> QED  BY <1>7, <1>8 DEF StatesFacts

LEMMA ResultFields ==
  ASSUME NEW positions, NEW status, NEW r, r = [positions |-> positions, status |-> status]
  PROVE  r.positions = positions /\ r.status = status
OBVIOUS

LEMMA NeighboursOnlyDecide ==
  ASSUME NEW n \in Nat, NEW evidence, DOMAIN evidence = 1..n,
         \A p \in 1..n : IsText(evidence[p].quote),
         NEW claim, claim.cites \in Seq(Int), NEW owner, NEW current
  PROVE  AdjacencyOnlyDecides(claim, evidence, owner, current)
<1> DEFINE cited == ToSet(claim.cites)
           base == Classify(claim, cited, evidence)
           deciding == {p \in Adjacent(cited, evidence, owner, current) :
                          Classify(claim, cited \cup {p}, evidence) \in Decided}
           plain == AuditClaim(claim, evidence, owner, current, FALSE)
           wide == AuditClaim(claim, evidence, owner, current, TRUE)
           valid == CitationsValid(claim, evidence) /\ IdentitiesValid(cited, evidence, owner, current)
           first == CHOOSE p \in deciding : \A r \in deciding : p <= r
<1>1. CASE ~ valid
  <2>1. wide = plain /\ plain.status = "INSUFFICIENT_EVIDENCE"
    BY <1>1 DEF AuditClaim
  <2> QED  BY <2>1 DEF AdjacencyOnlyDecides
<1>2. CASE valid
  <2>1. cited \in SUBSET (1..n)
    BY <1>2, ValidCitesIncrease
  <2>2. plain = [positions |-> cited, status |-> base]
    BY <1>2 DEF AuditClaim
  <2>3. plain.positions = cited /\ plain.status = base
    <3> HIDE DEF plain, cited, base
    <3> QED  BY <2>2, ResultFields
  <2>4. CASE base \in Decided \/ deciding = {}
    <3>1. wide = [positions |-> cited, status |-> base]
      BY <1>2, <2>4 DEF AuditClaim
    <3>2. wide = plain
      BY <2>2, <3>1
    <3> HIDE DEF wide, plain
    <3>3. wide.status = "SUPPORTED_BY_EVIDENCE_SET" =>
            StatesFacts(claim, evidence, wide.positions)
      BY <2>1, <2>3, <3>2, SupportedStatesFacts
    <3> QED  BY <3>2, <3>3 DEF AdjacencyOnlyDecides, StatesFacts, wide, plain
  <2>5. CASE base \notin Decided /\ deciding # {}
    <3>1. deciding \in SUBSET (1..n) /\ deciding \in SUBSET Nat
      BY DEF Adjacent
    <3>2. first \in deciding
      <4> HIDE DEF deciding
      <4>1. \E p \in deciding : \A r \in deciding : p <= r
        BY <2>5, <3>1, LeastExists
      <4> QED  BY <4>1
    <3>3. wide = [positions |-> cited \cup {first},
                  status |-> Classify(claim, cited \cup {first}, evidence)]
      BY <1>2, <2>5 DEF AuditClaim
    <3>4. first \in 1..n /\ first \in Adjacent(cited, evidence, owner, current)
      BY <3>1, <3>2
    <3> HIDE DEF first, deciding
    <3>5. /\ wide.positions = cited \cup {first}
          /\ wide.status = Classify(claim, cited \cup {first}, evidence)
      <4> DEFINE enlarged == cited \cup {first}
                 status == Classify(claim, enlarged, evidence)
      <4>1. wide = [positions |-> enlarged, status |-> status]
        BY <3>3
      <4> HIDE DEF wide, enlarged, status
      <4>2. wide.positions = enlarged /\ wide.status = status
        BY <4>1, ResultFields
      <4> QED  BY <4>2 DEF enlarged, status
    <3>6. \E r \in cited : /\ evidence[first].version = evidence[r].version
                           /\ evidence[first].owner = owner /\ evidence[first].active
      BY <3>4 DEF Adjacent, IdentitiesValid
    <3>7. plain.status \notin Decided
      BY <2>3, <2>5
    <3> HIDE DEF wide, plain, cited
    <3>8. \A p \in wide.positions \ plain.positions : p = first
      BY <2>3, <3>5
    <3>9. wide.status = "SUPPORTED_BY_EVIDENCE_SET" =>
            StatesFacts(claim, evidence, wide.positions)
      <4> DEFINE enlarged == cited \cup {first}
      <4>1. enlarged \in SUBSET (1..n)
        BY <2>1, <3>4
      <4> HIDE DEF enlarged
      <4>2. Classify(claim, enlarged, evidence) = "SUPPORTED_BY_EVIDENCE_SET" =>
              StatesFacts(claim, evidence, enlarged)
        BY <4>1, SupportedStatesFacts
      <4> QED  BY <3>5, <4>2 DEF enlarged
    <3>10. \A p \in wide.positions \ plain.positions : \E r \in plain.positions :
             /\ evidence[p].version = evidence[r].version
             /\ evidence[p].owner = owner /\ evidence[p].active
      BY <2>3, <3>6, <3>8
    <3> QED  BY <3>7, <3>9, <3>10 DEF AdjacencyOnlyDecides, StatesFacts, wide, plain
  <2> QED  BY <2>4, <2>5
<1> QED  BY <1>1, <1>2

(* The audit of a pack of claims sees the shown evidence only. *)

Shown(evidence, owner) ==
  [i \in DOMAIN evidence |->
     [evidence[i] EXCEPT !.owner = owner, !.active = TRUE, !.previous = 0, !.next = 0]]

LastOf(evidence, field, value) ==
  CHOOSE i \in DOMAIN evidence :
    evidence[i][field] = value /\ \A j \in DOMAIN evidence : evidence[j][field] = value => j <= i

Implied(evidence) ==
  [versions |-> [d \in {evidence[i].document : i \in DOMAIN evidence} |->
                   evidence[LastOf(evidence, "document", d)].version],
   chunks |-> [c \in {evidence[i].chunk : i \in DOMAIN evidence} |->
                 <<evidence[LastOf(evidence, "chunk", c)].document,
                   evidence[LastOf(evidence, "chunk", c)].version>>]]

\* A set of positions has a last one.
LEMMA LastExists ==
  ASSUME NEW n \in Nat, NEW S \in SUBSET (1..n), S # {}
  PROVE  \E i \in S : \A j \in S : j <= i
<1> DEFINE mirrored == {k \in Nat : k <= n /\ n - k \in S}
<1>1. PICK p \in S : TRUE
  OBVIOUS
<1>2. n - p \in mirrored
  <2>1. p \in 1..n /\ n - p \in Nat /\ n - p <= n /\ n - (n - p) = p
    OBVIOUS
  <2> QED  BY <2>1
<1>3. mirrored \in SUBSET Nat /\ mirrored # {}
  BY <1>2
<1>4. PICK k \in mirrored : \A l \in mirrored : k <= l
  <2> HIDE DEF mirrored
  <2> QED  BY <1>3, LeastExists
<1>5. n - k \in S /\ k \in Nat
  OBVIOUS
<1>6. ASSUME NEW j \in S PROVE j <= n - k
  <2>1. j \in 1..n /\ n - j \in Nat /\ n - j <= n /\ n - (n - j) = j
    OBVIOUS
  <2>2. n - j \in mirrored
    BY <2>1
  <2>3. k <= n - j
    BY <1>4, <2>2
  <2> QED  BY <1>5, <2>1, <2>3
<1> QED  BY <1>5, <1>6

LEMMA LastOfIsOne ==
  ASSUME NEW n \in Nat, NEW evidence, DOMAIN evidence = 1..n,
         NEW field, NEW p \in 1..n
  PROVE  /\ LastOf(evidence, field, evidence[p][field]) \in 1..n
         /\ evidence[LastOf(evidence, field, evidence[p][field])][field] = evidence[p][field]
<1> DEFINE value == evidence[p][field]
           S == {i \in 1..n : evidence[i][field] = value}
<1>1. S \in SUBSET (1..n) /\ S # {}
  OBVIOUS
<1>2. PICK i \in S : \A j \in S : j <= i
  <2> HIDE DEF S
  <2> QED  BY <1>1, LastExists
<1>3. \E i0 \in DOMAIN evidence : /\ evidence[i0][field] = value
                                  /\ \A j \in DOMAIN evidence : evidence[j][field] = value => j <= i0
  BY <1>2
<1> HIDE DEF value
<1>4. /\ LastOf(evidence, field, value) \in DOMAIN evidence
      /\ evidence[LastOf(evidence, field, value)][field] = value
  BY <1>3 DEF LastOf
<1> QED  BY <1>4 DEF value

SameQuoted(n, shown, evidence) == \A p \in 1..n : shown[p].quote = evidence[p].quote

SameElsewise(n, shown, evidence, owner) == \A p \in 1..n :
  /\ shown[p].chunk = evidence[p].chunk
  /\ shown[p].document = evidence[p].document /\ shown[p].version = evidence[p].version
  /\ shown[p].owner = owner /\ shown[p].active = TRUE

\* What the shown items keep.
LEMMA ShownKeeps ==
  ASSUME NEW n \in Nat, NEW evidence, DOMAIN evidence = 1..n,
         \A p \in 1..n : IsItem(evidence[p]), NEW owner
  PROVE  /\ SameQuoted(n, Shown(evidence, owner), evidence)
         /\ SameElsewise(n, Shown(evidence, owner), evidence, owner)
<1> SUFFICES ASSUME NEW p \in 1..n
             PROVE  LET shown == Shown(evidence, owner) IN
                    /\ shown[p].quote = evidence[p].quote
                    /\ shown[p].chunk = evidence[p].chunk
                    /\ shown[p].document = evidence[p].document
                    /\ shown[p].version = evidence[p].version
                    /\ shown[p].owner = owner /\ shown[p].active = TRUE
  BY DEF SameQuoted, SameElsewise
<1> DEFINE item == evidence[p]
           chunk == item.chunk
           document == item.document
           version == item.version
           itsOwner == item.owner
           active == item.active
           previous == item.previous
           next == item.next
           quote == item.quote
<1>1. item = [chunk |-> chunk, document |-> document, version |-> version, owner |-> itsOwner,
              active |-> active, previous |-> previous, next |-> next, quote |-> quote]
  BY DEF IsItem
<1>2. Shown(evidence, owner)[p] =
        [item EXCEPT !.owner = owner, !.active = TRUE, !.previous = 0, !.next = 0]
  BY DEF Shown
<1> HIDE DEF item, chunk, document, version, itsOwner, active, previous, next, quote
<1>3. Shown(evidence, owner)[p] =
        [chunk |-> chunk, document |-> document, version |-> version, owner |-> owner,
         active |-> TRUE, previous |-> 0, next |-> 0, quote |-> quote]
  BY <1>1, <1>2
<1>4. LET shown == Shown(evidence, owner)[p] IN
      /\ shown.quote = quote /\ shown.chunk = chunk /\ shown.document = document
      /\ shown.version = version /\ shown.owner = owner /\ shown.active = TRUE
  BY <1>3
<1> QED  BY <1>4 DEF item, chunk, document, version, quote

\* Quotes decide the classification.
LEMMA SameClassification ==
  ASSUME NEW n \in Nat, NEW evidence, NEW shown,
         SameQuoted(n, shown, evidence), NEW claim, NEW positions \in SUBSET (1..n)
  PROVE  Classify(claim, positions, shown) = Classify(claim, positions, evidence)
<1> DEFINE order == Ascending(positions)
           m == Cardinality(positions)
<1>1. m \in Nat /\ order \in [1..m -> positions]
  <2>1. IsFiniteSet(1..n)
    <3>1. 1 \in Int /\ n \in Int
      OBVIOUS
    <3> QED  BY <3>1, FS_Interval
  <2>2. IsFiniteSet(positions)
    BY <2>1, FS_Subset
  <2>3. positions \in SUBSET Int
    OBVIOUS
  <2> QED  BY <2>2, <2>3, AscendingSorts
<1> HIDE DEF order, m
<1>2. [i \in 1..m |-> shown[order[i]].quote] = [i \in 1..m |-> evidence[order[i]].quote]
  BY <1>1 DEF SameQuoted
<1> QED  BY <1>2 DEF Classify, order, m

\* Evidence that is current looks current to a reader who has only that evidence.
LEMMA ShownLooksCurrent ==
  ASSUME NEW n \in Nat, NEW evidence, DOMAIN evidence = 1..n,
         \A p \in 1..n : IsItem(evidence[p]), NEW owner, NEW current,
         IdentitiesValid(1..n, evidence, owner, current), NEW positions \in SUBSET (1..n)
  PROVE  IdentitiesValid(positions, Shown(evidence, owner), owner, Implied(evidence))
<1> DEFINE shown == Shown(evidence, owner)
           implied == Implied(evidence)
<1>1. SameQuoted(n, shown, evidence) /\ SameElsewise(n, shown, evidence, owner)
  BY ShownKeeps
<1>2. \A p \in 1..n :
        /\ current.versions[evidence[p].document] = evidence[p].version
        /\ current.chunks[evidence[p].chunk] = <<evidence[p].document, evidence[p].version>>
        /\ evidence[p].quote # Empty
  BY DEF IdentitiesValid
<1>3. \A p, r \in 1..n : evidence[p].chunk = evidence[r].chunk => p = r
  BY DEF IdentitiesValid
<1>4. DOMAIN evidence = 1..n
  OBVIOUS
<1> HIDE DEF shown
<1>5. ASSUME NEW p \in 1..n
      PROVE  /\ evidence[p].document \in DOMAIN implied.versions
             /\ implied.versions[evidence[p].document] = evidence[p].version
  <2> DEFINE d == evidence[p].document
             l == LastOf(evidence, "document", d)
  <2>1. l \in 1..n /\ evidence[l].document = d
    BY <1>4, LastOfIsOne
  <2>2. d \in {evidence[i].document : i \in DOMAIN evidence}
    BY <1>4
  <2>3. d \in DOMAIN implied.versions /\ implied.versions[d] = evidence[l].version
    <3> HIDE DEF d
    <3> QED  BY <2>2 DEF Implied
  <2>4. evidence[l].version = evidence[p].version
    <3> HIDE DEF l
    <3> QED  BY <1>2, <2>1
  <2> QED  BY <2>3, <2>4
<1>6. ASSUME NEW p \in 1..n
      PROVE  /\ evidence[p].chunk \in DOMAIN implied.chunks
             /\ implied.chunks[evidence[p].chunk] = <<evidence[p].document, evidence[p].version>>
  <2> DEFINE c == evidence[p].chunk
             l == LastOf(evidence, "chunk", c)
  <2>1. l \in 1..n /\ evidence[l].chunk = c
    BY <1>4, LastOfIsOne
  <2>2. c \in {evidence[i].chunk : i \in DOMAIN evidence}
    BY <1>4
  <2>3. c \in DOMAIN implied.chunks
        /\ implied.chunks[c] = <<evidence[l].document, evidence[l].version>>
    <3> HIDE DEF c
    <3> QED  BY <2>2 DEF Implied
  <2>4. l = p
    <3> HIDE DEF l
    <3> QED  BY <1>3, <2>1
  <2> QED  BY <2>3, <2>4
<1> HIDE DEF implied
<1>7. \A p \in positions : p \in 1..n
  OBVIOUS
<1>8. IdentitiesValid(positions, shown, owner, implied)
  BY <1>1, <1>2, <1>3, <1>5, <1>6, <1>7 DEF IdentitiesValid, SameQuoted, SameElsewise
<1> QED  BY <1>8 DEF shown, implied

\* All places pick the whole sequence.
LEMMA PickedWhole ==
  ASSUME NEW n \in Nat, NEW s, s = [i \in 1..n |-> s[i]]
  PROVE  Picked(s, 1..n) = s
<1> DEFINE id == [i \in 1..n |-> i]
<1>1. ToSet(id) = 1..n
  BY PlacesListThemselves
<1>2. Increasing(id, n)
  BY DEF Increasing
<1>3. Ascending(1..n) = id
  BY <1>1, <1>2, IncreasingIsSorted
<1> QED  BY <1>3 DEF Picked

LEMMA SecondLookAgrees ==
  ASSUME NEW n \in Nat, NEW evidence, evidence = [i \in 1..n |-> evidence[i]],
         \A p \in 1..n : IsItem(evidence[p]), NEW owner, NEW current,
         NEW claim, claim.cites \in Seq(Int)
  PROVE  PackAuditAgrees(claim, evidence, owner, current)
<1> DEFINE shown == Shown(evidence, owner)
           implied == Implied(evidence)
           cited == ToSet(claim.cites)
           first == AuditClaim(claim, evidence, owner, current, FALSE)
           second == AuditClaim(claim, shown, owner, implied, FALSE)
           pack == PackAudit(<<claim>>, evidence, owner)
           records == [i \in DOMAIN <<claim>> |-> AuditClaim(<<claim>>[i], shown, owner, implied, FALSE)]
           several == {i \in DOMAIN records : Cardinality(records[i].positions) >= 2}
<1>1. DOMAIN evidence = 1..n /\ DOMAIN shown = 1..n
  BY DEF Shown
<1> SUFFICES ASSUME evidence # <<>>, IdentitiesValid(1..n, evidence, owner, current)
             PROVE  /\ pack.records = <<first>>
                    /\ pack.status = "PASS" =>
                         CitationsValid(claim, evidence) /\ Len(claim.cites) >= 2
  BY <1>1 DEF PackAuditAgrees
<1>2. pack = [status |-> IF several = {} THEN "FAIL" ELSE "PASS", records |-> records]
  <2>1. {i \in DOMAIN evidence : evidence[i].quote # Empty} = 1..n
    BY <1>1 DEF IdentitiesValid
  <2>2. WithQuotes(evidence) = evidence
    BY <2>1, PickedWhole DEF WithQuotes
  <2> DEFINE quoted == WithQuotes(evidence)
             again == [i \in DOMAIN <<claim>> |->
                         AuditClaim(<<claim>>[i], Shown(quoted, owner), owner, Implied(quoted), FALSE)]
             cites == {i \in DOMAIN again : Cardinality(again[i].positions) >= 2}
  <2>3. pack = IF quoted = <<>> THEN [status |-> "FAIL", records |-> <<>>]
               ELSE [status |-> IF cites = {} THEN "FAIL" ELSE "PASS", records |-> again]
    <3> HIDE DEF shown, implied, cited, first, second, records, several
    <3> QED  BY DEF PackAudit, Shown, Implied, LastOf
  <2>4. quoted = evidence
    BY <2>2
  <2> HIDE DEF pack, quoted
  <2>5. again = records
    BY <2>4
  <2>6. cites = several
    <3> HIDE DEF again, records
    <3> QED  BY <2>5
  <2> HIDE DEF again, records, cites, several
  <2> QED  BY <2>3, <2>4, <2>5, <2>6
<1>3. records = <<second>>
  <2> DEFINE one == <<claim>>
  <2>1. DOMAIN one = {1} /\ one[1] = claim
    OBVIOUS
  <2> HIDE DEF one, shown, implied
  <2>2. [i \in DOMAIN one |-> AuditClaim(one[i], shown, owner, implied, FALSE)]
          = [i \in {1} |-> second]
    BY <2>1
  <2>3. records = [i \in {1} |-> second]
    BY <2>2 DEF one
  <2> HIDE DEF records, second
  <2> QED  BY <2>3
<1>4. CitationsValid(claim, shown) <=> CitationsValid(claim, evidence)
  BY <1>1 DEF CitationsValid
<1>5. CASE ~ CitationsValid(claim, evidence)
  <2>1. /\ first = [positions |-> {}, status |-> "INSUFFICIENT_EVIDENCE"]
        /\ second = [positions |-> {}, status |-> "INSUFFICIENT_EVIDENCE"]
    BY <1>4, <1>5 DEF AuditClaim
  <2>2. second.positions = {} /\ Cardinality(second.positions) = 0
    <3> HIDE DEF second
    <3>1. second.positions = {}
      BY <2>1, ResultFields
    <3> QED  BY <3>1, FS_EmptySet
  <2> HIDE DEF records, first, second, pack
  <2>3. several = {}
    <3>1. \A i \in DOMAIN records : records[i] = second
      BY <1>3
    <3>2. \A i \in DOMAIN records : Cardinality(records[i].positions) = 0
      BY <2>2, <3>1
    <3>3. \A i \in DOMAIN records : ~ (Cardinality(records[i].positions) >= 2)
      BY <3>2
    <3> QED  BY <3>3
  <2>4. pack.status = "FAIL" /\ pack.records = <<second>>
    BY <1>2, <1>3, <2>3
  <2> QED  BY <2>1, <2>4
<1>6. CASE CitationsValid(claim, evidence)
  <2>1. cited \in SUBSET (1..n) /\ Cardinality(cited) = Len(claim.cites)
    BY <1>1, <1>6, ValidCitesIncrease
  <2>2. IdentitiesValid(cited, evidence, owner, current)
    BY <2>1 DEF IdentitiesValid
  <2>3. IdentitiesValid(cited, shown, owner, implied)
    BY <2>1, ShownLooksCurrent
  <2>4. Classify(claim, cited, shown) = Classify(claim, cited, evidence)
    <3>1. SameQuoted(n, shown, evidence)
      BY ShownKeeps
    <3> HIDE DEF shown, cited
    <3> QED  BY <2>1, <3>1, SameClassification
  <2>5. first = [positions |-> cited, status |-> Classify(claim, cited, evidence)]
    BY <1>6, <2>2 DEF AuditClaim
  <2>6. second = [positions |-> cited, status |-> Classify(claim, cited, shown)]
    <3> HIDE DEF shown, implied
    <3> QED  BY <1>4, <1>6, <2>3 DEF AuditClaim
  <2>7. first = second
    BY <2>4, <2>5, <2>6
  <2>8. second.positions = cited
    <3> DEFINE status == Classify(claim, cited, shown)
    <3> HIDE DEF second, cited, status
    <3> QED  BY <2>6, ResultFields DEF status
  <2> HIDE DEF records, first, second, cited
  <2>9. pack.records = <<first>>
    <3> DEFINE verdict == IF several = {} THEN "FAIL" ELSE "PASS"
    <3>1. pack = [status |-> verdict, records |-> records]
      BY <1>2
    <3> HIDE DEF verdict, pack
    <3> QED  BY <1>3, <2>7, <3>1
  <2>10. ASSUME pack.status = "PASS" PROVE Len(claim.cites) >= 2
    <3>1. several # {}
      <4> HIDE DEF pack, several
      <4> QED  BY <1>2, <2>10
    <3>2. Cardinality(second.positions) >= 2
      BY <1>3, <3>1
    <3> QED  BY <2>1, <2>8, <3>2
  <2> HIDE DEF pack
  <2> QED  BY <1>6, <2>9, <2>10
<1> QED  BY <1>5, <1>6

\* The deterministic check of a claim, the audit of its evidence set and the audit of a
\* validation pack (rag/claim_evidence.py, validation/competition.py) never contradict one
\* another, for any claim and any evidence.
THEOREM AuditsAgree == AuditSpec => []ClaimAuditSound
<1> DEFINE IsAudit(a) ==
             /\ a.claim.cites \in Seq(Int)
             /\ Len(a.evidence) \in Nat
             /\ a.evidence = [i \in 1..Len(a.evidence) |-> a.evidence[i]]
             /\ \A p \in 1..Len(a.evidence) :
                  IsItem(a.evidence[p]) /\ IsText(a.evidence[p].quote)
           Inv == \A a \in audited : IsAudit(a)
<1>1. AuditInit => Inv
  BY DEF AuditInit
<1>2. Inv /\ [Audit]_audited => Inv'
  <2> SUFFICES ASSUME Inv, [Audit]_audited
               PROVE  Inv'
    OBVIOUS
  <2>1. CASE Audit
    <3>1. PICK claim \in AuditedClaims, evidence \in AuditedEvidence :
            audited' = {[claim |-> claim, evidence |-> evidence]}
      BY <2>1 DEF Audit
    <3>2. /\ claim.cites \in Seq(Int) /\ Len(evidence) \in Nat
          /\ evidence = [i \in 1..Len(evidence) |-> evidence[i]]
          /\ \A p \in 1..Len(evidence) : IsItem(evidence[p]) /\ IsText(evidence[p].quote)
      BY AuditAssumption
    <3> QED  BY <3>1, <3>2
  <2>2. CASE UNCHANGED audited
    BY <2>2
  <2> QED  BY <2>1, <2>2
<1>3. Inv => ClaimAuditSound
  <2> SUFFICES ASSUME NEW a \in audited, IsAudit(a)
               PROVE  /\ VerifiersAgree(a.claim, a.evidence, ExpectedOwner, ActiveIdentities)
                      /\ AdjacencyOnlyDecides(a.claim, a.evidence, ExpectedOwner, ActiveIdentities)
                      /\ PackAuditAgrees(a.claim, a.evidence, ExpectedOwner, ActiveIdentities)
    BY DEF ClaimAuditSound
  <2> DEFINE n == Len(a.evidence)
             evidence == a.evidence
             claim == a.claim
  <2>1. /\ n \in Nat /\ claim.cites \in Seq(Int)
        /\ evidence = [i \in 1..n |-> evidence[i]]
        /\ \A p \in 1..n : IsItem(evidence[p])
        /\ \A p \in 1..n : IsText(evidence[p].quote)
    OBVIOUS
  <2> HIDE DEF n, evidence, claim
  <2>2. DOMAIN evidence = 1..n
    BY <2>1
  <2>3. VerifiersAgree(claim, evidence, ExpectedOwner, ActiveIdentities)
    BY <2>1, <2>2, VerifiersTellTheSame
  <2>4. AdjacencyOnlyDecides(claim, evidence, ExpectedOwner, ActiveIdentities)
    BY <2>1, <2>2, NeighboursOnlyDecide
  <2>5. PackAuditAgrees(claim, evidence, ExpectedOwner, ActiveIdentities)
    BY <2>1, SecondLookAgrees
  <2> QED  BY <2>3, <2>4, <2>5 DEF evidence, claim
<1> QED  BY <1>1, <1>2, <1>3, PTL DEF AuditSpec

=============================================================================
