------------------------------ MODULE Comparison ------------------------------
(***************************************************************************)
(* The queries of a comparison of two documents                            *)
(* (retrieval/comparison_decomposition.py): one for each route, cut from   *)
(* the question at the names of the documents. A question is a sequence of *)
(* clauses, a clause a sequence of tokens: an alias, "connector" (and, vs),*)
(* "shared" (the words that open a tail common to both sides), "compare"   *)
(* and "transition" (the configured markers) or "word". A query is the     *)
(* sequence of the places <<clause, token>> it is put together from.       *)
(***************************************************************************)
EXTENDS Orders, SequencesExt

CONSTANTS
  Token,      \* aliases, kinds of words and other words
  Comparisons \* a question, the aliases of the documents, their ids, the routes, the switch

\* The kinds of words are not names of a document.
IsComparison(q) ==
  /\ q.question \in Seq(Seq(Token))
  /\ q.aliases \in [DOMAIN q.aliases -> SUBSET Token] /\ q.ids \in [DOMAIN q.ids -> Token]
  /\ \A d \in DOMAIN q.aliases : q.aliases[d] \cap {"connector", "shared"} = {}
  /\ \A d \in DOMAIN q.ids : q.ids[d] \notin {"connector", "shared"}
  /\ IsFiniteSet(q.routes)

ASSUME ComparisonAssumption == \A q \in Comparisons : IsComparison(q)

VARIABLE planned \* the comparison of this behaviour, once it was planned

Part(c, from, to) == [n \in 1..(to - from + 1) |-> <<c, from + n - 1>>]
WholeClause(question, c) == Part(c, 1, Len(question[c]))
Everything(question) == FlattenSeq([c \in DOMAIN question |-> WholeClause(question, c)])
Places(question, kind) == {p \in ToSet(Everything(question)) : question[p[1]][p[2]] = kind}
Before(p, r) == p[1] < r[1] \/ (p[1] = r[1] /\ p[2] < r[2])

-----------------------------------------------------------------------------
(* The configuration: the aliases of each document, bound to other document ids. *)

\* load_comparison_decomposition_config and remap_document_identities refuse an alias
\* of two documents, and a map that misses a document or joins two of them.
Unambiguous(aliases) ==
  \A d, e \in DOMAIN aliases : aliases[d] \cap aliases[e] # {} => d = e

Remappable(aliases, ids) ==
  /\ Unambiguous(aliases)
  /\ DOMAIN ids = DOMAIN aliases
  /\ \A d, e \in DOMAIN ids : ids[d] = ids[e] => d = e
  /\ \A d, e \in DOMAIN ids : ids[d] \in aliases[e] => d = e

Remapped(aliases, ids) ==
  [r \in {ids[d] : d \in DOMAIN ids} |->
     LET d == CHOOSE d \in DOMAIN ids : ids[d] = r IN {r} \cup aliases[d]]

-----------------------------------------------------------------------------
(* Where a clause names a document. *)

Named(clause, names) == {t \in DOMAIN clause : clause[t] \in names}
Mentioned(clause, aliases, routes) == {d \in routes : Named(clause, aliases[d]) # {}}
FirstName(clause, names) == Least(Named(clause, names))

\* Mutant: the common tail starts behind the connector.
SplitBehindConnector(question, c, aliases, routes) ==
  LET clause == question[c]
      first(d) == FirstName(clause, aliases[d])
      left == CHOOSE d \in routes : \A e \in routes : first(d) <= first(e)
      right == CHOOSE d \in routes : d # left
      connectors == {t \in first(left)..first(right) : clause[t] = "connector"}
      opening == Greatest(connectors)
  IN IF connectors = {} THEN <<>>
     ELSE [d \in routes |->
             (IF d = left THEN Part(c, first(left), opening - 1)
              ELSE Part(c, first(right), Len(clause)))
               \o Part(c, 1, first(left) - 1) \o Part(c, opening + 1, Len(clause))]

\* _split_bilateral_clause: "prefix LEFT .. connector .. RIGHT .. tail"; each side takes
\* the prefix and the tail, and nothing takes the connector and what is between it and
\* the right name. None is <<>>.
SplitClause(question, c, aliases, routes) ==
  LET clause == question[c]
      first(d) == FirstName(clause, aliases[d])
      left == CHOOSE d \in routes : \A e \in routes : first(d) <= first(e)
      right == CHOOSE d \in routes : d # left
      connectors == {t \in first(left)..first(right) : clause[t] = "connector"}
      tails == {t \in DOMAIN clause : t > first(right) /\ clause[t] = "shared"}
      side(d) == IF d = left THEN Part(c, first(left), Greatest(connectors) - 1)
                 ELSE Part(c, first(right), Least(tails) - 1)
  IN IF connectors = {} \/ tails = {} THEN <<>>
     ELSE [d \in routes |->
             side(d) \o Part(c, 1, first(left) - 1) \o Part(c, Least(tails), Len(clause))]

\* What a clause contributes to each route before the clauses without a name are
\* distributed.
Contribution(question, c, aliases, routes) ==
  LET named == Mentioned(question[c], aliases, routes) IN
  IF named = routes THEN SplitClause(question, c, aliases, routes)
  ELSE [d \in routes |-> IF d \in named THEN WholeClause(question, c) ELSE <<>>]

-----------------------------------------------------------------------------
(* _decompose. *)

Unanchored(question, aliases, routes) ==
  {c \in DOMAIN question : Mentioned(question[c], aliases, routes) = {}}
Anchors(question, aliases, d) == {c \in DOMAIN question : Named(question[c], aliases[d]) # {}}

\* The clauses in front of the only document that is named are about the other one if
\* a transition marker stands between them and its name.
LeadsOver(question, aliases, d) ==
  LET anchor == Least(Anchors(question, aliases, d))
      place == <<anchor, FirstName(question[anchor], aliases[d])>>
  IN anchor > 1 /\ \E p \in Places(question, "transition") : Before(p, place)

Queries(question, aliases, routes) ==
  LET anchored == {d \in routes : Anchors(question, aliases, d) # {}}
      unanchored == Unanchored(question, aliases, routes)
      leading == IF Cardinality(anchored) # 1 THEN {}
                 ELSE LET d == CHOOSE d \in anchored : TRUE IN
                      {c \in unanchored : c < Least(Anchors(question, aliases, d))}
      whole(clauses) == FlattenSeq([i \in DOMAIN clauses |-> WholeClause(question, clauses[i])])
      own(d) == FlattenSeq([c \in DOMAIN question |->
                  Contribution(question, c, aliases, routes)[d]])
      lead(d) == IF d \in anchored THEN <<>> ELSE whole(Ascending(leading))
  IN [d \in routes |-> own(d) \o lead(d) \o whole(Ascending(unanchored \ leading))]

Decomposable(question, aliases, routes) ==
  LET anchored == {d \in routes : Anchors(question, aliases, d) # {}} IN
  /\ question # <<>>
  /\ \A c \in DOMAIN question : Contribution(question, c, aliases, routes) # <<>>
  /\ anchored # {}
  /\ Cardinality(anchored) = 1 => LeadsOver(question, aliases, CHOOSE d \in anchored : TRUE)
  /\ \A d \in routes : Queries(question, aliases, routes)[d] # <<>>

\* plan: whatever is not proven leaves the question to every route.
Refusal(question, aliases, routes, enabled) ==
  IF ~enabled THEN "SWITCH_DISABLED"
  ELSE IF Cardinality(routes) # 2 THEN "ROUTE_COUNT_NOT_TWO"
  ELSE IF question = <<>> THEN "QUESTION_BLANK"
  ELSE IF ~(routes \subseteq DOMAIN aliases) THEN "DOCUMENT_IDENTITY_UNAVAILABLE"
  ELSE IF Places(question, "compare") = {} THEN "COMPARISON_NOT_PROVEN"
  ELSE IF ~Decomposable(question, aliases, routes) THEN "BILATERAL_DECOMPOSITION_UNPROVEN"
  ELSE "none"

Plan(question, aliases, routes, enabled) ==
  LET code == Refusal(question, aliases, routes, enabled) IN
  [code |-> code,
   queries |-> IF code = "none" THEN Queries(question, aliases, routes)
               ELSE [d \in routes |-> Everything(question)]]

-----------------------------------------------------------------------------
(* The decomposer plans one question after the other. *)

PlanInit == planned = {}

PlanQuestion == planned = {} /\ \E q \in Comparisons : planned' = {q}

PlanSpec == PlanInit /\ [][PlanQuestion]_planned

-----------------------------------------------------------------------------
(* Property. *)

\* A decomposed question leaves every route a query. A clause that names one document
\* goes to its route only; one that names none goes to some route, and to both unless
\* it stands before every name; one that names both, each once, gives each route the
\* name of its own document and not the other. A question that is not decomposed goes to every route.
KeepsSides(question, aliases, ids, routes, enabled) ==
  Remappable(aliases, ids) =>
  LET bound == Remapped(aliases, ids)
      plan == Plan(question, bound, routes, enabled)
      places(d) == ToSet(plan.queries[d])
      names == {t \in {Mentioned(question[c], bound, routes) : c \in DOMAIN question} : t # {}}
      first == Least({c \in DOMAIN question : Mentioned(question[c], bound, routes) # {}})
  IN
  IF plan.code # "none" THEN \A d \in routes : plan.queries[d] = Everything(question)
  ELSE
  /\ Unambiguous(bound) /\ names # {}
  /\ \A d \in routes : places(d) # {}
  /\ \A c \in DOMAIN question :
       LET whole == ToSet(WholeClause(question, c))
           named == Mentioned(question[c], bound, routes)
       IN CASE named = {} -> /\ \E d \in routes : whole \subseteq places(d)
                             /\ c > first => \A d \in routes : whole \subseteq places(d)
            [] Cardinality(named) = 1 ->
                 \A d \in routes : IF d \in named THEN whole \subseteq places(d)
                                   ELSE whole \cap places(d) = {}
            [] OTHER ->
                 \A d, e \in routes :
                   LET own == {<<c, t>> : t \in Named(question[c], bound[d])}
                       others == {<<c, t>> : t \in Named(question[c], bound[e])}
                   IN d # e /\ Cardinality(own) = 1 /\ Cardinality(others) = 1 =>
                        own \subseteq places(d) /\ others \cap places(d) = {}

\* So every planned question keeps its sides.
ComparisonKeepsSides == \A q \in planned :
  KeepsSides(q.question, q.aliases, q.ids, q.routes, q.enabled)

=============================================================================
