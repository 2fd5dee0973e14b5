---------------------------- MODULE ClaimEvidence ----------------------------
(***************************************************************************)
(* The deterministic checks of generated claims against the evidence they  *)
(* cite (backend/rag/claim_evidence.py). A text is abstracted to what the  *)
(* regular expressions extract from it: its numbers, its numbers with a    *)
(* unit, the groups of marker words it contains and its remaining words. A *)
(* claim is a sequence of such clauses with the positions it cites. The    *)
(* audit of the same claims is in ClaimAudit.                              *)
(***************************************************************************)
EXTENDS Integers, Sequences, FiniteSets, SequencesExt, Orders

Text(numbers, facts, marks, words) ==
  [numbers |-> numbers \cup {f[2] : f \in facts}, facts |-> facts, marks |-> marks,
   words |-> words]

Empty == Text({}, {}, {}, {})

\* Several texts read as one: "\n".join(quotes), or a claim of several clauses.
Join(texts) ==
  [numbers |-> UNION {t.numbers : t \in texts}, facts |-> UNION {t.facts : t \in texts},
   marks |-> UNION {t.marks : t \in texts}, words |-> UNION {t.words : t \in texts}]

Clauses(claim) == ToSet(claim.clauses)
Claimed(claim) == Join(Clauses(claim))
Quotes(claim, evidence) == [i \in DOMAIN claim.cites |-> evidence[claim.cites[i]].quote]
Bound(claim, evidence) == Join(ToSet(Quotes(claim, evidence)))

Units(text) == {f[1] : f \in text.facts}
Values(text, unit) == {f[2] : f \in {g \in text.facts : g[1] = unit}}

-----------------------------------------------------------------------------
(* _numeric_unit_conflicts: two quotes give a unit and together two values. *)

Conflicting(quotes, unit) ==
  LET speaking == {i \in DOMAIN quotes : unit \in Units(quotes[i])} IN
  /\ Cardinality(speaking) >= 2
  /\ Cardinality(UNION {Values(quotes[i], unit) : i \in speaking}) >= 2

Conflicts(quotes) ==
  {unit \in UNION {Units(quotes[i]) : i \in DOMAIN quotes} : Conflicting(quotes, unit)}

\* _is_safe_limitation: no number, and every clause says evidence is missing.
SafeLimitation(claim) ==
  /\ Claimed(claim).numbers = {}
  /\ Clauses(claim) # {}
  /\ \A clause \in Clauses(claim) : "insufficient" \in clause.marks

\* The relations a claim may state only if its evidence does, in the order of the
\* tests. Causal evidence may also be an ablation or a controlled experiment.
Licences(mark) == IF mark = "causal" THEN {"causal", "ablation"} ELSE {mark}
Relations == <<"causal", "universal", "comparative", "objects", "novelty", "qualifier">>

Established(relation, claimed, bound) ==
  IF relation = "objects"
  THEN "comparative" \in claimed.marks => Cardinality(claimed.words \cap bound.words) >= 2
  ELSE relation \in claimed.marks => Licences(relation) \cap bound.marks # {}

\* _core_overlap of every clause: some word in common.
CoreOverlap(clauses, bound) ==
  clauses # {} /\ \A clause \in clauses : clause.words \cap bound.words # {}

\* _deterministic_support_failure returns None.
Supported(clauses, bound) ==
  LET claimed == Join(clauses) IN
  /\ claimed.numbers \subseteq bound.numbers
  /\ claimed.facts \subseteq bound.facts
  /\ \A i \in DOMAIN Relations : Established(Relations[i], claimed, bound)
  /\ CoreOverlap(clauses, bound)

-----------------------------------------------------------------------------
(* _verify_claim. *)

\* _claim_citation_failure returns None: the positions are those of the request,
\* each once and in order.
CitationsValid(claim, evidence) ==
  /\ claim.clauses # <<>>
  /\ claim.cites # <<>>
  /\ \A i \in DOMAIN claim.cites : claim.cites[i] \in DOMAIN evidence
  /\ \A i, j \in DOMAIN claim.cites : i < j => claim.cites[i] < claim.cites[j]

\* A disclosed conflict must name two of the conflicting values.
NamesConflict(claim, quotes) == \E unit \in Conflicts(quotes) :
  Cardinality(Values(Claimed(claim), unit)
                \cap UNION {Values(quotes[i], unit) : i \in DOMAIN quotes}) >= 2

\* Mutant: the first matching quote decides; a conflict between quotes is not seen.
VerifyClaimIgnoringConflicts(claim, evidence) ==
  IF ~CitationsValid(claim, evidence) THEN "UNSUPPORTED"
  ELSE IF SafeLimitation(claim) THEN "INSUFFICIENT_EVIDENCE"
  ELSE IF Supported(Clauses(claim), Bound(claim, evidence)) THEN "SUPPORTED"
  ELSE "UNSUPPORTED"

VerifyClaim(claim, evidence) ==
  LET quotes == Quotes(claim, evidence)
      disclosed == "conflict" \in Claimed(claim).marks
      supported == Supported(Clauses(claim), Bound(claim, evidence))
  IN
  IF ~CitationsValid(claim, evidence) THEN "UNSUPPORTED"
  ELSE IF \E i \in DOMAIN quotes : quotes[i] = Empty THEN "UNSUPPORTED"
  ELSE IF Conflicts(quotes) # {}
  THEN IF disclosed /\ NamesConflict(claim, quotes) /\ supported
       THEN "CONFLICTING_EVIDENCE" ELSE "UNSUPPORTED"
  ELSE IF ~disclosed /\ SafeLimitation(claim) THEN "INSUFFICIENT_EVIDENCE"
  ELSE IF ~disclosed /\ supported THEN "SUPPORTED"
  ELSE "UNSUPPORTED"

Retained(claims, evidence) ==
  Picked(claims, {i \in DOMAIN claims : VerifyClaim(claims[i], evidence) # "UNSUPPORTED"})

=============================================================================
