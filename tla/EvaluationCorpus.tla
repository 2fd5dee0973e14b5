--------------------------- MODULE EvaluationCorpus ---------------------------
(***************************************************************************)
(* The evaluation corpus: when the reviews of a question make it fit for a *)
(* locked corpus (evaluation/formal_corpus.py). A record is one review:    *)
(* id, role, annotator, actor, label and the records it is based on; an    *)
(* item is a question: status, agreement score, label, final record,       *)
(* records, and whether it is hard or from the acceptance split.           *)
(***************************************************************************)
EXTENDS Integers, FiniteSets

CONSTANT Questions \* what a corpus may hold: an item with the records of its reviews

AnnotationStatuses == {"DRAFT", "GPT_ASSISTED", "DOUBLE_ANNOTATED", "ADJUDICATED", "EXPERT_REVIEWED"}

ASSUME CorpusAssumption == \A q \in Questions :
  /\ IsFiniteSet(q.records)
  /\ q.item.status \in AnnotationStatuses /\ q.item.score \in {"none", "partial", "full"}
  /\ "none" \notin q.item.records

VARIABLE validated \* the question of this behaviour, once it was validated

\* A GPT reviewer is its model, any other one its annotator.
Reviewers(records) == {<<r.actor, r.annotator>> : r \in records}
Humans(records) == {r.annotator : r \in {r \in records : r.actor = "HUMAN"}}
Independent(records) == {r \in records : r.role = "ANNOTATOR"}
WithIds(ids, records) == {r \in records : r.id \in ids}

-----------------------------------------------------------------------------
(* What is refused. *)

\* AnnotationRecordV1.validate_role_lineage
RoleValid(r) ==
  /\ r.actor = "GPT" => r.role = "ANNOTATOR"
  /\ r.role = "ANNOTATOR" => r.parents = {}
  /\ r.role = "ADJUDICATOR" => Cardinality(r.parents) >= 2
  /\ r.role = "EXPERT_REVIEWER" => r.parents # {}

TwoReviewers(records) ==
  /\ Cardinality(records) >= 2
  /\ \A r \in records : r.role = "ANNOTATOR"
  /\ Cardinality(Reviewers(records)) >= 2

\* The second loop of validate_corpus.
LineageValid(r, records) ==
  LET parents == WithIds(r.parents, records) IN
  /\ r.parents \subseteq {x.id : x \in records}
  /\ r.role = "ADJUDICATOR" => TwoReviewers(parents)
  /\ r.role = "EXPERT_REVIEWER" =>
       \/ TwoReviewers(parents)
       \/ Cardinality(parents) = 1 /\ \A p \in parents : p.role = "ADJUDICATOR"

LateStatus == {"ADJUDICATED", "EXPERT_REVIEWED"}
MinimumRecords(status) ==
  CASE status = "DRAFT" -> 0 [] status = "GPT_ASSISTED" -> 1
    [] status = "DOUBLE_ANNOTATED" -> 2 [] OTHER -> 3

\* EvaluationItemV1.validate_item_semantics; every record belongs to the item.
ItemValid(item, records) ==
  /\ Cardinality(item.records) >= MinimumRecords(item.status)
  /\ IF item.status \in LateStatus THEN item.final \in item.records ELSE item.final = "none"
  /\ {r.id : r \in records} \subseteq item.records

ItemReadable(item, records) ==
  ItemValid(item, records) /\ \A r \in records : RoleValid(r) /\ LineageValid(r, records)

-----------------------------------------------------------------------------
(* What blocks a locked corpus: the third loop of validate_corpus. *)

AgreementBlockers(item, records) ==
  LET independent == Independent(WithIds(item.records, records))
      differ == \E r \in independent : r.label # item.label
  IN (IF item.score = "none" /\ item.status # "GPT_ASSISTED" THEN {"lacks agreement_score"} ELSE {})
     \cup (IF item.score = "partial" /\ item.status \notin LateStatus
           THEN {"conflict requires adjudication"} ELSE {})
     \cup (IF item.score = "full" /\ item.status = "DOUBLE_ANNOTATED" /\ differ
           THEN {"labels do not match"} ELSE {})
     \cup (IF item.status = "GPT_ASSISTED" /\ differ THEN {"requires conflict review"} ELSE {})

\* Mutant: the labels of the item are not compared with the final ones.
FinalByRole(item, records) ==
  LET final == CHOOSE r \in records : r.id = item.final
      expected == IF item.status = "EXPERT_REVIEWED" THEN "EXPERT_REVIEWER" ELSE "ADJUDICATOR"
  IN IF item.final = "none" THEN {}
     ELSE IF WithIds({item.final}, records) = {} THEN {"final annotation is missing"}
     ELSE (IF final.role # expected THEN {"final role is invalid"} ELSE {})
          \cup (IF final.actor # "HUMAN" THEN {"final must be human"} ELSE {})

FinalBlockers(item, records) ==
  LET final == CHOOSE r \in records : r.id = item.final
      expected == IF item.status = "EXPERT_REVIEWED" THEN "EXPERT_REVIEWER" ELSE "ADJUDICATOR"
  IN IF item.final = "none" THEN {}
     ELSE IF WithIds({item.final}, records) = {} THEN {"final annotation is missing"}
     ELSE (IF final.role # expected THEN {"final role is invalid"} ELSE {})
          \cup (IF final.actor # "HUMAN" THEN {"final must be human"} ELSE {})
          \cup (IF final.label # item.label THEN {"final labels do not match"} ELSE {})

Blockers(item, records) ==
  LET mine == WithIds(item.records, records)
      independent == Independent(mine)
  IN (IF item.records # {r.id : r \in mine} THEN {"references missing annotation"} ELSE {})
     \cup (IF Cardinality(Reviewers(independent)) < 2 THEN {"lacks independent reviewers"} ELSE {})
     \cup (IF Cardinality(Humans(independent)) < 2 THEN {"requires two humans"} ELSE {})
     \cup (IF item.status = "DRAFT" THEN {"is still draft"} ELSE {})
     \cup (IF item.status = "GPT_ASSISTED" THEN {"requires double-human status"} ELSE {})
     \cup (IF item.status = "GPT_ASSISTED" /\ \A r \in independent : r.actor # "GPT"
           THEN {"lacks GPT annotation"} ELSE {})
     \cup AgreementBlockers(item, records)
     \cup (IF item.hard /\ item.status # "EXPERT_REVIEWED" THEN {"requires expert review"} ELSE {})
     \cup (IF item.sensitive /\ Humans(mine) = {} THEN {"requires human review"} ELSE {})
     \cup FinalBlockers(item, records)

\* What does not block the engineering corpus.
HumanOnly == {"requires two humans", "requires double-human status", "lacks independent reviewers"}

LockReady(item, records) == ItemReadable(item, records) /\ Blockers(item, records) = {}
EngineeringReady(item, records) ==
  ItemReadable(item, records) /\ Blockers(item, records) \subseteq HumanOnly

-----------------------------------------------------------------------------
(* validate_corpus, which looks at one question after the other. *)

CorpusInit == validated = {}

Validate == validated = {} /\ \E q \in Questions : validated' = {q}

CorpusSpec == CorpusInit /\ [][Validate]_validated

-----------------------------------------------------------------------------
(* Properties. *)

\* A question that is lock-ready was reviewed by two humans; its label is that of
\* all independent reviews, or a human decided it who knew at least two reviewers,
\* an expert if the question is hard.
Reviewed(item, records) ==
  LET mine == WithIds(item.records, records)
      rests(r) == \/ TwoReviewers(WithIds(r.parents, mine))
                  \/ \E p \in WithIds(r.parents, mine) :
                       p.role = "ADJUDICATOR" /\ TwoReviewers(WithIds(p.parents, mine))
      decided == {r \in mine : r.actor = "HUMAN" /\ r.label = item.label /\ rests(r)
                    /\ r.role \in {"ADJUDICATOR", "EXPERT_REVIEWER"}}
  IN LockReady(item, records) =>
     /\ Cardinality(Humans(Independent(mine))) >= 2
     /\ decided # {} \/ \A r \in Independent(mine) : r.label = item.label
     /\ item.hard => \E r \in decided : r.role = "EXPERT_REVIEWER"
     /\ EngineeringReady(item, records)

\* validate_corpus calls no question lock-ready that was not reviewed so.
LockReadyMeansReviewed == \A q \in validated : Reviewed(q.item, q.records)

=============================================================================
