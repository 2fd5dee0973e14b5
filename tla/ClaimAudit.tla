----------------------------- MODULE ClaimAudit -----------------------------
(***************************************************************************)
(* The audit of claims over sets of evidence (verify_claim_evidence_sets   *)
(* of backend/rag/claim_evidence.py) and the second look the competition   *)
(* pack takes at it (backend/validation/competition.py). Claims are        *)
(* audited one by one: a behaviour audits one.                             *)
(***************************************************************************)
EXTENDS ClaimEvidence

CONSTANTS
  AuditedClaims,    \* the claims a model may state
  AuditedEvidence,  \* the evidence they may rest on
  ExpectedOwner,    \* expected_owner_id
  ActiveIdentities  \* active_document_versions and active_chunk_identities

\* Texts hold finitely many numbers with their units.
IsText(text) == IsFiniteSet(text.facts) /\ \A f \in text.facts : f = <<f[1], f[2]>>

IsItem(item) ==
  item = [chunk |-> item.chunk, document |-> item.document, version |-> item.version,
          owner |-> item.owner, active |-> item.active, previous |-> item.previous,
          next |-> item.next, quote |-> item.quote]

ASSUME AuditAssumption ==
  /\ \A claim \in AuditedClaims : claim.cites \in Seq(Int)
  /\ \A evidence \in AuditedEvidence :
       /\ Len(evidence) \in Nat /\ evidence = [p \in 1..Len(evidence) |-> evidence[p]]
       /\ \A p \in DOMAIN evidence : IsItem(evidence[p]) /\ IsText(evidence[p].quote)

VARIABLE audited \* the claim, and the evidence it was audited with

-----------------------------------------------------------------------------
(* verify_claim_evidence_sets. *)

\* _evidence_identity_failure returns None for the items at these positions.
\* current maps the active documents to their versions and active chunks to both.
IdentitiesValid(positions, evidence, owner, current) ==
  /\ \A p \in positions :
       LET item == evidence[p] IN
       /\ item.owner = owner
       /\ item.active
       /\ item.document \in DOMAIN current.versions
       /\ current.versions[item.document] = item.version
       /\ item.chunk \in DOMAIN current.chunks
       /\ current.chunks[item.chunk] = <<item.document, item.version>>
       /\ item.quote # Empty
  /\ \A p, r \in positions : evidence[p].chunk = evidence[r].chunk => p = r

Neighbours(left, right) ==
  \/ left.next = right.chunk /\ right.previous = left.chunk
  \/ left.previous = right.chunk /\ right.next = left.chunk

Adjacent(cited, evidence, owner, current) ==
  {p \in DOMAIN evidence \ cited :
     /\ IdentitiesValid({p}, evidence, owner, current)
     /\ \E r \in cited :
          /\ evidence[p].document = evidence[r].document
          /\ evidence[p].version = evidence[r].version
          /\ Neighbours(evidence[r], evidence[p])}

\* _classify_evidence_set.
Classify(claim, positions, evidence) ==
  LET quotes == [i \in 1..Cardinality(positions) |->
                   evidence[Ascending(positions)[i]].quote]
      bound == Join(ToSet(quotes))
      backed == {clause \in Clauses(claim) : Supported({clause}, bound)}
  IN
  IF Conflicts(quotes) # {} THEN "CONFLICTING_EVIDENCE"
  ELSE IF "conflict" \in Claimed(claim).marks \/ SafeLimitation(claim)
  THEN "INSUFFICIENT_EVIDENCE"
  ELSE IF Supported(Clauses(claim), bound) THEN "SUPPORTED_BY_EVIDENCE_SET"
  ELSE IF backed # {} /\ backed # Clauses(claim) THEN "PARTIALLY_SUPPORTED"
  ELSE "INSUFFICIENT_EVIDENCE"

Decided == {"SUPPORTED_BY_EVIDENCE_SET", "CONFLICTING_EVIDENCE"}

\* _verify_claim_evidence_set: the first neighbour that decides the claim is added.
AuditClaim(claim, evidence, owner, current, allowAdjacent) ==
  LET cited == ToSet(claim.cites)
      base == Classify(claim, cited, evidence)
      deciding == {p \in Adjacent(cited, evidence, owner, current) :
                     Classify(claim, cited \cup {p}, evidence) \in Decided}
      result(positions, status) == [positions |-> positions, status |-> status]
  IN
  IF ~CitationsValid(claim, evidence) THEN result({}, "INSUFFICIENT_EVIDENCE")
  ELSE IF ~IdentitiesValid(cited, evidence, owner, current)
  THEN result(cited, "INSUFFICIENT_EVIDENCE")
  ELSE IF ~allowAdjacent \/ base \in Decided \/ deciding = {} THEN result(cited, base)
  ELSE LET p == CHOOSE p \in deciding : \A r \in deciding : p <= r IN
       result(cited \cup {p}, Classify(claim, cited \cup {p}, evidence))

-----------------------------------------------------------------------------
(* validation/competition.py: _evidence_set_audit looks again at the claims of an      *)
(* answer, with nothing but the evidence the API showed. It takes that for current and *)
(* the owner's, the last version of a document for the active one, and knows no        *)
(* neighbours; it leaves out what has no quote, and passes if some claim cites two     *)
(* quotes, whatever they say.                                                          *)

WithQuotes(shown) == Picked(shown, {i \in DOMAIN shown : shown[i].quote # Empty})

PackAudit(claims, shown, owner) ==
  LET quoted == WithQuotes(shown)
      evidence == [i \in DOMAIN quoted |->
                     [quoted[i] EXCEPT !.owner = owner, !.active = TRUE, !.previous = 0, !.next = 0]]
      last(field, value) == CHOOSE i \in DOMAIN quoted :
        quoted[i][field] = value /\ \A j \in DOMAIN quoted : quoted[j][field] = value => j <= i
      current ==
        [versions |-> [d \in {quoted[i].document : i \in DOMAIN quoted} |->
                         quoted[last("document", d)].version],
         chunks |-> [c \in {quoted[i].chunk : i \in DOMAIN quoted} |->
                       <<quoted[last("chunk", c)].document, quoted[last("chunk", c)].version>>]]
      records == [i \in DOMAIN claims |-> AuditClaim(claims[i], evidence, owner, current, FALSE)]
      several == {i \in DOMAIN records : Cardinality(records[i].positions) >= 2}
  IN IF quoted = <<>> THEN [status |-> "FAIL", records |-> <<>>]
     ELSE [status |-> IF several = {} THEN "FAIL" ELSE "PASS", records |-> records]

-----------------------------------------------------------------------------
AuditInit == audited = {}

Audit ==
  /\ audited = {}
  /\ \E claim \in AuditedClaims, evidence \in AuditedEvidence :
       audited' = {[claim |-> claim, evidence |-> evidence]}

AuditSpec == AuditInit /\ [][Audit]_audited

-----------------------------------------------------------------------------
(* Properties of one audited claim. *)

\* What the second look says of a claim is what the audit says of it, if the evidence
\* that was shown is current; it passes only a claim whose citations are valid.
PackAuditAgrees(claim, evidence, owner, current) ==
  evidence # <<>> /\ IdentitiesValid(DOMAIN evidence, evidence, owner, current) =>
    LET pack == PackAudit(<<claim>>, evidence, owner) IN
    /\ pack.records = <<AuditClaim(claim, evidence, owner, current, FALSE)>>
    /\ pack.status = "PASS" => CitationsValid(claim, evidence) /\ Len(claim.cites) >= 2

\* The two verifiers tell the same story: on current evidence the one that
\* decides what an answer keeps calls a claim supported exactly if the audit of
\* the cited set does, and every conflict it reports the audit reports too.
VerifiersAgree(claim, evidence, owner, current) ==
  LET kept == VerifyClaim(claim, evidence)
      audit == AuditClaim(claim, evidence, owner, current, FALSE).status
  IN
  CitationsValid(claim, evidence) /\ IdentitiesValid(ToSet(claim.cites), evidence, owner, current)
  => /\ kept = "SUPPORTED" <=> audit = "SUPPORTED_BY_EVIDENCE_SET"
     /\ kept = "CONFLICTING_EVIDENCE" => audit = "CONFLICTING_EVIDENCE"

\* The neighbour that the audit adds is a chunk of a cited version, it never
\* weakens a decided claim, and a supported claim rests on an evidence set whose
\* quotes state every one of its numbers with its unit and contradict none.
AdjacencyOnlyDecides(claim, evidence, owner, current) ==
  LET plain == AuditClaim(claim, evidence, owner, current, FALSE)
      wide == AuditClaim(claim, evidence, owner, current, TRUE)
      stated == UNION {evidence[p].quote.facts : p \in wide.positions}
  IN
  /\ plain.status \in Decided => wide = plain
  /\ \A p \in wide.positions \ plain.positions : \E r \in plain.positions :
       /\ evidence[p].version = evidence[r].version
       /\ evidence[p].owner = owner /\ evidence[p].active
  /\ wide.status = "SUPPORTED_BY_EVIDENCE_SET" =>
       /\ Claimed(claim).facts \subseteq stated
       /\ \A f, g \in stated : f[1] = g[1] /\ f # g =>
            \E p \in wide.positions : {f, g} \subseteq evidence[p].quote.facts

\* What the audits of a claim promise: they agree with the check that decides about its
\* answer, and the neighbours they add only decide what was open.
ClaimAuditSound == \A a \in audited :
  /\ VerifiersAgree(a.claim, a.evidence, ExpectedOwner, ActiveIdentities)
  /\ AdjacencyOnlyDecides(a.claim, a.evidence, ExpectedOwner, ActiveIdentities)
  /\ PackAuditAgrees(a.claim, a.evidence, ExpectedOwner, ActiveIdentities)

=============================================================================
