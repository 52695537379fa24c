---------------------------- MODULE AstProposals ----------------------------
(***************************************************************************)
(* What becomes of the rule proposals of a model: the schema they parse    *)
(* into (ast_proposal.py), the validation of their citations               *)
(* (ast_proposal_validation.py), and the normalization of the valid ones   *)
(* into claims, merged when they say the same thing                        *)
(* (claims/ast_normalization.py).                                          *)
(*                                                                         *)
(* Abstractions: a text is a model value with a normal form; actor,        *)
(* condition, action and result are always present and carry no value;     *)
(* provenance strings are left out, so the origin of a claim is its        *)
(* proposal; a confidence is an integer up to Certain; the byte ranges of  *)
(* citations are ordered, because the range type refuses the others.       *)
(***************************************************************************)
EXTENDS Integers, Sequences, FiniteSets, SequencesExt, FiniteSetsExt

CONSTANTS
    NormalForm,     \* normalize_rule_text, a function on texts
    Certain,        \* confidence 1.0
    Absent          \* a field that is None

Mandatory == {"canonical_rule_text", "observed_behavior", "actor", "condition", "action", "result"}

Supportive == {"implementation", "product_intent", "verification", "exception"}
AnyRole == Supportive \cup {"counterevidence"}

-----------------------------------------------------------------------------
(* AstRuleProposal.                                                        *)

\* The field constraints and validate_product_intent_and_uncertainty.
WellFormed(p) ==
    /\ (p.status = "not_established") <=> (p.intent = Absent)
    /\ p.confidence < Certain => p.uncertain
    /\ p.ast # <<>> /\ p.evidence # <<>>
    /\ \A i \in DOMAIN p.evidence : p.evidence[i].fields # {}

-----------------------------------------------------------------------------
(* validate_ast_rule_proposal: the codes of the issues it reports.         *)

Roles(p) == {p.evidence[i].role : i \in DOMAIN p.evidence}

Required(p) ==
    Mandatory \cup (IF p.intent # Absent THEN {"inferred_product_intent"} ELSE {})
              \cup (IF p.exception # Absent THEN {"exception"} ELSE {})

\* The fields that evidence covers; counterevidence covers nothing.
Covered(evidence) ==
    UNION {evidence[i].fields : i \in {j \in DOMAIN evidence : evidence[j].role \in Supportive}}

Scopes(p) == {p.ast[i].scope : i \in DOMAIN p.ast} \cup {p.evidence[i].cite.scope : i \in DOMAIN p.evidence}

\* _validate_ast_citations and _validate_evidence_citations: a source is cited once.
CitedTwice(p) ==
    \/ \E i, j \in DOMAIN p.ast : i # j /\ p.ast[i] = p.ast[j]
    \/ \E i, j \in DOMAIN p.evidence : i # j /\ p.evidence[i].cite = p.evidence[j].cite

\* An empty set of allowed roles allows every role.
Effective(allowed) == IF allowed = {} THEN AnyRole ELSE allowed

Codes(p, scope, allowed) ==
    {c \in {"duplicate", "scope", "role", "coverage", "implementation", "product_intent", "uncited", "approval"} :
        \/ c = "duplicate" /\ CitedTwice(p)
        \/ c = "scope" /\ Scopes(p) # {scope}
        \/ c = "role" /\ ~(Roles(p) \subseteq Effective(allowed))
        \/ /\ c = "coverage"
           /\ \E i \in DOMAIN p.evidence :
                 /\ p.evidence[i].role = "exception"
                 /\ ~(p.evidence[i].fields \subseteq {"canonical_rule_text", "exception"})
        \/ c = "implementation" /\ "implementation" \notin Roles(p)
        \/ c = "product_intent" /\ p.status = "observed" /\ "product_intent" \notin Roles(p)
        \/ c = "uncited" /\ ~(Required(p) \subseteq Covered(p.evidence))
        \/ c = "approval" /\ p.approves}

-----------------------------------------------------------------------------
(* normalize_validated_ast_proposal and deduplicate_normalized_ast_claims. *)

Cites(evidence) == {evidence[i].cite : i \in DOMAIN evidence}

\* _normalized_claim.  The key of _deduplication_key is what it hashes.
Claim(p, role, text, behavior, ast, evidence) ==
    [role |-> role, text |-> text, key |-> <<role, NormalForm[text], NormalForm[behavior]>>,
     ast |-> ast, cites |-> Cites(evidence), evidence |-> evidence, origins |-> {p},
     requires |-> Required(p), confidence |-> p.confidence, uncertain |-> p.uncertain]

\* The entries of seq at the given positions, in order.
At(seq, positions) == FlattenSeq([i \in DOMAIN seq |-> IF i \in positions THEN <<seq[i]>> ELSE <<>>])

OfRole(evidence, role) == At(evidence, {i \in DOMAIN evidence : evidence[i].role = role})

\* One claim for the behavior; one for the intent when it was observed.
Normalized(p) ==
    <<Claim(p, "implementation", p.text, p.behavior, Range(p.ast), p.evidence)>>
    \o IF p.status = "observed" /\ p.intent # Absent
       THEN <<Claim(p, "product_intent", p.intent, p.intent, {}, OfRole(p.evidence, "product_intent"))>>
       ELSE <<>>

\* evidence_by_id: one entry per citation, the first one kept.
LastPerCitation(entries) ==
    At(entries, {i \in DOMAIN entries : \A j \in DOMAIN entries : j > i => entries[j].cite # entries[i].cite})
FirstPerCitation(entries) ==
    At(entries, {i \in DOMAIN entries : \A j \in DOMAIN entries : j < i => entries[j].cite # entries[i].cite})

\* _merge_claim_group: the first draft, with what the others cite.
Merged(group) ==
    [group[1] EXCEPT
        !.ast = UNION {group[i].ast : i \in DOMAIN group},
        !.cites = UNION {group[i].cites : i \in DOMAIN group},
        !.origins = UNION {group[i].origins : i \in DOMAIN group},
        !.evidence = FirstPerCitation(FlattenSeq([i \in DOMAIN group |-> group[i].evidence])),
        !.confidence = Max({group[i].confidence : i \in DOMAIN group})]

Deduplicated(claims) ==
    {Merged(At(claims, {i \in DOMAIN claims : claims[i].key = key})) : key \in {claims[i].key : i \in DOMAIN claims}}

ClaimsOf(proposals) ==
    Deduplicated(FlattenSeq([i \in DOMAIN proposals |-> Normalized(proposals[i])]))
=============================================================================
