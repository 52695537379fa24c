-------------------------- MODULE RuleSuggestions --------------------------
(***************************************************************************)
(* Relationship suggestions and duplicates of rules                        *)
(* (claims/relationship_suggester.py, rules/rule_deduplication.py), as     *)
(* functions of the rules' texts and evidence.                             *)
(*                                                                         *)
(* A text is [terms, marks]: the terms that normalize_rule_text leaves, and *)
(* which lists of phrases it contains one of.  A path is <<directory,       *)
(* name>>.  The reasons and signals of a suggestion are left out.          *)
(***************************************************************************)
EXTENDS RuleScoring, Sequences, SequencesExt

CONSTANTS
    TextOf,     \* rule -> [terms, marks : SUBSET {"parent", "child", "ordering"}]
    PathOf,     \* row -> path, or None
    None

SuggestionTypes ==
    {"same_as", "parent_of", "depends_on", "constrains", "implemented_by", "tested_by", "documented_by"}

MinConfidence == 55

TestEvidenceTypes == Tests \cup {"e2e_test"}
DocEvidenceTypes  == {"readme_doc", "design_doc"}

Suggestion(from, to, type, confidence) ==
    [edge |-> <<from, to, type>>, confidence |-> confidence]

-----------------------------------------------------------------------------
(***************************************************************************)
(* Duplicates                                                              *)
(***************************************************************************)

\* similarity_score >= 0.72, in hundredths
Similar(r, q) ==
    LET left == TextOf[r].terms right == TextOf[q].terms
    IN  left # {} /\ right # {}
        /\ 100 * Cardinality(left \cap right) >= 72 * Cardinality(left \cup right)

\* _duplicate_members_for_primary
MembersFrom(order, i, seen) ==
    {order[i]} \cup
    {order[j] : j \in {k \in (i + 1)..Len(order) : order[k] \notin seen /\ Similar(order[i], order[k])}}

\* A rule that is in a group already does not start one.
StartsAlways(r, seen) == TRUE
StartsGroup(r, seen) == r \notin seen

\* The groups once the rule at this position has been looked at.
Grouped(order, i, groups) ==
    LET seen    == UNION {g.members : g \in groups}
        members == MembersFrom(order, i, seen)
    IN  IF StartsGroup(order[i], seen) /\ Cardinality(members) > 1
        THEN groups \cup {[primary |-> order[i], members |-> members]} ELSE groups

\* find_duplicate_groups over the candidates in the order the database returns
\* them: the first of a group is its primary.
DuplicateGroups(order) ==
    LET after[i \in 0..Len(order)] == IF i = 0 THEN {} ELSE Grouped(order, i, after[i - 1])
    IN  after[Len(order)]

\* find_duplicate_groups_for_rule
DuplicatesOf(r, candidates) ==
    IF r \in candidates THEN {q \in candidates : q = r \/ Similar(r, q)} ELSE {}

-----------------------------------------------------------------------------
(***************************************************************************)
(* Heuristics; rowsOf gives a rule's evidence, category its category       *)
(***************************************************************************)

\* _shared_terms lists at most eight.
Shared(r, q) ==
    Least(Cardinality(TextOf[r].terms \cap TextOf[q].terms), 8)

Marked(r, mark) == mark \in TextOf[r].marks

Pairs(rules, Related(_, _)) == {p \in rules \X rules : p[1] # p[2] /\ Related(p[1], p[2])}

ParentChild(rules) ==
    {Suggestion(p[1], p[2], "parent_of", 62 + Least(20, 4 * Shared(p[1], p[2]))) :
        p \in Pairs(rules, LAMBDA r, q : Marked(r, "parent") /\ Marked(q, "child") /\ Shared(r, q) > 0)}

DependsOn(rules) ==
    {Suggestion(p[1], p[2], "depends_on", 58 + Least(15, 3 * Shared(p[1], p[2]))) :
        p \in Pairs(rules, LAMBDA r, q : Marked(r, "ordering") /\ Shared(r, q) >= 2)}

Constrains(rules, category) ==
    {Suggestion(p[2], p[1], "constrains", 60 + Least(18, 3 * Shared(p[1], p[2]))) :
        p \in Pairs(rules, LAMBDA r, q :
                 /\ category[r] = "business" /\ category[q] \in {"validation", "security_authorization"}
                 /\ Shared(r, q) >= 2)}

Code(r, rowsOf) == OfType(rowsOf[r], {"backend_code"})

DocCode(rules, category, rowsOf) ==
    UNION {{Suggestion(p[1], p[2], "documented_by", 57 + Least(20, 3 * Shared(p[1], p[2]))),
            Suggestion(p[2], p[1], "implemented_by", 55 + Least(18, 3 * Shared(p[1], p[2])))} :
        p \in Pairs(rules, LAMBDA doc, code :
                 /\ category[doc] \in {"business", "workflow_lifecycle"}
                 /\ OfType(rowsOf[doc], DocEvidenceTypes) # {} /\ Code(code, rowsOf) # {}
                 /\ Shared(doc, code) >= 2)}

\* _paths_share_basename
SameFile(e, f) == PathOf[e] # None /\ PathOf[f] # None /\ PathOf[e][2] = PathOf[f][2]

TestSameFile(rules, rowsOf) ==
    {Suggestion(p[1], p[2], "tested_by", 65) :
        p \in Pairs(rules, LAMBDA test, code :
                 \E e \in OfType(rowsOf[test], TestEvidenceTypes), f \in Code(code, rowsOf) : SameFile(e, f))}

\* suggest_deterministic_relationships
Suggestions(rules, category, rowsOf) ==
    ParentChild(rules) \cup DependsOn(rules) \cup Constrains(rules, category)
    \cup DocCode(rules, category, rowsOf) \cup TestSameFile(rules, rowsOf)

\* filter_best_candidates: the most confident one of each edge that is neither
\* existing nor rejected.
BestCandidates(candidates, existing, rejected) ==
    {c \in candidates :
        /\ c.edge[3] \in SuggestionTypes /\ c.confidence >= MinConfidence
        /\ c.edge \notin existing \cup rejected
        /\ \A d \in candidates : d.edge = c.edge => d.confidence <= c.confidence}
=============================================================================
