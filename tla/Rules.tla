------------------------------- MODULE Rules -------------------------------
(***************************************************************************)
(* Rules, their evidence and their lineage (claims/rules/rule_identity.py, *)
(* rule_deduplication.py, reclassify.py; rule_repository.py,               *)
(* rule_evidence_repository.py, models/rules.py).                          *)
(*                                                                         *)
(* Sessions merge and supersede rules, scans of later analysis versions     *)
(* attach evidence and bring rules back under their identity, reviewers     *)
(* decide.  A session first reads and later commits, and the rows it writes *)
(* replace whatever another session committed in between; a crash, a missing*)
(* rule or a recorder that fails ends its transaction without a trace.     *)
(***************************************************************************)
EXTENDS RuleSuggestions

CONSTANTS
    RuleIds,
    Project,        \* rule -> its project
    Version,        \* rule -> the number of its analysis version
    Identity,       \* rule -> its identity key (actor, action, subject, domain)
    Fingerprints,   \* evidence fingerprints; None is the missing one
    CategoryOf,     \* rule -> category its text is classified as
    Requests,       \* what sessions ask for: [to, from], from a set of rules
    FirstPrints,    \* the fingerprints the rules of version 1 may have: rule -> one
    Owners,         \* the evidence there may be at first: row -> rule, or None
    Sessions,
    MaxSteps        \* bound on the requests, scans and reviews of one behaviour

ASSUME RulesAssumption ==
    /\ None \notin RuleIds /\ IsFiniteSet(RuleIds)
    /\ FirstPrints \subseteq [RuleIds -> Fingerprints]
    /\ Owners \subseteq [DOMAIN RowOf -> {r \in RuleIds : Version[r] = 1} \cup {None}]

VARIABLES
    rules,      \* rule -> [status, retired, parent, fingerprint], for those there are
    category,   \* rule -> category
    owner,      \* evidence row -> rule it is attached to, or None
    lineage,    \* set of [from, to, relation]
    audit,      \* set of [from, to, relation]: lineage events on record
    approvals,  \* rules with a recorded human approval
    dropped,    \* rules with a recorded decision to deprecate
    suggested,  \* edge -> status of its suggestion
    work,       \* session -> its transaction, or None
    found,      \* history: evidence row -> rule it was found for
    basis,      \* history: rule -> fingerprint its review was about
    steps

ruleVars ==
    <<rules, category, owner, lineage, audit, approvals, dropped, suggested, work, found, basis, steps>>

Rows == DOMAIN RowOf

RuleStatus == {"candidate", "needs_review", "approved", "rejected", "needs_follow_up", "deprecated"}

ReviewOutcomes == {"approved", "rejected", "needs_review", "deprecated"}

Categories == {"unknown"} \cup {CategoryOf[r] : r \in RuleIds}

RowsOf(r) == {e \in Rows : owner[e] = r}

NewRule(status, fingerprint) ==
    [status |-> status, retired |-> FALSE, parent |-> None, fingerprint |-> fingerprint]

RulesInit ==
    /\ \E print \in FirstPrints :
          rules = [r \in {q \in RuleIds : Version[q] = 1} |-> NewRule("candidate", print[r])]
    /\ category = [r \in RuleIds |-> "unknown"]
    /\ owner \in Owners /\ found = owner
    /\ lineage = {} /\ audit = {} /\ approvals = {} /\ dropped = {} /\ suggested = <<>>
    /\ work = [s \in Sessions |-> None]
    /\ basis = [r \in RuleIds |-> None]
    /\ steps = 0

Step == steps < MaxSteps /\ steps' = steps + 1

-----------------------------------------------------------------------------
(***************************************************************************)
(* Merging and superseding                                                 *)
(***************************************************************************)

Begin(s, op) ==
    /\ Step /\ work[s] = None
    /\ work' = [work EXCEPT ![s] = op]
    /\ UNCHANGED <<rules, category, owner, lineage, audit, approvals, dropped, suggested, found, basis>>

\* merge_rules of rule_deduplication.py: every rule is in the project, and the
\* primary itself is dropped from the list.
BeginMerge(s, primary, list) ==
    LET duplicates == list \ {primary}
    IN  /\ primary \in DOMAIN rules /\ duplicates \subseteq DOMAIN rules
        /\ \A d \in duplicates : Project[d] = Project[primary]
        /\ Begin(s, [op |-> "merge", to |-> primary, from |-> duplicates,
                     rows |-> {e \in Rows : owner[e] \in duplicates}])

\* merge_rules of rule_identity.py; nothing forbids merging a rule into itself.
BeginIdentityMerge(s, target, source) ==
    /\ {target, source} \subseteq DOMAIN rules /\ Project[target] = Project[source]
    /\ Begin(s, [op |-> "identity", to |-> target, from |-> {source}, rows |-> {}])

\* supersede_rule; the rules may be of two projects.
BeginSupersede(s, old, new) ==
    /\ {old, new} \subseteq DOMAIN rules
    /\ Begin(s, [op |-> "supersede", to |-> new, from |-> {old}, rows |-> {}])

DeprecatedAsCluster(rule, retired) == [rule EXCEPT !.status = "merged", !.retired = @ \/ retired]
Deprecated(rule, retired) == [rule EXCEPT !.status = "deprecated", !.retired = @ \/ retired]

Lineage(w) ==
    {[from |-> r, to |-> w.to,
      relation |-> IF w.op = "supersede" THEN "supersedes" ELSE "merged_into"] : r \in w.from}

\* A rule that is superseded by itself is deprecated and its own parent.
Merged(w) ==
    [r \in DOMAIN rules |->
        LET rule == IF r \in w.from THEN Deprecated(rules[r], w.op = "merge") ELSE rules[r]
        IN  IF w.op = "identity" /\ r \in w.from THEN [rule EXCEPT !.parent = w.to]
            ELSE IF w.op = "supersede" /\ r = w.to
                 THEN [rule EXCEPT !.parent = CHOOSE old \in w.from : TRUE] ELSE rule]

MovedAll(w) == [e \in Rows |-> IF owner[e] # None /\ w.rows # {} THEN w.to ELSE owner[e]]
Moved(w) == [e \in Rows |-> IF e \in w.rows THEN w.to ELSE owner[e]]

\* record_lineage records the event in the transaction; the merge of duplicates
\* records none.
AuditedWithout(w) == {l \in Lineage(w) : w.op = "supersede"}
Audited(w) == {l \in Lineage(w) : w.op # "merge"}

Commit(s) ==
    LET w == work[s]
    IN  /\ w # None
        /\ rules' = Merged(w)
        /\ owner' = Moved(w)
        /\ lineage' = lineage \cup Lineage(w)
        /\ audit' = audit \cup Audited(w)
        /\ work' = [work EXCEPT ![s] = None]
        /\ UNCHANGED <<category, approvals, dropped, suggested, found, basis, steps>>

Abort(s) ==
    /\ work[s] # None
    /\ work' = [work EXCEPT ![s] = None]
    /\ UNCHANGED <<rules, category, owner, lineage, audit, approvals, dropped, suggested, found, basis, steps>>

-----------------------------------------------------------------------------
(***************************************************************************)
(* Scans and reviews: callers of the repositories and of rule_identity.py   *)
(***************************************************************************)

\* A scan finds evidence for a rule (get_by_dedup_key finds none yet).
Attach(e, r) ==
    /\ Step /\ owner[e] = None /\ r \in DOMAIN rules
    /\ owner' = [owner EXCEPT ![e] = r]
    /\ found' = [found EXCEPT ![e] = r]
    /\ UNCHANGED <<rules, category, lineage, audit, approvals, dropped, suggested, work, basis>>

\* should_carry_forward_review
MaterialEvidenceChanged(rule, fingerprint) ==
    rule.fingerprint # None /\ rule.fingerprint # fingerprint

CarriesAnything(rule, fingerprint) == rule.status \in {"approved", "needs_review"}
CarriesReview(rule, fingerprint) ==
    ~MaterialEvidenceChanged(rule, fingerprint) /\ rule.status \in {"approved", "needs_review"}

\* The next analysis version brings a rule, and looks up what came before it by
\* its identity (get_by_identity_key takes any one that has it).
Predecessors(r) ==
    {q \in DOMAIN rules : Project[q] = Project[r] /\ Version[q] = Version[r] - 1 /\ Identity[q] = Identity[r]}

Rescan(r, fingerprint) ==
    /\ Step /\ r \in RuleIds \ DOMAIN rules
    /\ \E q \in Predecessors(r) :
         LET carried == CarriesReview(rules[q], fingerprint)
         IN  /\ rules' = [p \in DOMAIN rules \cup {r} |->
                            IF p = r THEN NewRule(IF carried THEN rules[q].status ELSE "candidate", fingerprint)
                            ELSE rules[p]]
             /\ basis' = [basis EXCEPT ![r] = IF carried THEN basis[q] ELSE None]
    /\ UNCHANGED <<category, owner, lineage, audit, approvals, dropped, suggested, work, found>>

\* A reviewer's decision, of RuleDecisionType; deprecating is one.
Review(r, status) ==
    /\ Step
    /\ r \in DOMAIN rules /\ rules[r].status # "deprecated"
    /\ rules' = [rules EXCEPT ![r].status = status]
    /\ basis' = [basis EXCEPT ![r] = rules[r].fingerprint]
    /\ approvals' = IF status = "approved" THEN approvals \cup {r} ELSE approvals \ {r}
    /\ dropped' = IF status = "deprecated" THEN dropped \cup {r} ELSE dropped
    /\ UNCHANGED <<category, owner, lineage, audit, suggested, work, found>>

\* reclassify_project_rules
Reclassify ==
    /\ Step
    /\ category' = [r \in RuleIds |-> IF r \in DOMAIN rules THEN CategoryOf[r] ELSE category[r]]
    /\ UNCHANGED <<rules, owner, lineage, audit, approvals, dropped, suggested, work, found, basis>>

\* The adapter of relationship_suggester.py: accepted suggestions exist as
\* relationships, and the best candidates are stored by their unique key.
Suggest ==
    LET having(status) == {edge \in DOMAIN suggested : suggested[edge] = status}
        best == BestCandidates(Suggestions(DOMAIN rules, category, [r \in DOMAIN rules |-> RowsOf(r)]),
                               having("accepted"), having("rejected"))
        new  == {c.edge : c \in best}
    IN  /\ Step
        /\ suggested' = [edge \in DOMAIN suggested \cup new |->
                            IF edge \in new THEN "pending" ELSE suggested[edge]]
        /\ UNCHANGED <<rules, category, owner, lineage, audit, approvals, dropped, work, found, basis>>

Decide(edge, status) ==
    /\ Step
    /\ edge \in DOMAIN suggested /\ suggested[edge] = "pending"
    /\ suggested' = [suggested EXCEPT ![edge] = status]
    /\ UNCHANGED <<rules, category, owner, lineage, audit, approvals, dropped, work, found, basis>>

-----------------------------------------------------------------------------
\* list_for_dedup_candidates
Candidates(project) ==
    {r \in DOMAIN rules :
        Project[r] = project /\ rules[r].status \in {"candidate", "needs_review"} /\ ~rules[r].retired}

RulesNext ==
    \/ \E s \in Sessions :
         \/ \E request \in Requests :
               \/ BeginMerge(s, request.to, request.from)
               \/ \E r \in request.from :
                     BeginIdentityMerge(s, request.to, r) \/ BeginSupersede(s, r, request.to)
         \/ Commit(s) \/ Abort(s)
    \/ \E e \in Rows, r \in RuleIds : Attach(e, r)
    \/ \E r \in RuleIds, fp \in Fingerprints : Rescan(r, fp)
    \/ \E r \in RuleIds, status \in ReviewOutcomes : Review(r, status)
    \/ Reclassify \/ Suggest
    \/ \E edge \in DOMAIN suggested, status \in {"accepted", "rejected"} : Decide(edge, status)

RulesSpec == RulesInit /\ [][RulesNext]_ruleVars

-----------------------------------------------------------------------------
(***************************************************************************)
(* Properties                                                              *)
(***************************************************************************)

\* The tables hold what their columns may: rules of known ids with a status and
\* an existing parent, evidence of existing rules, lineage between them.
RulesTypeOK ==
    /\ DOMAIN rules \subseteq RuleIds
    /\ rules \in [DOMAIN rules -> [status : RuleStatus, retired : BOOLEAN,
                                   parent : DOMAIN rules \cup {None}, fingerprint : Fingerprints]]
    /\ {owner, found} \subseteq [Rows -> DOMAIN rules \cup {None}]
    /\ lineage \subseteq [from : DOMAIN rules, to : DOMAIN rules, relation : {"supersedes", "merged_into"}]
    /\ work \in [Sessions -> {None} \cup
                    [op : {"merge", "identity", "supersede"}, to : DOMAIN rules,
                     from : SUBSET DOMAIN rules, rows : SUBSET Rows]]

\* Some chain of merges on record leads from one rule to the other.
LeadsTo(r, q) ==
    \A S \in SUBSET RuleIds :
        r \in S /\ (\A l \in lineage : l.relation = "merged_into" /\ l.from \in S => l.to \in S) => q \in S

\* "Record structured lineage for the merge": wherever merges moved a row of
\* evidence, however they overlapped, lineage leads to it from the rule it was
\* found for; a rule is deprecated only with lineage or by a reviewer, and has a
\* parent only with a lineage event on record.
LineageIsSound ==
    /\ \A e \in Rows : owner[e] # found[e] => LeadsTo(found[e], owner[e])
    /\ \A r \in DOMAIN rules :
          /\ rules[r].status = "deprecated" => r \in dropped \/ \E l \in lineage : l.from = r
          /\ rules[r].parent # None =>
                \E l \in audit \cap lineage : {l.from, l.to} = {r, rules[r].parent}

\* Reviewers' decisions stand: a suggestion that was rejected stays rejected
\* whatever is found later; and "stale reviews must not carry when evidence
\* changed materially": through any number of versions, an approval nobody gave
\* the rule itself was given on its fingerprint, or before there were any.
DecisionsStand ==
    [][/\ \A edge \in DOMAIN suggested :
             suggested[edge] = "rejected" => suggested'[edge] = "rejected"
       /\ \A r \in DOMAIN rules' \ DOMAIN rules :
             rules'[r].status = "approved" => basis'[r] \in {rules'[r].fingerprint, None}]_ruleVars

\* The groups of duplicates are disjoint, miss no pair of similar candidates,
\* and are part of what a search from their primary finds, in whatever order
\* the database returns the candidates.
GroupsMissNothing ==
    \A project \in Range(Project) :
      LET candidates == Candidates(project)
      IN  \A order \in SetToSeqs(candidates) :
            LET groups == DuplicateGroups(order)
                seen   == UNION {g.members : g \in groups}
            IN  /\ \A g, h \in groups : g # h => g.members \cap h.members = {}
                /\ \A r, q \in candidates : r # q /\ Similar(r, q) => r \in seen \/ q \in seen
                /\ \A g \in groups : g.members \subseteq DuplicatesOf(g.primary, candidates)

\* A merge fills gaps and opens none: the primary has no gap afterwards that it
\* and the merged rules did not have -- if no evidence was attached to those, or
\* moved by another merge, while it ran.
MergingAddsNoGap ==
    [][\A s \in Sessions :
          work[s] # None /\ work'[s] = None /\ owner' # owner =>
              LET w     == work[s]
                  gaps(own, r) == GapTypes({e \in Rows : own[e] = r}, {}, FALSE, FALSE)
              IN  w.rows = {e \in Rows : owner[e] \in w.from} =>
                      gaps(owner', w.to) \subseteq UNION {gaps(owner, r) : r \in w.from \cup {w.to}}]_ruleVars

\* Observations "support, they do not confirm": what tools observe raises the
\* confidence in an implementation that has evidence of its own, never lowers
\* it; and a rule with nothing else, that no human approved, always scores below
\* the 0.6 that a human approval guarantees.
ObservationsOnlyCorroborate ==
    \A r \in DOMAIN rules :
        LET rows    == RowsOf(r)
            human   == rules[r].status = "approved" /\ r \in approvals
            score(c) == OverallConfidence(rows, rules[r].status, c, human)
            without(types) == ImplementationConfidence(rows \ OfType(rows, types))
        IN  /\ OfType(rows, Implementation) # {} =>
                  \A types \in SUBSET {"static_analysis", "ast"} :
                      without(types) <= ImplementationConfidence(rows)
            /\ OfType(rows, Observations) = rows /\ ~human => \A c \in BOOLEAN : score(c) < 6000
            /\ human => \A c \in BOOLEAN : score(c) >= 6000
=============================================================================
