--------------------------- MODULE ClaimSemantics ---------------------------
(***************************************************************************)
(* What the packages read out of the text of a claim                       *)
(* (claims/structured_semantics.py), the role this gives a cluster         *)
(* (claims/clustering/cluster_roles.py) and the conflict it gives a pair   *)
(* of claims (claims/conflicts/conflict_detection_v2.py).                  *)
(*                                                                         *)
(* A text is the set or sequence of the marker words the code looks for in *)
(* it, and a number in it has a value and a unit.  NULL texts are empty.   *)
(***************************************************************************)
EXTENDS Integers, Sequences, FiniteSets, FiniteSetsExt, Functions

CONSTANTS
    Facts,  \* claim -> [role, path, text, action, subject, actor, numbers,
            \*           exception, condition, result, confidence]
    None    \* NULL

Has(words, markers) == words \cap markers # {}

AllWords(f) == f.text \cup Range(f.action) \cup Range(f.subject)

-----------------------------------------------------------------------------
(***************************************************************************)
(* structured_semantics.py                                                 *)
(***************************************************************************)

\* The first of the rules whose words occur decides the family.
FamilyRules ==
    << <<{"delet", "remove"}, "delete">>,
       <<{"expir", "retention window"}, "expire">>,
       <<{"threshold", "require approval", "approv"}, "approve">>,
       <<{"creat", "submit"}, "create">> >>

ActionFamily(f) ==
    LET hits == {i \in DOMAIN FamilyRules : Has(AllWords(f), FamilyRules[i][1])}
    IN  IF hits # {} THEN FamilyRules[Min(hits)][2]
        ELSE IF f.action # <<>> THEN f.action[1] ELSE None

ActorClass(actor) ==
    CASE actor = "admin"                            -> "admin"
      [] actor \in {"manager", "approver"}          -> "manager"
      [] actor \in {"clerk", "user", "employee"}    -> "user"
      [] OTHER                                      -> actor

DayCounts(f) == SelectSeq(f.numbers, LAMBDA n : n.unit = "days")

Timing(f) == IF DayCounts(f) = <<>> THEN None ELSE DayCounts(f)[1].value

\* The leftmost number, unless the text only speaks of a duration or the
\* number is its day count.
Threshold(f) ==
    LET named   == "threshold" \in f.text
        dayOnly == /\ DayCounts(f) # <<>> /\ ~named
                   /\ \A i \in DOMAIN f.numbers : f.numbers[i].unit # "money"
    IN  IF \/ f.numbers = <<>>
           \/ dayOnly
           \/ Timing(f) # None /\ f.numbers[1].value = Timing(f) /\ ~named
        THEN None
        ELSE f.numbers[1].value

StateOf(f) ==
    LET hits == SelectSeq(<<"paid", "draft", "pending", "approved", "rejected">>,
                          LAMBDA token : token \in f.text)
    IN  IF hits = <<>> THEN None ELSE hits[1]

OutdatedMarkers == {"outdated", "legacy", "superseded", "deprecated"}

AuthorityStatus(f) ==
    IF Has(f.path \cup f.text, OutdatedMarkers) THEN "superseded" ELSE "current"

MentionsException(f) ==
    f.exception \/ Has(f.text, {"except", "admin", "correction workflow", "override"})

LooksImplementationDetail(f) ==
    Has(f.path \cup f.text, {"deploy", "ops/", "feature flag", "infrastructure"})

LooksException(f) == f.exception \/ Has(f.text, {"except", "correction workflow", "admin may"})

\* extract_claim_semantics
Semantics(f) ==
    [family    |-> ActionFamily(f), actor  |-> f.actor,
     threshold |-> Threshold(f),    state  |-> StateOf(f),
     timing    |-> Timing(f),       exception |-> MentionsException(f),
     authority |-> AuthorityStatus(f)]

NoSemantics ==
    [family |-> None, actor |-> None, threshold |-> None, state |-> None,
     timing |-> None, exception |-> FALSE, authority |-> None]

IdentityKey(s) == <<s.family, ActorClass(s.actor), s.threshold, s.state, s.timing>>

\* The first non-empty value, members that are not superseded first.
FirstOf(members, field) ==
    LET filled  == {i \in DOMAIN members : members[i][field] # None}
        current == {i \in filled : members[i].authority # "superseded"}
    IN  IF filled = {} THEN NoSemantics[field]
        ELSE members[Min(IF current # {} THEN current ELSE filled)][field]

\* merge_semantics
MergeSemantics(members) ==
    [field \in DOMAIN NoSemantics |->
        CASE field = "authority" ->
                IF \E i \in DOMAIN members : members[i].authority = "current"
                THEN "current" ELSE members[1].authority
          [] field = "exception" -> \E i \in DOMAIN members : members[i].exception
          [] OTHER -> FirstOf(members, field)]

FactsConflict(a, b) ==
    \/ a.timing # None /\ b.timing # None /\ a.timing # b.timing
    \/ a.threshold # None /\ b.threshold # None /\ a.threshold # b.threshold

-----------------------------------------------------------------------------
(***************************************************************************)
(* cluster_roles.py.  A cluster is the set of its claims; its semantics and *)
(* its role follow the order in which the query returned them.             *)
(***************************************************************************)

ClusterRole ==
    {"canonical_rule", "review_required", "supporting_evidence", "exception",
     "contradiction", "superseded", "implementation_detail"}

RolesOf(cs) == {Facts[c].role : c \in cs}

StrongRoles == {"implementation", "verification", "product_intent", "configuration"}

\* score_authority in sixtieths of a hundredth: exact up to five claims.
ScoreAuthority(cs, sem) ==
    LET points(p, n) == IF p THEN n ELSE 0
        total == FoldSet(LAMBDA c, sum : sum + Facts[c].confidence, 0, cs)
    IN  3000 * (  points("implementation" \in RolesOf(cs), 6)
                + points("verification" \in RolesOf(cs), 4)
                + points("product_intent" \in RolesOf(cs), 4)
                + points("configuration" \in RolesOf(cs), 3)
                + points(sem.authority = "current", 4)
                - points(sem.authority = "superseded", 10))
        + (60 * total) \div (IF cs = {} THEN 1 ELSE Cardinality(cs))

NeverOutdated(cs) == FALSE
IsOutdated(cs) ==
    LET old == {c \in cs : AuthorityStatus(Facts[c]) = "superseded"}
    IN  /\ old # {}
        /\ \A c \in cs \ old : Facts[c].role # "implementation"
        /\ Cardinality(old) >= Cardinality(cs) \div 2

IsOnlyException(cs) ==
    LET exceptional == {c \in cs : LooksException(Facts[c])}
    IN  /\ exceptional # {}
        /\ 2 * Cardinality(exceptional) >= Cardinality(cs)
        /\ \A c \in cs \ exceptional : ~Has(Facts[c].text, {"cannot", "must not"})
        /\ \E c \in exceptional :
               Facts[c].exception \/ Has(Facts[c].text, {"except", "correction workflow"})
        /\ \A c \in cs \ exceptional : "admin" \in Facts[c].text

IsCanonical(cs, sem) ==
    \/ Cardinality(RolesOf(cs) \cap StrongRoles) >= 2 /\ sem.authority # "superseded"
    \/ "implementation" \in RolesOf(cs) /\ sem.authority = "current"

ClusterSemantics(order) ==
    IF order = <<>> THEN NoSemantics
    ELSE MergeSemantics([i \in DOMAIN order |-> Semantics(Facts[order[i]])])

\* assign_role_from_claims
AssignRole(order) ==
    LET cs == Range(order)
    IN  CASE cs = {}            -> "review_required"
          [] IsOutdated(cs)     -> "superseded"
          [] ~IsOutdated(cs) /\ IsOnlyException(cs) -> "exception"
          [] OTHER ->
                IF \A c \in cs : LooksImplementationDetail(Facts[c])
                THEN "implementation_detail"
                ELSE IF IsCanonical(cs, ClusterSemantics(order))
                     THEN "canonical_rule" ELSE "review_required"

-----------------------------------------------------------------------------
(***************************************************************************)
(* conflict_detection_v2.py                                                *)
(***************************************************************************)

SameAction(a, b) ==
    \/ a.action # <<>> /\ a.action = b.action
    \/ a.subject # <<>> /\ a.subject = b.subject

Denies(f) == Has(f.text, {"deny", "forbidden"})

Allows(f) == Has(f.text, {"allow", "can"})

IsExceptionPair(a, b) ==
    /\ SameAction(a, b)
    /\ a.exception \/ b.exception
    /\ (Denies(a) # Denies(b)) \/ (Allows(a) # Allows(b))
    /\ a.actor # b.actor \/ a.condition # b.condition

Opposed(a, b) == Has(a.text, {"deny", "cannot", "must not"}) /\ Has(b.text, {"allow", "can", "may"})

IsContradiction(a, b) ==
    /\ SameAction(a, b)
    /\ ~IsExceptionPair(a, b)
    /\ a.actor # None /\ a.actor = b.actor
    /\ \/ a.result # None /\ b.result # None /\ a.result # b.result
       \/ Opposed(a, b) \/ Opposed(b, a)

IsScopeDifference(a, b) ==
    /\ SameAction(a, b)
    /\ a.condition # None /\ b.condition # None /\ a.condition # b.condition

IsSupersession(a, b) ==
    /\ SameAction(a, b) \/ (ActionFamily(a) # None /\ ActionFamily(a) = ActionFamily(b))
    /\ "superseded" \in {AuthorityStatus(a), AuthorityStatus(b)}
    /\ FactsConflict(Semantics(a), Semantics(b))

\* classify_claim_pair; None when the pair does not conflict.
ClassifyPair(x, y) ==
    LET a == Facts[x]
        b == Facts[y]
    IN  IF x = y \/ {a.role, b.role} \cap StrongRoles = {} THEN None
        ELSE IF IsSupersession(a, b) THEN "supersession"
        ELSE IF IsExceptionPair(a, b) THEN "exception"
        ELSE IF IsContradiction(a, b) THEN "contradiction"
        ELSE IF IsScopeDifference(a, b) THEN "scope_difference" ELSE None
=============================================================================
